--------------------------- MODULE CommandLineProofs ---------------------------
(***************************************************************************)
(* The command line for any table of files, any names and any buffer that  *)
(* the commands' own names fit into.                                       *)
(*                                                                         *)
(* What carries the proof is that a completed line is never shorter than   *)
(* the line it replaces: so drawing it anew from cell 1 covers every       *)
(* letter that erasing the partial word has left.                          *)
(***************************************************************************)
EXTENDS CommandLine, VFSProofs

LEMMA ScreenTyped ==
  /\ LINE_MAX \in Nat /\ LINE_MAX >= 8 /\ HEIGHT \in Nat /\ HEIGHT >= 150
  /\ COLS \in Nat /\ COLS > 0 /\ HINT \in Nat
  /\ space \in Chars /\ Names \subseteq Seq(Chars) /\ Lines \subseteq Seq(Chars)
  /\ \A c \in Contents : ContentRows[c] \in Nat
<1>1. ContentRows \in [Contents -> Nat]
  BY LineParameters
<1> QED BY <1>1, LineParameters

-----------------------------------------------------------------------------
(* Least and greatest elements.                                            *)
LEMMA LeastOf ==
  ASSUME NEW T, T \subseteq Nat, T # {}
  PROVE  Min(T) \in T /\ \A k \in T : Min(T) <= k
BY LeastNumber DEF Min

LEMMA LeastIs ==
  ASSUME NEW T, T \subseteq Nat, NEW m \in T, \A k \in T : m <= k
  PROVE  Min(T) = m
<1> DEFINE k == Min(T)
<1>1. k \in T /\ k <= m
  BY LeastOf
<1> HIDE DEF k
<1>2. k \in Nat /\ m \in Nat /\ m <= k
  BY <1>1
<1>3. k = m
  BY <1>1, <1>2
<1> QED BY <1>3 DEF k

LEMMA GreatestOf ==
  ASSUME NEW n \in Nat, NEW T, T \subseteq 1..n, T # {}
  PROVE  Max(T) \in T /\ \A k \in T : k <= Max(T)
<1> DEFINE U == {n - k : k \in T}
<1>0. \A k \in T : k \in 1..n /\ n - k \in Nat
  OBVIOUS
<1>1. U \subseteq Nat /\ U # {}
  BY <1>0
<1>2. PICK m \in U : \A k \in U : m <= k
  BY <1>1, LeastNumber
<1>3. PICK t \in T : m = n - t
  BY <1>2
<1>4. \A k \in T : t >= k
  BY <1>2, <1>3
<1> QED BY <1>3, <1>4 DEF Max

-----------------------------------------------------------------------------
(* Texts.                                                                  *)
LEMMA PrefixMeans ==
  ASSUME NEW s \in Seq(Chars), NEW t \in Seq(Chars)
  PROVE  IsPrefix(s, t) <=> Len(s) <= Len(t) /\ \A i \in 1..Len(s) : s[i] = t[i]
<1> DEFINE a == SubSeq(s, 1, Len(s))
           b == SubSeq(t, 1, Len(s))
<1>1. SUFFICES ASSUME Len(s) <= Len(t)
               PROVE  a = b <=> \A i \in 1..Len(s) : s[i] = t[i]
  BY DEF IsPrefix
<1>2. Len(s) \in Nat /\ Len(t) \in Nat
  BY LenProperties
<1>3. a = [i \in 1..Len(s) |-> s[i]] /\ b = [i \in 1..Len(s) |-> t[i]]
  BY <1>1, <1>2
<1> QED BY <1>3

(* The last space of a line.                                               *)
LEMMA SpacesTyped ==
  ASSUME NEW l \in Seq(Chars)
  PROVE  /\ Spaces(l) \subseteq 1..Len(l)
         /\ LastSpace(l) \in 0..Len(l)
         /\ Spaces(l) # {} => LastSpace(l) \in Spaces(l)
         /\ Spaces(l) = {} => LastSpace(l) = 0
         /\ \A k \in Spaces(l) : k <= LastSpace(l)
<1>1. Len(l) \in Nat /\ Spaces(l) \subseteq 1..Len(l)
  BY LenProperties DEF Spaces
<1>2. Spaces(l) # {} => Max(Spaces(l)) \in Spaces(l) /\ \A k \in Spaces(l) : k <= Max(Spaces(l))
  BY <1>1, GreatestOf
<1> QED BY <1>1, <1>2 DEF LastSpace

LEMMA PartialTyped ==
  ASSUME NEW l \in Seq(Chars)
  PROVE  /\ Partial(l) \in Seq(Chars)
         /\ Len(Partial(l)) = Len(l) - LastSpace(l)
         /\ \A i \in 1..(Len(l) - LastSpace(l)) : Partial(l)[i] = l[LastSpace(l) + i]
<1>1. Len(l) \in Nat /\ LastSpace(l) \in 0..Len(l)
  BY LenProperties, SpacesTyped
<1> DEFINE p == LastSpace(l)
<1> HIDE DEF p
<1>2. p \in 0..Len(l)
  BY <1>1 DEF p
<1>3. /\ SubSeq(l, p + 1, Len(l)) \in Seq(Chars)
      /\ Len(SubSeq(l, p + 1, Len(l))) = Len(l) - p
      /\ \A i \in 1..(Len(l) - p) : SubSeq(l, p + 1, Len(l))[i] = l[p + i]
  BY <1>1, <1>2, SubSeqProperties
<1> QED BY <1>3 DEF Partial, p

-----------------------------------------------------------------------------
(* What vfs_get_file lists: in front of each slot in use stand as many     *)
(* files as its place in the list says.                                    *)
LEMMA CountUpTo ==
  ASSUME NEW fs, NEW n \in Nat, n + 1 \in Slots
  PROVE  /\ UsedUpTo(fs, n) \in Nat
         /\ UsedUpTo(fs, n + 1) =
              IF fs[n + 1].in_use THEN UsedUpTo(fs, n) + 1 ELSE UsedUpTo(fs, n)
<1> DEFINE T(i) == {j \in UsedSlots(fs) : j <= i}
<1>1. UsedSlots(fs) \subseteq Slots /\ \A j \in Slots : j \in Nat
  BY DEF UsedSlots, Slots
<1>2. IsFiniteSet(T(n))
  <2>1. T(n) \in SUBSET Nat /\ \A j \in T(n) : j <= n
    BY <1>1
  <2> HIDE DEF T
  <2> QED BY <2>1, FS_BoundedSetOfNaturals
<1>3. n + 1 \notin T(n)
  OBVIOUS
<1>4. T(n + 1) = IF fs[n + 1].in_use THEN T(n) \cup {n + 1} ELSE T(n)
  BY <1>1 DEF UsedSlots
<1> HIDE DEF T
<1>5. Cardinality(T(n)) \in Nat
  BY <1>2, FS_CardinalityType
<1>6. Cardinality(T(n) \cup {n + 1}) = Cardinality(T(n)) + 1
  BY <1>2, <1>3, FS_AddElement
<1>7. UsedUpTo(fs, n) = Cardinality(T(n)) /\ UsedUpTo(fs, n + 1) = Cardinality(T(n + 1))
  BY DEF UsedUpTo, T
<1> QED BY <1>4, <1>5, <1>6, <1>7

LEMMA EachPlaceTaken ==
  ASSUME NEW fs
  PROVE  \A k \in 1..Cardinality(UsedSlots(fs)) :
           \E i \in UsedSlots(fs) : UsedUpTo(fs, i) = k
<1> DEFINE Reached(n) == \A k \in 1..UsedUpTo(fs, n) :
                           \E i \in UsedSlots(fs) : UsedUpTo(fs, i) = k
           S == {n \in Nat : n <= MAX_FILES => Reached(n)}
<1>1. 0 \in S
  <2>1. {j \in UsedSlots(fs) : j <= 0} = {}
    BY DEF UsedSlots, Slots
  <2>2. UsedUpTo(fs, 0) = 0
    BY <2>1, FS_EmptySet DEF UsedUpTo
  <2> QED BY <2>2
<1>2. ASSUME NEW n \in Nat, n \in S PROVE n + 1 \in S
  <2> SUFFICES ASSUME n + 1 <= MAX_FILES PROVE Reached(n + 1)
    OBVIOUS
  <2>1. n + 1 \in Slots /\ Reached(n)
    BY <1>2, SizesTyped DEF Slots
  <2>2. /\ UsedUpTo(fs, n) \in Nat
        /\ UsedUpTo(fs, n + 1) =
             IF fs[n + 1].in_use THEN UsedUpTo(fs, n) + 1 ELSE UsedUpTo(fs, n)
    BY <2>1, CountUpTo
  <2>3. CASE fs[n + 1].in_use
    <3>1. n + 1 \in UsedSlots(fs)
      BY <2>1, <2>3 DEF UsedSlots
    <3>2. ASSUME NEW k \in 1..UsedUpTo(fs, n + 1)
          PROVE  \E i \in UsedSlots(fs) : UsedUpTo(fs, i) = k
      <4>1. k \in 1..UsedUpTo(fs, n) \/ k = UsedUpTo(fs, n + 1)
        BY <2>2, <2>3
      <4> QED BY <2>1, <3>1, <4>1
    <3> QED BY <3>2
  <2>4. CASE ~fs[n + 1].in_use
    BY <2>1, <2>2, <2>4
  <2> QED BY <2>3, <2>4
<1> HIDE DEF S
<1>3. MAX_FILES \in S
  BY <1>1, <1>2, NatInductive, SizesTyped
<1>4. {j \in UsedSlots(fs) : j <= MAX_FILES} = UsedSlots(fs)
  BY SizesTyped DEF UsedSlots, Slots
<1>5. UsedUpTo(fs, MAX_FILES) = Cardinality(UsedSlots(fs))
  BY <1>4 DEF UsedUpTo
<1> QED BY <1>3, <1>5, SizesTyped DEF S

LEMMA FilesListed ==
  ASSUME NEW fs
  PROVE  /\ DOMAIN FilesInOrder(fs) = 1..Cardinality(UsedSlots(fs))
         /\ Cardinality(UsedSlots(fs)) \in Nat
         /\ Len(FilesInOrder(fs)) = Cardinality(UsedSlots(fs))
         /\ \A k \in DOMAIN FilesInOrder(fs) :
              \E i \in Slots : fs[i].in_use /\ FilesInOrder(fs)[k] = fs[i].name
<1>1. IsFiniteSet(Slots) /\ UsedSlots(fs) \subseteq Slots
  BY SizesTyped, FS_Interval DEF Slots, UsedSlots
<1>2. Cardinality(UsedSlots(fs)) \in Nat
  BY <1>1, FS_Subset, FS_CardinalityType
<1>3. DOMAIN FilesInOrder(fs) = 1..Cardinality(UsedSlots(fs))
  BY DEF FilesInOrder
<1>4. ASSUME NEW k \in DOMAIN FilesInOrder(fs)
      PROVE  \E i \in Slots : fs[i].in_use /\ FilesInOrder(fs)[k] = fs[i].name
  <2> DEFINE i == CHOOSE j \in UsedSlots(fs) : UsedUpTo(fs, j) = k
  <2>1. i \in UsedSlots(fs)
    BY <1>3, EachPlaceTaken
  <2>2. FilesInOrder(fs)[k] = fs[i].name
    BY <1>3 DEF FilesInOrder
  <2> HIDE DEF i
  <2> QED BY <2>1, <2>2 DEF UsedSlots
<1>5. Len(FilesInOrder(fs)) = Cardinality(UsedSlots(fs))
  BY <1>2 DEF FilesInOrder
<1> QED BY <1>2, <1>3, <1>4, <1>5

-----------------------------------------------------------------------------
(* What Tab may complete to.                                               *)
(* A command's name is short and has no space.                             *)
Word(w) == w \in Seq(Chars) /\ Len(w) <= 8 /\ Spaces(w) = {}

LEMMA WordIs ==
  ASSUME NEW w \in Seq(Chars), Len(w) <= 8, \A i \in 1..Len(w) : w[i] # space
  PROVE  Word(w)
<1>1. Len(w) \in Nat /\ DOMAIN w = 1..Len(w)
  BY LenProperties
<1> QED BY <1>1 DEF Word, Spaces

LEMMA CommandsListed ==
  /\ DOMAIN commands = 1..15
  /\ \A k \in DOMAIN commands : Word(commands[k])
<1>1. /\ DOMAIN commands = 1..15
      /\ commands[1] = help
      /\ commands[2] = clear
      /\ commands[3] = ls
      /\ commands[4] = cat
      /\ commands[5] = uname
      /\ commands[6] = uptime
      /\ commands[7] = echo
      /\ commands[8] = free
      /\ commands[9] = touch
      /\ commands[10] = rm
      /\ commands[11] = top
      /\ commands[12] = edit
      /\ commands[13] = ping
      /\ commands[14] = ifconfig
      /\ commands[15] = wget
  BY DEF commands
<1> HIDE DEF commands
<1>2. Word(help)
  <2>1. help \in Seq(Chars)
    BY <1>1, CommandsPrintable
  <2>2. Len(help) = 4 /\ Len(help) <= 8
    BY DEF help
  <2>3. help[1] # space /\ help[2] # space /\ help[3] # space /\ help[4] # space
    BY Zenon DEF help, space
  <2>4. \A i \in 1..4 : i = 1 \/ i = 2 \/ i = 3 \/ i = 4
    OBVIOUS
  <2>5. \A i \in 1..Len(help) : help[i] # space
    BY <2>2, <2>3, <2>4
  <2> QED BY <2>1, <2>2, <2>5, WordIs, Zenon
<1>3. Word(clear)
  <2>1. clear \in Seq(Chars)
    BY <1>1, CommandsPrintable
  <2>2. Len(clear) = 5 /\ Len(clear) <= 8
    BY DEF clear
  <2>3. clear[1] # space /\ clear[2] # space /\ clear[3] # space /\ clear[4] # space /\ clear[5] # space
    BY Zenon DEF clear, space
  <2>4. \A i \in 1..5 : i = 1 \/ i = 2 \/ i = 3 \/ i = 4 \/ i = 5
    OBVIOUS
  <2>5. \A i \in 1..Len(clear) : clear[i] # space
    BY <2>2, <2>3, <2>4
  <2> QED BY <2>1, <2>2, <2>5, WordIs, Zenon
<1>4. Word(ls)
  <2>1. ls \in Seq(Chars)
    BY <1>1, CommandsPrintable
  <2>2. Len(ls) = 2 /\ Len(ls) <= 8
    BY DEF ls
  <2>3. ls[1] # space /\ ls[2] # space
    BY Zenon DEF ls, space
  <2>4. \A i \in 1..2 : i = 1 \/ i = 2
    OBVIOUS
  <2>5. \A i \in 1..Len(ls) : ls[i] # space
    BY <2>2, <2>3, <2>4
  <2> QED BY <2>1, <2>2, <2>5, WordIs, Zenon
<1>5. Word(cat)
  <2>1. cat \in Seq(Chars)
    BY <1>1, CommandsPrintable
  <2>2. Len(cat) = 3 /\ Len(cat) <= 8
    BY DEF cat
  <2>3. cat[1] # space /\ cat[2] # space /\ cat[3] # space
    BY Zenon DEF cat, space
  <2>4. \A i \in 1..3 : i = 1 \/ i = 2 \/ i = 3
    OBVIOUS
  <2>5. \A i \in 1..Len(cat) : cat[i] # space
    BY <2>2, <2>3, <2>4
  <2> QED BY <2>1, <2>2, <2>5, WordIs, Zenon
<1>6. Word(uname)
  <2>1. uname \in Seq(Chars)
    BY <1>1, CommandsPrintable
  <2>2. Len(uname) = 5 /\ Len(uname) <= 8
    BY DEF uname
  <2>3. uname[1] # space /\ uname[2] # space /\ uname[3] # space /\ uname[4] # space /\ uname[5] # space
    BY Zenon DEF uname, space
  <2>4. \A i \in 1..5 : i = 1 \/ i = 2 \/ i = 3 \/ i = 4 \/ i = 5
    OBVIOUS
  <2>5. \A i \in 1..Len(uname) : uname[i] # space
    BY <2>2, <2>3, <2>4
  <2> QED BY <2>1, <2>2, <2>5, WordIs, Zenon
<1>7. Word(uptime)
  <2>1. uptime \in Seq(Chars)
    BY <1>1, CommandsPrintable
  <2>2. Len(uptime) = 6 /\ Len(uptime) <= 8
    BY DEF uptime
  <2>3. uptime[1] # space /\ uptime[2] # space /\ uptime[3] # space /\ uptime[4] # space /\ uptime[5] # space /\ uptime[6] # space
    BY Zenon DEF uptime, space
  <2>4. \A i \in 1..6 : i = 1 \/ i = 2 \/ i = 3 \/ i = 4 \/ i = 5 \/ i = 6
    OBVIOUS
  <2>5. \A i \in 1..Len(uptime) : uptime[i] # space
    BY <2>2, <2>3, <2>4
  <2> QED BY <2>1, <2>2, <2>5, WordIs, Zenon
<1>8. Word(echo)
  <2>1. echo \in Seq(Chars)
    BY <1>1, CommandsPrintable
  <2>2. Len(echo) = 4 /\ Len(echo) <= 8
    BY DEF echo
  <2>3. echo[1] # space /\ echo[2] # space /\ echo[3] # space /\ echo[4] # space
    BY Zenon DEF echo, space
  <2>4. \A i \in 1..4 : i = 1 \/ i = 2 \/ i = 3 \/ i = 4
    OBVIOUS
  <2>5. \A i \in 1..Len(echo) : echo[i] # space
    BY <2>2, <2>3, <2>4
  <2> QED BY <2>1, <2>2, <2>5, WordIs, Zenon
<1>9. Word(free)
  <2>1. free \in Seq(Chars)
    BY <1>1, CommandsPrintable
  <2>2. Len(free) = 4 /\ Len(free) <= 8
    BY DEF free
  <2>3. free[1] # space /\ free[2] # space /\ free[3] # space /\ free[4] # space
    BY Zenon DEF free, space
  <2>4. \A i \in 1..4 : i = 1 \/ i = 2 \/ i = 3 \/ i = 4
    OBVIOUS
  <2>5. \A i \in 1..Len(free) : free[i] # space
    BY <2>2, <2>3, <2>4
  <2> QED BY <2>1, <2>2, <2>5, WordIs, Zenon
<1>10. Word(touch)
  <2>1. touch \in Seq(Chars)
    BY <1>1, CommandsPrintable
  <2>2. Len(touch) = 5 /\ Len(touch) <= 8
    BY DEF touch
  <2>3. touch[1] # space /\ touch[2] # space /\ touch[3] # space /\ touch[4] # space /\ touch[5] # space
    BY Zenon DEF touch, space
  <2>4. \A i \in 1..5 : i = 1 \/ i = 2 \/ i = 3 \/ i = 4 \/ i = 5
    OBVIOUS
  <2>5. \A i \in 1..Len(touch) : touch[i] # space
    BY <2>2, <2>3, <2>4
  <2> QED BY <2>1, <2>2, <2>5, WordIs, Zenon
<1>11. Word(rm)
  <2>1. rm \in Seq(Chars)
    BY <1>1, CommandsPrintable
  <2>2. Len(rm) = 2 /\ Len(rm) <= 8
    BY DEF rm
  <2>3. rm[1] # space /\ rm[2] # space
    BY Zenon DEF rm, space
  <2>4. \A i \in 1..2 : i = 1 \/ i = 2
    OBVIOUS
  <2>5. \A i \in 1..Len(rm) : rm[i] # space
    BY <2>2, <2>3, <2>4
  <2> QED BY <2>1, <2>2, <2>5, WordIs, Zenon
<1>12. Word(top)
  <2>1. top \in Seq(Chars)
    BY <1>1, CommandsPrintable
  <2>2. Len(top) = 3 /\ Len(top) <= 8
    BY DEF top
  <2>3. top[1] # space /\ top[2] # space /\ top[3] # space
    BY Zenon DEF top, space
  <2>4. \A i \in 1..3 : i = 1 \/ i = 2 \/ i = 3
    OBVIOUS
  <2>5. \A i \in 1..Len(top) : top[i] # space
    BY <2>2, <2>3, <2>4
  <2> QED BY <2>1, <2>2, <2>5, WordIs, Zenon
<1>13. Word(edit)
  <2>1. edit \in Seq(Chars)
    BY <1>1, CommandsPrintable
  <2>2. Len(edit) = 4 /\ Len(edit) <= 8
    BY DEF edit
  <2>3. edit[1] # space /\ edit[2] # space /\ edit[3] # space /\ edit[4] # space
    BY Zenon DEF edit, space
  <2>4. \A i \in 1..4 : i = 1 \/ i = 2 \/ i = 3 \/ i = 4
    OBVIOUS
  <2>5. \A i \in 1..Len(edit) : edit[i] # space
    BY <2>2, <2>3, <2>4
  <2> QED BY <2>1, <2>2, <2>5, WordIs, Zenon
<1>14. Word(ping)
  <2>1. ping \in Seq(Chars)
    BY <1>1, CommandsPrintable
  <2>2. Len(ping) = 4 /\ Len(ping) <= 8
    BY DEF ping
  <2>3. ping[1] # space /\ ping[2] # space /\ ping[3] # space /\ ping[4] # space
    BY Zenon DEF ping, space
  <2>4. \A i \in 1..4 : i = 1 \/ i = 2 \/ i = 3 \/ i = 4
    OBVIOUS
  <2>5. \A i \in 1..Len(ping) : ping[i] # space
    BY <2>2, <2>3, <2>4
  <2> QED BY <2>1, <2>2, <2>5, WordIs, Zenon
<1>15. Word(ifconfig)
  <2>1. ifconfig \in Seq(Chars)
    BY <1>1, CommandsPrintable
  <2>2. Len(ifconfig) = 8 /\ Len(ifconfig) <= 8
    BY DEF ifconfig
  <2>3. ifconfig[1] # space /\ ifconfig[2] # space /\ ifconfig[3] # space /\ ifconfig[4] # space /\ ifconfig[5] # space /\ ifconfig[6] # space /\ ifconfig[7] # space /\ ifconfig[8] # space
    BY Zenon DEF ifconfig, space
  <2>4. \A i \in 1..8 : i = 1 \/ i = 2 \/ i = 3 \/ i = 4 \/ i = 5 \/ i = 6 \/ i = 7 \/ i = 8
    OBVIOUS
  <2>5. \A i \in 1..Len(ifconfig) : ifconfig[i] # space
    BY <2>2, <2>3, <2>4
  <2> QED BY <2>1, <2>2, <2>5, WordIs, Zenon
<1>16. Word(wget)
  <2>1. wget \in Seq(Chars)
    BY <1>1, CommandsPrintable
  <2>2. Len(wget) = 4 /\ Len(wget) <= 8
    BY DEF wget
  <2>3. wget[1] # space /\ wget[2] # space /\ wget[3] # space /\ wget[4] # space
    BY Zenon DEF wget, space
  <2>4. \A i \in 1..4 : i = 1 \/ i = 2 \/ i = 3 \/ i = 4
    OBVIOUS
  <2>5. \A i \in 1..Len(wget) : wget[i] # space
    BY <2>2, <2>3, <2>4
  <2> QED BY <2>1, <2>2, <2>5, WordIs, Zenon
<1> QED
  <2>1. \A k \in 1..15 : k \in {1, 2, 3, 4, 5, 6, 7, 8, 9, 10, 11, 12, 13, 14, 15}
    OBVIOUS
  <2> QED BY <1>1, <2>1, <1>2, <1>3, <1>4, <1>5, <1>6, <1>7, <1>8, <1>9, <1>10, <1>11, <1>12, <1>13, <1>14, <1>15, <1>16

LEMMA CandidatesTyped ==
  ASSUME VFSInv, NEW l \in Seq(Chars)
  PROVE  /\ DOMAIN Candidates(l) \subseteq Nat
         /\ \A k \in DOMAIN Candidates(l) :
              /\ Candidates(l)[k] \in Seq(Chars)
              /\ Spaces(l) = {} =>
                   /\ Word(Candidates(l)[k])
                   /\ Candidates(l)[k] \in {commands[j] : j \in DOMAIN commands}
              /\ Spaces(l) # {} =>
                   Candidates(l)[k] \in Names /\ OpenIn(files, Candidates(l)[k]) # 0
<1>1. CASE Spaces(l) = {}
  <2>1. Candidates(l) = commands
    BY <1>1 DEF Candidates
  <2>2. DOMAIN Candidates(l) \subseteq Nat
    BY <2>1, CommandsListed
  <2>3. ASSUME NEW k \in DOMAIN Candidates(l)
        PROVE  /\ Word(Candidates(l)[k])
               /\ Candidates(l)[k] \in {commands[j] : j \in DOMAIN commands}
    BY <2>1, CommandsListed
  <2> QED BY <1>1, <2>2, <2>3 DEF Word
<1>2. CASE Spaces(l) # {}
  <2>1. Candidates(l) = FilesInOrder(files)
    BY <1>2 DEF Candidates
  <2>2. DOMAIN Candidates(l) \subseteq Nat
    BY <2>1, FilesListed
  <2>3. ASSUME NEW k \in DOMAIN Candidates(l)
        PROVE  Candidates(l)[k] \in Names /\ OpenIn(files, Candidates(l)[k]) # 0
    <3>1. PICK i \in Slots : files[i].in_use /\ Candidates(l)[k] = files[i].name
      BY <2>1, FilesListed
    <3>2. files[i].name \in Names
      BY <3>1, StateFields DEF VFSInv, StateOK
    <3>3. i \in Matches(files, Candidates(l)[k])
      BY <3>1 DEF Matches
    <3> QED BY <3>1, <3>2, <3>3, OpenFound
  <2> QED BY <1>2, <2>2, <2>3, ScreenTyped
<1> QED BY <1>1, <1>2

(* A completed line begins with the line it came from and ends in the      *)
(* whole candidate.                                                        *)
LEMMA CompletedIs ==
  ASSUME VFSInv, NEW l \in Seq(Chars), Matching(l) # {}
  PROVE  LET m == Min(Matching(l))
             c == Candidates(l)[m]
             p == LastSpace(l)
             t == Completed(l)
         IN  /\ m \in Matching(l) /\ \A k \in Matching(l) : m <= k
             /\ m \in DOMAIN Candidates(l) /\ c \in Seq(Chars)
             /\ Len(c) >= Len(l) - p
             /\ t \in Seq(Chars) /\ Len(t) = p + Len(c)
             /\ \A i \in 1..Len(l) : t[i] = l[i]
             /\ \A i \in 1..Len(c) : t[p + i] = c[i]
<1> DEFINE m == Min(Matching(l))
           c == Candidates(l)[m]
           p == LastSpace(l)
           t == Completed(l)
<1>1. Matching(l) \subseteq DOMAIN Candidates(l) /\ DOMAIN Candidates(l) \subseteq Nat
  BY CandidatesTyped DEF Matching
<1>2. m \in Matching(l) /\ \A k \in Matching(l) : m <= k
  BY <1>1, LeastOf
<1>3. m \in DOMAIN Candidates(l) /\ c \in Seq(Chars) /\ IsPrefix(Partial(l), c)
  BY <1>1, <1>2, CandidatesTyped DEF Matching
<1>4. Len(l) \in Nat /\ p \in 0..Len(l) /\ Len(c) \in Nat
  BY <1>3, LenProperties, SpacesTyped
<1>5. t = SubSeq(l, 1, p) \o c
  BY DEF Completed
<1>6. /\ Len(Partial(l)) = Len(l) - p /\ Partial(l) \in Seq(Chars)
      /\ \A i \in 1..(Len(l) - p) : Partial(l)[i] = l[p + i]
  BY PartialTyped
<1> HIDE DEF m, c, p, t
<1>7. Len(c) >= Len(l) - p /\ \A i \in 1..(Len(l) - p) : c[i] = l[p + i]
  <2>1. Len(Partial(l)) <= Len(c) /\ \A i \in 1..Len(Partial(l)) : Partial(l)[i] = c[i]
    BY <1>3, <1>6, PrefixMeans
  <2> QED BY <1>6, <2>1
<1> DEFINE a == SubSeq(l, 1, p)
<1>8. a \in Seq(Chars) /\ Len(a) = p /\ \A i \in 1..p : a[i] = l[i]
  <2>1. \A i \in 1..p : l[i] \in Chars
    BY <1>4
  <2>2. /\ a \in Seq(Chars) /\ Len(a) = (IF 1 <= p THEN p - 1 + 1 ELSE 0)
        /\ \A i \in 1..(p - 1 + 1) : a[i] = l[1 + i - 1]
    BY <1>4, <2>1, SubSeqProperties
  <2> QED BY <1>4, <2>2
<1> HIDE DEF a
<1>9. /\ t \in Seq(Chars) /\ Len(t) = p + Len(c)
      /\ \A i \in 1..(p + Len(c)) : t[i] = IF i <= p THEN a[i] ELSE c[i - p]
  BY <1>3, <1>5, <1>8, ConcatProperties DEF a
<1>10. ASSUME NEW i \in 1..Len(l) PROVE t[i] = l[i]
  <2>1. CASE i <= p
    BY <1>4, <1>8, <1>9, <2>1
  <2>2. CASE i > p
    <3>1. /\ i - p \in 1..(Len(l) - p) /\ i \in 1..(p + Len(c)) /\ p + (i - p) = i
          /\ ~(i <= p)
      BY <1>4, <1>7, <2>2
    <3>2. t[i] = c[i - p]
      BY <1>9, <3>1
    <3>3. c[i - p] = l[p + (i - p)]
      BY <1>7, <3>1
    <3> QED BY <3>1, <3>2, <3>3
  <2> QED BY <1>4, <2>1, <2>2
<1>11. ASSUME NEW i \in 1..Len(c) PROVE t[p + i] = c[i]
  <2>1. p + i \in 1..(p + Len(c)) /\ ~(p + i <= p) /\ (p + i) - p = i
    BY <1>4
  <2> QED BY <1>9, <2>1
<1> QED BY <1>2, <1>3, <1>7, <1>9, <1>10, <1>11 DEF m, c, p, t

-----------------------------------------------------------------------------
(* Drawing and erasing.                                                    *)
Shown == Chars \cup {"hint"}

LEMMA Drawn ==
  ASSUME NEW r \in [Cells -> Shown], NEW at \in Nat, NEW text \in Seq(Chars)
  PROVE  /\ Draw(r, at, text) \in [Cells -> Shown]
         /\ \A i \in Cells :
              Draw(r, at, text)[i] =
                IF at <= i /\ i < at + Len(text) THEN text[i - at + 1] ELSE r[i]
<1>1. Len(text) \in Nat /\ DOMAIN text = 1..Len(text)
  BY LenProperties
<1>2. \A i \in Cells : i \in Int
  BY ScreenTyped DEF Cells
<1>3. ASSUME NEW i \in Cells
      PROVE  i - at + 1 \in DOMAIN text <=> at <= i /\ i < at + Len(text)
  BY <1>1, <1>2
<1>4. \A k \in DOMAIN text : text[k] \in Shown
  BY <1>1, ElementOfSeq DEF Shown
<1> QED BY <1>3, <1>4 DEF Draw

LEMMA Erased ==
  ASSUME NEW r \in [Cells -> Shown], NEW at \in Int, NEW n \in Nat
  PROVE  /\ Erase(r, at, n) \in [Cells -> Shown]
         /\ \A i \in Cells :
              Erase(r, at, n)[i] = IF at <= i /\ i < at + n THEN space ELSE r[i]
<1>1. \A i \in Cells : i \in Int
  BY ScreenTyped DEF Cells
<1>2. ASSUME NEW i \in Cells
      PROVE  i \in at..(at + n - 1) <=> at <= i /\ i < at + n
  BY <1>1
<1>3. space \in Shown
  BY ScreenTyped DEF Shown
<1> QED BY <1>2, <1>3 DEF Erase

LEMMA FreshRowTyped ==
  /\ FreshRow \in [Cells -> Shown]
  /\ \A i \in Cells : i >= HINT => FreshRow[i] = space
<1>1. \A i \in Cells : i \in Nat /\ (i - 0 + 1 \in 1..HINT <=> i < HINT)
  BY ScreenTyped DEF Cells
<1> DEFINE hint == [k \in 1..HINT |-> "hint"]
<1>2. DOMAIN hint = 1..HINT /\ \A k \in 1..HINT : hint[k] \in Shown
  BY DEF Shown
<1> HIDE DEF hint
<1>3. space \in Shown
  BY ScreenTyped DEF Shown
<1> DEFINE blank == [i \in Cells |-> space]
<1>4. FreshRow = Draw(blank, 0, hint)
  BY DEF FreshRow, hint
<1>5. Draw(blank, 0, hint) = [i \in Cells |-> IF i - 0 + 1 \in 1..HINT THEN hint[i - 0 + 1] ELSE space]
  BY <1>2 DEF Draw
<1> HIDE DEF blank
<1>6. FreshRow = [i \in Cells |-> IF i - 0 + 1 \in 1..HINT THEN hint[i - 0 + 1] ELSE space]
  BY <1>4, <1>5
<1>7. \A i \in Cells :
        (IF i - 0 + 1 \in 1..HINT THEN hint[i - 0 + 1] ELSE space) \in Shown
  BY <1>2, <1>3
<1>8. FreshRow \in [Cells -> Shown]
  BY <1>6, <1>7
<1>9. ASSUME NEW i \in Cells, i >= HINT PROVE FreshRow[i] = space
  <2>1. ~(i - 0 + 1 \in 1..HINT)
    BY <1>1, <1>9, ScreenTyped
  <2> QED BY <1>6, <2>1
<1> QED BY <1>8, <1>9

-----------------------------------------------------------------------------
(* The invariant.                                                          *)
LineTyped ==
  /\ line \in Seq(Chars) /\ cursor \in Nat /\ row \in [Cells -> Shown]
  /\ placeholder_visible \in BOOLEAN
  /\ line_y \in 20..(HEIGHT - 40) /\ ready \subseteq {ping, ifconfig, wget}

(* In row r, the text l stands from cell `first' on, with blanks behind.   *)
RowShows(r, l, first) ==
  \A i \in Cells : i >= first => r[i] = IF i < first + Len(l) THEN l[i - first + 1] ELSE space

RowInv ==
  \E first \in {0, 1} :
    /\ cursor = first + Len(line)
    /\ placeholder_visible => line = <<>> /\ row = FreshRow
    /\ ~placeholder_visible => RowShows(row, line, first)

LineInv == VFSInv /\ LineTyped /\ RowInv /\ OverrunOnlyByFileName

(* After a prompt everything but the files and the flags is as it was at   *)
(* the start.                                                              *)
LEMMA PromptPlaced ==
  ASSUME NEW y \in Int, y >= 20
  PROVE  PromptAt(y) \in 20..(HEIGHT - 40)
BY ScreenTyped DEF PromptAt

LEMMA PromptKeeps ==
  ASSUME LineInv, NEW y \in Int, y >= 0, Prompt(y), VFSInv',
         ready' \subseteq {ping, ifconfig, wget}
  PROVE  LineInv'
<1>1. /\ line' = <<>> /\ cursor' = 0 /\ row' = FreshRow /\ placeholder_visible' = TRUE
      /\ line_y' = PromptAt(y + 20)
  BY DEF Prompt, NewPrompt
<1>2. line_y' \in 20..(HEIGHT - 40)
  BY <1>1, PromptPlaced
<1>3. line' \in Seq(Chars) /\ Len(line') = 0
  BY <1>1
<1>4. LineTyped'
  BY <1>1, <1>2, <1>3, FreshRowTyped DEF LineTyped
<1>5. RowInv'
  BY <1>1, <1>3 DEF RowInv
<1>6. OverrunOnlyByFileName'
  BY <1>3, ScreenTyped DEF OverrunOnlyByFileName
<1> QED BY <1>4, <1>5, <1>6 DEF LineInv

LEMMA LineInitial == LineInit => LineInv
<1> SUFFICES ASSUME LineInit PROVE LineInv
  OBVIOUS
<1>1. VFSInv
  BY VFSInitInv DEF LineInit
<1>2. /\ line = <<>> /\ cursor = 0 /\ row = FreshRow /\ placeholder_visible = TRUE
      /\ line_y = 110 /\ ready = {}
  BY DEF LineInit
<1>3. LineTyped
  BY <1>2, ScreenTyped, FreshRowTyped DEF LineTyped
<1>4. RowInv
  BY <1>2 DEF RowInv
<1>5. OverrunOnlyByFileName
  BY <1>2, ScreenTyped DEF OverrunOnlyByFileName
<1> QED BY <1>1, <1>3, <1>4, <1>5 DEF LineInv

-----------------------------------------------------------------------------
(* Typing.                                                                 *)
LEMMA RowUnderHint ==
  ASSUME LineInv
  PROVE  LET r == IF placeholder_visible THEN Erase(row, 1, HINT) ELSE row
         IN  /\ r \in [Cells -> Shown]
             /\ \A i \in Cells : i >= cursor /\ i >= 1 => r[i] = space
             /\ ~placeholder_visible => \A first \in {0, 1} :
                  cursor = first + Len(line) /\ RowShows(row, line, first) =>
                    RowShows(r, line, first)
<1>1. row \in [Cells -> Shown] /\ line \in Seq(Chars) /\ Len(line) \in Nat
  BY LenProperties DEF LineInv, LineTyped
<1>2. \A i \in Cells : i \in Nat
  BY ScreenTyped DEF Cells
<1>3. CASE placeholder_visible
  <2>1. row = FreshRow
    BY <1>3 DEF LineInv, RowInv
  <2>2. /\ Erase(row, 1, HINT) \in [Cells -> Shown]
        /\ \A i \in Cells : Erase(row, 1, HINT)[i] = IF 1 <= i /\ i < 1 + HINT THEN space ELSE row[i]
    BY <1>1, ScreenTyped, Erased
  <2>3. \A i \in Cells : i >= 1 => Erase(row, 1, HINT)[i] = space
    BY <1>2, <2>1, <2>2, ScreenTyped, FreshRowTyped
  <2> QED BY <1>3, <2>2, <2>3
<1>4. CASE ~placeholder_visible
  <2>1. PICK first \in {0, 1} : cursor = first + Len(line) /\ RowShows(row, line, first)
    BY <1>4 DEF LineInv, RowInv
  <2>2. \A i \in Cells : i >= cursor => row[i] = space
    BY <1>1, <1>2, <2>1 DEF RowShows
  <2> QED BY <1>1, <1>4, <2>2
<1> QED BY <1>3, <1>4

LEMMA TypeKeeps ==
  ASSUME LineInv, NEW c \in Chars, Type(c), VFSInv'
  PROVE  LineInv'
<1> DEFINE r == IF placeholder_visible THEN Erase(row, 1, HINT) ELSE row
<1>1. /\ Len(line) < LINE_MAX
      /\ row' = Draw(r, cursor, <<c>>) /\ placeholder_visible' = FALSE
      /\ line' = Append(line, c) /\ cursor' = cursor + 1
      /\ line_y' = line_y /\ ready' = ready
  BY DEF Type
<1>2. /\ line \in Seq(Chars) /\ Len(line) \in Nat /\ cursor \in Nat
      /\ line_y \in 20..(HEIGHT - 40) /\ ready \subseteq {ping, ifconfig, wget}
  BY LenProperties DEF LineInv, LineTyped
<1>3. /\ r \in [Cells -> Shown]
      /\ \A i \in Cells : i >= cursor /\ i >= 1 => r[i] = space
      /\ ~placeholder_visible => \A first \in {0, 1} :
           cursor = first + Len(line) /\ RowShows(row, line, first) => RowShows(r, line, first)
  BY RowUnderHint
<1> HIDE DEF r
<1>4. <<c>> \in Seq(Chars) /\ Len(<<c>>) = 1 /\ <<c>>[1] = c
  OBVIOUS
<1>5. /\ row' \in [Cells -> Shown]
      /\ \A i \in Cells : row'[i] = IF i = cursor THEN c ELSE r[i]
  <2>1. /\ Draw(r, cursor, <<c>>) \in [Cells -> Shown]
        /\ \A i \in Cells : Draw(r, cursor, <<c>>)[i] =
             IF cursor <= i /\ i < cursor + Len(<<c>>) THEN <<c>>[i - cursor + 1] ELSE r[i]
    BY <1>2, <1>3, <1>4, Drawn
  <2>2. ASSUME NEW i \in Cells
        PROVE  row'[i] = IF i = cursor THEN c ELSE r[i]
    <3>1. i \in Nat
      BY ScreenTyped DEF Cells
    <3>2. CASE i = cursor
      <4>1. cursor <= i /\ i < cursor + Len(<<c>>) /\ i - cursor + 1 = 1
        BY <1>2, <1>4, <3>2
      <4> QED BY <1>1, <1>4, <2>1, <3>2, <4>1
    <3>3. CASE i # cursor
      <4>1. ~(cursor <= i /\ i < cursor + Len(<<c>>))
        BY <1>2, <1>4, <3>1, <3>3
      <4> QED BY <1>1, <2>1, <3>3, <4>1
    <3> QED BY <3>2, <3>3
  <2> QED BY <1>1, <2>1, <2>2
<1>6. /\ line' \in Seq(Chars) /\ Len(line') = Len(line) + 1
      /\ \A k \in 1..Len(line) : line'[k] = line[k]
      /\ line'[Len(line) + 1] = c
  BY <1>1, <1>2, AppendProperties
<1>7. LineTyped'
  <2>0. placeholder_visible' \in BOOLEAN
    BY <1>1, Zenon
  <2>1. cursor' \in Nat
    BY <1>1, <1>2
  <2>2. line_y' \in 20..(HEIGHT - 40) /\ ready' \subseteq {ping, ifconfig, wget}
    BY <1>1, <1>2
  <2> QED BY <1>5, <1>6, <2>0, <2>1, <2>2 DEF LineTyped
<1>8. RowInv'
  <2>1. PICK first \in {0, 1} :
          /\ cursor = first + Len(line)
          /\ placeholder_visible => line = <<>>
          /\ ~placeholder_visible => RowShows(row, line, first)
    BY DEF LineInv, RowInv
  <2>2. cursor' = first + Len(line')
    BY <1>1, <1>2, <1>6, <2>1
  <2>3. ASSUME NEW i \in Cells, i >= first
        PROVE  row'[i] = IF i < first + Len(line') THEN line'[i - first + 1] ELSE space
    <3>1. i \in Nat
      BY ScreenTyped DEF Cells
    <3>2. CASE i = cursor
      <4>1. i < first + Len(line') /\ i - first + 1 = Len(line) + 1
        BY <1>2, <1>6, <2>1, <3>2
      <4> QED BY <1>5, <1>6, <3>2, <4>1
    <3>3. CASE i > cursor
      <4>1. ~(i < first + Len(line')) /\ i >= 1 /\ i >= cursor /\ i # cursor
        BY <1>2, <1>6, <2>1, <3>1, <3>3
      <4> QED BY <1>3, <1>5, <4>1
    <3>4. CASE i < cursor
      <4>1. ~placeholder_visible
        <5>1. Len(<<>>) = 0
          OBVIOUS
        <5> QED BY <1>2, <2>1, <2>3, <3>1, <3>4, <5>1
      <4>2. RowShows(r, line, first)
        BY <1>3, <2>1, <4>1
      <4>3. i < first + Len(line) /\ i < first + Len(line') /\ i - first + 1 \in 1..Len(line) /\ i # cursor
        BY <1>2, <1>6, <2>1, <2>3, <3>1, <3>4
      <4>4. r[i] = line[i - first + 1]
        BY <2>3, <4>2, <4>3 DEF RowShows
      <4> QED BY <1>5, <1>6, <4>3, <4>4
    <3> QED BY <1>2, <3>1, <3>2, <3>3, <3>4
  <2>4. RowShows(row', line', first)
    BY <2>3 DEF RowShows
  <2> QED BY <1>1, <2>2, <2>4 DEF RowInv
<1>9. OverrunOnlyByFileName'
  <2>1. ~(Len(line') > LINE_MAX)
    BY <1>1, <1>2, <1>6, ScreenTyped
  <2> QED BY <2>1 DEF OverrunOnlyByFileName
<1> QED BY <1>7, <1>8, <1>9 DEF LineInv

(* A word behind another text is what is left when that text is cut off.   *)
LEMMA TailIs ==
  ASSUME NEW t \in Seq(Chars), NEW c \in Seq(Chars), NEW p \in Nat,
         Len(t) = p + Len(c), \A i \in 1..Len(c) : t[p + i] = c[i]
  PROVE  SubSeq(t, p + 1, Len(t)) = c
<1>1. Len(c) \in Nat /\ Len(t) \in Nat
  BY LenProperties
<1> DEFINE s == SubSeq(t, p + 1, Len(t))
<1>2. \A i \in (p + 1)..Len(t) : t[i] \in Chars
  BY <1>1, ElementOfSeq
<1>3. /\ s \in Seq(Chars)
      /\ Len(s) = IF p + 1 <= Len(t) THEN Len(t) - (p + 1) + 1 ELSE 0
      /\ \A i \in 1..(Len(t) - (p + 1) + 1) : s[i] = t[p + 1 + i - 1]
  BY <1>1, <1>2, SubSeqProperties
<1> HIDE DEF s
<1>4. Len(s) = Len(c)
  BY <1>1, <1>3
<1>5. ASSUME NEW i \in 1..Len(c) PROVE s[i] = c[i]
  <2>1. i \in 1..(Len(t) - (p + 1) + 1) /\ p + 1 + i - 1 = p + i
    BY <1>1
  <2> QED BY <1>3, <2>1
<1>6. s = c
  BY <1>3, <1>4, <1>5, SeqEqual
<1> QED BY <1>6 DEF s

-----------------------------------------------------------------------------
(* Deleting.                                                               *)
LEMMA BackspaceKeeps ==
  ASSUME LineInv, Backspace, VFSInv'
  PROVE  LineInv'
<1>1. /\ line # <<>> /\ InBuffer
      /\ line' = Front(line) /\ cursor' = cursor - 1
      /\ row' = Erase(row, cursor', 1)
      /\ placeholder_visible' = placeholder_visible
      /\ line_y' = line_y /\ ready' = ready
  BY DEF Backspace
<1>2. /\ line \in Seq(Chars) /\ Len(line) \in Nat /\ cursor \in Nat
      /\ row \in [Cells -> Shown] /\ placeholder_visible \in BOOLEAN
      /\ line_y \in 20..(HEIGHT - 40) /\ ready \subseteq {ping, ifconfig, wget}
  BY LenProperties DEF LineInv, LineTyped
<1>3. Len(line) >= 1
  BY <1>1, <1>2
<1>4. /\ line' \in Seq(Chars) /\ Len(line') = Len(line) - 1
      /\ \A k \in 1..(Len(line) - 1) : line'[k] = line[k]
  <2>1. line' = SubSeq(line, 1, Len(line) - 1)
    BY <1>1 DEF Front
  <2>2. \A i \in 1..(Len(line) - 1) : line[i] \in Chars
    BY <1>2, ElementOfSeq
  <2>3. /\ SubSeq(line, 1, Len(line) - 1) \in Seq(Chars)
        /\ Len(SubSeq(line, 1, Len(line) - 1)) =
             IF 1 <= Len(line) - 1 THEN (Len(line) - 1) - 1 + 1 ELSE 0
        /\ \A i \in 1..((Len(line) - 1) - 1 + 1) :
             SubSeq(line, 1, Len(line) - 1)[i] = line[1 + i - 1]
    BY <1>2, <2>2, SubSeqProperties
  <2> DEFINE s == SubSeq(line, 1, Len(line) - 1)
             n == Len(line) - 1
  <2> HIDE DEF s
  <2>4. s \in Seq(Chars) /\ Len(s) = (IF 1 <= n THEN n - 1 + 1 ELSE 0)
        /\ (\A i \in 1..(n - 1 + 1) : s[i] = line[1 + i - 1]) /\ line' = s
    BY <2>1, <2>3 DEF s
  <2>5. n \in Nat
    BY <1>2, <1>3
  <2> HIDE DEF n
  <2>6. line' \in Seq(Chars) /\ Len(line') = n /\ \A k \in 1..n : line'[k] = line[k]
    BY <2>4, <2>5
  <2> QED BY <2>6 DEF n
<1>5. PICK first \in {0, 1} : cursor = first + Len(line) /\ RowShows(row, line, first)
  <2>1. ~placeholder_visible
    BY <1>1 DEF LineInv, RowInv
  <2> QED BY <2>1 DEF LineInv, RowInv
<1>6. placeholder_visible' = FALSE
  BY <1>1, <1>2 DEF LineInv, RowInv
<1>7. cursor' = first + Len(line') /\ cursor' \in Nat
  BY <1>1, <1>2, <1>3, <1>4, <1>5
<1>8. /\ row' \in [Cells -> Shown]
      /\ \A i \in Cells : row'[i] = IF cursor' <= i /\ i < cursor' + 1 THEN space ELSE row[i]
  <2> DEFINE at == cursor - 1
  <2>1. at \in Int /\ row' = Erase(row, at, 1) /\ cursor' = at
    BY <1>1, <1>2
  <2> HIDE DEF at
  <2>2. /\ Erase(row, at, 1) \in [Cells -> Shown]
        /\ \A i \in Cells : Erase(row, at, 1)[i] = IF at <= i /\ i < at + 1 THEN space ELSE row[i]
    BY <1>2, <2>1, Erased
  <2> QED BY <2>1, <2>2
<1>9. LineTyped'
  <2>1. placeholder_visible' \in BOOLEAN
    BY <1>6
  <2>2. line_y' \in 20..(HEIGHT - 40) /\ ready' \subseteq {ping, ifconfig, wget}
    BY <1>1, <1>2
  <2> QED BY <1>4, <1>7, <1>8, <2>1, <2>2 DEF LineTyped
<1>10. RowInv'
  <2>1. ASSUME NEW i \in Cells, i >= first
        PROVE  row'[i] = IF i < first + Len(line') THEN line'[i - first + 1] ELSE space
    <3>1. i \in Nat
      BY ScreenTyped DEF Cells
    <3>2. row[i] = IF i < first + Len(line) THEN line[i - first + 1] ELSE space
      BY <1>5, <2>1 DEF RowShows
    <3>3. CASE i < cursor'
      <4>1. i < first + Len(line') /\ i < first + Len(line) /\ i - first + 1 \in 1..(Len(line) - 1)
        BY <1>2, <1>4, <1>5, <1>7, <2>1, <3>1, <3>3
      <4>2. row'[i] = row[i]
        BY <1>7, <1>8, <3>1, <3>3
      <4> QED BY <1>4, <3>2, <4>1, <4>2
    <3>4. CASE i = cursor'
      <4>1. ~(i < first + Len(line')) /\ row'[i] = space
        BY <1>2, <1>4, <1>7, <1>8, <3>1, <3>4
      <4> QED BY <4>1
    <3>5. CASE i > cursor'
      <4>1. ~(i < first + Len(line')) /\ ~(i < first + Len(line)) /\ row'[i] = row[i]
        BY <1>2, <1>4, <1>7, <1>8, <3>1, <3>5
      <4> QED BY <3>2, <4>1
    <3> QED BY <1>7, <3>1, <3>3, <3>4, <3>5
  <2>2. RowShows(row', line', first)
    BY <2>1 DEF RowShows
  <2> QED BY <1>6, <1>7, <2>2 DEF RowInv
<1>11. OverrunOnlyByFileName'
  <2>1. ~(Len(line') > LINE_MAX)
    BY <1>1, <1>2, <1>4, ScreenTyped DEF InBuffer
  <2> QED BY <2>1 DEF OverrunOnlyByFileName
<1> QED BY <1>9, <1>10, <1>11 DEF LineInv

-----------------------------------------------------------------------------
(* Completing.                                                             *)
LEMMA TabKeeps ==
  ASSUME LineInv, Tab, VFSInv'
  PROVE  LineInv'
<1>1. /\ line # <<>> /\ Len(line) <= LINE_MAX /\ line' = Completed(line)
      /\ placeholder_visible' = placeholder_visible
      /\ line_y' = line_y /\ ready' = ready
      /\ files' = files
  BY DEF Tab, vars
<1>2. /\ line \in Seq(Chars) /\ Len(line) \in Nat /\ cursor \in Nat
      /\ row \in [Cells -> Shown] /\ placeholder_visible \in BOOLEAN
      /\ line_y \in 20..(HEIGHT - 40) /\ ready \subseteq {ping, ifconfig, wget}
      /\ VFSInv
  BY LenProperties DEF LineInv, LineTyped
<1>3. PICK first \in {0, 1} : cursor = first + Len(line) /\ RowShows(row, line, first)
  <2>1. ~placeholder_visible
    BY <1>1 DEF LineInv, RowInv
  <2> QED BY <2>1 DEF LineInv, RowInv
<1>4. placeholder_visible' = FALSE
  BY <1>1, <1>2 DEF LineInv, RowInv
<1>5. CASE Matching(line) = {}
  <2>1. line' = line /\ cursor' = cursor /\ row' = row
    BY <1>1, <1>5 DEF Tab, Completed
  <2>2. LineTyped'
    <3>1. placeholder_visible' \in BOOLEAN
      BY <1>4
    <3> QED BY <1>1, <1>2, <2>1, <3>1 DEF LineTyped
  <2>3. RowInv'
    <3>1. cursor' = first + Len(line') /\ RowShows(row', line', first)
      BY <1>3, <2>1 DEF RowShows
    <3> QED BY <1>4, <3>1 DEF RowInv
  <2>4. OverrunOnlyByFileName'
    <3>1. ~(Len(line') > LINE_MAX)
      BY <1>1, <1>2, <2>1, ScreenTyped
    <3> QED BY <3>1 DEF OverrunOnlyByFileName
  <2> QED BY <2>2, <2>3, <2>4 DEF LineInv
<1>6. CASE Matching(line) # {}
  <2> DEFINE p == LastSpace(line)
             c == Candidates(line)[Min(Matching(line))]
             n == Len(Partial(line))
             erased == Erase(row, cursor - n, n)
  <2>1. /\ c \in Seq(Chars) /\ Len(c) >= Len(line) - p
        /\ line' \in Seq(Chars) /\ Len(line') = p + Len(c)
        /\ \A i \in 1..Len(c) : line'[p + i] = c[i]
        /\ Min(Matching(line)) \in DOMAIN Candidates(line)
    BY <1>1, <1>2, <1>6, CompletedIs
  <2>2. p \in 0..Len(line) /\ n = Len(line) - p /\ Len(c) \in Nat
    BY <1>2, <2>1, SpacesTyped, PartialTyped, LenProperties
  <2>3. row' = Draw(erased, 1, line') /\ cursor' = 1 + Len(line')
    BY <1>6 DEF Tab
  <2>4. /\ Spaces(line) = {} => Len(c) <= 8
        /\ Spaces(line) # {} => OpenIn(files, c) # 0
    BY <1>2, <2>1, CandidatesTyped DEF Word
  <2> HIDE DEF p, c, n
  <2>5. n \in Nat /\ cursor - n \in Int
    BY <1>2, <2>2
  <2>6. /\ erased \in [Cells -> Shown]
        /\ \A i \in Cells : erased[i] = IF cursor - n <= i /\ i < cursor - n + n THEN space ELSE row[i]
    BY <1>2, <2>5, Erased
  <2> HIDE DEF erased
  <2>7. ASSUME NEW i \in Cells, i >= cursor PROVE erased[i] = space
    <3>1. i \in Nat
      BY ScreenTyped DEF Cells
    <3>2. i >= first /\ ~(i < first + Len(line)) /\ ~(i < cursor - n + n)
      BY <1>2, <1>3, <2>5, <2>7, <3>1
    <3>3. row[i] = space
      BY <1>3, <3>2 DEF RowShows
    <3> QED BY <2>6, <3>2, <3>3
  <2>8. Len(line') \in Nat /\ Len(line') >= Len(line)
    BY <1>2, <2>1, <2>2
  <2>9. /\ row' \in [Cells -> Shown]
        /\ \A i \in Cells : row'[i] =
             IF 1 <= i /\ i < 1 + Len(line') THEN line'[i - 1 + 1] ELSE erased[i]
    BY <2>1, <2>3, <2>6, Drawn
  <2>10. LineTyped'
    <3>0. placeholder_visible' \in BOOLEAN
      BY <1>4
    <3>1. cursor' \in Nat
      BY <2>3, <2>8
    <3>2. line_y' \in 20..(HEIGHT - 40) /\ ready' \subseteq {ping, ifconfig, wget}
      BY <1>1, <1>2
    <3> QED BY <2>1, <2>9, <3>0, <3>1, <3>2 DEF LineTyped
  <2>11. RowInv'
    <3>1. ASSUME NEW i \in Cells, i >= 1
          PROVE  row'[i] = IF i < 1 + Len(line') THEN line'[i - 1 + 1] ELSE space
      <4>1. i \in Nat
        BY ScreenTyped DEF Cells
      <4>2. CASE i < 1 + Len(line')
        BY <2>9, <3>1, <4>2
      <4>3. CASE ~(i < 1 + Len(line'))
        <5>1. i >= cursor
          BY <1>2, <1>3, <2>8, <4>1, <4>3
        <5> QED BY <2>7, <2>9, <4>3, <5>1
      <4> QED BY <4>2, <4>3
    <3>2. RowShows(row', line', 1)
      BY <3>1 DEF RowShows
    <3> QED BY <1>4, <2>3, <3>2 DEF RowInv
  <2>12. OverrunOnlyByFileName'
    <3>1. SUFFICES ASSUME Len(line') > LINE_MAX
                   PROVE  \E k \in Spaces(line') :
                            OpenIn(files, SubSeq(line', k + 1, Len(line'))) # 0
      BY <1>1 DEF OverrunOnlyByFileName
    <3>2. Spaces(line) # {}
      <4> SUFFICES ASSUME Spaces(line) = {} PROVE FALSE
        OBVIOUS
      <4>1. p = 0
        BY <1>2, SpacesTyped DEF p
      <4> QED BY <2>1, <2>2, <2>4, <3>1, <4>1, ScreenTyped
    <3>3. p \in Spaces(line) /\ p \in 1..Len(line)
      BY <1>2, <3>2, SpacesTyped DEF p
    <3>4. p \in Spaces(line')
      <4>1. line'[p] = line[p]
        BY <1>1, <1>2, <1>6, <3>3, CompletedIs
      <4>2. p \in DOMAIN line'
        BY <2>1, <2>2, <2>8, <3>3, LenProperties
      <4> QED BY <3>3, <4>1, <4>2 DEF Spaces
    <3>5. SubSeq(line', p + 1, Len(line')) = c
      BY <2>1, <2>2, TailIs
    <3> QED BY <2>4, <3>2, <3>4, <3>5
  <2> QED BY <2>10, <2>11, <2>12 DEF LineInv
<1> QED BY <1>5, <1>6

-----------------------------------------------------------------------------
(* Enter.  The commands leave the files in order.                          *)
LEMMA CreatedAlwaysOK ==
  ASSUME NEW s, StateOK(s), NEW n \in Names
  PROVE  StateOK(Created(s, n))
<1>1. CASE CanCreate(s.files, n)
  BY <1>1, CreatedOK
<1>2. CASE ~CanCreate(s.files, n)
  BY <1>2 DEF Created
<1> QED BY <1>1, <1>2

LEMMA DownloadedAlwaysOK ==
  ASSUME NEW s, StateOK(s), NEW n \in Names, NEW c \in Contents
  PROVE  StateOK(Downloaded(s, n, c))
<1>1. CASE CanCreate(s.files, n)
  <2> DEFINE t == Created(s, n)
             i == Min(FreeSlots(s.files))
  <2>1. StateOK(t) /\ i \in Slots /\ t.files[i].in_use
    BY <1>1, CreatedOK
  <2>2. Downloaded(s, n, c) = Written(t, i, c)
    BY <1>1 DEF Downloaded
  <2> HIDE DEF t, i
  <2> QED BY <2>1, <2>2, WrittenOK
<1>2. CASE ~CanCreate(s.files, n)
  BY <1>2 DEF Downloaded
<1> QED BY <1>1, <1>2

LEMMA SavedAlwaysOK ==
  ASSUME NEW s, StateOK(s), NEW n \in Names, NEW c \in Contents
  PROVE  StateOK(Saved(s, n, c))
<1>1. CASE OpenIn(s.files, n) # 0
  <2> DEFINE i == OpenIn(s.files, n)
  <2>1. i \in Slots /\ s.files[i].in_use /\ Matches(s.files, n) # {}
    BY <1>1, OpenFound DEF Matches
  <2>2. Created(s, n) = s
    BY <2>1 DEF Created, CanCreate
  <2>3. SlotFor(s.files, n) = i
    BY <1>1 DEF SlotFor
  <2>4. Saved(s, n, c) = Written(s, i, c)
    BY <1>1, <2>2, <2>3 DEF Saved
  <2> HIDE DEF i
  <2> QED BY <2>1, <2>4, WrittenOK
<1>2. CASE OpenIn(s.files, n) = 0 /\ FreeSlots(s.files) # {}
  <2>1. CanCreate(s.files, n)
    BY <1>2, OpenFound DEF CanCreate
  <2> DEFINE t == Created(s, n)
             i == Min(FreeSlots(s.files))
  <2>2. StateOK(t) /\ i \in Slots /\ t.files[i].in_use
    BY <2>1, CreatedOK
  <2>3. i # 0
    BY <2>2 DEF Slots
  <2>4. SlotFor(s.files, n) = i
    BY <1>2 DEF SlotFor
  <2>5. Saved(s, n, c) = Written(t, i, c)
    BY <2>3, <2>4 DEF Saved
  <2> HIDE DEF t, i
  <2> QED BY <2>2, <2>5, WrittenOK
<1>3. CASE OpenIn(s.files, n) = 0 /\ FreeSlots(s.files) = {}
  <2>1. SlotFor(s.files, n) = 0
    BY <1>3 DEF SlotFor
  <2> QED BY <2>1 DEF Saved
<1> QED BY <1>1, <1>2, <1>3

LEMMA RemovedAlwaysOK ==
  ASSUME NEW s, StateOK(s), NEW n \in Names
  PROVE  StateOK(Removed(s, n))
<1>1. CASE OpenIn(s.files, n) = 0
  BY <1>1 DEF Removed
<1>2. CASE OpenIn(s.files, n) # 0
  <2> DEFINE i == OpenIn(s.files, n)
  <2>1. i \in Slots
    BY <1>2, OpenFound DEF Matches
  <2>2. Removed(s, n) = Deleted(s, i)
    BY <1>2 DEF Removed
  <2> HIDE DEF i
  <2> QED BY <2>1, <2>2, DeletedOK
<1> QED BY <1>1, <1>2

LEMMA FilesBecome ==
  ASSUME NEW t, StateOK(t), Become(t)
  PROVE  VFSInv'
<1>1. State' = t
  BY DEF Become, State, StateOK
<1> QED BY <1>1 DEF VFSInv

LEMMA FilesStay ==
  ASSUME VFSInv, UNCHANGED vars
  PROVE  VFSInv'
BY VFSNextInv

LEMMA ShowsKeeps ==
  ASSUME LineInv, NEW rows \in Nat, Shows(rows)
  PROVE  LineInv'
<1>1. /\ Prompt(line_y + 20 + 20 * rows) /\ UNCHANGED vars /\ ready' = ready
      /\ line_y \in Nat /\ VFSInv /\ ready \subseteq {ping, ifconfig, wget} /\ line_y >= 20
  BY ScreenTyped DEF Shows, LineInv, LineTyped
<1>2. VFSInv'
  BY <1>1, FilesStay
<1> DEFINE y == line_y + 20 + 20 * rows
<1>3. y \in Int /\ y >= 0
  BY <1>1
<1> HIDE DEF y
<1>4. Prompt(y)
  BY <1>1 DEF y
<1> QED BY <1>1, <1>2, <1>3, <1>4, PromptKeeps

LEMMA CatRowsTyped ==
  ASSUME LineInv, NEW c \in Contents
  PROVE  CatRows(c) \in Nat
<1> DEFINE room == (HEIGHT - 60 - line_y - 20) \div 20
           fit == Max({0, room})
<1>1. room \in Int
  BY ScreenTyped DEF LineInv, LineTyped
<1>2. CatRows(c) = IF ContentRows[c] > fit THEN fit + 1 ELSE ContentRows[c]
  BY DEF CatRows
<1> HIDE DEF room
<1>3. fit \in Nat
  <2>1. PICK m \in {0, room} : \A y \in {0, room} : m >= y
    BY <1>1
  <2>2. fit \in {0, room} /\ fit >= 0
    BY <2>1 DEF Max
  <2> QED BY <1>1, <2>2
<1> HIDE DEF fit
<1>4. ContentRows[c] \in Nat
  BY ScreenTyped
<1> QED BY <1>2, <1>3, <1>4

LEMMA ShowsWithNetKeeps ==
  ASSUME LineInv, NEW word \in {ping, ifconfig, wget}, NEW rows \in Nat,
         ShowsWithNet(word, rows), VFSInv'
  PROVE  LineInv'
<1>1. /\ line_y \in Nat /\ ready \subseteq {ping, ifconfig, wget}
  BY ScreenTyped DEF LineInv, LineTyped
<1>2. CASE word \in ready
  <2> DEFINE y == line_y + 20 + 20 * rows
  <2>1. y \in Int /\ y >= 0 /\ Prompt(y) /\ ready' = ready
    BY <1>1, <1>2 DEF ShowsWithNet
  <2> HIDE DEF y
  <2> QED BY <1>1, <2>1, PromptKeeps
<1>3. CASE word \notin ready
  <2> DEFINE y == line_y + 60 + 20 * rows
  <2>1. y \in Int /\ y >= 0 /\ Prompt(y) /\ ready' \in {ready, ready \cup {word}}
    BY <1>1, <1>3 DEF ShowsWithNet
  <2> HIDE DEF y
  <2>2. ready' \subseteq {ping, ifconfig, wget}
    BY <1>1, <2>1
  <2> QED BY <2>1, <2>2, PromptKeeps
<1> QED BY <1>2, <1>3

LEMMA CatKeeps ==
  ASSUME LineInv, NEW n \in Names, Cat(n)
  PROVE  LineInv'
<1> DEFINE i == OpenIn(files, n)
           f == files[i]
<1>1. Shows(IF i = 0 THEN 1
            ELSE IF f.data = NULL \/ f.size = 0 THEN 0 ELSE CatRows(mem[f.data]))
  BY DEF Cat
<1>2. CASE i = 0
  <2>1. Shows(1)
    BY <1>1, <1>2
  <2> QED BY <2>1, ShowsKeeps
<1>3. CASE i # 0 /\ (f.data = NULL \/ f.size = 0)
  <2>1. Shows(0)
    BY <1>1, <1>3
  <2> QED BY <2>1, ShowsKeeps
<1>4. CASE i # 0 /\ ~(f.data = NULL \/ f.size = 0)
  <2>1. Shows(CatRows(mem[f.data]))
    BY <1>1, <1>4
  <2>2. i \in Slots
    BY <1>4, OpenFound DEF Matches
  <2> HIDE DEF i
  <2>3. i \in Owners(files)
    BY <1>4, <2>2 DEF Owners
  <2>4. mem[f.data] \in Contents
    BY <2>3, StateFields DEF LineInv, VFSInv, StateOK
  <2> HIDE DEF f
  <2>5. CatRows(mem[f.data]) \in Nat
    BY <2>4, CatRowsTyped
  <2> QED BY <2>1, <2>5, ShowsKeeps
<1> QED BY <1>2, <1>3, <1>4

LEMMA FileCommandKeeps ==
  ASSUME LineInv, NEW n \in Names, Touch(n) \/ Rm(n) \/ Edit(n)
  PROVE  LineInv'
<1>1. /\ StateOK(State) /\ line_y + 40 \in Int /\ line_y + 40 >= 0
      /\ ready \subseteq {ping, ifconfig, wget}
  BY ScreenTyped DEF LineInv, VFSInv, LineTyped
<1>2. CASE Touch(n)
  <2>1. Become(Created(State, n)) /\ Prompt(line_y + 40) /\ ready' = ready
    BY <1>2 DEF Touch
  <2>2. VFSInv'
    BY <1>1, <2>1, CreatedAlwaysOK, FilesBecome
  <2> QED BY <1>1, <2>1, <2>2, PromptKeeps
<1>3. CASE Rm(n)
  <2>1. Become(Removed(State, n)) /\ Prompt(line_y + 40) /\ ready' = ready
    BY <1>3 DEF Rm
  <2>2. VFSInv'
    BY <1>1, <2>1, RemovedAlwaysOK, FilesBecome
  <2> QED BY <1>1, <2>1, <2>2, PromptKeeps
<1>4. CASE Edit(n)
  <2>1. /\ UNCHANGED vars \/ \E c \in Contents : Become(Saved(State, n, c))
        /\ Prompt(20) /\ ready' = ready
    BY <1>4 DEF Edit
  <2>2. VFSInv'
    <3>1. CASE UNCHANGED vars
      BY <3>1, FilesStay DEF LineInv
    <3>2. ASSUME NEW c \in Contents, Become(Saved(State, n, c)) PROVE VFSInv'
      BY <1>1, <3>2, SavedAlwaysOK, FilesBecome
    <3> QED BY <2>1, <3>1, <3>2
  <2> QED BY <1>1, <2>1, <2>2, PromptKeeps
<1> QED BY <1>2, <1>3, <1>4

LEMMA WgetKeeps ==
  ASSUME LineInv, NEW url \in Names, Wget(url)
  PROVE  LineInv'
<1> DEFINE n == FileOf(url)
<1>1. /\ n \in Names
      /\ \E c \in Contents : Become(Downloaded(State, n, c))
      /\ ShowsWithNet(wget, 4)
  BY DEF Wget
<1> HIDE DEF n
<1>2. VFSInv'
  <2>1. StateOK(State)
    BY DEF LineInv, VFSInv
  <2>2. ASSUME NEW c \in Contents, Become(Downloaded(State, n, c)) PROVE VFSInv'
    BY <1>1, <2>1, <2>2, DownloadedAlwaysOK, FilesBecome
  <2> QED BY <1>1, <2>2
<1> QED BY <1>1, <1>2, ShowsWithNetKeeps

LEMMA EnterKeeps ==
  ASSUME LineInv, Enter
  PROVE  LineInv'
<1>1. ASSUME EmptyLine PROVE LineInv'
  BY <1>1, ShowsKeeps DEF EmptyLine
<1>2. ASSUME Help PROVE LineInv'
  BY <1>2, ShowsKeeps DEF Help
<1>3. ASSUME Clear PROVE LineInv'
  <2>1. Prompt(20) /\ UNCHANGED vars /\ ready' = ready
    BY <1>3 DEF Clear
  <2>2. VFSInv'
    BY <2>1, FilesStay DEF LineInv
  <2>3. ready' \subseteq {ping, ifconfig, wget}
    BY <2>1 DEF LineInv, LineTyped
  <2> QED BY <2>1, <2>2, <2>3, PromptKeeps
<1>4. ASSUME Ls PROVE LineInv'
  <2> DEFINE rows == IF FilesInOrder(files) = <<>> THEN 1 ELSE Len(FilesInOrder(files))
  <2>1. rows \in Nat
    BY FilesListed
  <2>2. Shows(rows)
    BY <1>4 DEF Ls
  <2> HIDE DEF rows
  <2> QED BY <2>1, <2>2, ShowsKeeps
<1>5. ASSUME Inform PROVE LineInv'
  BY <1>5, ShowsKeeps DEF Inform
<1>6. ASSUME Free PROVE LineInv'
  BY <1>6, ShowsKeeps DEF Free
<1>7. ASSUME Ping PROVE LineInv'
  <2>1. ShowsWithNet(ping, 3) /\ VFSInv'
    BY <1>7, FilesStay DEF Ping, LineInv
  <2> QED BY <2>1, ShowsWithNetKeeps
<1>8. ASSUME Ifconfig PROVE LineInv'
  <2>1. ShowsWithNet(ifconfig, 4) /\ VFSInv'
    BY <1>8, FilesStay DEF Ifconfig, LineInv
  <2> QED BY <2>1, ShowsWithNetKeeps
<1>9. ASSUME Unknown PROVE LineInv'
  BY <1>9, ShowsKeeps DEF Unknown
<1>10. ASSUME NEW n \in Names, Cat(n) \/ Touch(n) \/ Rm(n) \/ Edit(n) \/ Wget(n) PROVE LineInv'
  BY <1>10, CatKeeps, FileCommandKeeps, WgetKeeps
<1> QED BY <1>1, <1>2, <1>3, <1>4, <1>5, <1>6, <1>7, <1>8, <1>9, <1>10 DEF Enter

LEMMA LineStep == LineInv /\ [LineNext]_commandVars => LineInv'
<1> SUFFICES ASSUME LineInv, [LineNext]_commandVars PROVE LineInv'
  OBVIOUS
<1>1. ASSUME NEW l \in Lines \ {<<>>}, Front(l) = line, Type(Last(l)) PROVE LineInv'
  <2>1. l \in Seq(Chars) /\ l # <<>>
    BY ScreenTyped
  <2>2. Len(l) \in Nat /\ Len(l) >= 1
    BY <2>1, LenProperties
  <2>3. Last(l) \in Chars
    BY <2>1, <2>2, ElementOfSeq DEF Last
  <2>4. VFSInv'
    BY <1>1, FilesStay DEF Type, LineInv
  <2> QED BY <1>1, <2>3, <2>4, TypeKeeps
<1>2. ASSUME Backspace PROVE LineInv'
  <2>1. VFSInv'
    BY <1>2, FilesStay DEF Backspace, LineInv
  <2> QED BY <1>2, <2>1, BackspaceKeeps
<1>3. ASSUME Tab PROVE LineInv'
  <2>1. VFSInv'
    BY <1>3, FilesStay DEF Tab, LineInv
  <2> QED BY <1>3, <2>1, TabKeeps
<1>4. ASSUME Enter PROVE LineInv'
  BY <1>4, EnterKeeps
<1>5. ASSUME UNCHANGED commandVars PROVE LineInv'
  <2>1. /\ UNCHANGED vars /\ line' = line /\ cursor' = cursor /\ row' = row
        /\ placeholder_visible' = placeholder_visible /\ line_y' = line_y /\ ready' = ready
        /\ files' = files
    BY <1>5 DEF commandVars, lineVars, vars
  <2>2. VFSInv'
    BY <2>1, FilesStay DEF LineInv
  <2>3. LineTyped'
    BY <2>1 DEF LineInv, LineTyped
  <2>4. RowInv'
    BY <2>1 DEF LineInv, RowInv, RowShows
  <2>5. OverrunOnlyByFileName'
    BY <2>1 DEF LineInv, OverrunOnlyByFileName
  <2> QED BY <2>2, <2>3, <2>4, <2>5 DEF LineInv
<1> QED BY <1>1, <1>2, <1>3, <1>4, <1>5 DEF LineNext

-----------------------------------------------------------------------------
(* The inductive invariant: whatever is typed, deleted, completed and      *)
(* entered (kernel.c:880-1045), the row of the prompt shows the line from  *)
(* one of its first two cells on, and the files and the heap agree.        *)
THEOREM LineInvariant == LineSpec => []LineInv
<1> QED BY LineInitial, LineStep, PTL DEF LineSpec

(* The line, its row and the prompt's place on the screen have their       *)
(* types, for every screen at least 150 pixels high (kernel.c:86-130).     *)
THEOREM LineTypes == LineSpec => []LineTypeOK
<1>1. LineInv => LineTypeOK
  <2> SUFFICES ASSUME LineInv PROVE LineTypeOK
    OBVIOUS
  <2>1. TypeOK
    BY VFSInvTyped DEF LineInv
  <2> QED BY <2>1 DEF LineInv, LineTyped, LineTypeOK, Shown
<1> QED BY <1>1, LineInvariant, PTL

(* The user sees what Enter will run: the whole line stands before the     *)
(* cursor, with blanks behind it, although completion erases at one column *)
(* and draws at another (kernel.c:973, 982, 1038).                         *)
THEOREM LineTextAtCursor == LineSpec => []TextAtCursor
<1>1. LineInv => TextAtCursor
  <2> SUFFICES ASSUME LineInv PROVE TextAtCursor
    OBVIOUS
  <2>1. /\ line_y + 16 <= HEIGHT /\ line \in Seq(Chars) /\ Len(line) \in Nat /\ cursor \in Nat
    BY ScreenTyped, LenProperties DEF LineInv, LineTyped
  <2>2. PICK first \in {0, 1} :
          /\ cursor = first + Len(line)
          /\ placeholder_visible => line = <<>> /\ row = FreshRow
          /\ ~placeholder_visible => RowShows(row, line, first)
    BY DEF LineInv, RowInv
  <2>3. cursor - Len(line) = first
    BY <2>1, <2>2
  <2>4. ~placeholder_visible =>
          \A i \in Cells : i >= first =>
            row[i] = IF i < cursor THEN line[i - first + 1] ELSE space
    BY <2>2 DEF RowShows
  <2> QED BY <2>1, <2>2, <2>3, <2>4 DEF TextAtCursor
<1> QED BY <1>1, LineInvariant, PTL

(* A line longer than command_buffer (kernel.c:94) ends in a file's name   *)
(* behind a space: typing is bounded (kernel.c:1033) and so are the names  *)
(* of the commands; only the copy of a file's name is not (kernel.c:978).  *)
THEOREM LineOverrun == LineSpec => []OverrunOnlyByFileName
<1>1. LineInv => OverrunOnlyByFileName
  BY DEF LineInv
<1> QED BY <1>1, LineInvariant, PTL
-----------------------------------------------------------------------------
(* Tab twice.                                                              *)
LEMMA PrefixOfPrefix ==
  ASSUME NEW s \in Seq(Chars), NEW t \in Seq(Chars), NEW u \in Seq(Chars),
         IsPrefix(s, t), IsPrefix(t, u)
  PROVE  IsPrefix(s, u)
<1>1. Len(s) \in Nat /\ Len(t) \in Nat /\ Len(u) \in Nat
  BY LenProperties
<1>2. Len(s) <= Len(t) /\ \A i \in 1..Len(s) : s[i] = t[i]
  BY PrefixMeans
<1>3. Len(t) <= Len(u) /\ \A i \in 1..Len(t) : t[i] = u[i]
  BY PrefixMeans
<1>4. Len(s) <= Len(u) /\ \A i \in 1..Len(s) : s[i] = u[i]
  BY <1>1, <1>2, <1>3
<1> QED BY <1>4, PrefixMeans

LEMMA PrefixOfItself ==
  ASSUME NEW s \in Seq(Chars)
  PROVE  IsPrefix(s, s)
<1>1. Len(s) \in Nat
  BY LenProperties
<1> QED BY <1>1, PrefixMeans

(* The completed line has the spaces of the line, so the same candidates,  *)
(* and its last word is the candidate that was chosen.                     *)
LEMMA SameWords ==
  ASSUME NoSpaces, VFSInv, NEW l \in Seq(Chars), Matching(l) # {}
  PROVE  LET t == Completed(l)
         IN  /\ Spaces(t) = Spaces(l) /\ Candidates(t) = Candidates(l)
             /\ LastSpace(t) = LastSpace(l)
             /\ Partial(t) = Candidates(l)[Min(Matching(l))]
<1> DEFINE m == Min(Matching(l))
           c == Candidates(l)[m]
           p == LastSpace(l)
           t == Completed(l)
<1>1. /\ m \in DOMAIN Candidates(l) /\ c \in Seq(Chars) /\ Len(c) >= Len(l) - p
      /\ t \in Seq(Chars) /\ Len(t) = p + Len(c)
      /\ \A i \in 1..Len(l) : t[i] = l[i]
      /\ \A i \in 1..Len(c) : t[p + i] = c[i]
  BY CompletedIs
<1>2. Spaces(c) = {}
  <2>1. CASE Spaces(l) = {}
    BY <1>1, <2>1, CandidatesTyped DEF Word
  <2>2. CASE Spaces(l) # {}
    BY <1>1, <2>2, CandidatesTyped DEF NoSpaces
  <2> QED BY <2>1, <2>2
<1>3. /\ Len(l) \in Nat /\ Len(c) \in Nat /\ p \in 0..Len(l)
      /\ Spaces(l) \subseteq 1..Len(l) /\ \A k \in Spaces(l) : k <= p
  BY <1>1, LenProperties, SpacesTyped
<1> HIDE DEF m, c, p, t
<1>4. /\ DOMAIN l = 1..Len(l) /\ DOMAIN c = 1..Len(c) /\ DOMAIN t = 1..(p + Len(c))
  BY <1>1, LenProperties
<1>5. Spaces(t) = Spaces(l)
  <2>1. ASSUME NEW i \in Spaces(l) PROVE i \in Spaces(t)
    <3>1. i \in 1..Len(l) /\ l[i] = space /\ i \in 1..(p + Len(c))
      BY <1>1, <1>3 DEF Spaces
    <3> QED BY <1>1, <1>4, <3>1 DEF Spaces
  <2>2. ASSUME NEW i \in Spaces(t) PROVE i \in Spaces(l)
    <3>1. i \in 1..(p + Len(c)) /\ t[i] = space
      BY <1>4 DEF Spaces
    <3>2. CASE i <= p
      <4>1. i \in 1..Len(l)
        BY <1>3, <3>1, <3>2
      <4> QED BY <1>1, <1>4, <3>1, <4>1 DEF Spaces
    <3>3. CASE i > p
      <4>1. i - p \in 1..Len(c) /\ p + (i - p) = i
        BY <1>3, <3>1, <3>3
      <4>2. c[i - p] = space
        BY <1>1, <3>1, <4>1
      <4> QED BY <1>2, <1>4, <4>1, <4>2 DEF Spaces
    <3> QED BY <1>3, <3>1, <3>2, <3>3
  <2> QED BY <2>1, <2>2
<1>6. LastSpace(t) = p /\ Candidates(t) = Candidates(l)
  BY <1>5 DEF LastSpace, Candidates, p
<1>7. SubSeq(t, p + 1, Len(t)) = c
  BY <1>1, <1>3, TailIs
<1> QED BY <1>5, <1>6, <1>7 DEF Partial, m, c, p, t

LEMMA CompletedTwice ==
  ASSUME NoSpaces, VFSInv, NEW l \in Seq(Chars), Matching(l) # {}
  PROVE  Completed(Completed(l)) = Completed(l)
<1> DEFINE m == Min(Matching(l))
           c == Candidates(l)[m]
           p == LastSpace(l)
           t == Completed(l)
<1>1. /\ m \in Matching(l) /\ \A k \in Matching(l) : m <= k
      /\ m \in DOMAIN Candidates(l) /\ c \in Seq(Chars)
      /\ t \in Seq(Chars) /\ \A i \in 1..Len(l) : t[i] = l[i]
      /\ Len(c) >= Len(l) - p /\ Len(t) = p + Len(c)
  BY CompletedIs
<1>2. Candidates(t) = Candidates(l) /\ LastSpace(t) = p /\ Partial(t) = c
  BY SameWords
<1>3. Partial(l) \in Seq(Chars) /\ IsPrefix(Partial(l), c)
  BY <1>1, PartialTyped DEF Matching
<1>4. /\ DOMAIN Candidates(l) \subseteq Nat
      /\ \A k \in DOMAIN Candidates(l) : Candidates(l)[k] \in Seq(Chars)
  BY CandidatesTyped
<1>5. Len(l) \in Nat /\ p \in 0..Len(l) /\ Len(c) \in Nat
  BY <1>1, LenProperties, SpacesTyped
<1>6. t = SubSeq(l, 1, p) \o c
  BY DEF Completed
<1>7. Matching(t) = {k \in DOMAIN Candidates(l) : IsPrefix(c, Candidates(l)[k])}
  BY <1>2 DEF Matching
<1>8. m \in Matching(t)
  BY <1>1, <1>7, PrefixOfItself
<1>9. ASSUME NEW k \in Matching(t) PROVE m <= k
  <2>1. k \in DOMAIN Candidates(l) /\ IsPrefix(c, Candidates(l)[k])
    BY <1>7
  <2>2. IsPrefix(Partial(l), Candidates(l)[k])
    BY <1>1, <1>3, <1>4, <2>1, PrefixOfPrefix
  <2>3. k \in Matching(l)
    BY <2>1, <2>2 DEF Matching
  <2> QED BY <1>1, <2>3
<1>10. Min(Matching(t)) = m
  <2>1. Matching(t) \subseteq Nat
    BY <1>4, <1>7
  <2> HIDE DEF m, t
  <2> QED BY <1>8, <1>9, <2>1, LeastIs
<1>11. SubSeq(t, 1, p) = SubSeq(l, 1, p)
  <2> HIDE DEF t, p, c, m
  <2>1. /\ SubSeq(t, 1, p) = [i \in 1..p |-> t[i]]
        /\ SubSeq(l, 1, p) = [i \in 1..p |-> l[i]]
    BY <1>1, <1>5
  <2>2. \A i \in 1..p : t[i] = l[i]
    BY <1>1, <1>5
  <2> QED BY <2>1, <2>2
<1>12. Completed(t) = SubSeq(t, 1, LastSpace(t)) \o Candidates(t)[Min(Matching(t))]
  BY <1>8 DEF Completed
<1> QED BY <1>2, <1>6, <1>10, <1>11, <1>12

LEMMA TabSound ==
  ASSUME NoSpaces, LineInv, Tab
  PROVE  /\ IsPrefix(line, line') /\ Completed(line') = line'
         /\ line' # line => \/ OpenIn(files, Partial(line')) # 0
                            \/ line' \in {commands[k] : k \in DOMAIN commands}
<1>1. line' = Completed(line) /\ line \in Seq(Chars) /\ VFSInv
  BY DEF Tab, LineInv, LineTyped
<1>2. CASE Matching(line) = {}
  <2>1. line' = line
    BY <1>1, <1>2 DEF Completed
  <2> QED BY <1>1, <2>1, PrefixOfItself
<1>3. CASE Matching(line) # {}
  <2> DEFINE t == Completed(line)
             m == Min(Matching(line))
             c == Candidates(line)[m]
             p == LastSpace(line)
  <2>1. /\ m \in DOMAIN Candidates(line) /\ c \in Seq(Chars) /\ Len(c) >= Len(line) - p
        /\ t \in Seq(Chars) /\ Len(t) = p + Len(c)
        /\ \A i \in 1..Len(line) : t[i] = line[i]
        /\ \A i \in 1..Len(c) : t[p + i] = c[i]
    BY <1>1, <1>3, CompletedIs
  <2>2. Completed(t) = t /\ Partial(t) = c
    BY <1>1, <1>3, SameWords, CompletedTwice
  <2>3. /\ Spaces(line) = {} => p = 0 /\ c \in {commands[k] : k \in DOMAIN commands}
        /\ Spaces(line) # {} => OpenIn(files, c) # 0
    BY <1>1, <2>1, CandidatesTyped, SpacesTyped
  <2>4. Len(line) \in Nat /\ Len(c) \in Nat /\ p \in 0..Len(line)
    BY <1>1, <2>1, LenProperties, SpacesTyped
  <2> HIDE DEF t, m, c, p
  <2>5. IsPrefix(line, t)
    BY <1>1, <2>1, <2>4, PrefixMeans
  <2>6. p = 0 => t = c
    <3> SUFFICES ASSUME p = 0 PROVE t = c
      OBVIOUS
    <3>1. Len(t) = Len(c) /\ \A i \in 1..Len(c) : t[i] = c[i]
      BY <2>1, <2>4
    <3> QED BY <2>1, <3>1, SeqEqual
  <2>7. line' = t
    BY <1>1 DEF t
  <2>8. \/ OpenIn(files, Partial(t)) # 0
        \/ t \in {commands[k] : k \in DOMAIN commands}
    BY <2>2, <2>3, <2>6
  <2> QED BY <2>2, <2>5, <2>7, <2>8
<1> QED BY <1>2, <1>3

(* Tab completes to a command or a file that exists, keeps what was typed, *)
(* and a second Tab changes nothing (kernel.c:954-990, 997-1029): of the   *)
(* candidates that fit, the first is still the first that fits itself.     *)
(* A name with a space would be cut at it, so there must be none.          *)
THEOREM LineCompletion ==
  ASSUME NoSpaces
  PROVE  LineSpec => CompletionSound
<1>1. LineInv /\ [LineNext]_commandVars =>
        [Tab => /\ IsPrefix(line, line') /\ Completed(line') = line'
                /\ line' # line => \/ OpenIn(files, Partial(line')) # 0
                                   \/ line' \in {commands[k] : k \in DOMAIN commands}]_commandVars
  BY TabSound
<1> QED BY <1>1, LineInvariant, PTL DEF LineSpec, CompletionSound
=============================================================================
