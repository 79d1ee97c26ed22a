------------------------------ MODULE ConsoleProofs ------------------------------
(***************************************************************************)
(* The two halves of the console.                                          *)
(*                                                                         *)
(* The keyboard driver, for a ring of any size and any number of bytes:    *)
(* what its readers can rely on although keyboard_handler comes in between *)
(* the statements of buffer_add and buffer_get, and that the main loop on  *)
(* its own returns every key in order.                                     *)
(*                                                                         *)
(* The text screen, for one of any size, any message and any keys: what it *)
(* shows although the handler echoes between the accesses of vga_putchar;  *)
(* and the walk over the loader's tags that decides whether it is used.    *)
(***************************************************************************)
EXTENDS Keyboard, Boot, WellFoundedInduction, TLAPS

(* How far slot i is from buffer_start.                                    *)
Far(i) == IF buffer_start <= i THEN i - buffer_start ELSE (i - buffer_start) + BUFFER_SIZE

Adding == pc \in {"add_check", "add_store", "add_end"}

(* While keyboard_available adds a key, every slot up to the one it will   *)
(* leave as the last, e, is or will be written: by it or by the handler.   *)
RingInv ==
  /\ \A i \in RingIndex : Far(i) < Far(buffer_end) => i \in fresh
  /\ pc \in {"get_read", "get_advance"} => buffer_start # buffer_end
  /\ GetcharNeverBlocks
  /\ Adding =>
       \E e \in RingIndex :
         /\ next = Succ(e) /\ Far(e) <= Far(buffer_end)
         /\ e = buffer_end \/ e \in fresh
         /\ pc = "add_end" => e \in fresh
         /\ pc \in {"add_store", "add_end"} => next # buffer_start

(* The keys of the first k bytes of s, and the shift state after them.     *)
DecodeBase == [shift |-> FALSE, keys |-> <<>>]

DecodeStep(s, acc, n) ==
  [shift |-> ShiftAfter(s[n], acc.shift),
   keys  |-> LET c == PollChar(s[n], acc.shift)
             IN  IF c = "none" THEN acc.keys ELSE Append(acc.keys, [id |-> n, char |-> c])]

Decoded(s, k) ==
  FoldLeft(LAMBDA acc, n : DecodeStep(s, acc, n), DecodeBase, [n \in 1..k |-> n])

(* Bytes the main loop has taken from the port, and those it has decoded.  *)
TakenBytes == IF full THEN Len(sent) - 1 ELSE Len(sent)
DecodedBytes == IF pc = "poll_decode" THEN TakenBytes - 1 ELSE TakenBytes

(* Where a decoded key is in the ring, or in `key', on its way to `got'.   *)
InRing == pc \in {"get_read", "get_advance"} \/ (asks /\ pc = "getchar")
InHand == pc \in {"add_next", "add_check", "add_store", "add_end", "get_advance", "return"}
Held == IF InHand THEN key ELSE key_buffer[buffer_start]
Read == IF InRing \/ InHand THEN Append(got, Held) ELSE got

(* One key at a time: the ring never holds more than the one being read.   *)
PolledInv ==
  /\ DecodedBytes \in 0..Len(sent) /\ (sent # <<>> => port = Len(sent))
  /\ pc = "poll_data" => full
  /\ pc = "poll_decode" => scancode = TakenBytes
  /\ shift_pressed = Decoded(sent, DecodedBytes).shift
  /\ Read = Decoded(sent, DecodedBytes).keys
  /\ buffer_end = (IF InRing THEN Succ(buffer_start) ELSE buffer_start)
  /\ Adding => next = Succ(buffer_end)
  /\ pc = "add_end" => key_buffer[buffer_start] = key
  /\ Adding \/ pc \in {"add_next", "available"} => asks

KeyboardInv == TypeOK /\ RingInv /\ (Polled => PolledInv)

-----------------------------------------------------------------------------
(* Slots of the ring.                                                      *)
LEMMA SuccIs ==
  ASSUME NEW i \in RingIndex
  PROVE  /\ Succ(i) = (IF i + 1 < BUFFER_SIZE THEN i + 1 ELSE 0)
         /\ Succ(i) \in RingIndex
<1>0. BUFFER_SIZE \in Nat /\ BUFFER_SIZE > 1
  BY KeyboardParameters
<1>1. CASE i + 1 < BUFFER_SIZE
  BY <1>0, <1>1 DEF Succ, RingIndex
<1>2. CASE ~(i + 1 < BUFFER_SIZE)
  <2>1. i + 1 = BUFFER_SIZE
    BY <1>0, <1>2 DEF RingIndex
  <2>2. BUFFER_SIZE % BUFFER_SIZE = 0
    BY <1>0
  <2> QED BY <1>0, <1>2, <2>1, <2>2 DEF Succ, RingIndex
<1> QED BY <1>1, <1>2

LEMMA ModIs ==
  ASSUME NEW n \in Nat, n > 0, NEW d \in Int, -n < d, d < n
  PROVE  d % n = IF d >= 0 THEN d ELSE d + n
OBVIOUS

(* Used in the terms of Far.                                               *)
LEMMA UsedIsFar ==
  ASSUME TypeOK, NEW i \in RingIndex
  PROVE  Used(i) <=> Far(i) < Far(buffer_end)
<1>1. BUFFER_SIZE \in Nat /\ BUFFER_SIZE > 1
  BY KeyboardParameters
<1>2. ASSUME NEW j \in RingIndex PROVE (j - buffer_start) % BUFFER_SIZE = Far(j)
  <2>1. buffer_start \in RingIndex
    BY DEF TypeOK
  <2>2. j - buffer_start \in Int /\ -BUFFER_SIZE < j - buffer_start /\ j - buffer_start < BUFFER_SIZE
    BY <1>1, <2>1 DEF RingIndex
  <2> QED BY <1>1, <2>1, <2>2, ModIs DEF Far, RingIndex
<1> QED BY <1>2 DEF Used, TypeOK

-----------------------------------------------------------------------------
(* Types.                                                                  *)
LEMMA SetupTyped ==
  ASSUME TypeOK
  PROVE  /\ setup.sends \subseteq Bytes /\ setup.runs \subseteq BOOLEAN
         /\ setup.asks \subseteq BOOLEAN
BY KeyboardParameters DEF TypeOK

LEMMA KeysTyped ==
  ASSUME TypeOK, NEW n \in 0..Len(sent), NEW shift \in BOOLEAN
  PROVE  /\ [id |-> n, char |-> HandlerChar(ByteAt(n), shift)] \in Key
         /\ [id |-> n, char |-> PollChar(ByteAt(n), shift)] \in Key
         /\ ShiftAfter(ByteAt(n), shift) \in BOOLEAN
<1>1. n \in 0..MaxBytes
  BY KeyboardParameters DEF TypeOK
<1>2. \A byte : HandlerChar(byte, shift) \in {"none", "a", "A", "up", "8"}
  BY DEF HandlerChar
<1>3. \A byte : PollChar(byte, shift) \in {"none", "a", "A", "up", "8"}
  BY DEF PollChar
<1>4. \A byte : ShiftAfter(byte, shift) \in BOOLEAN
  BY DEF ShiftAfter
<1> QED BY <1>1, <1>2, <1>3, <1>4 DEF Key

LEMMA InitTyped == Init => TypeOK
<1> SUFFICES ASSUME Init PROVE TypeOK
  OBVIOUS
<1>1. 0 \in RingIndex /\ NoKey \in Key
  BY KeyboardParameters DEF RingIndex, NoKey, Key
<1>2. Len(<<>>) = 0
  OBVIOUS
<1> QED BY <1>1, <1>2, KeyboardParameters DEF Init, TypeOK, PCs

LEMMA SendTyped ==
  ASSUME TypeOK, NEW byte \in setup.sends, Send(byte)
  PROVE  TypeOK'
<1>1. byte \in Bytes
  BY SetupTyped
<1>2. sent' \in Seq(Bytes) /\ Len(sent') = Len(sent) + 1 /\ Len(sent) \in Nat
  BY <1>1 DEF Send, TypeOK
<1> QED BY <1>2, KeyboardParameters DEF Send, TypeOK, ring, locals

LEMMA HandlerTyped ==
  ASSUME TypeOK, Handler
  PROVE  /\ full' \in BOOLEAN /\ shift_pressed' \in BOOLEAN /\ fresh' \subseteq RingIndex
         /\ key_buffer' \in [RingIndex -> Key] /\ buffer_end' \in RingIndex
<1> DEFINE k == [id |-> port, char |-> HandlerChar(ByteAt(port), shift_pressed)]
<1>1. k \in Key /\ ShiftAfter(ByteAt(port), shift_pressed) \in BOOLEAN
  BY KeysTyped DEF TypeOK
<1>2. buffer_end \in RingIndex /\ Succ(buffer_end) \in RingIndex
  BY SuccIs DEF TypeOK
<1> QED BY <1>1, <1>2 DEF Handler, ReadPort, TypeOK

LEMMA InterruptTyped ==
  ASSUME TypeOK, Interrupt
  PROVE  TypeOK'
<1>1. PICK runs \in setup.runs :
        IF runs THEN Handler
        ELSE UNCHANGED <<setup, sent, port, full, shift_pressed, ring>>
  BY DEF Interrupt
<1>2. pc' \in PCs
  BY DEF Interrupt, TypeOK, PCs
<1>3. CASE runs
  BY <1>1, <1>2, <1>3, HandlerTyped DEF Interrupt, Handler, ReadPort, TypeOK, locals
<1>4. CASE ~runs
  BY <1>1, <1>2, <1>4 DEF Interrupt, TypeOK, locals, ring
<1> QED BY <1>3, <1>4

LEMMA StrayTyped ==
  ASSUME TypeOK, Stray
  PROVE  TypeOK'
<1>1. pc' \in PCs
  BY DEF Stray, TypeOK, PCs
<1> QED BY <1>1, HandlerTyped DEF Stray, Handler, ReadPort, TypeOK, locals

LEMMA MainTyped ==
  ASSUME TypeOK, Main
  PROVE  TypeOK'
<1> USE DEF Goto, device, ring, locals
<1>1. CASE Call
  BY <1>1 DEF Call, TypeOK, PCs
<1>2. CASE Available \/ Status \/ PollStatus \/ AddCheck \/ Getchar \/ TimerWakes
  BY <1>2 DEF Available, Status, PollStatus, AddCheck, Getchar, TimerWakes, NothingPolled, TypeOK, PCs
<1>3. CASE PollData
  BY <1>3 DEF PollData, ReadPort, TypeOK, PCs
<1>4. CASE PollDecode
  <2>1. /\ [id |-> scancode, char |-> PollChar(ByteAt(scancode), shift_pressed)] \in Key
        /\ ShiftAfter(ByteAt(scancode), shift_pressed) \in BOOLEAN
    BY KeysTyped DEF TypeOK
  <2>2. pc' \in PCs
    BY <1>4 DEF PollDecode, NothingPolled, PCs
  <2> QED BY <1>4, <2>1, <2>2 DEF PollDecode, TypeOK
<1>5. CASE AddNext
  BY <1>5, SuccIs DEF AddNext, TypeOK, PCs
<1>6. CASE AddStore
  BY <1>6 DEF AddStore, TypeOK, PCs
<1>7. CASE AddEnd
  BY <1>7 DEF AddEnd, TypeOK, PCs
<1>8. CASE GetRead
  BY <1>8 DEF GetRead, TypeOK, PCs
<1>9. CASE GetAdvance
  BY <1>9, SuccIs DEF GetAdvance, TypeOK, PCs
<1>10. CASE Return
  BY <1>10 DEF Return, TypeOK, PCs
<1> QED BY <1>1, <1>2, <1>3, <1>4, <1>5, <1>6, <1>7, <1>8, <1>9, <1>10 DEF Main

LEMMA StutterTyped ==
  ASSUME TypeOK, UNCHANGED vars
  PROVE  TypeOK'
BY DEF TypeOK, vars, device, ring, locals

LEMMA NextTyped ==
  ASSUME TypeOK, [Next]_vars
  PROVE  TypeOK'
BY SendTyped, InterruptTyped, StrayTyped, MainTyped, StutterTyped DEF Next

-----------------------------------------------------------------------------
(* The ring between the statements of the main loop.                       *)
LEMMA InitRing == Init => RingInv
<1> SUFFICES ASSUME Init PROVE RingInv
  OBVIOUS
<1>1. \A i \in RingIndex : ~(Far(i) < Far(buffer_end))
  BY KeyboardParameters DEF Init, Far, RingIndex
<1> QED BY <1>1 DEF Init, RingInv, GetcharNeverBlocks, Adding

LEMMA HandlerRing ==
  ASSUME TypeOK, RingInv, Handler, UNCHANGED locals,
         pc' = (IF pc = "hlt" THEN "poll_status" ELSE pc)
  PROVE  RingInv'
<1>1. CASE UNCHANGED <<key_buffer, fresh, buffer_end>>
  BY <1>1 DEF Handler, RingInv, GetcharNeverBlocks, Adding, Far, locals
<1>2. CASE /\ Succ(buffer_end) # buffer_start
           /\ fresh' = fresh \cup {buffer_end} /\ buffer_end' = Succ(buffer_end)
  <2>0. /\ BUFFER_SIZE \in Nat /\ BUFFER_SIZE > 1
        /\ buffer_start' = buffer_start /\ UNCHANGED locals
    BY KeyboardParameters DEF Handler
  <2>1. buffer_start \in RingIndex /\ buffer_end \in RingIndex /\ next \in RingIndex
    BY DEF TypeOK
  <2>2. buffer_end' = (IF buffer_end + 1 < BUFFER_SIZE THEN buffer_end + 1 ELSE 0)
    BY <1>2, <2>1, SuccIs
  <2>3. Far(buffer_end)' = Far(buffer_end) + 1 /\ buffer_start' # buffer_end'
    BY <1>2, <2>0, <2>1, <2>2 DEF Far, RingIndex
  <2>4. \A i \in RingIndex : Far(i)' = Far(i) /\ Far(i) \in Int
    BY <2>0, <2>1 DEF Far, RingIndex
  <2>5. \A i \in RingIndex : Far(i) = Far(buffer_end) => i = buffer_end
    BY <2>0, <2>1 DEF Far, RingIndex
  <2>6. ASSUME NEW i \in RingIndex, Far(i)' < Far(buffer_end)' PROVE i \in fresh'
    <3>1. Far(i) < Far(buffer_end) \/ Far(i) = Far(buffer_end)
      BY <2>1, <2>3, <2>4, <2>6
    <3> QED BY <1>2, <2>5, <3>1 DEF RingInv
  <2>7. ASSUME Adding'
        PROVE  \E e \in RingIndex :
                 /\ next' = Succ(e) /\ Far(e)' <= Far(buffer_end)'
                 /\ e = buffer_end' \/ e \in fresh'
                 /\ pc' = "add_end" => e \in fresh'
                 /\ pc' \in {"add_store", "add_end"} => next' # buffer_start'
    <3>1. pc' = pc /\ Adding
      BY <2>7 DEF Adding
    <3>2. PICK e \in RingIndex :
            /\ next = Succ(e) /\ Far(e) <= Far(buffer_end)
            /\ e = buffer_end \/ e \in fresh
            /\ pc = "add_end" => e \in fresh
            /\ pc \in {"add_store", "add_end"} => next # buffer_start
      BY <3>1 DEF RingInv
    <3>3. Far(e)' <= Far(buffer_end)'
      BY <2>1, <2>3, <2>4, <3>2
    <3>4. next' = next
      BY <2>0 DEF locals
    <3> QED BY <1>2, <2>0, <3>1, <3>2, <3>3, <3>4
  <2> QED BY <2>3, <2>6, <2>7 DEF RingInv, GetcharNeverBlocks
<1> QED BY <1>1, <1>2 DEF Handler

LEMMA InterruptRing ==
  ASSUME TypeOK, RingInv, Interrupt
  PROVE  RingInv'
<1>1. PICK runs \in setup.runs :
        IF runs THEN Handler
        ELSE UNCHANGED <<setup, sent, port, full, shift_pressed, ring>>
  BY DEF Interrupt
<1>2. UNCHANGED locals /\ pc' = (IF pc = "hlt" THEN "poll_status" ELSE pc)
  BY DEF Interrupt
<1>3. CASE runs
  BY <1>1, <1>2, <1>3, HandlerRing
<1>4. CASE ~runs
  BY <1>1, <1>2, <1>4 DEF RingInv, GetcharNeverBlocks, Adding, Far, locals, ring
<1> QED BY <1>3, <1>4

LEMMA StrayRing ==
  ASSUME TypeOK, RingInv, Stray
  PROVE  RingInv'
<1>1. Handler /\ UNCHANGED locals /\ pc' = (IF pc = "hlt" THEN "poll_status" ELSE pc)
  BY DEF Stray
<1> QED BY <1>1, HandlerRing

(* buffer_add found the slot after e taken: then the ring is not empty.    *)
LEMMA FullIsNotEmpty ==
  ASSUME TypeOK, NEW e \in RingIndex, Succ(e) = buffer_start, Far(e) <= Far(buffer_end)
  PROVE  buffer_start # buffer_end
<1>1. /\ BUFFER_SIZE \in Nat /\ BUFFER_SIZE > 1
      /\ buffer_start \in RingIndex /\ buffer_end \in RingIndex
  BY KeyboardParameters DEF TypeOK
<1>2. buffer_start = (IF e + 1 < BUFFER_SIZE THEN e + 1 ELSE 0)
  BY SuccIs
<1>3. Far(e) = BUFFER_SIZE - 1
  BY <1>1, <1>2 DEF RingIndex, Far
<1> QED BY <1>1, <1>3 DEF RingIndex, Far

LEMMA AddEndRing ==
  ASSUME TypeOK, RingInv, AddEnd
  PROVE  RingInv'
<1> USE DEF Goto, device, ring, locals
<1>0. BUFFER_SIZE \in Nat /\ BUFFER_SIZE > 1
  BY KeyboardParameters
<1>1. PICK e \in RingIndex :
        /\ next = Succ(e) /\ Far(e) <= Far(buffer_end)
        /\ e \in fresh /\ next # buffer_start
  BY DEF AddEnd, RingInv, Adding
<1>2. buffer_start \in RingIndex /\ buffer_end \in RingIndex
  BY DEF TypeOK
<1>3. buffer_start' = buffer_start /\ fresh' = fresh /\ pc' = "getchar"
      /\ buffer_end' = (IF e + 1 < BUFFER_SIZE THEN e + 1 ELSE 0)
  BY <1>1, SuccIs DEF AddEnd
<1>4. buffer_end' # buffer_start'
  BY <1>1, <1>3 DEF AddEnd
<1>5. Far(buffer_end)' = Far(e) + 1
  BY <1>0, <1>2, <1>3, <1>4 DEF Far, RingIndex
<1>6. \A i \in RingIndex : Far(i)' = Far(i) /\ Far(i) \in Int
  BY <1>0, <1>2, <1>3 DEF Far, RingIndex
<1>7. \A i \in RingIndex : Far(i) = Far(e) => i = e
  BY <1>0, <1>2 DEF Far, RingIndex
<1>8. ASSUME NEW i \in RingIndex, Far(i)' < Far(buffer_end)' PROVE i \in fresh'
  <2>1. Far(i) < Far(e) \/ Far(i) = Far(e)
    BY <1>5, <1>6, <1>8
  <2>2. Far(i) < Far(buffer_end) \/ i = e
    BY <1>1, <1>2, <1>6, <1>7, <2>1
  <2> QED BY <1>1, <1>3, <2>2 DEF RingInv
<1> QED BY <1>3, <1>4, <1>8 DEF RingInv, GetcharNeverBlocks, Adding

LEMMA GetAdvanceRing ==
  ASSUME TypeOK, RingInv, GetAdvance
  PROVE  RingInv'
<1> USE DEF Goto, device, ring, locals
<1>0. BUFFER_SIZE \in Nat /\ BUFFER_SIZE > 1
  BY KeyboardParameters
<1>1. buffer_start \in RingIndex /\ buffer_end \in RingIndex /\ buffer_start # buffer_end
  BY DEF GetAdvance, RingInv, TypeOK
<1>2. /\ buffer_start' = (IF buffer_start + 1 < BUFFER_SIZE THEN buffer_start + 1 ELSE 0)
      /\ buffer_end' = buffer_end /\ fresh' = fresh \ {buffer_start} /\ pc' = "return"
  BY <1>1, SuccIs DEF GetAdvance
<1>3. \A i \in RingIndex :
        Far(i)' = (IF i = buffer_start THEN BUFFER_SIZE - 1 ELSE Far(i) - 1)
  BY <1>0, <1>1, <1>2 DEF Far, RingIndex
<1>4. Far(buffer_end)' = Far(buffer_end) - 1
  BY <1>0, <1>1, <1>2 DEF Far, RingIndex
<1>5. \A i \in RingIndex : Far(i) \in 0..(BUFFER_SIZE - 1)
  BY <1>0, <1>1 DEF Far, RingIndex
<1>6. ASSUME NEW i \in RingIndex, Far(i)' < Far(buffer_end)' PROVE i \in fresh'
  <2>1. i # buffer_start /\ Far(i) < Far(buffer_end)
    BY <1>0, <1>1, <1>3, <1>4, <1>5, <1>6
  <2> QED BY <1>2, <2>1 DEF RingInv
<1> QED BY <1>2, <1>6 DEF RingInv, GetcharNeverBlocks, Adding

LEMMA AddNextRing ==
  ASSUME TypeOK, RingInv, AddNext
  PROVE  RingInv'
<1>1. /\ UNCHANGED <<buffer_start, buffer_end, fresh>> /\ pc' = "add_check"
      /\ next' = Succ(buffer_end) /\ buffer_end \in RingIndex
  BY DEF AddNext, Goto, ring, TypeOK
<1>2. Far(buffer_end)' = Far(buffer_end) /\ Far(buffer_end) <= Far(buffer_end)
  BY <1>1, KeyboardParameters DEF Far, TypeOK, RingIndex
<1> QED BY <1>1, <1>2 DEF RingInv, GetcharNeverBlocks, Far, Adding

LEMMA AddCheckRing ==
  ASSUME TypeOK, RingInv, AddCheck
  PROVE  RingInv'
<1> USE DEF Goto, device, ring, locals
<1>1. CASE next # buffer_start
  BY <1>1 DEF AddCheck, RingInv, GetcharNeverBlocks, Adding, Far
<1>2. CASE next = buffer_start
  <2>1. buffer_start # buffer_end
    BY <1>2, FullIsNotEmpty DEF AddCheck, RingInv, Adding
  <2> QED BY <1>2, <2>1 DEF AddCheck, RingInv, GetcharNeverBlocks, Adding, Far
<1> QED BY <1>1, <1>2

LEMMA NextRing ==
  ASSUME TypeOK, RingInv, [Next]_vars
  PROVE  RingInv'
<1> USE DEF Goto, device, ring, locals
<1>1. CASE UNCHANGED vars
  BY <1>1 DEF vars, RingInv, GetcharNeverBlocks, Adding, Far
<1>2. CASE \E byte \in setup.sends : Send(byte)
  BY <1>2 DEF Send, RingInv, GetcharNeverBlocks, Adding, Far
<1>3. CASE Interrupt
  BY <1>3, InterruptRing
<1>4. CASE Call
  BY <1>4 DEF Call, RingInv, GetcharNeverBlocks, Adding, Far
<1>5. CASE Available \/ Status \/ PollStatus \/ Getchar \/ TimerWakes
  BY <1>5 DEF Available, Status, PollStatus, Getchar, TimerWakes, NothingPolled, RingInv,
              GetcharNeverBlocks, Adding, Far
<1>6. CASE PollData
  BY <1>6 DEF PollData, ReadPort, RingInv, GetcharNeverBlocks, Adding, Far
<1>7. CASE PollDecode
  BY <1>7 DEF PollDecode, NothingPolled, RingInv, GetcharNeverBlocks, Adding, Far
<1>8. CASE AddStore
  BY <1>8 DEF AddStore, RingInv, GetcharNeverBlocks, Adding, Far
<1>9. CASE GetRead
  BY <1>9 DEF GetRead, RingInv, GetcharNeverBlocks, Adding, Far
<1>10. CASE Return
  BY <1>10 DEF Return, RingInv, GetcharNeverBlocks, Adding, Far
<1> QED BY <1>1, <1>2, <1>3, <1>4, <1>5, <1>6, <1>7, <1>8, <1>9, <1>10, StrayRing, AddNextRing,
           AddCheckRing, AddEndRing, GetAdvanceRing DEF Next, Main

-----------------------------------------------------------------------------
(* The keys of a byte stream, one byte after another.                      *)
LEMMA LeastNumber ==
  ASSUME NEW T, T \subseteq Nat, T # {}
  PROVE  \E m \in T : \A k \in T : m <= k
<1>1. PICK m \in T : \A k \in T : <<k, m>> \notin OpToRel(<, Nat)
  BY WFMin, NatLessThanWellFounded, Zenon
<1>2. \A k \in T : ~(k < m)
  BY <1>1 DEF OpToRel
<1> QED BY <1>2

LEMMA NatInductive ==
  ASSUME NEW S, 0 \in S, \A k \in Nat : k \in S => k + 1 \in S
  PROVE  \A k \in Nat : k \in S
<1> SUFFICES ASSUME Nat \ S # {} PROVE FALSE
  OBVIOUS
<1>1. PICK m \in Nat \ S : \A k \in Nat \ S : m <= k
  BY LeastNumber
<1>2. m # 0 /\ m - 1 \in Nat /\ m - 1 \in S
  BY <1>1
<1> QED BY <1>2

LEMMA MaxOfInterval ==
  ASSUME NEW n \in Nat, NEW T, T \subseteq 1..n, n \in T
  PROVE  Max(T) = n
<1>1. \A x \in T : n >= x
  OBVIOUS
<1>2. \A y \in T : (\A x \in T : y >= x) => y = n
  OBVIOUS
<1> QED BY <1>1, <1>2 DEF Max

LEMMA MaxTyped ==
  ASSUME NEW n \in Nat, NEW T, T \subseteq 1..n, T # {}
  PROVE  Max(T) \in T
<1>1. PICK m \in {n - x : x \in T} : \A k \in {n - x : x \in T} : m <= k
  <2>0. \A x \in T : x \in 1..n
    OBVIOUS
  <2>1. \A x \in T : n - x \in Nat
    BY <2>0
  <2>2. PICK x \in T : TRUE
    OBVIOUS
  <2>3. n - x \in {n - y : y \in T}
    OBVIOUS
  <2> QED BY <2>1, <2>3, LeastNumber
<1>2. PICK x \in T : m = n - x
  BY <1>1
<1>3. \A y \in T : n - y \in {n - z : z \in T}
  OBVIOUS
<1>4. \A y \in T : x >= y
  BY <1>1, <1>2, <1>3
<1> QED BY <1>4 DEF Max

(* g maps each set of positions to what its bytes alone decode to.         *)
IsDecode(s, g, n) ==
  g = [T \in SUBSET (1..n) |->
         IF T = {} THEN DecodeBase
         ELSE DecodeStep(s, g[T \ {Max(T)}], [m \in 1..n |-> m][Max(T)])]

LEMMA DecodedFold ==
  ASSUME NEW s, NEW n \in Nat
  PROVE  Decoded(s, n) = (CHOOSE g : IsDecode(s, g, n))[1..n]
<1>1. DOMAIN [m \in 1..n |-> m] = 1..n
  OBVIOUS
<1> QED BY <1>1, Zenon DEF Decoded, FoldLeft, MapThenFoldSet, IsDecode

LEMMA DecodeExists ==
  ASSUME NEW s
  PROVE  \A n \in Nat : \E g : IsDecode(s, g, n)
<1> DEFINE S == {n \in Nat : \E g : IsDecode(s, g, n)}
           At(g, T, n) == IF T = {} THEN DecodeBase
                          ELSE DecodeStep(s, g[T \ {Max(T)}], [m \in 1..n |-> m][Max(T)])
<1>0. \A T \in SUBSET (1..0) : T = {}
  OBVIOUS
<1>1. 0 \in S
  <2> DEFINE g == [T \in SUBSET (1..0) |-> DecodeBase]
  <2>1. g = [T \in SUBSET (1..0) |-> At(g, T, 0)]
    BY <1>0
  <2> QED BY <2>1 DEF IsDecode
<1>2. ASSUME NEW n \in Nat, n \in S PROVE n + 1 \in S
  <2>1. PICK g : IsDecode(s, g, n)
    BY <1>2
  <2> DEFINE h == [T \in SUBSET (1..(n + 1)) |->
                     IF n + 1 \in T THEN DecodeStep(s, g[T \ {n + 1}], n + 1) ELSE g[T]]
             hh == [T \in SUBSET (1..(n + 1)) |-> At(h, T, n + 1)]
  <2>2. \A T \in SUBSET (1..n) : h[T] = g[T] /\ g[T] = At(g, T, n)
    <3> SUFFICES ASSUME NEW T \in SUBSET (1..n) PROVE h[T] = g[T] /\ g[T] = At(g, T, n)
      OBVIOUS
    <3>1. n + 1 \notin T /\ T \in SUBSET (1..(n + 1))
      OBVIOUS
    <3> QED BY <2>1, <3>1 DEF IsDecode
  <2>3. \A T \in SUBSET (1..(n + 1)) : h[T] = hh[T]
    <3> SUFFICES ASSUME NEW T \in SUBSET (1..(n + 1)) PROVE h[T] = hh[T]
      OBVIOUS
    <3>1. CASE n + 1 \in T
      <4>1. Max(T) = n + 1
        <5>1. n + 1 \in Nat /\ T \subseteq 1..(n + 1)
          OBVIOUS
        <5> QED BY <3>1, <5>1, MaxOfInterval
      <4>2. T # {} /\ T \ {n + 1} \in SUBSET (1..n)
        <5>1. \A x \in T \ {n + 1} : x \in 1..n
          OBVIOUS
        <5> QED BY <3>1, <5>1
      <4>3. h[T \ {n + 1}] = g[T \ {n + 1}]
        BY <2>2, <4>2
      <4>4. h[T] = DecodeStep(s, g[T \ {n + 1}], n + 1)
        BY <3>1
      <4>5. n + 1 \in 1..(n + 1)
        OBVIOUS
      <4>6. hh[T] = DecodeStep(s, h[T \ {n + 1}], n + 1)
        BY <4>1, <4>2, <4>5
      <4> HIDE DEF h, hh
      <4> QED BY <4>3, <4>4, <4>6
    <3>2. CASE n + 1 \notin T
      <4>1. T \in SUBSET (1..n) /\ T \ {Max(T)} \in SUBSET (1..n)
        <5>1. \A x \in T : x \in 1..n
          BY <3>2
        <5> QED BY <5>1
      <4>2. h[T] = g[T] /\ h[T \ {Max(T)}] = g[T \ {Max(T)}]
        BY <2>2, <4>1
      <4>3. T # {} => [m \in 1..n |-> m][Max(T)] = [m \in 1..(n + 1) |-> m][Max(T)]
        <5> SUFFICES ASSUME T # {} PROVE Max(T) \in 1..n
          OBVIOUS
        <5> QED BY <4>1, MaxTyped
      <4>4. g[T] = At(g, T, n)
        BY <2>2, <4>1
      <4>5. hh[T] = At(h, T, n + 1)
        OBVIOUS
      <4> HIDE DEF h, hh
      <4>6. CASE T = {}
        BY <4>2, <4>4, <4>5, <4>6
      <4>7. CASE T # {}
        BY <4>2, <4>3, <4>4, <4>5, <4>7
      <4> QED BY <4>6, <4>7
    <3> QED BY <3>1, <3>2
  <2>4. h = hh
    <3>1. /\ h = [T \in SUBSET (1..(n + 1)) |-> h[T]]
          /\ hh = [T \in SUBSET (1..(n + 1)) |-> hh[T]]
      OBVIOUS
    <3> HIDE DEF h, hh
    <3> QED BY <2>3, <3>1
  <2>5. IsDecode(s, h, n + 1)
    BY <2>4 DEF IsDecode
  <2> QED BY <2>5
<1> HIDE DEF S
<1>3. \A n \in Nat : n \in S
  BY <1>1, <1>2, NatInductive
<1> QED BY <1>3 DEF S

(* r runs through what the first 0, 1, ... n bytes of s decode to.         *)
IsRow(s, r, n) ==
  r[0] = DecodeBase /\ \A k \in 1..n : r[k] = DecodeStep(s, r[k - 1], k)

LEMMA DecodedRow ==
  ASSUME NEW s, NEW n \in Nat
  PROVE  \E r : IsRow(s, r, n) /\ r[n] = Decoded(s, n)
<1> DEFINE g == CHOOSE g : IsDecode(s, g, n)
           r == [k \in 0..n |-> g[1..k]]
<1>1. IsDecode(s, g, n)
  BY DecodeExists
<1>2. Decoded(s, n) = g[1..n]
  BY DecodedFold
<1> HIDE DEF g
<1>3. r[0] = DecodeBase
  <2>1. 1..0 = {} /\ {} \in SUBSET (1..n) /\ 0 \in 0..n
    OBVIOUS
  <2> QED BY <1>1, <2>1 DEF IsDecode
<1>4. ASSUME NEW k \in 1..n PROVE r[k] = DecodeStep(s, r[k - 1], k)
  <2>1. 1..k \in SUBSET (1..n) /\ 1..k # {}
    OBVIOUS
  <2>2. Max(1..k) = k
    <3>1. k \in Nat /\ 1..k \subseteq 1..k /\ k \in 1..k
      OBVIOUS
    <3> QED BY <3>1, MaxOfInterval
  <2>3. (1..k) \ {k} = 1..(k - 1) /\ [m \in 1..n |-> m][k] = k
    OBVIOUS
  <2>4. g[1..k] = DecodeStep(s, g[1..(k - 1)], k)
    BY <1>1, <2>1, <2>2, <2>3 DEF IsDecode
  <2>5. k \in 0..n /\ k - 1 \in 0..n
    OBVIOUS
  <2> QED BY <2>4, <2>5
<1>5. r[n] = Decoded(s, n)
  BY <1>2
<1> QED BY <1>3, <1>4, <1>5 DEF IsRow

(* Streams that begin alike have rows that begin alike.                    *)
LEMMA RowsAgree ==
  ASSUME NEW s, NEW t, NEW n \in Nat, \A k \in 1..n : s[k] = t[k],
         NEW q, IsRow(s, q, n), NEW r, IsRow(t, r, n)
  PROVE  \A k \in 0..n : q[k] = r[k]
<1> DEFINE S == {k \in Nat : k <= n => q[k] = r[k]}
<1>1. 0 \in S
  BY DEF IsRow
<1>2. ASSUME NEW k \in Nat, k \in S PROVE k + 1 \in S
  <2> SUFFICES ASSUME k + 1 <= n PROVE q[k + 1] = r[k + 1]
    OBVIOUS
  <2>1. k + 1 \in 1..n /\ (k + 1) - 1 = k /\ q[k] = r[k]
    BY <1>2
  <2>2. q[k + 1] = DecodeStep(s, q[k], k + 1) /\ r[k + 1] = DecodeStep(t, r[k], k + 1)
    BY <2>1 DEF IsRow
  <2> QED BY <2>1, <2>2 DEF DecodeStep
<1> HIDE DEF S
<1>3. \A k \in Nat : k \in S
  BY <1>1, <1>2, NatInductive
<1> QED BY <1>3 DEF S

LEMMA DecodedSame ==
  ASSUME NEW s, NEW t, NEW n \in Nat, \A k \in 1..n : s[k] = t[k]
  PROVE  Decoded(s, n) = Decoded(t, n)
<1>1. PICK q : IsRow(s, q, n) /\ q[n] = Decoded(s, n)
  BY DecodedRow
<1>2. PICK r : IsRow(t, r, n) /\ r[n] = Decoded(t, n)
  BY DecodedRow
<1>3. IsRow(s, q, n) /\ IsRow(t, r, n)
  BY <1>1, <1>2
<1>4. \A k \in 0..n : q[k] = r[k]
  BY <1>3, RowsAgree
<1>5. n \in 0..n
  OBVIOUS
<1>6. q[n] = r[n]
  BY <1>4, <1>5
<1> QED BY <1>1, <1>2, <1>6

LEMMA DecodedNext ==
  ASSUME NEW s, NEW n \in Nat
  PROVE  Decoded(s, n + 1) = DecodeStep(s, Decoded(s, n), n + 1)
<1>1. PICK q : IsRow(s, q, n) /\ q[n] = Decoded(s, n)
  BY DecodedRow
<1>2. PICK r : IsRow(s, r, n + 1) /\ r[n + 1] = Decoded(s, n + 1)
  BY DecodedRow
<1>3. IsRow(s, r, n)
  BY <1>2 DEF IsRow
<1>4. q[n] = r[n]
  BY <1>1, <1>3, RowsAgree
<1>5. r[n + 1] = DecodeStep(s, r[n], n + 1)
  <2>1. n + 1 \in 1..(n + 1) /\ (n + 1) - 1 = n
    OBVIOUS
  <2> QED BY <1>2, <2>1 DEF IsRow
<1> QED BY <1>1, <1>2, <1>4, <1>5

LEMMA DecodedNone == ASSUME NEW s PROVE Decoded(s, 0) = DecodeBase
BY DecodedRow DEF IsRow

LEMMA ExpectedIs == Expected = Decoded(sent, Len(sent)).keys
BY Zenon DEF Expected, Decoded, DecodeStep, DecodeBase

LEMMA DecodedFields ==
  ASSUME NEW s, NEW n \in Nat, NEW d, d = Decoded(s, n),
         NEW c, c = PollChar(s[n + 1], d.shift)
  PROVE  /\ Decoded(s, n + 1).shift = ShiftAfter(s[n + 1], d.shift)
         /\ Decoded(s, n + 1).keys =
              (IF c = "none" THEN d.keys ELSE Append(d.keys, [id |-> n + 1, char |-> c]))
<1>1. Decoded(s, n + 1) = DecodeStep(s, d, n + 1)
  BY DecodedNext
<1>2. DecodeStep(s, d, n + 1).shift = ShiftAfter(s[n + 1], d.shift)
  BY DEF DecodeStep
<1>3. DecodeStep(s, d, n + 1).keys =
        (IF c = "none" THEN d.keys ELSE Append(d.keys, [id |-> n + 1, char |-> c]))
  BY DEF DecodeStep
<1> QED BY <1>1, <1>2, <1>3

LEMMA DecodedTyped ==
  ASSUME NEW s
  PROVE  \A n \in Nat : /\ Decoded(s, n).keys \in Seq([id : Nat, char : {"a", "A", "up", "8"}])
                        /\ Decoded(s, n).shift \in BOOLEAN
<1> DEFINE K == [id : Nat, char : {"a", "A", "up", "8"}]
           S == {n \in Nat : Decoded(s, n).keys \in Seq(K) /\ Decoded(s, n).shift \in BOOLEAN}
<1>1. 0 \in S
  <2>1. DecodeBase.keys = <<>> /\ DecodeBase.shift = FALSE
    BY DEF DecodeBase
  <2>2. Decoded(s, 0) = DecodeBase
    BY DecodedNone
  <2> HIDE DEF K
  <2>3. <<>> \in Seq(K) /\ FALSE \in BOOLEAN
    OBVIOUS
  <2>4. Decoded(s, 0).keys = <<>> /\ Decoded(s, 0).shift = FALSE
    BY <2>1, <2>2, Zenon
  <2>5. Decoded(s, 0).keys \in Seq(K) /\ Decoded(s, 0).shift \in BOOLEAN
    BY <2>3, <2>4, Zenon
  <2> QED BY <2>5
<1>2. ASSUME NEW n \in Nat, n \in S PROVE n + 1 \in S
  <2> DEFINE d == Decoded(s, n)
             c == PollChar(s[n + 1], d.shift)
  <2>1. /\ Decoded(s, n + 1).keys =
             (IF c = "none" THEN d.keys ELSE Append(d.keys, [id |-> n + 1, char |-> c]))
        /\ Decoded(s, n + 1).shift = ShiftAfter(s[n + 1], d.shift)
    BY DecodedFields
  <2>2. d.keys \in Seq(K) /\ d.shift \in BOOLEAN
    BY <1>2
  <2>3. c \in {"none", "a", "A", "up", "8"} /\ ShiftAfter(s[n + 1], d.shift) \in BOOLEAN
    BY <2>2 DEF PollChar, ShiftAfter
  <2> HIDE DEF d, c
  <2>4. CASE c = "none"
    BY <2>1, <2>2, <2>3, <2>4
  <2>5. CASE c # "none"
    <3>1. [id |-> n + 1, char |-> c] \in K
      BY <2>3, <2>5
    <3> HIDE DEF K, S
    <3>2. Append(d.keys, [id |-> n + 1, char |-> c]) \in Seq(K)
      BY <2>2, <3>1
    <3>3. Decoded(s, n + 1).keys \in Seq(K) /\ Decoded(s, n + 1).shift \in BOOLEAN
      BY <2>1, <2>3, <2>5, <3>2, Zenon
    <3> QED BY <3>3 DEF S
  <2> QED BY <2>4, <2>5
<1> HIDE DEF S
<1>3. \A n \in Nat : n \in S
  BY <1>1, <1>2, NatInductive
<1> QED BY <1>3 DEF S

(* More bytes only ever add keys at the end.                               *)
LEMMA DecodedGrows ==
  ASSUME NEW s, NEW m \in Nat
  PROVE  \A n \in Nat : m <= n => IsPrefix(Decoded(s, m).keys, Decoded(s, n).keys)
<1> DEFINE K == [id : Nat, char : {"a", "A", "up", "8"}]
           S == {n \in Nat : m <= n => IsPrefix(Decoded(s, m).keys, Decoded(s, n).keys)}
<1>0. \A n \in Nat : Decoded(s, n).keys \in Seq(K)
  BY DecodedTyped
<1> HIDE DEF K
<1>1. 0 \in S
  <2> SUFFICES ASSUME m = 0 PROVE IsPrefix(Decoded(s, 0).keys, Decoded(s, 0).keys)
    OBVIOUS
  <2> QED BY <1>0 DEF IsPrefix
<1>2. ASSUME NEW n \in Nat, n \in S PROVE n + 1 \in S
  <2> SUFFICES ASSUME m <= n + 1
               PROVE  IsPrefix(Decoded(s, m).keys, Decoded(s, n + 1).keys)
    OBVIOUS
  <2>1. CASE m = n + 1
    <3>1. Decoded(s, m).keys \in Seq(K)
      BY <1>0
    <3> QED BY <2>1, <3>1 DEF IsPrefix
  <2>2. CASE m <= n
    <3> DEFINE d == Decoded(s, n).keys
               e == Decoded(s, n + 1).keys
               c == PollChar(s[n + 1], Decoded(s, n).shift)
    <3>1. e = (IF c = "none" THEN d ELSE Append(d, [id |-> n + 1, char |-> c]))
      BY DecodedFields
    <3>2. d \in Seq(K) /\ e \in Seq(K) /\ Decoded(s, m).keys \in Seq(K)
      BY <1>0
    <3>3. IsPrefix(Decoded(s, m).keys, d)
      BY <1>2, <2>2
    <3>4. e = d \/ \E k : e = Append(d, k)
      BY <3>1
    <3> HIDE DEF d, e, c
    <3>5. Len(d) <= Len(e) /\ \A i \in 1..Len(d) : e[i] = d[i]
      BY <3>2, <3>4
    <3> DEFINE p == Decoded(s, m).keys
    <3>6. p \in Seq(K)
      BY <3>2
    <3> HIDE DEF p
    <3>7. Len(p) <= Len(d) /\ SubSeq(p, 1, Len(p)) = SubSeq(d, 1, Len(p))
      BY <3>3 DEF IsPrefix, p
    <3>8. SubSeq(d, 1, Len(p)) = SubSeq(e, 1, Len(p))
      BY <3>2, <3>5, <3>6, <3>7
    <3>9. Len(p) <= Len(e)
      BY <3>2, <3>5, <3>6, <3>7
    <3>10. IsPrefix(p, e)
      BY <3>7, <3>8, <3>9 DEF IsPrefix
    <3> QED BY <3>10 DEF p, e
  <2> QED BY <2>1, <2>2
<1> HIDE DEF S
<1>3. \A n \in Nat : n \in S
  BY <1>1, <1>2, NatInductive
<1> QED BY <1>3 DEF S

-----------------------------------------------------------------------------
(* The main loop alone with the port.                                      *)
LEMMA InitPolled == Init => PolledInv
<1> SUFFICES ASSUME Init PROVE PolledInv
  OBVIOUS
<1>1. Len(sent) = 0 /\ ~full /\ pc = "idle" /\ sent = <<>>
  BY DEF Init
<1>2. DecodedBytes = 0 /\ ~InRing /\ ~InHand /\ ~Adding
  BY <1>1 DEF DecodedBytes, TakenBytes, InRing, InHand, Adding
<1>3. Decoded(sent, DecodedBytes) = DecodeBase
  BY <1>2, DecodedNone
<1>4. DecodeBase.keys = <<>> /\ DecodeBase.shift = FALSE
  BY DEF DecodeBase
<1>5. Decoded(sent, DecodedBytes).keys = <<>> /\ Decoded(sent, DecodedBytes).shift = FALSE
  BY <1>3, <1>4, Zenon
<1>6. shift_pressed = FALSE /\ got = <<>> /\ buffer_end = buffer_start
  BY DEF Init
<1>7. Read = <<>>
  BY <1>2, <1>6 DEF Read
<1>8. /\ shift_pressed = Decoded(sent, DecodedBytes).shift
      /\ Read = Decoded(sent, DecodedBytes).keys
  BY <1>5, <1>6, <1>7, Zenon
<1>9. DecodedBytes \in 0..Len(sent)
  BY <1>1, <1>2
<1> QED BY <1>1, <1>2, <1>6, <1>8, <1>9 DEF PolledInv

(* What a step that takes no byte and moves no key leaves as it was.       *)
LEMMA QuietPolled ==
  ASSUME PolledInv, UNCHANGED <<sent, port, full, shift_pressed, got>>,
         UNCHANGED <<key_buffer, buffer_start, buffer_end, key>>,
         pc # "poll_decode", pc' # "poll_decode", ~Adding', pc' \notin {"add_next", "poll_data"},
         InRing' = InRing, InHand' = InHand, pc' = "available" => asks'
  PROVE  PolledInv'
<1>1. DecodedBytes' = DecodedBytes
  BY DEF DecodedBytes, TakenBytes
<1>2. Read' = Read
  BY DEF Read, Held
<1>3. pc' # "add_end"
  BY DEF Adding
<1> QED BY <1>1, <1>2, <1>3 DEF PolledInv

LEMMA SendPolled ==
  ASSUME TypeOK, PolledInv, NEW byte \in setup.sends, Send(byte)
  PROVE  PolledInv'
<1>1. byte \in Bytes
  BY SetupTyped
<1>2. /\ sent' \in Seq(Bytes) /\ Len(sent') = Len(sent) + 1 /\ Len(sent) \in Nat
      /\ \A k \in 1..Len(sent) : sent[k] = sent'[k]
  BY <1>1 DEF Send, TypeOK
<1>3. ~full /\ full' /\ port' = Len(sent') /\ sent' # <<>>
  BY <1>2 DEF Send
<1>4. /\ UNCHANGED <<shift_pressed, got, pc, asks, scancode, key, next>>
      /\ UNCHANGED <<key_buffer, buffer_start, buffer_end>>
  BY DEF Send, ring, locals
<1>5. TakenBytes' = TakenBytes /\ DecodedBytes' = DecodedBytes
  BY <1>2, <1>3, <1>4 DEF TakenBytes, DecodedBytes
<1>6. DecodedBytes \in Nat /\ DecodedBytes <= Len(sent)
  BY <1>2 DEF PolledInv
<1>7. \A k \in 1..DecodedBytes : sent[k] = sent'[k]
  BY <1>2, <1>6
<1>8. Decoded(sent, DecodedBytes) = Decoded(sent', DecodedBytes)
  BY <1>6, <1>7, DecodedSame
<1>9. UNCHANGED <<InRing, InHand, Read, Adding>>
  BY <1>4 DEF InRing, InHand, Read, Held, Adding
<1>10. DecodedBytes' \in 0..Len(sent')
  BY <1>2, <1>5, <1>6
<1> QED BY <1>3, <1>4, <1>5, <1>8, <1>9, <1>10 DEF PolledInv

LEMMA PollDataPolled ==
  ASSUME TypeOK, PolledInv, PollData
  PROVE  PolledInv'
<1>1. /\ pc = "poll_data" /\ pc' = "poll_decode" /\ full /\ ~full'
      /\ scancode' = port /\ Len(sent) \in Nat
      /\ UNCHANGED <<sent, port, shift_pressed, got, asks, key, next>>
      /\ UNCHANGED <<key_buffer, buffer_start, buffer_end>>
  BY DEF PollData, ReadPort, Goto, ring, PolledInv, TypeOK
<1>2. /\ DecodedBytes' = DecodedBytes /\ DecodedBytes = Len(sent) - 1
      /\ TakenBytes' = Len(sent)
  BY <1>1 DEF DecodedBytes, TakenBytes
<1>3. sent # <<>>
  <2>1. Len(sent) # 0
    BY <1>1, <1>2 DEF PolledInv
  <2> QED BY <2>1
<1>4. ~InRing /\ ~InRing' /\ ~InHand /\ ~InHand' /\ ~Adding' /\ pc' # "add_end"
  BY <1>1 DEF InRing, InHand, Adding
<1>5. Read' = Read
  BY <1>1, <1>4 DEF Read
<1> QED BY <1>1, <1>2, <1>3, <1>4, <1>5 DEF PolledInv

LEMMA PollDecodePolled ==
  ASSUME TypeOK, PolledInv, PollDecode
  PROVE  PolledInv'
<1> DEFINE n == scancode
           c == PollChar(sent[n], shift_pressed)
           d == Decoded(sent, n - 1)
           k == [id |-> n, char |-> c]
<1>1. /\ pc = "poll_decode" /\ Len(sent) \in Nat
      /\ UNCHANGED <<sent, port, full, got, asks, scancode, next>>
      /\ UNCHANGED <<key_buffer, buffer_start, buffer_end>>
      /\ pc' = (IF PollChar(ByteAt(n), shift_pressed) = "none" THEN NothingPolled
                ELSE IF asks THEN "add_next" ELSE "return")
      /\ shift_pressed' = ShiftAfter(ByteAt(n), shift_pressed)
      /\ key' = [id |-> n, char |-> PollChar(ByteAt(n), shift_pressed)]
  BY DEF PollDecode, Goto, device, ring, TypeOK
<1>2. /\ n = TakenBytes /\ DecodedBytes = TakenBytes - 1 /\ TakenBytes \in Int
      /\ DecodedBytes \in 0..Len(sent) /\ TakenBytes' = TakenBytes
  BY <1>1 DEF PolledInv, DecodedBytes, TakenBytes
<1>3. n \in Nat /\ n - 1 \in Nat /\ (n - 1) + 1 = n /\ ByteAt(n) = sent[n]
  BY <1>1, <1>2 DEF ByteAt
<1>4. /\ shift_pressed = d.shift /\ Read = d.keys
      /\ buffer_end = (IF InRing THEN Succ(buffer_start) ELSE buffer_start)
      /\ sent # <<>> => port = Len(sent)
  BY <1>2 DEF PolledInv
<1>5. ~InRing /\ ~InHand /\ Read = got
  BY <1>1 DEF InRing, InHand, Read
<1>6. /\ Decoded(sent, n).shift = ShiftAfter(sent[n], shift_pressed)
      /\ Decoded(sent, n).keys = (IF c = "none" THEN got ELSE Append(got, k))
  BY <1>3, <1>4, <1>5, DecodedFields
<1>7. /\ shift_pressed' = ShiftAfter(sent[n], shift_pressed) /\ key' = k
      /\ pc' = (IF c = "none" THEN NothingPolled ELSE IF asks THEN "add_next" ELSE "return")
  BY <1>1, <1>3
<1>8. n \in 0..Len(sent)
  BY <1>1, <1>2, <1>3 DEF TypeOK
<1> HIDE DEF n, c, d, k
<1>9. ~InRing' /\ ~Adding' /\ pc' \notin {"available", "add_end", "poll_data", "poll_decode"}
  BY <1>7 DEF NothingPolled, InRing, Adding
<1>10. DecodedBytes' = n
  BY <1>2, <1>9 DEF DecodedBytes
<1>11. Read' = (IF c = "none" THEN got ELSE Append(got, k))
  <2>1. CASE c = "none"
    <3>1. ~InHand'
      BY <1>7, <2>1 DEF NothingPolled, InHand
    <3> QED BY <1>1, <1>9, <2>1, <3>1 DEF Read
  <2>2. CASE c # "none"
    <3>1. InHand'
      BY <1>7, <2>2 DEF InHand
    <3> QED BY <1>1, <1>7, <2>2, <3>1 DEF Read, Held
  <2> QED BY <2>1, <2>2
<1>12. pc' = "add_next" => asks'
  BY <1>1, <1>7 DEF NothingPolled
<1>13. /\ shift_pressed' = Decoded(sent', DecodedBytes').shift
       /\ Read' = Decoded(sent', DecodedBytes').keys
  BY <1>1, <1>6, <1>7, <1>10, <1>11
<1>14. buffer_end' = buffer_start'
  BY <1>1, <1>4, <1>5
<1> QED BY <1>1, <1>4, <1>8, <1>9, <1>10, <1>12, <1>13, <1>14 DEF PolledInv

LEMMA FrozenPolled ==
  ASSUME PolledInv, UNCHANGED <<sent, port, full, shift_pressed, got, pc, asks>>,
         UNCHANGED <<key_buffer, buffer_start, buffer_end, scancode, key, next>>
  PROVE  PolledInv'
BY DEF PolledInv, DecodedBytes, TakenBytes, Read, Held, InRing, InHand, Adding

LEMMA InterruptPolled ==
  ASSUME PolledInv, Polled, Interrupt
  PROVE  PolledInv'
<1>1. UNCHANGED <<setup, sent, port, full, shift_pressed, ring>>
  BY DEF Interrupt, Polled
<1>2. UNCHANGED <<locals, got>> /\ pc' = (IF pc = "hlt" THEN "poll_status" ELSE pc)
  BY DEF Interrupt
<1>3. CASE pc = "hlt"
  BY <1>1, <1>2, <1>3, QuietPolled DEF InRing, InHand, Adding, ring, locals
<1>4. CASE pc # "hlt"
  BY <1>1, <1>2, <1>4, FrozenPolled DEF ring, locals
<1> QED BY <1>3, <1>4

(* A handler that never runs does not run on another line's interrupt.     *)
LEMMA NoStray == Polled => ~Stray
BY DEF Polled, Stray

(* buffer_add and buffer_get with nobody in between.                       *)
LEMMA AddPolled ==
  ASSUME TypeOK, PolledInv, AddNext \/ AddCheck \/ AddStore \/ AddEnd
  PROVE  PolledInv'
<1> USE DEF Goto, device, ring, locals
<1>1. /\ asks /\ InHand /\ ~InRing /\ buffer_end = buffer_start
      /\ buffer_start \in RingIndex /\ Succ(buffer_start) # buffer_start
  <2>1. buffer_start \in RingIndex /\ Succ(buffer_start) # buffer_start
    BY SuccIs, KeyboardParameters DEF TypeOK, RingIndex
  <2> QED BY <2>1 DEF PolledInv, AddNext, AddCheck, AddStore, AddEnd, InHand, InRing, Adding
<1>2. /\ UNCHANGED <<sent, port, full, shift_pressed, got, asks, key>>
      /\ pc # "poll_decode" /\ pc' # "poll_decode" /\ pc' # "poll_data" /\ pc' # "available"
      /\ buffer_start' = buffer_start
  BY DEF AddNext, AddCheck, AddStore, AddEnd
<1>3. DecodedBytes' = DecodedBytes
  BY <1>2 DEF DecodedBytes, TakenBytes
<1>4. Read = Append(got, key)
  BY <1>1 DEF Read, Held
<1>5. CASE AddNext
  <2>1. InHand' /\ ~InRing' /\ pc' # "add_end" /\ next' = Succ(buffer_end') /\ buffer_end' = buffer_end
    BY <1>5 DEF AddNext, InHand, InRing
  <2>2. Read' = Read
    BY <1>2, <1>4, <2>1 DEF Read, Held
  <2> QED BY <1>1, <1>2, <1>3, <2>1, <2>2 DEF PolledInv
<1>6. CASE AddCheck
  <2>1. next = Succ(buffer_end)
    BY <1>6 DEF PolledInv, AddCheck, Adding
  <2>2. /\ pc' = "add_store" /\ InHand' /\ ~InRing' /\ next' = Succ(buffer_end')
        /\ buffer_end' = buffer_end
    BY <1>1, <1>6, <2>1 DEF AddCheck, InHand, InRing
  <2>3. Read' = Read
    BY <1>2, <1>4, <2>2 DEF Read, Held
  <2> QED BY <1>1, <1>2, <1>3, <2>2, <2>3 DEF PolledInv
<1>7. CASE AddStore
  <2>1. next = Succ(buffer_end)
    BY <1>7 DEF PolledInv, AddStore, Adding
  <2>2. /\ InHand' /\ ~InRing' /\ next' = Succ(buffer_end') /\ buffer_end' = buffer_end
        /\ key_buffer'[buffer_start'] = key'
    BY <1>1, <1>2, <1>7, <2>1 DEF AddStore, InHand, InRing, TypeOK
  <2>3. Read' = Read
    BY <1>2, <1>4, <2>2 DEF Read, Held
  <2> QED BY <1>1, <1>2, <1>3, <2>2, <2>3 DEF PolledInv
<1>8. CASE AddEnd
  <2>1. next = Succ(buffer_end) /\ key_buffer[buffer_start] = key
    BY <1>8 DEF PolledInv, AddEnd, Adding
  <2>2. /\ ~InHand' /\ InRing' /\ ~Adding' /\ pc' = "getchar"
        /\ buffer_end' = Succ(buffer_start') /\ key_buffer'[buffer_start'] = key
    BY <1>1, <1>2, <1>8, <2>1 DEF AddEnd, InHand, InRing, Adding
  <2>3. Read' = Read
    BY <1>2, <1>4, <2>2 DEF Read, Held
  <2> QED BY <1>1, <1>2, <1>3, <2>2, <2>3 DEF PolledInv
<1> QED BY <1>5, <1>6, <1>7, <1>8

LEMMA GetPolled ==
  ASSUME TypeOK, PolledInv, Getchar \/ GetRead \/ GetAdvance \/ Return
  PROVE  PolledInv'
<1> USE DEF Goto, device, ring, locals
<1>1. buffer_start \in RingIndex /\ Succ(buffer_start) # buffer_start
  BY SuccIs, KeyboardParameters DEF TypeOK, RingIndex
<1>2. /\ UNCHANGED <<sent, port, full, shift_pressed, asks, key_buffer, buffer_end>>
      /\ pc # "poll_decode" /\ ~Adding'
      /\ pc' \notin {"available", "poll_data", "poll_decode", "add_next", "add_end"}
  BY DEF Getchar, GetRead, GetAdvance, Return, Adding
<1>3. DecodedBytes' = DecodedBytes
  BY <1>2 DEF DecodedBytes, TakenBytes
<1>4. CASE Getchar
  <2>1. buffer_start # buffer_end <=> asks
    BY <1>1, <1>4 DEF PolledInv, Getchar, InRing
  <2>2. InRing' = InRing /\ InHand' = InHand
    BY <1>4, <2>1 DEF Getchar, InRing, InHand
  <2> QED BY <1>2, <1>4, <2>2, QuietPolled DEF Getchar
<1>5. CASE GetRead
  <2>1. /\ InRing /\ ~InHand /\ InRing' /\ InHand' /\ key' = key_buffer[buffer_start]
        /\ buffer_start' = buffer_start /\ got' = got
    BY <1>5 DEF GetRead, InRing, InHand
  <2>2. Read' = Read
    BY <1>2, <2>1 DEF Read, Held
  <2> QED BY <1>2, <1>3, <2>1, <2>2 DEF PolledInv
<1>6. CASE GetAdvance
  <2>1. /\ InRing /\ InHand /\ ~InRing' /\ InHand' /\ key' = key /\ got' = got
        /\ buffer_start' = Succ(buffer_start)
    BY <1>6 DEF GetAdvance, InRing, InHand
  <2>2. Read' = Read
    BY <1>2, <2>1 DEF Read, Held
  <2>3. buffer_end' = buffer_start'
    BY <1>2, <2>1 DEF PolledInv
  <2> QED BY <1>2, <1>3, <2>1, <2>2, <2>3 DEF PolledInv
<1>7. CASE Return
  <2>1. /\ ~InRing /\ InHand /\ ~InRing' /\ ~InHand' /\ got' = Append(got, key)
        /\ buffer_start' = buffer_start
    BY <1>7 DEF Return, InRing, InHand
  <2>2. Read' = Read
    BY <1>2, <2>1 DEF Read, Held
  <2> QED BY <1>2, <1>3, <2>1, <2>2 DEF PolledInv
<1> QED BY <1>4, <1>5, <1>6, <1>7

LEMMA NextPolled ==
  ASSUME TypeOK, PolledInv, Polled, [Next]_vars
  PROVE  PolledInv'
<1> USE DEF Goto, device, ring, locals
<1>1. CASE UNCHANGED vars
  BY <1>1, FrozenPolled DEF vars
<1>2. CASE Call \/ TimerWakes
  <2>1. InRing' = InRing /\ InHand' = InHand /\ ~Adding' /\ (pc' = "available" => asks')
    BY <1>2 DEF Call, TimerWakes, InRing, InHand, Adding
  <2> QED BY <1>2, <2>1, QuietPolled DEF Call, TimerWakes
<1>3. CASE Available
  <2>1. buffer_start = buffer_end
    BY <1>3 DEF Available, PolledInv, InRing
  <2>2. InRing' = InRing /\ InHand' = InHand /\ ~Adding'
    BY <1>3, <2>1 DEF Available, InRing, InHand, Adding
  <2> QED BY <1>3, <2>1, <2>2, QuietPolled DEF Available
<1>4. CASE Status
  <2>1. InRing' = InRing /\ InHand' = InHand /\ ~Adding'
    BY <1>4 DEF Status, InRing, InHand, Adding
  <2> QED BY <1>4, <2>1, QuietPolled DEF Status
<1>5. CASE PollStatus
  <2>1. /\ ~InRing /\ ~InRing' /\ ~InHand /\ ~InHand' /\ ~Adding' /\ (pc' = "poll_data" => full')
        /\ pc # "poll_decode" /\ pc' \notin {"available", "add_next", "add_end", "poll_decode"}
        /\ UNCHANGED <<sent, port, full, shift_pressed, got, buffer_start, buffer_end>>
    BY <1>5 DEF PollStatus, NothingPolled, InRing, InHand, Adding
  <2>2. DecodedBytes' = DecodedBytes /\ Read' = Read
    BY <2>1 DEF DecodedBytes, TakenBytes, Read
  <2> QED BY <2>1, <2>2 DEF PolledInv
<1> QED BY <1>1, <1>2, <1>3, <1>4, <1>5, SendPolled, InterruptPolled, NoStray, PollDataPolled,
           PollDecodePolled, AddPolled, GetPolled DEF Next, Main

-----------------------------------------------------------------------------
LEMMA SetupStays ==
  ASSUME [Next]_vars
  PROVE  Polled' = Polled
<1>1. setup' = setup
  BY DEF Next, Main, vars, device, Send, Interrupt, Stray, Handler, ReadPort, Call, Available, Status,
         PollStatus, PollData, PollDecode, AddNext, AddCheck, AddStore, AddEnd, Getchar, GetRead,
         GetAdvance, Return, TimerWakes
<1> QED BY <1>1 DEF Polled

(* keyboard.c, all of it: the state the driver is in between any two       *)
(* statements of the main loop, with the handler coming in anywhere.       *)
THEOREM KeyboardInvariant == Spec => []KeyboardInv
<1>1. Init => KeyboardInv
  BY InitTyped, InitRing, InitPolled DEF KeyboardInv
<1>2. KeyboardInv /\ [Next]_vars => KeyboardInv'
  <2> SUFFICES ASSUME KeyboardInv, [Next]_vars PROVE KeyboardInv'
    OBVIOUS
  <2>1. TypeOK' /\ RingInv'
    BY NextTyped, NextRing DEF KeyboardInv
  <2>2. Polled' => PolledInv'
    BY SetupStays, NextPolled DEF KeyboardInv
  <2> QED BY <2>1, <2>2 DEF KeyboardInv
<1> QED BY <1>1, <1>2, PTL DEF Spec

(* Every variable of the driver keeps its type; the two indices stay       *)
(* inside key_buffer (keyboard.c:63-79).                                   *)
THEOREM KeyboardTypeOK == Spec => []TypeOK
<1>1. KeyboardInv => TypeOK
  BY DEF KeyboardInv
<1> QED BY <1>1, KeyboardInvariant, PTL

(* No interleaving of handler and main loop inside buffer_add leaves a     *)
(* slot between buffer_start and buffer_end that holds an old key, for a   *)
(* ring of any size (keyboard.c:63-79).                                    *)
THEOREM KeyboardNoStaleKey == Spec => []NoStaleKeyReadable
<1>1. KeyboardInv => NoStaleKeyReadable
  BY UsedIsFar DEF KeyboardInv, RingInv, NoStaleKeyReadable
<1> QED BY <1>1, KeyboardInvariant, PTL

(* After keyboard_available has returned 1 there is a key in the ring, and *)
(* keyboard_getchar does not reach its loop with hlt (keyboard.c:282-315). *)
THEOREM KeyboardNeverBlocks == Spec => []GetcharNeverBlocks
<1>1. KeyboardInv => GetcharNeverBlocks
  BY DEF KeyboardInv, RingInv
<1> QED BY <1>1, KeyboardInvariant, PTL

(* What the callers have read is a first part of what all bytes stand for. *)
LEMMA ReadInOrder ==
  ASSUME TypeOK, PolledInv
  PROVE  IsPrefix(got, Expected)
<1> DEFINE k == Decoded(sent, DecodedBytes).keys
           e == Decoded(sent, Len(sent)).keys
           K == [id : Nat, char : {"a", "A", "up", "8"}]
<1>1. DecodedBytes \in Nat /\ Len(sent) \in Nat /\ DecodedBytes <= Len(sent)
  BY DEF TypeOK, PolledInv
<1>2. IsPrefix(k, e) /\ k \in Seq(K) /\ e \in Seq(K)
  BY <1>1, DecodedGrows, DecodedTyped
<1>3. got \in Seq(Key) /\ (k = got \/ \E h : k = Append(got, h))
  BY DEF TypeOK, PolledInv, Read
<1> HIDE DEF k, e, K
<1>4. Len(got) <= Len(k) /\ \A i \in 1..Len(got) : k[i] = got[i]
  BY <1>2, <1>3
<1>5. Len(k) <= Len(e) /\ \A i \in 1..Len(k) : k[i] = e[i]
  <2>1. Len(k) \in Nat /\ Len(e) \in Nat /\ Len(k) <= Len(e)
    BY <1>2 DEF IsPrefix
  <2>2. \A i \in 1..Len(k) : SubSeq(k, 1, Len(k))[i] = k[i] /\ SubSeq(e, 1, Len(k))[i] = e[i]
    BY <1>2, <2>1
  <2>3. SubSeq(k, 1, Len(k)) = SubSeq(e, 1, Len(k))
    BY <1>2 DEF IsPrefix
  <2> QED BY <2>1, <2>2, <2>3
<1>6. Len(got) <= Len(e) /\ \A i \in 1..Len(got) : got[i] = e[i]
  BY <1>2, <1>3, <1>4, <1>5
<1>7. SubSeq(got, 1, Len(got)) = SubSeq(e, 1, Len(got))
  BY <1>2, <1>3, <1>6
<1> QED BY <1>6, <1>7, ExpectedIs DEF IsPrefix, e

(* With the port left to the main loop, every key comes out once, in the   *)
(* order it was typed and with the shift state of its moment, however many *)
(* bytes are typed and by either way into keyboard_getchar                 *)
(* (keyboard.c:235-315).                                                   *)
THEOREM KeyboardPolledInOrder == Spec => []PolledInOrder
<1>1. KeyboardInv => PolledInOrder
  BY ReadInOrder DEF KeyboardInv, PolledInOrder
<1> QED BY <1>1, KeyboardInvariant, PTL

-----------------------------------------------------------------------------
(* The text screen.  Cells are numbered row by row: quotient and remainder *)
(* are the row and the column of a cell.                                   *)
LEMMA DivMod ==
  ASSUME NEW a \in Nat, NEW b \in Nat \ {0}
  PROVE  /\ a \div b \in Nat /\ a % b \in 0..(b - 1)
         /\ a = (a \div b) * b + (a % b)
OBVIOUS

(* A later row begins at least one row behind.                             *)
LEMMA TimesMonotone ==
  ASSUME NEW p \in Nat, NEW q \in Nat, NEW b \in Nat \ {0}, p < q
  PROVE  /\ p * b \in Nat /\ q * b \in Nat
         /\ p * b + b <= q * b
<1>1. PICK d \in Nat : q = p + 1 + d
  <2>1. q - p - 1 \in Nat /\ q = p + 1 + (q - p - 1)
    OBVIOUS
  <2> QED BY <2>1
<1>2. q * b = p * b + b + d * b
  BY <1>1
<1>3. p * b \in Nat /\ q * b \in Nat /\ d * b \in Nat
  OBVIOUS
<1> QED BY <1>2, <1>3

(* A cell has one row and one column.                                      *)
LEMMA DivModUnique ==
  ASSUME NEW b \in Nat \ {0}, NEW q \in Nat, NEW c \in 0..(b - 1)
  PROVE  /\ q * b + c \in Nat
         /\ (q * b + c) \div b = q /\ (q * b + c) % b = c
<1> DEFINE a == q * b + c  p == a \div b  m == a % b
<1>1. a \in Nat /\ p \in Nat /\ m \in 0..(b - 1) /\ a = p * b + m
  <2>1. q * b \in Nat
    OBVIOUS
  <2>2. a \in Nat
    BY <2>1
  <2> QED BY <2>2, DivMod
<1> HIDE DEF p, m
<1>2. ~(p < q)
  BY <1>1, TimesMonotone
<1>3. ~(q < p)
  BY <1>1, TimesMonotone
<1>4. p = q
  BY <1>1, <1>2, <1>3
<1>5. m = c
  <2>1. q * b + m = q * b + c /\ q * b \in Nat
    BY <1>1, <1>4
  <2> QED BY <2>1, <1>1
<1> QED BY <1>1, <1>4, <1>5 DEF p, m

-----------------------------------------------------------------------------
(* The screen s shows the sheet sh, where it is not written on the paper.  *)
ShownRow(sh) == IF sh.row < VGA_HEIGHT THEN sh.row ELSE VGA_HEIGHT - 1

Shows(s, sh, paper) ==
  /\ s.col = sh.col
  /\ s.row = ShownRow(sh)
  /\ s.buf = LastRows(sh, paper)

(* A sheet is written no further than its position.                        *)
SheetOK(sh) ==
  /\ sh \in [text : {sh.text}, row : Nat, col : 0..(VGA_WIDTH - 1)]
  /\ \A p \in DOMAIN sh.text : p[1] \in 0..sh.row

(* A row and a column of the screen are a cell, and its division by the    *)
(* width gives them back.                                                  *)
LEMMA CellAt ==
  ASSUME NEW r \in 0..(VGA_HEIGHT - 1), NEW c \in 0..(VGA_WIDTH - 1)
  PROVE  /\ r * VGA_WIDTH + c \in CellsShown
         /\ (r * VGA_WIDTH + c) \div VGA_WIDTH = r /\ (r * VGA_WIDTH + c) % VGA_WIDTH = c
<1>1. VGA_WIDTH \in Nat \ {0} /\ VGA_HEIGHT \in Nat /\ r < VGA_HEIGHT /\ r \in Nat
  BY VgaParameters
<1>2. r * VGA_WIDTH + VGA_WIDTH <= VGA_HEIGHT * VGA_WIDTH /\ r * VGA_WIDTH \in Nat
  BY <1>1, TimesMonotone
<1>3. VGA_HEIGHT * VGA_WIDTH = VGA_WIDTH * VGA_HEIGHT
  BY <1>1
<1>4. r * VGA_WIDTH + c \in CellsShown
  BY <1>1, <1>2, <1>3 DEF CellsShown
<1> QED BY <1>1, <1>4, DivModUnique

(* Every cell has a row and a column.                                      *)
LEMMA CellPlace ==
  ASSUME NEW i \in CellsShown
  PROVE  /\ i \div VGA_WIDTH \in 0..(VGA_HEIGHT - 1) /\ i % VGA_WIDTH \in 0..(VGA_WIDTH - 1)
         /\ i = (i \div VGA_WIDTH) * VGA_WIDTH + (i % VGA_WIDTH)
<1> DEFINE q == i \div VGA_WIDTH  m == i % VGA_WIDTH
<1>1. VGA_WIDTH \in Nat \ {0} /\ VGA_HEIGHT \in Nat /\ i \in Nat
  BY VgaParameters DEF CellsShown
<1>2. q \in Nat /\ m \in 0..(VGA_WIDTH - 1) /\ i = q * VGA_WIDTH + m
  BY <1>1, DivMod
<1> HIDE DEF q, m
<1>3. ASSUME VGA_HEIGHT <= q PROVE FALSE
  <2>1. VGA_HEIGHT * VGA_WIDTH <= q * VGA_WIDTH
    <3>1. CASE VGA_HEIGHT = q
      BY <3>1, <1>1, <1>2
    <3>2. CASE VGA_HEIGHT < q
      BY <3>2, <1>1, <1>2, TimesMonotone
    <3> QED BY <3>1, <3>2, <1>3, <1>1, <1>2
  <2>2. VGA_HEIGHT * VGA_WIDTH = VGA_WIDTH * VGA_HEIGHT /\ q * VGA_WIDTH \in Nat
    BY <1>1, <1>2
  <2>3. i < VGA_WIDTH * VGA_HEIGHT /\ VGA_WIDTH * VGA_HEIGHT \in Nat
    BY <1>1 DEF CellsShown
  <2> QED BY <2>1, <2>2, <2>3, <1>1, <1>2
<1>4. q \in 0..(VGA_HEIGHT - 1)
  BY <1>1, <1>2, <1>3
<1> QED BY <1>2, <1>4 DEF q, m

(* The cell below a cell.                                                  *)
LEMMA CellBelow ==
  ASSUME NEW i \in CellsShown
  PROVE  /\ i < LastLine <=> i \div VGA_WIDTH < VGA_HEIGHT - 1
         /\ i < LastLine => /\ i + VGA_WIDTH \in CellsShown
                            /\ (i + VGA_WIDTH) \div VGA_WIDTH = (i \div VGA_WIDTH) + 1
                            /\ (i + VGA_WIDTH) % VGA_WIDTH = i % VGA_WIDTH
<1> DEFINE q == i \div VGA_WIDTH  m == i % VGA_WIDTH
<1>1. VGA_WIDTH \in Nat \ {0} /\ VGA_HEIGHT \in Nat \ {0} /\ i \in Nat
  BY VgaParameters DEF CellsShown
<1>2. q \in 0..(VGA_HEIGHT - 1) /\ m \in 0..(VGA_WIDTH - 1) /\ i = q * VGA_WIDTH + m
  BY CellPlace
<1> HIDE DEF q, m
<1>3. LastLine = (VGA_HEIGHT - 1) * VGA_WIDTH /\ LastLine \in Nat /\ q * VGA_WIDTH \in Nat
  BY <1>1, <1>2 DEF LastLine
<1>4. CASE q < VGA_HEIGHT - 1
  <2>1. q * VGA_WIDTH + VGA_WIDTH <= (VGA_HEIGHT - 1) * VGA_WIDTH
    BY <1>1, <1>2, <1>4, TimesMonotone
  <2>2. i < LastLine
    BY <2>1, <1>1, <1>2, <1>3
  <2>3. i + VGA_WIDTH = (q + 1) * VGA_WIDTH + m
    BY <1>1, <1>2
  <2>4. q + 1 \in 0..(VGA_HEIGHT - 1)
    BY <1>1, <1>2, <1>4
  <2>5. /\ i + VGA_WIDTH \in CellsShown
        /\ (i + VGA_WIDTH) \div VGA_WIDTH = q + 1 /\ (i + VGA_WIDTH) % VGA_WIDTH = m
    BY <1>2, <2>3, <2>4, CellAt
  <2> QED BY <1>4, <2>2, <2>5 DEF q, m
<1>5. CASE q = VGA_HEIGHT - 1
  <2>1. ~(i < LastLine)
    BY <1>1, <1>2, <1>3, <1>5
  <2>2. ~(q < VGA_HEIGHT - 1)
    BY <1>1, <1>5
  <2> QED BY <2>1, <2>2 DEF q
<1> QED BY <1>1, <1>2, <1>4, <1>5

-----------------------------------------------------------------------------
Top(sh) == IF sh.row < VGA_HEIGHT THEN 0 ELSE sh.row - VGA_HEIGHT + 1

CellOf(sh, paper, r, c) ==
  IF <<r, c>> \in DOMAIN sh.text THEN sh.text[<<r, c>>]
  ELSE IF r < VGA_HEIGHT THEN paper ELSE space

(* LastRows by cells.                                                      *)
LEMMA LastRowsIs ==
  ASSUME NEW sh, NEW paper
  PROVE  LastRows(sh, paper) =
           [i \in CellsShown |-> CellOf(sh, paper, Top(sh) + (i \div VGA_WIDTH), i % VGA_WIDTH)]
BY DEF LastRows, CellOf, Top

(* A new row shows the sheet with a new row, scrolled (vga.c:71, 99, 112)  *)
(* or not.                                                                 *)
LEMMA NewRowShows ==
  ASSUME NEW s \in Screens, NEW sh, NEW paper, SheetOK(sh),
         Shows([s EXCEPT !.col = sh.col], sh, paper)
  PROVE  LET below == [sh EXCEPT !.row = @ + 1, !.col = 0]
         IN  SheetOK(below) /\ Shows(NewRow([s EXCEPT !.col = 0]), below, paper)
<1> DEFINE below == [sh EXCEPT !.row = @ + 1, !.col = 0]  t == [s EXCEPT !.col = 0]
<1>1. /\ VGA_WIDTH \in Nat \ {0} /\ VGA_HEIGHT \in Nat \ {0, 1}
      /\ sh.row \in Nat /\ \A p \in DOMAIN sh.text : p[1] \in 0..sh.row
  BY VgaParameters DEF SheetOK
<1>2. below.row = sh.row + 1 /\ below.col = 0 /\ below.text = sh.text
  BY DEF SheetOK
<1>3. below \in [text : {sh.text}, row : Nat, col : 0..(VGA_WIDTH - 1)]
  <2>1. sh \in [text : {sh.text}, row : Nat, col : 0..(VGA_WIDTH - 1)]
    BY DEF SheetOK
  <2>2. 0 \in 0..(VGA_WIDTH - 1) /\ sh.row + 1 \in Nat
    BY <1>1
  <2> QED BY <2>1, <2>2
<1>4. /\ t.row = ShownRow(sh)
      /\ t.buf = LastRows(sh, paper) /\ t.col = 0 /\ t \in Screens
  BY DEF Shows, ShownRow, Screens
<1> SUFFICES SheetOK(below) /\ Shows(NewRow(t), below, paper)
  OBVIOUS
<1> HIDE DEF below, t
<1>5. SheetOK(below)
  <2>1. below \in [text : {below.text}, row : Nat, col : 0..(VGA_WIDTH - 1)]
    BY <1>2, <1>3
  <2>2. \A p \in DOMAIN sh.text : p[1] \in 0..(sh.row + 1)
    <3> TAKE p \in DOMAIN sh.text
    <3> QED BY <1>1
  <2> QED BY <2>1, <2>2, <1>2 DEF SheetOK
<1>6. CASE sh.row + 1 < VGA_HEIGHT
  <2>1. NewRow(t) = [t EXCEPT !.row = @ + 1]
    BY <1>1, <1>4, <1>6 DEF NewRow, ShownRow
  <2>2. NewRow(t).row = sh.row + 1 /\ NewRow(t).col = 0 /\ NewRow(t).buf = t.buf
    BY <2>1, <1>1, <1>4, <1>6 DEF Screens, ShownRow
  <2>3. Top(below) = 0 /\ Top(sh) = 0
    BY <1>1, <1>2, <1>6 DEF Top
  <2>4. LastRows(below, paper) = LastRows(sh, paper)
    BY <2>3, <1>2, LastRowsIs DEF CellOf
  <2> QED BY <2>2, <2>4, <1>1, <1>2, <1>4, <1>5, <1>6 DEF Shows, ShownRow
<1>7. CASE ~(sh.row + 1 < VGA_HEIGHT)
  <2>1. t.row = VGA_HEIGHT - 1
    BY <1>1, <1>4, <1>7 DEF ShownRow
  <2>2. NewRow(t) = [t EXCEPT !.buf = Scrolled(@), !.row = VGA_HEIGHT - 1]
    BY <2>1, <1>1 DEF NewRow
  <2>3. /\ NewRow(t).row = VGA_HEIGHT - 1 /\ NewRow(t).col = 0
        /\ NewRow(t).buf = Scrolled(LastRows(sh, paper))
    BY <2>2, <1>4 DEF Screens
  <2>4. Top(below) = Top(sh) + 1 /\ Top(sh) \in Nat /\ Top(below) + (VGA_HEIGHT - 1) = sh.row + 1
    BY <1>1, <1>2, <1>7 DEF Top
  <2>5. ASSUME NEW i \in CellsShown
        PROVE  Scrolled(LastRows(sh, paper))[i] = LastRows(below, paper)[i]
    <3> DEFINE q == i \div VGA_WIDTH  m == i % VGA_WIDTH
    <3>1. q \in 0..(VGA_HEIGHT - 1) /\ m \in 0..(VGA_WIDTH - 1)
      BY CellPlace
    <3>2. /\ i < LastLine <=> q < VGA_HEIGHT - 1
          /\ i < LastLine => /\ i + VGA_WIDTH \in CellsShown
                             /\ (i + VGA_WIDTH) \div VGA_WIDTH = q + 1
                             /\ (i + VGA_WIDTH) % VGA_WIDTH = m
      BY CellBelow
    <3>3. LastRows(below, paper)[i] = CellOf(below, paper, Top(below) + q, m)
      BY LastRowsIs
    <3>4. i < LastLine =>
            LastRows(sh, paper)[i + VGA_WIDTH] = CellOf(sh, paper, Top(sh) + (q + 1), m)
      BY <3>2, LastRowsIs
    <3>5. Scrolled(LastRows(sh, paper))[i] =
            IF i < LastLine THEN LastRows(sh, paper)[i + VGA_WIDTH] ELSE space
      BY DEF Scrolled
    <3> HIDE DEF q, m
    <3>6. CASE i < LastLine
      <4>1. Top(sh) + (q + 1) = Top(below) + q
        BY <2>4, <3>1
      <4> QED BY <4>1, <3>3, <3>4, <3>5, <3>6, <1>2 DEF CellOf
    <3>7. CASE ~(i < LastLine)
      <4>1. q = VGA_HEIGHT - 1
        BY <3>1, <3>2, <3>7, <1>1
      <4>2. Top(below) + q = sh.row + 1 /\ ~(sh.row + 1 < VGA_HEIGHT)
        BY <4>1, <2>4, <1>7
      <4>3. <<sh.row + 1, m>> \notin DOMAIN below.text
        BY <1>1, <1>2
      <4>4. CellOf(below, paper, sh.row + 1, m) = space
        BY <4>2, <4>3 DEF CellOf
      <4> QED BY <4>2, <4>4, <3>3, <3>5, <3>7
    <3> QED BY <3>6, <3>7
  <2>6. Scrolled(LastRows(sh, paper)) = LastRows(below, paper)
    BY <2>5, LastRowsIs DEF Scrolled
  <2>7. below.row >= VGA_HEIGHT
    BY <1>1, <1>2, <1>7
  <2> QED BY <2>3, <2>6, <2>7, <1>1, <1>2, <1>5 DEF Shows, ShownRow
<1> QED BY <1>5, <1>6, <1>7

(* A glyph in the line of the position.                                    *)
TextWith(sh, c, g) ==
  [p \in DOMAIN sh.text \cup {<<sh.row, c>>} |-> IF p = <<sh.row, c>> THEN g ELSE sh.text[p]]

LEMMA StoredShows ==
  ASSUME NEW sh, NEW put, NEW paper, NEW c \in 0..(VGA_WIDTH - 1), NEW g,
         SheetOK(sh), put.row = sh.row, put.text = TextWith(sh, c, g)
  PROVE  Stored(LastRows(sh, paper), ShownRow(sh) * VGA_WIDTH + c, g) = LastRows(put, paper)
<1> DEFINE row == ShownRow(sh)
<1>1. VGA_WIDTH \in Nat \ {0} /\ VGA_HEIGHT \in Nat \ {0, 1} /\ sh.row \in Nat
  BY VgaParameters DEF SheetOK
<1>2. row \in 0..(VGA_HEIGHT - 1) /\ Top(sh) + row = sh.row /\ Top(put) = Top(sh) /\ Top(sh) \in Nat
  BY <1>1 DEF Top, ShownRow
<1> HIDE DEF row
<1>3. /\ (row * VGA_WIDTH + c) \div VGA_WIDTH = row
      /\ (row * VGA_WIDTH + c) % VGA_WIDTH = c
  BY <1>2, CellAt
<1>4. ASSUME NEW i \in CellsShown
      PROVE  Stored(LastRows(sh, paper), row * VGA_WIDTH + c, g)[i] = LastRows(put, paper)[i]
  <2> DEFINE q == i \div VGA_WIDTH  m == i % VGA_WIDTH
  <2>1. q \in 0..(VGA_HEIGHT - 1) /\ m \in 0..(VGA_WIDTH - 1) /\ i = q * VGA_WIDTH + m
    BY CellPlace
  <2>2. LastRows(put, paper)[i] = CellOf(put, paper, Top(sh) + q, m)
    BY <1>2, LastRowsIs
  <2>3. LastRows(sh, paper)[i] = CellOf(sh, paper, Top(sh) + q, m)
    BY LastRowsIs
  <2>4. Stored(LastRows(sh, paper), row * VGA_WIDTH + c, g)[i] =
          IF i = row * VGA_WIDTH + c THEN g ELSE LastRows(sh, paper)[i]
    BY DEF Stored
  <2>5. i = row * VGA_WIDTH + c <=> q = row /\ m = c
    BY <1>3, <2>1
  <2> HIDE DEF q, m
  <2>6. <<Top(sh) + q, m>> = <<sh.row, c>> <=> q = row /\ m = c
    BY <1>2, <2>1
  <2>7. CASE q = row /\ m = c
    <3>1. CellOf(put, paper, Top(sh) + q, m) = g
      BY <2>6, <2>7 DEF CellOf, TextWith
    <3> QED BY <3>1, <2>2, <2>4, <2>5, <2>7
  <2>8. CASE ~(q = row /\ m = c)
    <3> DEFINE p == <<Top(sh) + q, m>>
    <3>1. p # <<sh.row, c>>
      BY <2>6, <2>8
    <3> HIDE DEF p
    <3>2. (p \in DOMAIN put.text <=> p \in DOMAIN sh.text)
          /\ (p \in DOMAIN sh.text => put.text[p] = sh.text[p])
      BY <3>1 DEF TextWith
    <3>3. CellOf(put, paper, Top(sh) + q, m) = CellOf(sh, paper, Top(sh) + q, m)
      BY <3>2 DEF CellOf, p
    <3> QED BY <3>3, <2>2, <2>3, <2>4, <2>5, <2>8
  <2> QED BY <2>7, <2>8
<1>5. Stored(LastRows(sh, paper), row * VGA_WIDTH + c, g) = LastRows(put, paper)
  BY <1>4, LastRowsIs DEF Stored
<1> QED BY <1>5 DEF row

(* Moving in the line changes no cell.                                     *)
LEMMA ColumnShows ==
  ASSUME NEW s \in Screens, NEW sh, NEW paper, NEW c \in 0..(VGA_WIDTH - 1),
         SheetOK(sh), Shows([s EXCEPT !.col = sh.col], sh, paper)
  PROVE  /\ SheetOK([sh EXCEPT !.col = c])
         /\ Shows([s EXCEPT !.col = c], [sh EXCEPT !.col = c], paper)
<1> DEFINE below == [sh EXCEPT !.col = c]  t == [s EXCEPT !.col = c]
<1>1. below.row = sh.row /\ below.col = c /\ below.text = sh.text
  BY DEF SheetOK
<1>2. below \in [text : {sh.text}, row : Nat, col : 0..(VGA_WIDTH - 1)]
  BY DEF SheetOK
<1>3. /\ t.row = ShownRow(sh)
      /\ t.buf = LastRows(sh, paper) /\ t.col = c
  BY DEF Shows, Screens
<1> SUFFICES SheetOK(below) /\ Shows(t, below, paper)
  OBVIOUS
<1> HIDE DEF below, t
<1>4. SheetOK(below)
  <2>1. below \in [text : {below.text}, row : Nat, col : 0..(VGA_WIDTH - 1)]
    BY <1>1, <1>2
  <2> QED BY <2>1, <1>1 DEF SheetOK
<1>5. LastRows(below, paper) = LastRows(sh, paper)
  BY <1>1 DEF LastRows
<1> QED BY <1>1, <1>3, <1>4, <1>5 DEF Shows, ShownRow

(* A stored glyph shows the sheet with the glyph (vga.c:89, 108).          *)
LEMMA PutShows ==
  ASSUME NEW s \in Screens, NEW sh, NEW paper, NEW c \in 0..(VGA_WIDTH - 1), NEW g,
         SheetOK(sh), Shows([s EXCEPT !.col = sh.col], sh, paper)
  PROVE  LET put == [sh EXCEPT !.text = TextWith(sh, c, g)]
             t   == [s EXCEPT !.buf = Stored(@, s.row * VGA_WIDTH + c, g)]
         IN  SheetOK(put) /\ Shows([t EXCEPT !.col = put.col], put, paper)
<1> DEFINE new == TextWith(sh, c, g)
           put == [sh EXCEPT !.text = new]
           buf == Stored(s.buf, s.row * VGA_WIDTH + c, g)
           t   == [s EXCEPT !.buf = buf]
<1>1. put.row = sh.row /\ put.col = sh.col /\ put.text = new
  BY DEF SheetOK
<1>2. put \in [text : {new}, row : Nat, col : 0..(VGA_WIDTH - 1)]
  BY DEF SheetOK
<1>3. DOMAIN new = DOMAIN sh.text \cup {<<sh.row, c>>}
  BY DEF TextWith
<1>4. /\ s.row = ShownRow(sh)
      /\ s.buf = LastRows(sh, paper)
  BY DEF Shows, Screens
<1>5. buf = LastRows(put, paper)
  <2> HIDE DEF put
  <2>1. Stored(LastRows(sh, paper), ShownRow(sh) * VGA_WIDTH + c, g) = LastRows(put, paper)
    BY <1>1, StoredShows
  <2> QED BY <2>1, <1>4
<1> SUFFICES SheetOK(put) /\ Shows([t EXCEPT !.col = put.col], put, paper)
  OBVIOUS
<1>6. [t EXCEPT !.col = put.col].row = s.row /\ [t EXCEPT !.col = put.col].buf = buf
      /\ [t EXCEPT !.col = put.col].col = put.col
  <2> HIDE DEF buf, put
  <2> QED BY DEF Screens
<1> HIDE DEF new, put, buf, t
<1>7. SheetOK(put)
  <2>1. put \in [text : {put.text}, row : Nat, col : 0..(VGA_WIDTH - 1)]
    BY <1>1, <1>2
  <2>2. \A p \in DOMAIN new : p[1] \in 0..sh.row
    BY <1>3 DEF SheetOK
  <2> QED BY <2>1, <2>2, <1>1 DEF SheetOK
<1> QED BY <1>1, <1>4, <1>5, <1>6, <1>7 DEF Shows, ShownRow

(* The screen after a glyph, and the sheet.                                *)
Advanced(s) ==
  IF s.col + 1 = VGA_WIDTH THEN NewRow([s EXCEPT !.col = 0]) ELSE [s EXCEPT !.col = @ + 1]

AdvancedSheet(sh) ==
  IF sh.col + 1 = VGA_WIDTH THEN [sh EXCEPT !.row = @ + 1, !.col = 0] ELSE [sh EXCEPT !.col = @ + 1]

(* Going on by one column, to the next row at the end of one.              *)
LEMMA AdvancedShows ==
  ASSUME NEW s \in Screens, NEW sh, NEW paper, SheetOK(sh), Shows(s, sh, paper)
  PROVE  SheetOK(AdvancedSheet(sh)) /\ Shows(Advanced(s), AdvancedSheet(sh), paper)
<1>1. s.col = sh.col /\ [s EXCEPT !.col = sh.col] = s /\ sh.col \in 0..(VGA_WIDTH - 1)
  BY DEF Shows, SheetOK, Screens
<1>2. Shows([s EXCEPT !.col = sh.col], sh, paper)
  BY <1>1
<1>3. CASE sh.col + 1 = VGA_WIDTH
  <2>1. AdvancedSheet(sh) = [sh EXCEPT !.row = @ + 1, !.col = 0]
    BY <1>3 DEF AdvancedSheet
  <2>2. Advanced(s) = NewRow([s EXCEPT !.col = 0])
    BY <1>1, <1>3 DEF Advanced
  <2> QED BY <2>1, <2>2, <1>2, NewRowShows, Zenon
<1>4. CASE ~(sh.col + 1 = VGA_WIDTH)
  <2>1. AdvancedSheet(sh) = [sh EXCEPT !.col = sh.col + 1]
    BY <1>4 DEF AdvancedSheet
  <2>2. Advanced(s) = [s EXCEPT !.col = sh.col + 1]
    BY <1>1, <1>4 DEF Advanced
  <2>3. sh.col + 1 \in 0..(VGA_WIDTH - 1)
    BY <1>1, <1>4, VgaParameters
  <2>4. /\ SheetOK([sh EXCEPT !.col = sh.col + 1])
        /\ Shows([s EXCEPT !.col = sh.col + 1], [sh EXCEPT !.col = sh.col + 1], paper)
    BY <2>3, <1>2, ColumnShows
  <2> QED BY <2>1, <2>2, <2>4
<1> QED BY <1>3, <1>4

(* What Write and Laid come to, character by character.                    *)
LEMMA WriteIs ==
  ASSUME NEW sh, NEW c, SheetOK(sh)
  PROVE  /\ c = "nl" => Write(sh, c) = [sh EXCEPT !.row = @ + 1, !.col = 0]
         /\ c = "cr" => Write(sh, c) = [sh EXCEPT !.col = 0]
         /\ c = "bs" /\ sh.col = 0 => Write(sh, c) = sh
         /\ c = "bs" /\ sh.col > 0 =>
              Write(sh, c) = [sh EXCEPT !.col = @ - 1, !.text = TextWith(sh, sh.col - 1, space)]
         /\ c = "tab" =>
              Write(sh, c) =
                IF sh.col + TAB - (sh.col % TAB) >= VGA_WIDTH
                THEN [sh EXCEPT !.row = @ + 1, !.col = 0]
                ELSE [sh EXCEPT !.col = @ + TAB - (@ % TAB)]
         /\ c \notin {"nl", "cr", "bs", "tab"} =>
              Write(sh, c) = AdvancedSheet([sh EXCEPT !.text = TextWith(sh, sh.col, c)])
<1>1. c = "nl" => Write(sh, c) = [sh EXCEPT !.row = @ + 1, !.col = 0]
  BY DEF Write
<1>2. c = "cr" => Write(sh, c) = [sh EXCEPT !.col = 0]
  BY DEF Write
<1>3. c = "bs" /\ sh.col = 0 => Write(sh, c) = sh
  BY DEF Write, SheetOK
<1>4. c = "bs" /\ sh.col > 0 =>
        Write(sh, c) = [sh EXCEPT !.col = @ - 1, !.text = TextWith(sh, sh.col - 1, space)]
  BY DEF Write, TextWith
<1>5. c = "tab" =>
        Write(sh, c) =
          IF sh.col + TAB - (sh.col % TAB) >= VGA_WIDTH
          THEN [sh EXCEPT !.row = @ + 1, !.col = 0]
          ELSE [sh EXCEPT !.col = @ + TAB - (@ % TAB)]
  BY DEF Write
<1>6. ASSUME c \notin {"nl", "cr", "bs", "tab"}
      PROVE  Write(sh, c) = AdvancedSheet([sh EXCEPT !.text = TextWith(sh, sh.col, c)])
  <2> DEFINE put == [sh EXCEPT !.text = TextWith(sh, sh.col, c)]
  <2>1. put.col = sh.col
    BY DEF SheetOK
  <2>2. Write(sh, c) = IF sh.col + 1 = VGA_WIDTH THEN [put EXCEPT !.row = @ + 1, !.col = 0]
                       ELSE [put EXCEPT !.col = @ + 1]
    BY <1>6 DEF Write, TextWith
  <2> HIDE DEF put
  <2> QED BY <2>1, <2>2 DEF AdvancedSheet, put
<1> QED BY <1>1, <1>2, <1>3, <1>4, <1>5, <1>6

LEMMA LaidIs ==
  ASSUME NEW s, NEW c
  PROVE  /\ c = "nl" => Laid(s, c) = NewRow([s EXCEPT !.col = 0])
         /\ c = "cr" => Laid(s, c) = [s EXCEPT !.col = 0]
         /\ c = "bs" /\ s.col = 0 => Laid(s, c) = s
         /\ c = "bs" /\ s.col # 0 =>
              Laid(s, c) = [s EXCEPT !.col = @ - 1,
                                     !.buf = Stored(@, s.row * VGA_WIDTH + s.col - 1, space)]
         /\ c = "tab" => Laid(s, c) = IF Tabbed(s.col) >= VGA_WIDTH THEN NewRow([s EXCEPT !.col = 0])
                                      ELSE [s EXCEPT !.col = Tabbed(@)]
<1>1. c = "nl" => Laid(s, c) = NewRow([s EXCEPT !.col = 0])
  BY DEF Laid
<1>2. c = "cr" => Laid(s, c) = [s EXCEPT !.col = 0]
  BY DEF Laid
<1>3. c = "bs" => Laid(s, c) = IF s.col = 0 THEN s
                    ELSE [s EXCEPT !.col = @ - 1,
                                   !.buf = Stored(@, s.row * VGA_WIDTH + s.col - 1, space)]
  BY DEF Laid
<1>4. c = "tab" => Laid(s, c) = IF Tabbed(s.col) >= VGA_WIDTH THEN NewRow([s EXCEPT !.col = 0])
                                ELSE [s EXCEPT !.col = Tabbed(@)]
  BY DEF Laid
<1> QED BY <1>1, <1>2, <1>3, <1>4

(* Any other character is stored and moved past.                           *)
LEMMA LaidGlyphIs ==
  ASSUME NEW s \in Screens, NEW c, c \notin {"nl", "cr", "bs", "tab"}
  PROVE  Laid(s, c) = Advanced([s EXCEPT !.buf = Stored(@, s.row * VGA_WIDTH + s.col, c)])
<1> DEFINE t == [s EXCEPT !.buf = Stored(@, s.row * VGA_WIDTH + s.col, c)]
<1>1. t.col = s.col
  BY DEF Screens
<1>2. Laid(s, c) = IF s.col + 1 = VGA_WIDTH THEN NewRow([t EXCEPT !.col = 0])
                   ELSE [t EXCEPT !.col = @ + 1]
  BY DEF Laid
<1> HIDE DEF t
<1> QED BY <1>1, <1>2 DEF Advanced, t

(* The two ways of writing a tab stop agree.                               *)
LEMMA TabStops ==
  ASSUME NEW c \in Nat
  PROVE  Tabbed(c) = c + TAB - (c % TAB) /\ Tabbed(c) \in Nat
<1>1. TAB \in Nat \ {0}
  BY VgaParameters
<1>2. c \div TAB \in Nat /\ c % TAB \in 0..(TAB - 1) /\ c = (c \div TAB) * TAB + (c % TAB)
  BY <1>1, DivMod
<1> DEFINE d == c \div TAB  m == c % TAB
<1> HIDE DEF d, m
<1>3. (d + 1) * TAB = d * TAB + TAB /\ d * TAB \in Nat
  BY <1>1, <1>2 DEF d, m
<1>4. Tabbed(c) = (d + 1) * TAB
  BY DEF Tabbed, d
<1> QED BY <1>1, <1>2, <1>3, <1>4 DEF d, m

(* A store keeps the cells in their type.                                  *)
LEMMA ScreenSplit ==
  ASSUME NEW buf \in [CellsShown -> Glyphs], NEW i, NEW g \in Glyphs
  PROVE  Stored(buf, i, g) \in [CellsShown -> Glyphs]
BY DEF Stored

(* So does moving the position together with the cells.                    *)
LEMMA ScreenWith ==
  ASSUME NEW s \in Screens, NEW r \in Nat, NEW c \in Nat, NEW buf \in [CellsShown -> Glyphs]
  PROVE  [s EXCEPT !.buf = buf, !.row = r, !.col = c] \in Screens
<1> DEFINE t == [s EXCEPT !.buf = buf]
<1>1. t \in Screens
  BY DEF Screens
<1>2. [t EXCEPT !.row = r, !.col = c] = [s EXCEPT !.buf = buf, !.row = r, !.col = c]
  OBVIOUS
<1> HIDE DEF t
<1>3. [t EXCEPT !.row = r, !.col = c] \in Screens
  BY <1>1 DEF Screens
<1> QED BY <1>2, <1>3

(* A new row is a screen.                                                  *)
LEMMA NewRowType ==
  ASSUME NEW s \in Screens
  PROVE  NewRow([s EXCEPT !.col = 0]) \in Screens
<1>1. VGA_HEIGHT - 1 \in Nat /\ s.row + 1 \in Nat
  BY VgaParameters DEF Screens
<1>2. Scrolled(s.buf) \in [CellsShown -> Glyphs]
  <2>1. space \in Glyphs
    BY DEF Glyphs
  <2>2. ASSUME NEW i \in CellsShown PROVE i < LastLine => i + VGA_WIDTH \in CellsShown
    BY CellBelow
  <2>3. s.buf \in [CellsShown -> Glyphs]
    BY DEF Screens
  <2> QED BY <2>1, <2>2, <2>3 DEF Scrolled
<1>3. CASE s.row + 1 = VGA_HEIGHT
  <2>1. NewRow([s EXCEPT !.col = 0]) =
          [s EXCEPT !.buf = Scrolled(s.buf), !.row = VGA_HEIGHT - 1, !.col = 0]
    BY <1>3 DEF NewRow, Screens
  <2>2. [s EXCEPT !.buf = Scrolled(s.buf), !.row = VGA_HEIGHT - 1, !.col = 0] \in Screens
    BY <1>1, <1>2, ScreenWith
  <2> QED BY <2>1, <2>2
<1>4. CASE s.row + 1 # VGA_HEIGHT
  <2>1. NewRow([s EXCEPT !.col = 0]) = [s EXCEPT !.buf = s.buf, !.row = s.row + 1, !.col = 0]
    BY <1>4 DEF NewRow, Screens
  <2>2. s.buf \in [CellsShown -> Glyphs]
    BY DEF Screens
  <2>3. [s EXCEPT !.buf = s.buf, !.row = s.row + 1, !.col = 0] \in Screens
    BY <2>2, <1>1, ScreenWith
  <2> QED BY <2>1, <2>3
<1> QED BY <1>3, <1>4

(* And so is what any character makes.                                     *)
LEMMA LaidType ==
  ASSUME NEW s \in Screens, NEW c \in Glyphs
  PROVE  Laid(s, c) \in Screens
<1>1. s.row \in Nat /\ s.col \in Nat /\ s.buf \in [CellsShown -> Glyphs] /\ 0 \in Nat /\ space \in Glyphs
  BY DEF Screens, Glyphs
<1>2. CASE c = "nl"
  BY <1>2, LaidIs, NewRowType
<1>3. CASE c = "cr"
  <2>1. Laid(s, c) = [s EXCEPT !.col = 0]
    BY <1>3, LaidIs, Zenon
  <2> QED BY <2>1 DEF Screens
<1>4. CASE c = "bs" /\ s.col = 0
  <2>1. Laid(s, c) = s
    BY <1>4, LaidIs, Zenon
  <2> QED BY <2>1
<1>5. CASE c = "bs" /\ s.col # 0
  <2> DEFINE buf == Stored(s.buf, s.row * VGA_WIDTH + s.col - 1, space)
  <2>1. Laid(s, c) = [s EXCEPT !.col = s.col - 1, !.buf = buf]
    BY <1>5, LaidIs
  <2>2. buf \in [CellsShown -> Glyphs]
    BY <1>1, ScreenSplit
  <2>3. s.col - 1 \in Nat
    BY <1>1, <1>5
  <2> HIDE DEF buf
  <2> QED BY <2>1, <2>2, <2>3 DEF Screens
<1>6. CASE c = "tab"
  <2>1. Tabbed(s.col) \in Nat
    BY <1>1, TabStops
  <2>2. [s EXCEPT !.col = Tabbed(s.col)] \in Screens
    BY <2>1 DEF Screens
  <2> QED BY <1>6, <2>2, LaidIs, NewRowType
<1>7. CASE c \notin {"nl", "cr", "bs", "tab"}
  <2> DEFINE buf == Stored(s.buf, s.row * VGA_WIDTH + s.col, c)  t == [s EXCEPT !.buf = buf]
  <2>1. buf \in [CellsShown -> Glyphs]
    BY <1>1, ScreenSplit
  <2>2. t \in Screens
    <3> HIDE DEF buf
    <3> QED BY <2>1 DEF Screens
  <2>3. Laid(s, c) = Advanced(t)
    BY <1>7, LaidGlyphIs
  <2> HIDE DEF t
  <2>4. NewRow([t EXCEPT !.col = 0]) \in Screens
    BY <2>2, NewRowType
  <2>5. [t EXCEPT !.col = t.col + 1] \in Screens
    BY <2>2 DEF Screens
  <2> QED BY <2>3, <2>4, <2>5 DEF Advanced
<1> QED BY <1>2, <1>3, <1>4, <1>5, <1>6, <1>7

(* vga_putchar moves the text position on the sheet as on the screen, and  *)
(* the screen goes on showing the sheet (vga.c:52-117).                    *)
LEMMA LaidShows ==
  ASSUME NEW s \in Screens, NEW sh, NEW paper, NEW c \in Glyphs, SheetOK(sh), Shows(s, sh, paper)
  PROVE  SheetOK(Write(sh, c)) /\ Shows(Laid(s, c), Write(sh, c), paper)
<1>1. s.col = sh.col /\ s.row \in Nat /\ sh.col \in 0..(VGA_WIDTH - 1) /\ VGA_WIDTH \in Nat \ {0}
  BY VgaParameters DEF Shows, SheetOK, Screens
<1>2. Shows([s EXCEPT !.col = sh.col], sh, paper)
  BY <1>1 DEF Screens
<1>3. /\ SheetOK([sh EXCEPT !.row = @ + 1, !.col = 0])
      /\ Shows(NewRow([s EXCEPT !.col = 0]), [sh EXCEPT !.row = @ + 1, !.col = 0], paper)
  BY <1>2, NewRowShows
<1>4. CASE c = "nl"
  BY <1>3, <1>4, WriteIs, LaidIs
<1>5. CASE c = "cr"
  <2>1. 0 \in 0..(VGA_WIDTH - 1)
    BY <1>1
  <2>2. /\ SheetOK([sh EXCEPT !.col = 0])
        /\ Shows([s EXCEPT !.col = 0], [sh EXCEPT !.col = 0], paper)
    BY <2>1, <1>2, ColumnShows
  <2> QED BY <1>5, <2>2, WriteIs, LaidIs
<1>6. CASE c = "bs" /\ sh.col = 0
  <2>1. Write(sh, c) = sh
    BY <1>6, WriteIs
  <2>2. Laid(s, c) = s
    BY <1>1, <1>6, LaidIs
  <2> QED BY <2>1, <2>2
<1>7. CASE c = "bs" /\ sh.col # 0
  <2> DEFINE k == sh.col - 1
             put == [sh EXCEPT !.text = TextWith(sh, k, space)]
             t == [s EXCEPT !.buf = Stored(@, s.row * VGA_WIDTH + k, space)]
  <2>1. k \in 0..(VGA_WIDTH - 1)
    BY <1>1, <1>7
  <2>2. SheetOK(put) /\ Shows([t EXCEPT !.col = put.col], put, paper)
    <3> HIDE DEF k
    <3> QED BY <2>1, <1>2, PutShows
  <2>3. t \in Screens
    <3>1. space \in Glyphs /\ s.buf \in [CellsShown -> Glyphs]
      BY DEF Glyphs, Screens
    <3>2. Stored(s.buf, s.row * VGA_WIDTH + k, space) \in [CellsShown -> Glyphs]
      BY <3>1, ScreenSplit
    <3> QED BY <3>2 DEF Screens
  <2>4. s.row * VGA_WIDTH + s.col - 1 = s.row * VGA_WIDTH + k
    BY <1>1
  <2>5. Laid(s, c) = [t EXCEPT !.col = k]
    <3>1. Laid(s, c) = [s EXCEPT !.col = @ - 1,
                                 !.buf = Stored(@, s.row * VGA_WIDTH + s.col - 1, space)]
      BY <1>1, <1>7, LaidIs, Zenon
    <3> QED BY <3>1, <2>4, <1>1
  <2>6. Write(sh, c) = [put EXCEPT !.col = k]
    <3>1. sh.col > 0
      BY <1>1, <1>7
    <3>2. Write(sh, c) = [sh EXCEPT !.col = @ - 1, !.text = TextWith(sh, sh.col - 1, space)]
      BY <1>7, <3>1, WriteIs, Zenon
    <3> QED BY <3>2
  <2> HIDE DEF k, put, t
  <2>7. SheetOK([put EXCEPT !.col = k]) /\ Shows([t EXCEPT !.col = k], [put EXCEPT !.col = k], paper)
    BY <2>1, <2>2, <2>3, ColumnShows
  <2> QED BY <2>5, <2>6, <2>7
<1>8. CASE c = "tab"
  <2> DEFINE k == Tabbed(sh.col)
  <2>1. k = sh.col + TAB - (sh.col % TAB) /\ k \in Nat
    BY <1>1, TabStops
  <2>2. Laid(s, c) = IF k >= VGA_WIDTH THEN NewRow([s EXCEPT !.col = 0]) ELSE [s EXCEPT !.col = k]
    BY <1>1, <1>8, LaidIs
  <2>3. Write(sh, c) = IF k >= VGA_WIDTH THEN [sh EXCEPT !.row = @ + 1, !.col = 0]
                       ELSE [sh EXCEPT !.col = k]
    <3>1. Write(sh, c) =
            IF sh.col + TAB - (sh.col % TAB) >= VGA_WIDTH
            THEN [sh EXCEPT !.row = @ + 1, !.col = 0]
            ELSE [sh EXCEPT !.col = @ + TAB - (@ % TAB)]
      BY <1>8, WriteIs, Zenon
    <3> HIDE DEF k
    <3> QED BY <3>1, <2>1
  <2> HIDE DEF k
  <2>4. CASE k >= VGA_WIDTH
    BY <2>2, <2>3, <2>4, <1>3
  <2>5. CASE ~(k >= VGA_WIDTH)
    <3>1. k \in 0..(VGA_WIDTH - 1)
      BY <2>1, <2>5, <1>1
    <3>2. SheetOK([sh EXCEPT !.col = k]) /\ Shows([s EXCEPT !.col = k], [sh EXCEPT !.col = k], paper)
      BY <3>1, <1>2, ColumnShows
    <3> QED BY <3>2, <2>2, <2>3, <2>5
  <2> QED BY <2>4, <2>5
<1>9. CASE c \notin {"nl", "cr", "bs", "tab"}
  <2> DEFINE put == [sh EXCEPT !.text = TextWith(sh, sh.col, c)]
             t == [s EXCEPT !.buf = Stored(@, s.row * VGA_WIDTH + s.col, c)]
  <2>1. SheetOK(put) /\ Shows([t EXCEPT !.col = put.col], put, paper)
    <3>1. SheetOK(put) /\ Shows([[s EXCEPT !.buf = Stored(@, s.row * VGA_WIDTH + sh.col, c)]
                                   EXCEPT !.col = put.col], put, paper)
      BY <1>1, <1>2, PutShows
    <3> QED BY <3>1, <1>1
  <2>2. t \in Screens
    <3>1. s.buf \in [CellsShown -> Glyphs]
      BY DEF Screens
    <3>2. Stored(s.buf, s.row * VGA_WIDTH + s.col, c) \in [CellsShown -> Glyphs]
      BY <3>1, ScreenSplit
    <3> QED BY <3>2 DEF Screens
  <2>3. Laid(s, c) = Advanced(t)
    BY <1>9, LaidGlyphIs
  <2>4. Write(sh, c) = AdvancedSheet(put)
    BY <1>9, WriteIs
  <2>5. put.col = sh.col /\ t.col = s.col
    BY DEF SheetOK, Screens
  <2> HIDE DEF put, t
  <2>6. [t EXCEPT !.col = put.col] = t
    BY <1>1, <2>2, <2>5 DEF Screens
  <2>7. Shows(t, put, paper)
    BY <2>1, <2>6
  <2>8. SheetOK(AdvancedSheet(put)) /\ Shows(Advanced(t), AdvancedSheet(put), paper)
    BY <2>1, <2>2, <2>7, AdvancedShows
  <2> QED BY <2>3, <2>4, <2>8
<1> QED BY <1>4, <1>5, <1>6, <1>7, <1>8, <1>9

-----------------------------------------------------------------------------
(* A character of the message is handled from its first access to its last *)
(* and the loops of vga_clear and vga_scroll start at the first cell.      *)
MessageInv ==
  /\ access = "fetch" => char >= 1
  /\ access \in {"index_row", "index_col", "store"} =>
       char \in 1..Len(Message) /\ Message[char] # "nl"
  /\ access = "nl_col" => char \in 1..Len(Message) /\ Message[char] = "nl"
  /\ access \notin {"clear", "scroll"} => index = 0

BootTypeInv == BootTypeOK /\ MessageInv

(* A position is a number, wherever the handler left it.                   *)
LEMMA PositionType ==
  ASSUME NEW r \in Nat, NEW c \in Nat
  PROVE  r * VGA_WIDTH + c \in Nat
<1>1. VGA_WIDTH \in Nat
  BY VgaParameters
<1>2. r * VGA_WIDTH \in Nat
  BY <1>1
<1> QED BY <1>2

(* The two bytes of the cursor.                                            *)
LEMMA ByteType ==
  ASSUME NEW p \in Nat
  PROVE  Low(p) \in 0..(BYTE - 1) /\ High(p) \in 0..(BYTE - 1)
<1>1. BYTE \in Nat \ {0}
  BY VgaParameters
<1>2. p \div BYTE \in Nat /\ p % BYTE \in 0..(BYTE - 1)
  BY <1>1, DivMod
<1>3. (p \div BYTE) % BYTE \in 0..(BYTE - 1)
  BY <1>1, <1>2, DivMod
<1> QED BY <1>2, <1>3 DEF Low, High

(* vga_putchar as a whole: the character and then the cursor.              *)
LEMMA PutcharIs ==
  ASSUME NEW s \in Screens, NEW c \in Glyphs
  PROVE  /\ Putchar(s, c) \in Screens
         /\ Putchar(s, c).row = Laid(s, c).row /\ Putchar(s, c).col = Laid(s, c).col
         /\ Putchar(s, c).buf = Laid(s, c).buf
         /\ Putchar(s, c).lo = Low(Laid(s, c).row * VGA_WIDTH + Laid(s, c).col)
         /\ Putchar(s, c).hi = High(Laid(s, c).row * VGA_WIDTH + Laid(s, c).col)
<1> DEFINE t == Laid(s, c)  p == t.row * VGA_WIDTH + t.col
<1>1. t \in Screens
  BY LaidType
<1> HIDE DEF t
<1>2. p \in Nat
  <2>1. t.row \in Nat /\ t.col \in Nat
    BY <1>1 DEF Screens
  <2> QED BY <2>1, PositionType
<1>3. Putchar(s, c) = [t EXCEPT !.lo = Low(p), !.hi = High(p), !.port = "hi"]
  BY DEF Putchar, UpdateCursor, t
<1> HIDE DEF p
<1>4. Low(p) \in 0..(BYTE - 1) /\ High(p) \in 0..(BYTE - 1)
  BY <1>2, ByteType
<1>5. [t EXCEPT !.lo = Low(p), !.hi = High(p), !.port = "hi"] \in Screens
  <2> DEFINE u == [t EXCEPT !.lo = Low(p)]
  <2>1. u \in Screens
    BY <1>1, <1>4 DEF Screens
  <2>2. [u EXCEPT !.hi = High(p), !.port = "hi"] =
          [t EXCEPT !.lo = Low(p), !.hi = High(p), !.port = "hi"]
    OBVIOUS
  <2> HIDE DEF u
  <2>3. [u EXCEPT !.hi = High(p), !.port = "hi"] \in Screens
    BY <2>1, <1>4 DEF Screens
  <2> QED BY <2>2, <2>3
<1>6. /\ Putchar(s, c).row = t.row /\ Putchar(s, c).col = t.col /\ Putchar(s, c).buf = t.buf
      /\ Putchar(s, c).lo = Low(p) /\ Putchar(s, c).hi = High(p)
  BY <1>1, <1>3 DEF Screens
<1>7. Putchar(s, c) \in Screens
  BY <1>3, <1>5
<1> QED BY <1>6, <1>7 DEF t, p

(* The first cell exists.                                                  *)
LEMMA CellsNotEmpty == CellsShown \subseteq Nat /\ 0 \in CellsShown
<1>1. VGA_WIDTH \in Nat \ {0} /\ VGA_HEIGHT \in Nat \ {0}
  BY VgaParameters
<1>2. 0 \in 0..(VGA_HEIGHT - 1) /\ 0 \in 0..(VGA_WIDTH - 1)
  BY <1>1
<1>3. 0 * VGA_WIDTH + 0 \in CellsShown
  BY <1>2, CellAt
<1>4. 0 * VGA_WIDTH + 0 = 0
  BY <1>1
<1> QED BY <1>3, <1>4 DEF CellsShown

(* The types hold at the start,                                            *)
LEMMA BootTypeInit == BootInit => BootTypeInv
<1> SUFFICES ASSUME BootInit PROVE BootTypeInv
  OBVIOUS
<1>1. PoweredOn \subseteq Screens
  <2>1. [k \in CellsShown |-> "old"] \in [CellsShown -> Glyphs]
    BY DEF Glyphs
  <2> QED BY <2>1 DEF PoweredOn, Screens
<1>2. 0 \in 0..MaxKeys
  BY BootParameters
<1>3. tags \in Loaders \cup {<<>>}
  BY DEF BootInit
<1> QED BY <1>1, <1>2, <1>3, CellsNotEmpty DEF BootInit, BootTypeInv, BootTypeOK, MessageInv, Accesses

(* and in every step, of the main program and of the handler.              *)
LEMMA BootTypeNext == BootTypeInv /\ [BootNext]_bootVars => BootTypeInv'
<1> SUFFICES ASSUME BootTypeInv, [BootNext]_bootVars PROVE BootTypeInv'
  OBVIOUS
<1> USE DEF BootTypeInv, BootTypeOK, MessageInv, Accesses
<1>1. /\ screen.row \in Nat /\ screen.col \in Nat /\ screen.buf \in [CellsShown -> Glyphs]
      /\ space \in Glyphs /\ 0 \in Nat /\ VGA_HEIGHT - 1 \in Nat
      /\ CellsShown \subseteq Nat /\ 0 \in CellsShown
  BY VgaParameters, CellsNotEmpty DEF Screens, Glyphs
<1>2. /\ \A r \in Nat : [screen EXCEPT !.row = r] \in Screens /\ [screen EXCEPT !.col = r] \in Screens
      /\ \A b \in [CellsShown -> Glyphs] : [screen EXCEPT !.buf = b] \in Screens
      /\ \A p \in {"lo", "hi"} : [screen EXCEPT !.port = p] \in Screens
      /\ \A y \in 0..(BYTE - 1) :
           [screen EXCEPT !.lo = y] \in Screens /\ [screen EXCEPT !.hi = y] \in Screens
  BY DEF Screens
<1>3. CASE BadMagic
  BY <1>3 DEF BadMagic, Jump, ParsedTo, tagVars
<1>4. CASE WalkTag
  <2>1. tags \in Loaders /\ TagAt(at).size \in Nat /\ TagAt(at).width \in Nat
    <3>1. PICK k \in DOMAIN tags : TagAt(at) = tags[k]
      BY <1>4 DEF WalkTag, TagsAt, TagAt
    <3>2. DOMAIN (<<>>) = {}
      OBVIOUS
    <3>3. tags \in Loaders
      BY <3>1, <3>2
    <3>4. Placed(tags)
      BY <3>3, BootParameters
    <3> QED BY <3>1, <3>3, <3>4 DEF Placed
  <2>2. Step(TagAt(at)) \in Nat
    BY <2>1 DEF Step, RoundUp
  <2> QED BY <1>4, <2>1, <2>2 DEF WalkTag, mainVars
<1>5. CASE Parsed
  BY <1>5 DEF Parsed, Jump, ParsedTo, tagVars
<1>6. CASE ClearCell
  <2>1. [screen.buf EXCEPT ![index] = space] \in [CellsShown -> Glyphs]
    BY <1>1
  <2>2. screen' \in Screens
    BY <1>2, <1>6, <2>1 DEF ClearCell
  <2>3. index' \in CellsShown /\ (access' # "clear" => index' = 0) /\ access' \in {"clear", "clear_row"}
    BY <1>1, <1>6 DEF ClearCell, Jump
  <2> QED BY <1>6, <2>2, <2>3 DEF ClearCell, Jump, tagVars
<1>7. CASE ClearRow
  BY <1>1, <1>2, <1>7 DEF ClearRow, Jump, tagVars
<1>8. CASE ClearCol
  BY <1>1, <1>2, <1>8 DEF ClearCol, Jump, tagVars
<1>9. CASE Fetch
  <2>1. access = "fetch" /\ access' \in {"halt", "nl_col", "index_row"} /\ index = 0 /\ char >= 1
    BY <1>9 DEF Fetch, Jump
  <2>2. access' = "nl_col" => char \in 1..Len(Message) /\ Message[char] = "nl"
    BY <2>1, <1>9, BootParameters DEF Fetch, Jump
  <2>3. access' = "index_row" => char \in 1..Len(Message) /\ Message[char] # "nl"
    BY <2>1, <1>9, BootParameters DEF Fetch, Jump
  <2> QED BY <2>1, <2>2, <2>3, <1>9 DEF Fetch, tagVars
<1>10. CASE IndexRow
  BY <1>1, <1>10 DEF IndexRow, LoadRow, Jump, tagVars
<1>11. CASE IndexCol
  BY <1>1, <1>11, PositionType DEF IndexCol, AddColumn, Jump, tagVars
<1>12. CASE StoreChar
  <2>1. Message[char] \in Glyphs
    BY <1>12 DEF StoreChar, Jump, Glyphs
  <2>2. Stored(screen.buf, pos, Message[char]) \in [CellsShown -> Glyphs]
    BY <1>1, <2>1, ScreenSplit
  <2>3. screen' \in Screens
    BY <1>2, <1>12, <2>2 DEF StoreChar
  <2> QED BY <1>12, <2>3 DEF StoreChar, Jump, tagVars
<1>13. CASE ColLoad
  BY <1>1, <1>13 DEF ColLoad, Jump, tagVars
<1>14. CASE ColStore
  <2>1. reg + 1 \in Nat
    OBVIOUS
  <2>2. [screen EXCEPT !.col = reg + 1] \in Screens
    BY <1>2, <2>1
  <2> QED BY <1>14, <2>2 DEF ColStore, Jump, tagVars
<1>15. CASE ColTest
  BY <1>15 DEF ColTest, Jump, tagVars
<1>16. CASE WrapCol
  BY <1>1, <1>2, <1>16 DEF WrapCol, Jump, tagVars
<1>17. CASE NewlineCol
  BY <1>1, <1>2, <1>17 DEF NewlineCol, Jump, tagVars
<1>18. CASE RowLoad
  BY <1>1, <1>18 DEF RowLoad, LoadRow, Jump, tagVars
<1>19. CASE RowStore
  <2>1. reg + 1 \in Nat
    OBVIOUS
  <2>2. [screen EXCEPT !.row = reg + 1] \in Screens
    BY <1>2, <2>1
  <2> QED BY <1>19, <2>2 DEF RowStore, Jump, tagVars
<1>20. CASE RowTest
  BY <1>20 DEF RowTest, Jump, tagVars
<1>21. CASE ScrollCell
  <2>1. ScrolledCell(screen.buf, index) \in [CellsShown -> Glyphs]
    BY <1>1, CellBelow DEF ScrolledCell
  <2>2. screen' \in Screens
    BY <1>2, <1>21, <2>1 DEF ScrollCell
  <2>3. index' \in CellsShown /\ (access' # "scroll" => index' = 0) /\ access' \in {"scroll", "scroll_row"}
    BY <1>1, <1>21 DEF ScrollCell, Jump
  <2> QED BY <1>21, <2>2, <2>3 DEF ScrollCell, Jump, tagVars
<1>22. CASE ScrollRow
  BY <1>1, <1>2, <1>22 DEF ScrollRow, Jump, tagVars
<1>23. CASE CursorRow
  BY <1>1, <1>23 DEF CursorRow, LoadRow, Jump, tagVars
<1>24. CASE CursorCol
  BY <1>1, <1>24, PositionType DEF CursorCol, AddColumn, Jump, tagVars
<1>25. CASE Cursor1
  BY <1>2, <1>25 DEF Cursor1, Out, Jump, tagVars
<1>26. Low(pos) \in 0..(BYTE - 1) /\ High(pos) \in 0..(BYTE - 1)
  BY ByteType
<1>27. DataTo(Low(pos)) \in Screens /\ DataTo(High(pos)) \in Screens
  BY <1>2, <1>26 DEF DataTo
<1>28. CASE Cursor2
  BY <1>27, <1>28 DEF Cursor2, Out, Jump, tagVars
<1>29. CASE Cursor3
  BY <1>2, <1>29 DEF Cursor3, Out, Jump, tagVars
<1>30. CASE Cursor4
  BY <1>27, <1>30 DEF Cursor4, Out, Jump, tagVars
<1>31. ASSUME NEW c \in Keys, Echo(c) PROVE BootTypeInv'
  <2>1. c \in Glyphs
    BY DEF Glyphs
  <2>2. screen' \in Screens
    BY <1>31, <2>1, PutcharIs DEF Echo
  <2>3. keys' \in 0..MaxKeys
    BY <1>31, BootParameters DEF Echo
  <2>4. met' \subseteq {"row_test", "col_test", "update_cursor", "elsewhere"}
    BY <1>31 DEF Echo, Window
  <2> QED BY <1>31, <2>2, <2>3, <2>4 DEF Echo, tagVars, mainVars
<1>32. CASE UNCHANGED bootVars
  BY <1>32 DEF bootVars, tagVars, mainVars
<1> QED BY <1>3, <1>4, <1>5, <1>6, <1>7, <1>8, <1>9, <1>10, <1>11, <1>12, <1>13, <1>14, <1>15,
           <1>16, <1>17, <1>18, <1>19, <1>20, <1>21, <1>22, <1>23, <1>24, <1>25, <1>28, <1>29,
           <1>30, <1>31, <1>32 DEF BootNext, MainStep

(* kernel_main keeps its variables in their types and never stores a       *)
(* character that is not one of the message (kernel.c:71-78, vga.c).       *)
THEOREM BootTypes == BootSpec => []BootTypeOK
<1>1. BootInit => BootTypeInv
  BY BootTypeInit
<1>2. BootTypeInv /\ [BootNext]_bootVars => BootTypeInv'
  BY BootTypeNext
<1>3. BootTypeInv => BootTypeOK
  BY DEF BootTypeInv
<1> QED BY <1>1, <1>2, <1>3, PTL DEF BootSpec

-----------------------------------------------------------------------------
(* The text position is on the screen, but for one increment ahead of its  *)
(* test, and what the display controller is told is where it was loaded.   *)
(* At "parse" and "cli" without a key it has been told nothing.            *)
Here == screen.row * VGA_WIDTH + screen.col

RowInv ==
  "row_test" \notin met =>
    /\ access \notin {"row_test", "scroll", "scroll_row"} => screen.row < VGA_HEIGHT
    /\ access = "row_test" => screen.row <= VGA_HEIGHT
    /\ access = "row_store" => reg < VGA_HEIGHT

ColInv ==
  "col_test" \notin met =>
    /\ access \notin {"col_test", "wrap_col"} => screen.col < VGA_WIDTH
    /\ access = "col_test" => screen.col <= VGA_WIDTH
    /\ access = "col_store" => reg < VGA_WIDTH

CursorInv ==
  "update_cursor" \notin met =>
    /\ AtRest /\ CursorSent => screen.lo = Low(Here) /\ screen.hi = High(Here)
    /\ access = "cur_col" => reg = screen.row
    /\ access \in {"cur_1", "cur_2", "cur_3", "cur_4"} => pos = Here
    /\ access = "cur_2" => screen.port = "lo"
    /\ access \in {"cur_3", "cur_4"} => screen.lo = Low(Here)
    /\ access = "cur_4" => screen.port = "hi"

(* vga_putchar as one step leaves a position on the screen if it finds one.*)
LEMMA LaidBounds ==
  ASSUME NEW s \in Screens, NEW c \in Glyphs
  PROVE  /\ s.row < VGA_HEIGHT => Laid(s, c).row < VGA_HEIGHT
         /\ s.col < VGA_WIDTH => Laid(s, c).col < VGA_WIDTH
<1>1. /\ s.row \in Nat /\ s.col \in Nat
      /\ VGA_WIDTH \in Nat \ {0} /\ VGA_HEIGHT \in Nat \ {0, 1}
  BY VgaParameters DEF Screens
<1>2. ASSUME NEW t \in Screens, t.row = s.row
      PROVE  /\ s.row < VGA_HEIGHT => NewRow([t EXCEPT !.col = 0]).row < VGA_HEIGHT
             /\ NewRow([t EXCEPT !.col = 0]).col < VGA_WIDTH
  BY <1>1, <1>2 DEF NewRow, Screens
<1>3. CASE c = "nl"
  BY <1>2, <1>3, LaidIs
<1>4. CASE c = "cr"
  <2>1. Laid(s, c) = [s EXCEPT !.col = 0]
    BY <1>4, LaidIs, Zenon
  <2> QED BY <2>1, <1>1 DEF Screens
<1>5. CASE c = "bs" /\ s.col = 0
  <2>1. Laid(s, c) = s
    BY <1>5, LaidIs, Zenon
  <2> QED BY <2>1
<1>6. CASE c = "bs" /\ s.col # 0
  <2> DEFINE buf == Stored(s.buf, s.row * VGA_WIDTH + s.col - 1, space)
  <2>1. Laid(s, c) = [s EXCEPT !.col = s.col - 1, !.buf = buf]
    BY <1>6, LaidIs
  <2> HIDE DEF buf
  <2>2. Laid(s, c).row = s.row /\ Laid(s, c).col = s.col - 1
    BY <2>1 DEF Screens
  <2> QED BY <2>2, <1>1
<1>7. CASE c = "tab"
  <2>1. Tabbed(s.col) \in Nat
    BY <1>1, TabStops
  <2>2. Laid(s, c) = IF Tabbed(s.col) >= VGA_WIDTH THEN NewRow([s EXCEPT !.col = 0])
                     ELSE [s EXCEPT !.col = Tabbed(@)]
    BY <1>7, LaidIs, Zenon
  <2>3. CASE Tabbed(s.col) >= VGA_WIDTH
    BY <2>2, <2>3, <1>2
  <2>4. CASE ~(Tabbed(s.col) >= VGA_WIDTH)
    <3>1. Laid(s, c).row = s.row /\ Laid(s, c).col = Tabbed(s.col)
      BY <2>2, <2>4 DEF Screens
    <3> QED BY <3>1, <2>1, <2>4, <1>1
  <2> QED BY <2>3, <2>4
<1>8. CASE c \notin {"nl", "cr", "bs", "tab"}
  <2> DEFINE buf == Stored(s.buf, s.row * VGA_WIDTH + s.col, c)  t == [s EXCEPT !.buf = buf]
  <2>1. buf \in [CellsShown -> Glyphs]
    BY ScreenSplit DEF Screens
  <2>2. t \in Screens /\ t.row = s.row /\ t.col = s.col
    <3> HIDE DEF buf
    <3> QED BY <2>1 DEF Screens
  <2>3. Laid(s, c) = Advanced(t)
    BY <1>8, LaidGlyphIs
  <2> HIDE DEF t
  <2>4. CASE s.col + 1 = VGA_WIDTH
    BY <2>2, <2>3, <2>4, <1>2 DEF Advanced
  <2>5. CASE s.col + 1 # VGA_WIDTH
    <3>1. Laid(s, c).row = s.row /\ Laid(s, c).col = s.col + 1
      BY <2>2, <2>3, <2>5 DEF Advanced, Screens
    <3> QED BY <3>1, <2>5, <1>1
  <2> QED BY <2>4, <2>5
<1> QED BY <1>3, <1>4, <1>5, <1>6, <1>7, <1>8

PlaceInv == RowInv /\ ColInv /\ CursorInv

(* The handler runs as one step between two accesses; only where it comes  *)
(* between an increment and its test does the position it leaves go        *)
(* unnoticed.                                                              *)
LEMMA PlaceNext == BootTypeInv /\ PlaceInv /\ [BootNext]_bootVars => PlaceInv'
<1> SUFFICES ASSUME BootTypeInv, PlaceInv, [BootNext]_bootVars PROVE PlaceInv'
  OBVIOUS
<1> USE DEF PlaceInv, RowInv, ColInv, CursorInv, CursorSent
<1>1. /\ screen \in Screens /\ screen.row \in Nat /\ screen.col \in Nat
      /\ reg \in Nat /\ pos \in Nat /\ access \in Accesses /\ keys \in Nat
      /\ VGA_WIDTH \in Nat \ {0} /\ VGA_HEIGHT \in Nat \ {0, 1}
  BY VgaParameters DEF BootTypeInv, BootTypeOK, Screens
<1>2. screen'.row = screen.row /\ screen'.col = screen.col => Here' = Here
  BY DEF Here
<1>3. CASE BadMagic
  BY <1>1, <1>2, <1>3 DEF BadMagic, ParsedTo, Jump, AtRest, Screens
<1>4. CASE WalkTag
  BY <1>1, <1>2, <1>4 DEF WalkTag, mainVars, AtRest, Screens, tagVars
<1>5. CASE Parsed
  BY <1>1, <1>2, <1>5 DEF Parsed, ParsedTo, Jump, AtRest, Screens
<1>6. CASE ClearCell
  BY <1>1, <1>2, <1>6 DEF ClearCell, Jump, AtRest, Screens
<1>7. CASE ClearRow
  BY <1>1, <1>2, <1>7 DEF ClearRow, Jump, AtRest, Screens
<1>8. CASE ClearCol
  BY <1>1, <1>2, <1>8 DEF ClearCol, Jump, AtRest, Screens
<1>9. CASE Fetch
  BY <1>1, <1>2, <1>9 DEF Fetch, Jump, AtRest, Screens
<1>10. CASE IndexRow
  BY <1>1, <1>2, <1>10 DEF IndexRow, LoadRow, Jump, AtRest, Screens
<1>11. CASE IndexCol
  BY <1>1, <1>2, <1>11 DEF IndexCol, AddColumn, Jump, AtRest, Screens
<1>12. CASE StoreChar
  BY <1>1, <1>2, <1>12 DEF StoreChar, Jump, AtRest, Screens
<1>13. CASE ColLoad
  BY <1>1, <1>2, <1>13 DEF ColLoad, Jump, AtRest, Screens
<1>14. CASE ColStore
  BY <1>1, <1>2, <1>14 DEF ColStore, Jump, AtRest, Screens
<1>15. CASE ColTest
  BY <1>1, <1>2, <1>15 DEF ColTest, Jump, AtRest, Screens
<1>16. CASE WrapCol
  BY <1>1, <1>2, <1>16 DEF WrapCol, Jump, AtRest, Screens
<1>17. CASE NewlineCol
  BY <1>1, <1>2, <1>17 DEF NewlineCol, Jump, AtRest, Screens
<1>18. CASE RowLoad
  BY <1>1, <1>2, <1>18 DEF RowLoad, LoadRow, Jump, AtRest, Screens
<1>19. CASE RowStore
  BY <1>1, <1>2, <1>19 DEF RowStore, Jump, AtRest, Screens
<1>20. CASE RowTest
  BY <1>1, <1>2, <1>20 DEF RowTest, Jump, AtRest, Screens
<1>21. CASE ScrollCell
  BY <1>1, <1>2, <1>21 DEF ScrollCell, Jump, AtRest, Screens
<1>22. CASE ScrollRow
  BY <1>1, <1>2, <1>22 DEF ScrollRow, Jump, AtRest, Screens
<1>23. CASE CursorRow
  BY <1>1, <1>2, <1>23 DEF CursorRow, LoadRow, Jump, AtRest, Screens
<1>24. CASE CursorCol
  <2>1. access = "cur_col" /\ access' = "cur_1" /\ met' = met /\ screen' = screen
    BY <1>24 DEF CursorCol, AddColumn, Jump
  <2>2. reg = screen.row => pos' = Here'
    BY <1>2, <1>24, <2>1 DEF CursorCol, AddColumn, Here
  <2> QED BY <1>1, <2>1, <2>2 DEF AtRest
<1>25. CASE Cursor1
  BY <1>1, <1>2, <1>25 DEF Cursor1, Out, Jump, AtRest, Screens
<1>26. CASE Cursor2
  BY <1>1, <1>2, <1>26 DEF Cursor2, Out, DataTo, Jump, AtRest, Screens
<1>27. CASE Cursor3
  BY <1>1, <1>2, <1>27 DEF Cursor3, Out, Jump, AtRest, Screens
<1>28. CASE Cursor4
  BY <1>1, <1>2, <1>28 DEF Cursor4, Out, DataTo, Jump, AtRest, Screens
<1>29. ASSUME NEW c \in Keys, Echo(c) PROVE PlaceInv'
  <2>1. c \in Glyphs
    BY DEF Glyphs
  <2>2. screen' = Putchar(screen, c) /\ access' = access /\ reg' = reg /\ pos' = pos
    BY <1>29 DEF Echo, mainVars
  <2>3. /\ screen.row < VGA_HEIGHT => screen'.row < VGA_HEIGHT
        /\ screen.col < VGA_WIDTH => screen'.col < VGA_WIDTH
    BY <1>1, <2>1, <2>2, PutcharIs, LaidBounds
  <2>4. screen'.lo = Low(Here') /\ screen'.hi = High(Here')
    BY <1>1, <2>1, <2>2, PutcharIs DEF Here
  <2>5. met \subseteq met' /\ (~Untouched => Window \in met')
    BY <1>29 DEF Echo
  <2>6. RowInv'
    BY <1>1, <2>2, <2>3, <2>5 DEF Untouched, AtRest, Window
  <2>7. ColInv'
    BY <1>1, <2>2, <2>3, <2>5 DEF Untouched, AtRest, Window
  <2>8. CursorInv'
    BY <2>2, <2>4, <2>5 DEF Untouched, AtRest, Window
  <2> QED BY <2>6, <2>7, <2>8
<1>30. CASE UNCHANGED bootVars
  BY <1>30 DEF bootVars, tagVars, mainVars, Here, AtRest
<1> QED BY <1>3, <1>4, <1>5, <1>6, <1>7, <1>8, <1>9, <1>10, <1>11, <1>12, <1>13, <1>14, <1>15, <1>16, <1>17, <1>18, <1>19, <1>20, <1>21, <1>22, <1>23, <1>24, <1>25, <1>26, <1>27, <1>28, <1>29, <1>30
   DEF BootNext, MainStep

(* vga_init puts the position in the first cell; the cursor, wherever the  *)
(* loader left it, has not been sent.                                      *)
LEMMA PlaceInit == BootInit => PlaceInv
<1> SUFFICES ASSUME BootInit PROVE PlaceInv
  OBVIOUS
<1>1. VGA_WIDTH \in Nat \ {0} /\ VGA_HEIGHT \in Nat \ {0, 1}
  BY VgaParameters
<1>2. screen.row = 0 /\ screen.col = 0 /\ access = "parse"
  BY DEF BootInit, PoweredOn
<1>3. ~CursorSent
  BY <1>2 DEF BootInit, CursorSent
<1> QED BY <1>1, <1>2, <1>3 DEF PlaceInv, RowInv, ColInv, CursorInv

(* The driver's position leaves the screen only when the keyboard handler  *)
(* comes between an increment and its test, and the blinking cursor, once  *)
(* it was sent, is where the next character goes unless the handler comes  *)
(* inside update_cursor (vga.c:13-20, 71, 99, 110, 112).                   *)
THEOREM BootCursorTrue == BootSpec => []CursorTrue
<1>1. BootInit => BootTypeInv /\ PlaceInv
  BY BootTypeInit, PlaceInit
<1>2. BootTypeInv /\ PlaceInv /\ [BootNext]_bootVars => (BootTypeInv /\ PlaceInv)'
  BY BootTypeNext, PlaceNext
<1>3. BootTypeInv /\ PlaceInv => CursorTrue
  <2> SUFFICES ASSUME BootTypeInv, PlaceInv, AtRest PROVE CursorTrue
    BY DEF CursorTrue
  <2>1. screen.row \in Nat /\ screen.col \in Nat /\ VGA_WIDTH \in Nat /\ VGA_HEIGHT \in Nat
    BY VgaParameters DEF BootTypeInv, BootTypeOK, Screens
  <2>2. access \notin {"row_test", "scroll", "scroll_row", "col_test", "wrap_col"}
    BY DEF AtRest
  <2>3. screen.row >= VGA_HEIGHT => "row_test" \in met
    BY <2>1, <2>2 DEF PlaceInv, RowInv
  <2>4. screen.col >= VGA_WIDTH => "col_test" \in met
    BY <2>1, <2>2 DEF PlaceInv, ColInv
  <2>5. CursorSent /\ "update_cursor" \notin met =>
          screen.lo = Low(Here) /\ screen.hi = High(Here)
    BY DEF PlaceInv, CursorInv
  <2> QED BY <2>3, <2>4, <2>5 DEF CursorTrue, Here
<1> QED BY <1>1, <1>2, <1>3, PTL DEF BootSpec

-----------------------------------------------------------------------------
(* The walk over the tags.  Each lies behind the one before.               *)
LEMMA TagsAscend ==
  ASSUME NEW passed \in Loaders, NEW i \in 1..Len(passed), NEW j \in 1..Len(passed), i < j
  PROVE  passed[i].at \in Nat /\ passed[j].at \in Nat /\ passed[i].at < passed[j].at
<1>1. Len(passed) \in Nat /\ DOMAIN passed = 1..Len(passed) /\ Placed(passed)
  BY BootParameters
<1>2. \A k \in 1..Len(passed) : passed[k].size \in Nat \ {0}
  BY <1>1 DEF Placed
<1>3. \A k \in 2..Len(passed) :
        passed[k].at \in (passed[k - 1].at + passed[k - 1].size)
                           ..(passed[k - 1].at + passed[k - 1].size + 7)
  BY <1>1 DEF Placed
<1>4. passed[1].at = 8
  BY <1>1 DEF Placed
<1> DEFINE Good(n) == n + 1 <= Len(passed) =>
             /\ passed[n + 1].at \in Nat
             /\ \A k \in 1..n : passed[k].at \in Nat /\ passed[k].at < passed[n + 1].at
           S == {n \in Nat : Good(n)}
<1>5. 0 \in S
  BY <1>4
<1>6. \A n \in Nat : n \in S => n + 1 \in S
  <2> SUFFICES ASSUME NEW n \in Nat, Good(n), n + 2 <= Len(passed) PROVE Good(n + 1)
    BY <1>1
  <2>1. /\ passed[n + 1].at \in Nat /\ passed[n + 1].size \in Nat \ {0}
        /\ \A k \in 1..n : passed[k].at \in Nat /\ passed[k].at < passed[n + 1].at
    BY <1>1, <1>2
  <2>2. n + 2 \in 2..Len(passed) /\ n + 2 - 1 = n + 1
    BY <1>1
  <2>3. passed[n + 2].at \in (passed[n + 1].at + passed[n + 1].size)
                               ..(passed[n + 1].at + passed[n + 1].size + 7)
    BY <1>3, <2>2
  <2>4. passed[n + 2].at \in Nat /\ passed[n + 1].at < passed[n + 2].at
    BY <2>1, <2>3
  <2>5. ASSUME NEW k \in 1..(n + 1)
        PROVE  passed[k].at \in Nat /\ passed[k].at < passed[n + 2].at
    <3>1. CASE k = n + 1
      BY <2>1, <2>4, <3>1
    <3>2. CASE k \in 1..n
      BY <2>1, <2>4, <3>2
    <3> QED BY <3>1, <3>2
  <2>6. n + 1 + 1 = n + 2
    OBVIOUS
  <2> QED BY <2>4, <2>5, <2>6
<1> HIDE DEF S
<1>7. \A n \in Nat : n \in S
  BY <1>5, <1>6, NatInductive
<1>8. Good(j - 1)
  <2>1. j - 1 \in Nat
    OBVIOUS
  <2> QED BY <2>1, <1>7 DEF S
<1> QED BY <1>1, <1>8

(* No two tags share a place.                                              *)
LEMMA SameTag ==
  ASSUME NEW passed \in Loaders, NEW i \in 1..Len(passed), NEW j \in 1..Len(passed),
         passed[i].at = passed[j].at
  PROVE  i = j
<1>1. Len(passed) \in Nat
  BY BootParameters
<1>2. ~(i < j)
  BY TagsAscend
<1>3. ~(j < i)
  BY TagsAscend
<1> QED BY <1>1, <1>2, <1>3

(* The next multiple of eight behind the end of a tag is where the step    *)
(* goes (multiboot2.c:83).                                                 *)
LEMMA NextMultiple ==
  ASSUME NEW a \in Nat, NEW n \in Nat, NEW b \in (a + n)..(a + n + 7), a % 8 = 0, b % 8 = 0
  PROVE  a + RoundUp(n) = b
<1>1. PICK i \in Nat : a = 8 * i
  <2>1. a = (a \div 8) * 8 + (a % 8) /\ a \div 8 \in Nat
    BY DivMod
  <2> QED BY <2>1
<1>2. PICK j \in Nat : b = 8 * j
  <2>1. b = (b \div 8) * 8 + (b % 8) /\ b \div 8 \in Nat
    BY DivMod
  <2> QED BY <2>1
<1>3. PICK q \in Nat, r \in 0..7 : n + 7 = q * 8 + r /\ (n + 7) \div 8 = q
  <2>1. /\ (n + 7) \div 8 \in Nat /\ (n + 7) % 8 \in 0..7
        /\ n + 7 = ((n + 7) \div 8) * 8 + ((n + 7) % 8)
    BY DivMod
  <2> QED BY <2>1
<1>4. j = i + q
  BY <1>1, <1>2, <1>3
<1> QED BY <1>1, <1>2, <1>3, <1>4 DEF RoundUp

(* Every tag lies at a multiple of eight, and the step over one that is    *)
(* not the last comes to the next.                                         *)
LEMMA StepLands ==
  ASSUME NEW passed \in Loaders, NEW k \in 1..Len(passed), passed[k].type # "end"
  PROVE  k + 1 \in 1..Len(passed) /\ passed[k].at + RoundUp(passed[k].size) = passed[k + 1].at
<1>1. Len(passed) \in Nat /\ DOMAIN passed = 1..Len(passed) /\ Placed(passed)
  BY BootParameters
<1>2. k # Len(passed) /\ passed[k].size \in Nat
  BY <1>1 DEF Placed
<1>3. k + 1 \in 1..Len(passed) /\ k + 1 \in 2..Len(passed)
  <2> DEFINE n == Len(passed)
  <2>1. n \in Nat /\ k \in 1..n /\ k # n
    BY <1>1, <1>2
  <2> HIDE DEF n
  <2>2. k + 1 \in 1..n /\ k + 1 \in 2..n
    BY <2>1
  <2> QED BY <2>2 DEF n
<1>4. \A j \in 2..Len(passed) :
        LET end == passed[j - 1].at + passed[j - 1].size
        IN  passed[j].at \in end..(end + 7) /\ passed[j].at % 8 = 0
  BY <1>1 DEF Placed
<1>5. k + 1 - 1 = k
  BY <1>1
<1>6. /\ passed[k + 1].at \in (passed[k].at + passed[k].size)..(passed[k].at + passed[k].size + 7)
      /\ passed[k + 1].at % 8 = 0
  BY <1>3, <1>4, <1>5
<1>7. passed[k].at % 8 = 0
  <2>1. CASE k = 1
    BY <1>1, <2>1 DEF Placed
  <2>2. CASE k # 1
    <3>1. k \in 2..Len(passed)
      BY <1>1, <2>2
    <3> QED BY <1>4, <3>1
  <2> QED BY <2>1, <2>2
<1>8. passed[k].at \in Nat
  BY <1>3, TagsAscend
<1>9. passed[k].at + RoundUp(passed[k].size) = passed[k + 1].at
  BY <1>2, <1>6, <1>7, <1>8, NextMultiple
<1> QED BY <1>3, <1>9

(* The walker stands on a tag, and has taken a width from those before it. *)
WalkInv ==
  /\ ~magic /\ access = "parse" => width = 0
  /\ magic => tags \in Loaders
  /\ access = "parse" /\ magic =>
       \E k \in 1..Len(tags) :
         /\ tags[k].at = at
         /\ width # 0 <=> \E j \in 1..(k - 1) : tags[j].type = "framebuffer"
  /\ access # "parse" =>
       (access = "cli" <=> magic /\ \E k \in DOMAIN tags : tags[k].type = "framebuffer")

(* The walk begins at the first tag.                                       *)
LEMMA WalkInit == BootInit => WalkInv
<1> SUFFICES ASSUME BootInit PROVE WalkInv
  OBVIOUS
<1>1. access = "parse" /\ width = 0 /\ at = 8 /\ (magic => tags \in Loaders)
  BY DEF BootInit
<1>2. ASSUME magic
      PROVE  \E k \in 1..Len(tags) :
               /\ tags[k].at = at
               /\ width # 0 <=> \E j \in 1..(k - 1) : tags[j].type = "framebuffer"
  <2>1. Len(tags) \in Nat /\ DOMAIN tags = 1..Len(tags) /\ Placed(tags)
    BY <1>1, <1>2, BootParameters
  <2>2. tags[1].at = 8 /\ 1 \in 1..Len(tags)
    <3>1. tags # <<>> /\ tags[1].at = 8
      BY <2>1 DEF Placed
    <3>2. \E k \in DOMAIN tags : TRUE
      <4>1. PICK passed \in Loaders : passed = tags
        BY <1>1, <1>2
      <4> QED BY <2>1, <3>1, <1>1, <1>2, BootParameters
    <3> QED BY <2>1, <3>1, <3>2
  <2> QED BY <1>1, <2>2
<1> QED BY <1>1, <1>2 DEF WalkInv

(* A step over a tag lands on the next, the end tag ends the walk, and     *)
(* nothing after it changes what it found.                                 *)
LEMMA WalkNext ==
  BootTypeInv /\ WidthsGiven /\ WalkInv /\ [BootNext]_bootVars => WalkInv'
<1> SUFFICES ASSUME BootTypeInv, WidthsGiven, WalkInv, [BootNext]_bootVars PROVE WalkInv'
  OBVIOUS
<1>1. ASSUME magic, access = "parse", NEW k \in 1..Len(tags), tags[k].at = at
      PROVE  /\ TagAt(at) = tags[k] /\ tags \in Loaders
             /\ Len(tags) \in Nat /\ DOMAIN tags = 1..Len(tags) /\ Placed(tags)
  <2>1. tags \in Loaders
    BY <1>1 DEF WalkInv
  <2>2. Len(tags) \in Nat /\ DOMAIN tags = 1..Len(tags) /\ Placed(tags)
    BY <2>1, BootParameters
  <2>3. k \in TagsAt(at)
    BY <1>1, <2>2 DEF TagsAt
  <2>4. PICK j \in TagsAt(at) : TagAt(at) = tags[j]
    BY <2>3 DEF TagAt
  <2>5. j = k
    BY <2>1, <2>2, <2>4, <1>1, SameTag DEF TagsAt
  <2> QED BY <2>1, <2>2, <2>4, <2>5
<1>2. CASE BadMagic
  BY <1>2 DEF BadMagic, Jump, ParsedTo, tagVars, WalkInv
<1>3. CASE WalkTag
  <2>1. magic /\ access = "parse" /\ UNCHANGED <<tags, magic, access>>
    BY <1>3 DEF WalkTag, mainVars
  <2>2. PICK k \in 1..Len(tags) :
          /\ tags[k].at = at
          /\ width # 0 <=> \E j \in 1..(k - 1) : tags[j].type = "framebuffer"
    BY <2>1 DEF WalkInv
  <2>3. /\ TagAt(at) = tags[k] /\ tags \in Loaders
        /\ Len(tags) \in Nat /\ DOMAIN tags = 1..Len(tags)
    BY <1>1, <2>1, <2>2
  <2>4. /\ tags[k].type # "end" /\ at' = at + RoundUp(tags[k].size)
        /\ width' = (IF tags[k].type = "framebuffer" THEN tags[k].width ELSE width)
    BY <1>3, <2>3 DEF WalkTag, Step
  <2>5. k + 1 \in 1..Len(tags) /\ tags[k + 1].at = at'
    BY <2>2, <2>3, <2>4, StepLands
  <2>6. width' # 0 <=> \E j \in 1..k : tags[j].type = "framebuffer"
    <3>1. CASE tags[k].type = "framebuffer"
      <4>1. tags[k].width # 0
        <5>1. tags[k].width > 0
          BY <2>3, <3>1 DEF WidthsGiven
        <5>2. tags[k].width \in Nat
          BY <1>1, <2>1, <2>2 DEF Placed
        <5> QED BY <5>1, <5>2
      <4> QED BY <2>3, <2>4, <3>1, <4>1
    <3>2. CASE tags[k].type # "framebuffer"
      <4>1. 1..k = (1..(k - 1)) \cup {k}
        BY <2>3
      <4> QED BY <2>2, <2>4, <3>2, <4>1
    <3> QED BY <3>1, <3>2
  <2>7. k + 1 - 1 = k
    BY <2>3
  <2> QED BY <2>1, <2>3, <2>5, <2>6, <2>7 DEF WalkInv
<1>4. CASE Parsed
  <2>1. magic /\ access = "parse" /\ UNCHANGED <<tags, magic, width>> /\ access' = ParsedTo
    BY <1>4 DEF Parsed, Jump, tagVars
  <2>2. PICK k \in 1..Len(tags) :
          /\ tags[k].at = at
          /\ width # 0 <=> \E j \in 1..(k - 1) : tags[j].type = "framebuffer"
    BY <2>1 DEF WalkInv
  <2>3. /\ TagAt(at) = tags[k] /\ tags \in Loaders
        /\ Len(tags) \in Nat /\ DOMAIN tags = 1..Len(tags) /\ Placed(tags)
    BY <1>1, <2>1, <2>2
  <2>4. tags[k].type = "end"
    BY <1>4, <2>3 DEF Parsed
  <2>5. k = Len(tags)
    BY <2>3, <2>4 DEF Placed
  <2>6. 1..Len(tags) = (1..(k - 1)) \cup {k}
    BY <2>3, <2>5
  <2>7. (\E j \in DOMAIN tags : tags[j].type = "framebuffer") <=> width # 0
    BY <2>2, <2>3, <2>4, <2>6
  <2> QED BY <2>1, <2>3, <2>7 DEF WalkInv, ParsedTo
<1>5. ASSUME UNCHANGED <<tags, magic, at, width>>,
             \/ access' = access
             \/ access \notin {"parse", "cli"} /\ access' \notin {"parse", "cli"}
      PROVE  WalkInv'
  BY <1>5 DEF WalkInv
<1>6. CASE ClearCell
  BY <1>5, <1>6 DEF ClearCell, Jump, tagVars
<1>7. CASE ClearRow
  BY <1>5, <1>7 DEF ClearRow, Jump, tagVars
<1>8. CASE ClearCol
  BY <1>5, <1>8 DEF ClearCol, Jump, tagVars
<1>9. CASE Fetch
  BY <1>5, <1>9 DEF Fetch, Jump, tagVars
<1>10. CASE IndexRow
  BY <1>5, <1>10 DEF IndexRow, LoadRow, Jump, tagVars
<1>11. CASE IndexCol
  BY <1>5, <1>11 DEF IndexCol, AddColumn, Jump, tagVars
<1>12. CASE StoreChar
  BY <1>5, <1>12 DEF StoreChar, Jump, tagVars
<1>13. CASE ColLoad
  BY <1>5, <1>13 DEF ColLoad, Jump, tagVars
<1>14. CASE ColStore
  BY <1>5, <1>14 DEF ColStore, Jump, tagVars
<1>15. CASE ColTest
  BY <1>5, <1>15 DEF ColTest, Jump, tagVars
<1>16. CASE WrapCol
  BY <1>5, <1>16 DEF WrapCol, Jump, tagVars
<1>17. CASE NewlineCol
  BY <1>5, <1>17 DEF NewlineCol, Jump, tagVars
<1>18. CASE RowLoad
  BY <1>5, <1>18 DEF RowLoad, LoadRow, Jump, tagVars
<1>19. CASE RowStore
  BY <1>5, <1>19 DEF RowStore, Jump, tagVars
<1>20. CASE RowTest
  BY <1>5, <1>20 DEF RowTest, Jump, tagVars
<1>21. CASE ScrollCell
  BY <1>5, <1>21 DEF ScrollCell, Jump, tagVars
<1>22. CASE ScrollRow
  BY <1>5, <1>22 DEF ScrollRow, Jump, tagVars
<1>23. CASE CursorRow
  BY <1>5, <1>23 DEF CursorRow, LoadRow, Jump, tagVars
<1>24. CASE CursorCol
  BY <1>5, <1>24 DEF CursorCol, AddColumn, Jump, tagVars
<1>25. CASE Cursor1
  BY <1>5, <1>25 DEF Cursor1, Out, Jump, tagVars
<1>26. CASE Cursor2
  BY <1>5, <1>26 DEF Cursor2, Out, Jump, tagVars
<1>27. CASE Cursor3
  BY <1>5, <1>27 DEF Cursor3, Out, Jump, tagVars
<1>28. CASE Cursor4
  BY <1>5, <1>28 DEF Cursor4, Out, Jump, tagVars
<1>29. ASSUME NEW c \in Keys, Echo(c) PROVE WalkInv'
  BY <1>5, <1>29 DEF Echo, tagVars, mainVars
<1>30. CASE UNCHANGED bootVars
  BY <1>5, <1>30 DEF bootVars, tagVars, mainVars
<1> QED BY <1>2, <1>3, <1>4, <1>6, <1>7, <1>8, <1>9, <1>10, <1>11, <1>12, <1>13, <1>14, <1>15, <1>16, <1>17, <1>18, <1>19, <1>20, <1>21, <1>22, <1>23, <1>24, <1>25, <1>26, <1>27, <1>28, <1>29, <1>30
   DEF BootNext, MainStep

(* Where announced framebuffers have a width, the walk over the loader's   *)
(* tags lands on every tag, whatever their sizes, and the framebuffer is   *)
(* used exactly when one was announced (multiboot2.c:16-84,                *)
(* kernel.c:72-78).                                                        *)
THEOREM BootEveryTagSeen ==
  ASSUME WidthsGiven
  PROVE  BootSpec => []EveryTagSeen
<1>1. BootInit => BootTypeInv /\ WalkInv
  BY BootTypeInit, WalkInit
<1>2. BootTypeInv /\ WalkInv /\ [BootNext]_bootVars => (BootTypeInv /\ WalkInv)'
  BY WidthsGiven, BootTypeNext, WalkNext
<1>3. BootTypeInv /\ WalkInv => EveryTagSeen
  <2> SUFFICES ASSUME BootTypeInv, WalkInv PROVE EveryTagSeen
    OBVIOUS
  <2>1. ASSUME access = "parse", magic PROVE TagsAt(at) # {}
    <3>1. PICK k \in 1..Len(tags) : tags[k].at = at
      BY <2>1 DEF WalkInv
    <3>2. DOMAIN tags = 1..Len(tags)
      BY <2>1, BootParameters DEF WalkInv
    <3> QED BY <3>1, <3>2 DEF TagsAt
  <2> QED BY <2>1 DEF WalkInv, EveryTagSeen
<1> QED BY <1>1, <1>2, <1>3, PTL DEF BootSpec

-----------------------------------------------------------------------------
(* The screen s when the call that the main program is in is over, which   *)
(* is at its access a and, in a loop, at cell n.                           *)
PartlyScrolled(buf, n) == [k \in CellsShown |-> IF k < n THEN buf[k] ELSE Scrolled(buf)[k]]

OutcomeOf(a, s, n) ==
  CASE a \in {"col_load", "col_store"} -> Advanced(s)
    [] a = "col_test" -> IF s.col = VGA_WIDTH THEN NewRow([s EXCEPT !.col = 0]) ELSE s
    [] a \in {"wrap_col", "row_load", "row_store"} -> NewRow([s EXCEPT !.col = 0])
    [] a = "row_test" -> IF s.row = VGA_HEIGHT
                         THEN [s EXCEPT !.buf = Scrolled(@), !.row = VGA_HEIGHT - 1]
                         ELSE s
    [] a = "scroll" -> [s EXCEPT !.buf = PartlyScrolled(@, n), !.row = VGA_HEIGHT - 1]
    [] a = "scroll_row" -> [s EXCEPT !.row = VGA_HEIGHT - 1]
    [] OTHER -> s

Clearing == {"clear", "clear_row", "clear_col"}

Plain ==
  {"parse", "cli", "halt", "fetch", "index_row", "index_col", "store", "nl_col",
   "cur_row", "cur_col", "cur_1", "cur_2", "cur_3", "cur_4"}

CallInv ==
  met = {} =>
    /\ access \notin Clearing =>
         SheetOK(sheet) /\ Shows(OutcomeOf(access, screen, index), sheet, Paper)
    /\ access = "clear" => \A k \in CellsShown : k < index => screen.buf[k] = space
    /\ access \in {"clear_row", "clear_col"} => \A k \in CellsShown : screen.buf[k] = space
    /\ access = "clear_col" => screen.row = 0
    /\ access = "index_col" => reg = screen.row
    /\ access = "store" => pos = Here
    /\ access = "col_store" => reg = screen.col
    /\ access = "row_store" => reg = screen.row
    /\ access \in {"row_load", "row_store"} => screen.col = 0

(* vga_scroll cell by cell: the cells to come still have theirs below.     *)
LEMMA ScrollStep ==
  ASSUME NEW buf \in [CellsShown -> Glyphs], NEW n \in CellsShown
  PROVE  PartlyScrolled(ScrolledCell(buf, n), n + 1) = PartlyScrolled(buf, n)
<1> DEFINE b == ScrolledCell(buf, n)
<1>1. CellsShown \subseteq Nat /\ VGA_WIDTH \in Nat \ {0} /\ LastLine \in Nat
  <2>1. VGA_WIDTH \in Nat \ {0} /\ VGA_HEIGHT \in Nat \ {0}
    BY VgaParameters
  <2> QED BY <2>1, CellsNotEmpty DEF LastLine
<1>2. \A k \in CellsShown : b[k] = IF k = n THEN Scrolled(buf)[n] ELSE buf[k]
  BY DEF ScrolledCell, Scrolled
<1> HIDE DEF b
<1>3. ASSUME NEW k \in CellsShown
      PROVE  PartlyScrolled(b, n + 1)[k] = PartlyScrolled(buf, n)[k]
  <2>1. k \in Nat /\ n \in Nat
    BY <1>1
  <2>2. CASE k < n
    BY <1>2, <2>1, <2>2 DEF PartlyScrolled
  <2>3. CASE k = n
    BY <1>2, <2>1, <2>3 DEF PartlyScrolled
  <2>4. CASE n < k
    <3>1. PartlyScrolled(b, n + 1)[k] = Scrolled(b)[k] /\ PartlyScrolled(buf, n)[k] = Scrolled(buf)[k]
      BY <2>1, <2>4 DEF PartlyScrolled
    <3>2. k < LastLine => k + VGA_WIDTH \in CellsShown /\ k + VGA_WIDTH # n
      BY <1>1, <2>1, <2>4, CellBelow
    <3>3. Scrolled(b)[k] = Scrolled(buf)[k]
      BY <1>2, <3>2 DEF Scrolled
    <3> QED BY <3>1, <3>3
  <2> QED BY <2>1, <2>2, <2>3, <2>4
<1>4. PartlyScrolled(b, n + 1) = PartlyScrolled(buf, n)
  BY <1>3 DEF PartlyScrolled
<1> QED BY <1>4 DEF b

(* Before its first cell and after its last.                               *)
LEMMA ScrollEnds ==
  ASSUME NEW buf \in [CellsShown -> Glyphs]
  PROVE  /\ PartlyScrolled(buf, 0) = Scrolled(buf)
         /\ \A n \in CellsShown : n + 1 \notin CellsShown => PartlyScrolled(buf, n + 1) = buf
<1>1. CellsShown \subseteq Nat
  BY CellsNotEmpty
<1>2. PartlyScrolled(buf, 0) = Scrolled(buf)
  BY <1>1 DEF PartlyScrolled, Scrolled
<1>3. ASSUME NEW n \in CellsShown, n + 1 \notin CellsShown
      PROVE  PartlyScrolled(buf, n + 1) = buf
  <2>1. \A k \in CellsShown : k < n + 1
    BY <1>3, VgaParameters DEF CellsShown
  <2> QED BY <2>1 DEF PartlyScrolled
<1> QED BY <1>2, <1>3

(* Outside the moves of the position the call is done with the text.       *)
LEMMA PlainOutcome ==
  ASSUME NEW a \in Plain, NEW s, NEW n
  PROVE  OutcomeOf(a, s, n) = s
BY DEF OutcomeOf, Plain

(* Colours, port and cursor do not show.                                   *)
LEMMA ShowsSame ==
  ASSUME NEW s, NEW t, NEW sh, NEW paper, Shows(s, sh, paper),
         t.row = s.row, t.col = s.col, t.buf = s.buf
  PROVE  Shows(t, sh, paper)
BY DEF Shows

(* The cleared screen shows an empty sheet.                                *)
LEMMA ClearedShows ==
  ASSUME NEW s, s.row = 0, s.col = 0, s.buf \in [CellsShown -> Glyphs],
         \A k \in CellsShown : s.buf[k] = space
  PROVE  SheetOK(EmptySheet) /\ Shows(s, EmptySheet, space)
<1>1. VGA_WIDTH \in Nat \ {0} /\ VGA_HEIGHT \in Nat \ {0, 1}
  BY VgaParameters
<1>2. /\ EmptySheet.row = 0 /\ EmptySheet.col = 0 /\ DOMAIN EmptySheet.text = {}
  BY DEF EmptySheet
<1>3. SheetOK(EmptySheet)
  BY <1>1 DEF SheetOK, EmptySheet
<1>4. ShownRow(EmptySheet) = 0
  BY <1>1, <1>2 DEF ShownRow
<1>5. \A i \in CellsShown : LastRows(EmptySheet, space)[i] = space
  BY <1>2, LastRowsIs DEF CellOf
<1>6. LastRows(EmptySheet, space) = s.buf
  BY <1>5, LastRowsIs
<1> QED BY <1>2, <1>3, <1>4, <1>6 DEF Shows

(* The screen that the loader left shows an empty sheet on old paper.      *)
LEMMA CallInit == BootInit => CallInv
<1> SUFFICES ASSUME BootInit PROVE CallInv
  OBVIOUS
<1>1. /\ access = "parse" /\ sheet = EmptySheet
      /\ screen.row = 0 /\ screen.col = 0 /\ screen.buf = [i \in CellsShown |-> "old"]
  BY DEF BootInit, PoweredOn
<1>2. VGA_WIDTH \in Nat \ {0} /\ VGA_HEIGHT \in Nat \ {0, 1}
  BY VgaParameters
<1>3. /\ EmptySheet.row = 0 /\ EmptySheet.col = 0 /\ DOMAIN EmptySheet.text = {}
  BY DEF EmptySheet
<1>4. SheetOK(EmptySheet)
  BY <1>2 DEF SheetOK, EmptySheet
<1>5. Top(EmptySheet) = 0 /\ ShownRow(EmptySheet) = 0
  BY <1>2, <1>3 DEF Top, ShownRow
<1>6. ASSUME NEW i \in CellsShown PROVE LastRows(EmptySheet, "old")[i] = "old"
  <2>1. 0 + (i \div VGA_WIDTH) < VGA_HEIGHT
    BY <1>2, CellPlace
  <2>2. LastRows(EmptySheet, "old")[i] = CellOf(EmptySheet, "old", 0 + (i \div VGA_WIDTH), i % VGA_WIDTH)
    BY <1>5, LastRowsIs
  <2> QED BY <2>1, <2>2, <1>3 DEF CellOf
<1>7. LastRows(EmptySheet, "old") = [i \in CellsShown |-> "old"]
  BY <1>6, LastRowsIs
<1>8. Shows(screen, sheet, "old")
  BY <1>1, <1>3, <1>5, <1>7 DEF Shows
<1>9. OutcomeOf(access, screen, index) = screen
  <2>1. access \in Plain
    BY <1>1 DEF Plain
  <2> QED BY <2>1, PlainOutcome, Zenon
<1>10. Paper = "old"
  BY <1>1 DEF Paper
<1> QED BY <1>1, <1>4, <1>8, <1>9, <1>10 DEF CallInv, Clearing

(* Every step of the main program keeps the outcome of its call, but for   *)
(* the one that puts the character; a key that is typed between two calls  *)
(* adds to what is shown.                                                  *)
LEMMA CallNext == BootTypeInv /\ CallInv /\ [BootNext]_bootVars => CallInv'
<1> SUFFICES ASSUME BootTypeInv, CallInv, [BootNext]_bootVars, met' = {} PROVE CallInv'
  BY DEF CallInv
<1> DEFINE O == OutcomeOf(access, screen, index)
<1>1. /\ screen \in Screens /\ screen.row \in Nat /\ screen.col \in Nat
      /\ screen.buf \in [CellsShown -> Glyphs]
      /\ reg \in Nat /\ pos \in Nat /\ access \in Accesses /\ index \in CellsShown
      /\ VGA_WIDTH \in Nat \ {0} /\ VGA_HEIGHT \in Nat \ {0, 1}
      /\ access \notin {"clear", "scroll"} => index = 0
      /\ CellsShown \subseteq Nat
  BY VgaParameters, CellsNotEmpty DEF BootTypeInv, BootTypeOK, MessageInv, Screens
<1>2. screen' \in Screens /\ screen'.buf \in [CellsShown -> Glyphs]
  BY BootTypeNext DEF BootTypeInv, BootTypeOK, Screens
<1>3. met = {}
  <2>1. CASE \E c \in Keys : Echo(c)
    BY <2>1 DEF Echo
  <2>2. CASE MainStep
    BY <2>2 DEF MainStep, BadMagic, WalkTag, Parsed, ClearCell, ClearRow, ClearCol, Fetch, IndexRow,
                IndexCol, StoreChar, ColLoad, ColStore, ColTest, WrapCol, NewlineCol, RowLoad,
                RowStore, RowTest, ScrollCell, ScrollRow, CursorRow, CursorCol, Cursor1, Cursor2,
                Cursor3, Cursor4, LoadRow, AddColumn, Out
  <2>3. CASE UNCHANGED bootVars
    BY <2>3 DEF bootVars
  <2> QED BY <2>1, <2>2, <2>3 DEF BootNext
<1>4. /\ access \notin Clearing => SheetOK(sheet) /\ Shows(O, sheet, Paper)
      /\ access = "clear" => \A k \in CellsShown : k < index => screen.buf[k] = space
      /\ access \in {"clear_row", "clear_col"} => \A k \in CellsShown : screen.buf[k] = space
      /\ access = "clear_col" => screen.row = 0
      /\ access = "index_col" => reg = screen.row
      /\ access = "store" => pos = Here
      /\ access = "col_store" => reg = screen.col
      /\ access = "row_store" => reg = screen.row
      /\ access \in {"row_load", "row_store"} => screen.col = 0
  BY <1>3 DEF CallInv
<1> HIDE DEF O
(* A step that leaves the outcome and the sheet as they are.               *)
<1>5. ASSUME access \notin Clearing, access' \notin Clearing, UNCHANGED <<sheet, Paper>>,
             O'.row = O.row, O'.col = O.col, O'.buf = O.buf
      PROVE  access' \notin Clearing => SheetOK(sheet') /\ Shows(O', sheet', Paper')
  BY <1>4, <1>5, ShowsSame
(* Most steps do not touch the text at all.                                *)
<1>6. ASSUME access \in Plain, access' \in Plain, UNCHANGED <<sheet, Paper>>,
             screen'.row = screen.row, screen'.col = screen.col, screen'.buf = screen.buf,
             access' = "index_col" => reg' = screen.row,
             access' = "store" => pos' = Here
      PROVE  CallInv'
  <2>1. O = screen /\ O' = screen'
    BY <1>6, PlainOutcome DEF O
  <2>2. Here' = Here
    BY <1>6 DEF Here
  <2>3. access' \notin Clearing => SheetOK(sheet') /\ Shows(O', sheet', Paper')
    BY <1>5, <1>6, <2>1 DEF Plain, Clearing
  <2> QED BY <1>6, <2>2, <2>3 DEF CallInv, Plain, Clearing, O
<1>7. CASE BadMagic \/ Parsed
  <2>1. /\ access = "parse" /\ access' = ParsedTo /\ index' = index /\ index = 0
        /\ screen' = screen /\ sheet' = sheet
    BY <1>1, <1>7 DEF BadMagic, Parsed, Jump
  <2>2. CASE access' = "clear"
    BY <1>1, <2>1, <2>2 DEF CallInv, Clearing
  <2>3. CASE access' = "cli"
    <3>1. access \in Plain /\ access' \in Plain /\ Paper' = Paper
      BY <2>1, <2>3 DEF Plain, Paper
    <3> QED BY <1>6, <2>1, <2>3, <3>1
  <2> QED BY <2>1, <2>2, <2>3 DEF ParsedTo
<1>8. CASE WalkTag
  <2>1. access = "parse" /\ access' = access /\ screen' = screen /\ sheet' = sheet
    BY <1>8 DEF WalkTag, mainVars
  <2>2. access \in Plain /\ Paper' = Paper
    BY <2>1 DEF Plain, Paper
  <2> QED BY <1>6, <2>1, <2>2
<1>9. CASE ClearCell
  <2>1. \A k \in CellsShown : k < index + 1 => screen'.buf[k] = space
    <3>1. screen'.buf = [screen.buf EXCEPT ![index] = space]
      BY <1>1, <1>9 DEF ClearCell, Screens
    <3>2. access = "clear"
      BY <1>9 DEF ClearCell, Jump
    <3> TAKE k \in CellsShown
    <3>3. k \in Nat /\ index \in Nat
      BY <1>1
    <3> QED BY <1>1, <1>4, <3>1, <3>2, <3>3
  <2>2. CASE index + 1 \in CellsShown
    <3>1. access' = "clear" /\ index' = index + 1
      BY <1>9, <2>2 DEF ClearCell, Jump
    <3> QED BY <2>1, <3>1 DEF CallInv, Clearing
  <2>3. CASE index + 1 \notin CellsShown
    <3>1. access' = "clear_row"
      BY <1>9, <2>3 DEF ClearCell, Jump
    <3>2. \A k \in CellsShown : k < index + 1
      BY <1>1, <2>3 DEF CellsShown
    <3> QED BY <2>1, <3>1, <3>2 DEF CallInv, Clearing
  <2> QED BY <2>2, <2>3
<1>10. CASE ClearRow
  <2>1. access = "clear_row" /\ access' = "clear_col" /\ screen'.row = 0 /\ screen'.buf = screen.buf
    BY <1>1, <1>10 DEF ClearRow, Jump, Screens
  <2> QED BY <1>4, <2>1 DEF CallInv, Clearing
<1>11. CASE ClearCol
  <2>1. /\ access = "clear_col" /\ access' = "cur_row" /\ sheet' = EmptySheet
        /\ screen'.row = screen.row /\ screen'.col = 0 /\ screen'.buf = screen.buf
    BY <1>1, <1>11 DEF ClearCol, Jump, Screens
  <2>2. access' \in Plain /\ Paper' = space
    BY <2>1 DEF Plain, Paper
  <2>3. O' = screen'
    BY <2>2, PlainOutcome DEF O
  <2>4. SheetOK(EmptySheet) /\ Shows(screen', EmptySheet, space)
    BY <1>1, <1>4, <2>1, ClearedShows
  <2> QED BY <2>1, <2>2, <2>3, <2>4 DEF CallInv, Clearing, O
<1>12. CASE IndexRow
  <2>1. /\ screen'.row = screen.row /\ screen'.col = screen.col /\ screen'.buf = screen.buf
        /\ access \in Plain /\ access' \in Plain /\ access \notin {"parse", "cli"}
        /\ access' \notin {"parse", "cli"} /\ sheet' = sheet
    BY <1>1, <1>12 DEF IndexRow, LoadRow, Jump, Plain, Screens
  <2>2. Paper' = Paper
    BY <2>1 DEF Paper
  <2>3. access' = "index_col" /\ reg' = screen.row
    BY <1>12 DEF IndexRow, LoadRow, Jump
  <2> QED BY <1>6, <2>1, <2>2, <2>3
<1>13. CASE IndexCol
  <2>1. /\ screen'.row = screen.row /\ screen'.col = screen.col /\ screen'.buf = screen.buf
        /\ access \in Plain /\ access' \in Plain /\ access \notin {"parse", "cli"}
        /\ access' \notin {"parse", "cli"} /\ sheet' = sheet
    BY <1>1, <1>13 DEF IndexCol, AddColumn, Jump, Plain, Screens
  <2>2. Paper' = Paper
    BY <2>1 DEF Paper
  <2>3. access' = "store" /\ pos' = Here
    BY <1>4, <1>13 DEF IndexCol, AddColumn, Jump, Here
  <2> QED BY <1>6, <2>1, <2>2, <2>3
<1>14. CASE Fetch
  <2>1. /\ screen'.row = screen.row /\ screen'.col = screen.col /\ screen'.buf = screen.buf
        /\ access \in Plain /\ access' \in Plain /\ access \notin {"parse", "cli"}
        /\ access' \notin {"parse", "cli"} /\ sheet' = sheet
    BY <1>1, <1>14 DEF Fetch, Jump, Plain, Screens
  <2>2. Paper' = Paper
    BY <2>1 DEF Paper
  <2>3. access' \notin {"index_col", "store"}
    BY <1>14 DEF Fetch, Jump
  <2> QED BY <1>6, <2>1, <2>2, <2>3
<1>15. CASE CursorRow
  <2>1. /\ screen'.row = screen.row /\ screen'.col = screen.col /\ screen'.buf = screen.buf
        /\ access \in Plain /\ access' \in Plain /\ access \notin {"parse", "cli"}
        /\ access' \notin {"parse", "cli"} /\ sheet' = sheet
    BY <1>1, <1>15 DEF CursorRow, LoadRow, Jump, Plain, Screens
  <2>2. Paper' = Paper
    BY <2>1 DEF Paper
  <2>3. access' \notin {"index_col", "store"}
    BY <1>15 DEF CursorRow, LoadRow, Jump
  <2> QED BY <1>6, <2>1, <2>2, <2>3
<1>16. CASE CursorCol
  <2>1. /\ screen'.row = screen.row /\ screen'.col = screen.col /\ screen'.buf = screen.buf
        /\ access \in Plain /\ access' \in Plain /\ access \notin {"parse", "cli"}
        /\ access' \notin {"parse", "cli"} /\ sheet' = sheet
    BY <1>1, <1>16 DEF CursorCol, AddColumn, Jump, Plain, Screens
  <2>2. Paper' = Paper
    BY <2>1 DEF Paper
  <2>3. access' \notin {"index_col", "store"}
    BY <1>16 DEF CursorCol, AddColumn, Jump
  <2> QED BY <1>6, <2>1, <2>2, <2>3
<1>17. CASE Cursor1
  <2>1. /\ screen'.row = screen.row /\ screen'.col = screen.col /\ screen'.buf = screen.buf
        /\ access \in Plain /\ access' \in Plain /\ access \notin {"parse", "cli"}
        /\ access' \notin {"parse", "cli"} /\ sheet' = sheet
    BY <1>1, <1>17 DEF Cursor1, Out, Jump, Plain, Screens
  <2>2. Paper' = Paper
    BY <2>1 DEF Paper
  <2>3. access' \notin {"index_col", "store"}
    BY <1>17 DEF Cursor1, Out, Jump
  <2> QED BY <1>6, <2>1, <2>2, <2>3
<1>18. CASE Cursor2
  <2>1. /\ screen'.row = screen.row /\ screen'.col = screen.col /\ screen'.buf = screen.buf
        /\ access \in Plain /\ access' \in Plain /\ access \notin {"parse", "cli"}
        /\ access' \notin {"parse", "cli"} /\ sheet' = sheet
    BY <1>1, <1>18 DEF Cursor2, Out, DataTo, Jump, Plain, Screens
  <2>2. Paper' = Paper
    BY <2>1 DEF Paper
  <2>3. access' \notin {"index_col", "store"}
    BY <1>18 DEF Cursor2, Out, DataTo, Jump
  <2> QED BY <1>6, <2>1, <2>2, <2>3
<1>19. CASE Cursor3
  <2>1. /\ screen'.row = screen.row /\ screen'.col = screen.col /\ screen'.buf = screen.buf
        /\ access \in Plain /\ access' \in Plain /\ access \notin {"parse", "cli"}
        /\ access' \notin {"parse", "cli"} /\ sheet' = sheet
    BY <1>1, <1>19 DEF Cursor3, Out, Jump, Plain, Screens
  <2>2. Paper' = Paper
    BY <2>1 DEF Paper
  <2>3. access' \notin {"index_col", "store"}
    BY <1>19 DEF Cursor3, Out, Jump
  <2> QED BY <1>6, <2>1, <2>2, <2>3
<1>20. CASE Cursor4
  <2>1. /\ screen'.row = screen.row /\ screen'.col = screen.col /\ screen'.buf = screen.buf
        /\ access \in Plain /\ access' \in Plain /\ access \notin {"parse", "cli"}
        /\ access' \notin {"parse", "cli"} /\ sheet' = sheet
    BY <1>1, <1>20 DEF Cursor4, Out, DataTo, Jump, Plain, Screens
  <2>2. Paper' = Paper
    BY <2>1 DEF Paper
  <2>3. access' \notin {"index_col", "store"}
    BY <1>20 DEF Cursor4, Out, DataTo, Jump
  <2> QED BY <1>6, <2>1, <2>2, <2>3
<1>21. CASE StoreChar
  <2> DEFINE m == Message[char]  t == [screen EXCEPT !.buf = Stored(@, Here, m)]
  <2>1. /\ access = "store" /\ access' = "col_load" /\ screen' = t /\ sheet' = Write(sheet, m)
    BY <1>4, <1>21 DEF StoreChar, Jump
  <2>2. m \in Glyphs /\ m \notin {"nl", "cr", "bs", "tab"}
    <3>1. char \in 1..Len(Message) /\ m # "nl"
      BY <2>1 DEF BootTypeInv, MessageInv
    <3> QED BY <3>1, BootParameters DEF Glyphs
  <2>3. access \in Plain /\ Paper' = Paper
    BY <2>1 DEF Plain, Paper
  <2>4. SheetOK(sheet) /\ Shows(screen, sheet, Paper)
    BY <1>4, <2>1, <2>3, PlainOutcome DEF O, Clearing
  <2> HIDE DEF m
  <2>5. Laid(screen, m) = Advanced(t)
    BY <1>1, <2>2, LaidGlyphIs DEF Here
  <2> HIDE DEF t
  <2>6. SheetOK(Write(sheet, m)) /\ Shows(Laid(screen, m), Write(sheet, m), Paper)
    BY <1>1, <2>2, <2>4, LaidShows
  <2>7. OutcomeOf(access', screen', index') = Advanced(t)
    BY <2>1 DEF OutcomeOf
  <2> QED BY <2>1, <2>3, <2>5, <2>6, <2>7 DEF CallInv, Clearing
<1>22. CASE NewlineCol
  <2>1. /\ access = "nl_col" /\ access' = "row_load" /\ screen' = [screen EXCEPT !.col = 0]
        /\ sheet' = Write(sheet, "nl")
    BY <1>22 DEF NewlineCol, Jump
  <2>2. "nl" \in Glyphs
    BY <2>1 DEF BootTypeInv, MessageInv, Glyphs
  <2>3. access \in Plain /\ Paper' = Paper
    BY <2>1 DEF Plain, Paper
  <2>4. SheetOK(sheet) /\ Shows(screen, sheet, Paper)
    BY <1>4, <2>1, <2>3, PlainOutcome DEF O, Clearing
  <2>5. Laid(screen, "nl") = NewRow([screen EXCEPT !.col = 0])
    BY LaidIs
  <2>6. SheetOK(Write(sheet, "nl")) /\ Shows(Laid(screen, "nl"), Write(sheet, "nl"), Paper)
    BY <1>1, <2>2, <2>4, LaidShows
  <2>7. OutcomeOf(access', screen', index') = NewRow([screen EXCEPT !.col = 0])
    <3>1. OutcomeOf(access', screen', index') = NewRow([screen' EXCEPT !.col = 0])
      BY <2>1 DEF OutcomeOf
    <3>2. [screen' EXCEPT !.col = 0] = [screen EXCEPT !.col = 0]
      BY <2>1, <1>1 DEF Screens
    <3> QED BY <3>1, <3>2
  <2>8. screen'.col = 0
    BY <1>1, <2>1 DEF Screens
  <2> QED BY <2>1, <2>3, <2>5, <2>6, <2>7, <2>8 DEF CallInv, Clearing
(* The rest move within a call and keep its outcome.                       *)
<1>23. ASSUME access \notin {"parse", "cli"} \cup Clearing, access' \notin {"parse", "cli"} \cup Clearing,
              sheet' = sheet, O'.row = O.row, O'.col = O.col, O'.buf = O.buf
       PROVE  access' \notin Clearing => SheetOK(sheet') /\ Shows(O', sheet', Paper')
  <2>1. Paper' = Paper
    BY <1>23 DEF Paper
  <2> QED BY <1>5, <1>23, <2>1
<1>24. CASE ColLoad
  <2>1. /\ access = "col_load" /\ access' = "col_store" /\ UNCHANGED <<screen, sheet, index>>
        /\ reg' = screen.col
    BY <1>24 DEF ColLoad, Jump
  <2>2. O = Advanced(screen) /\ O' = Advanced(screen)
    BY <2>1 DEF O, OutcomeOf
  <2> QED BY <1>23, <2>1, <2>2 DEF CallInv, Clearing, O
<1>25. CASE ColStore
  <2>1. /\ access = "col_store" /\ access' = "col_test" /\ screen' = [screen EXCEPT !.col = @ + 1]
        /\ sheet' = sheet
    BY <1>4, <1>25 DEF ColStore, Jump
  <2>2. screen'.col = screen.col + 1 /\ [screen' EXCEPT !.col = 0] = [screen EXCEPT !.col = 0]
    BY <1>1, <2>1 DEF Screens
  <2>3. O = Advanced(screen)
    BY <2>1 DEF O, OutcomeOf
  <2>4. O' = IF screen'.col = VGA_WIDTH THEN NewRow([screen' EXCEPT !.col = 0]) ELSE screen'
    BY <2>1 DEF O, OutcomeOf
  <2>5. O' = O
    BY <2>1, <2>2, <2>3, <2>4 DEF Advanced
  <2> QED BY <1>23, <2>1, <2>5 DEF CallInv, Clearing, O
<1>26. CASE ColTest
  <2>1. /\ access = "col_test" /\ UNCHANGED <<screen, sheet>>
        /\ access' = IF screen.col = VGA_WIDTH THEN "wrap_col" ELSE "cur_row"
    BY <1>26 DEF ColTest, Jump
  <2>2. O = IF screen.col = VGA_WIDTH THEN NewRow([screen EXCEPT !.col = 0]) ELSE screen
    BY <2>1 DEF O, OutcomeOf
  <2>3. O' = IF screen.col = VGA_WIDTH THEN NewRow([screen EXCEPT !.col = 0]) ELSE screen
    BY <2>1 DEF O, OutcomeOf
  <2> QED BY <1>23, <2>1, <2>2, <2>3 DEF CallInv, Clearing, O
<1>27. CASE WrapCol
  <2>1. /\ access = "wrap_col" /\ access' = "row_load" /\ screen' = [screen EXCEPT !.col = 0]
        /\ sheet' = sheet
    BY <1>27 DEF WrapCol, Jump
  <2>2. screen'.col = 0 /\ [screen' EXCEPT !.col = 0] = [screen EXCEPT !.col = 0]
    BY <1>1, <2>1 DEF Screens
  <2>3. O = NewRow([screen EXCEPT !.col = 0]) /\ O' = NewRow([screen' EXCEPT !.col = 0])
    BY <2>1 DEF O, OutcomeOf
  <2> QED BY <1>23, <2>1, <2>2, <2>3 DEF CallInv, Clearing, O
<1>28. CASE RowLoad
  <2>1. /\ access = "row_load" /\ access' = "row_store" /\ UNCHANGED <<screen, sheet, index>>
        /\ reg' = screen.row
    BY <1>28 DEF RowLoad, LoadRow, Jump
  <2>2. O = NewRow([screen EXCEPT !.col = 0]) /\ O' = NewRow([screen EXCEPT !.col = 0])
    BY <2>1 DEF O, OutcomeOf
  <2> QED BY <1>4, <1>23, <2>1, <2>2 DEF CallInv, Clearing, O
<1>29. CASE RowStore
  <2>1. /\ access = "row_store" /\ access' = "row_test" /\ screen' = [screen EXCEPT !.row = @ + 1]
        /\ sheet' = sheet /\ screen.col = 0
    BY <1>4, <1>29 DEF RowStore, Jump
  <2>2. [screen EXCEPT !.col = 0] = screen
    BY <1>1, <2>1 DEF Screens
  <2>3. O = NewRow(screen)
    <3>1. O = NewRow([screen EXCEPT !.col = 0])
      BY <2>1 DEF O, OutcomeOf
    <3> QED BY <3>1, <2>2
  <2>4. O' = IF screen'.row = VGA_HEIGHT
             THEN [screen' EXCEPT !.buf = Scrolled(@), !.row = VGA_HEIGHT - 1] ELSE screen'
    BY <2>1 DEF O, OutcomeOf
  <2>5. /\ screen'.row = screen.row + 1
        /\ [screen' EXCEPT !.buf = Scrolled(@), !.row = VGA_HEIGHT - 1] =
             [screen EXCEPT !.buf = Scrolled(@), !.row = VGA_HEIGHT - 1]
    BY <1>1, <2>1 DEF Screens
  <2>6. O' = O
    BY <2>1, <2>3, <2>4, <2>5 DEF NewRow
  <2> QED BY <1>23, <2>1, <2>6 DEF CallInv, Clearing, O
<1>30. CASE RowTest
  <2>1. /\ access = "row_test" /\ UNCHANGED <<screen, sheet, index>> /\ index = 0
        /\ access' = IF screen.row = VGA_HEIGHT THEN "scroll" ELSE "cur_row"
    BY <1>1, <1>30 DEF RowTest, Jump
  <2>2. O = IF screen.row = VGA_HEIGHT
            THEN [screen EXCEPT !.buf = Scrolled(@), !.row = VGA_HEIGHT - 1] ELSE screen
    BY <2>1 DEF O, OutcomeOf
  <2>3. screen.row = VGA_HEIGHT =>
          O' = [screen EXCEPT !.buf = PartlyScrolled(@, 0), !.row = VGA_HEIGHT - 1]
    BY <2>1 DEF O, OutcomeOf
  <2>4. screen.row # VGA_HEIGHT => O' = screen
    BY <2>1 DEF O, OutcomeOf
  <2>5. PartlyScrolled(screen.buf, 0) = Scrolled(screen.buf)
    BY <1>1, ScrollEnds
  <2>6. O' = O
    BY <2>2, <2>3, <2>4, <2>5
  <2> QED BY <1>23, <2>1, <2>6 DEF CallInv, Clearing, O
<1>31. CASE ScrollCell
  <2>1. /\ access = "scroll" /\ sheet' = sheet
        /\ screen' = [screen EXCEPT !.buf = ScrolledCell(@, index)]
        /\ access' = IF index + 1 \in CellsShown THEN "scroll" ELSE "scroll_row"
        /\ index' = IF index + 1 \in CellsShown THEN index + 1 ELSE 0
    BY <1>31 DEF ScrollCell, Jump
  <2>2. /\ screen'.buf = ScrolledCell(screen.buf, index)
        /\ screen'.row = screen.row /\ screen'.col = screen.col
    BY <1>1, <2>1 DEF Screens
  <2>3. O = [screen EXCEPT !.buf = PartlyScrolled(@, index), !.row = VGA_HEIGHT - 1]
    BY <2>1 DEF O, OutcomeOf
  <2>4. O.row = VGA_HEIGHT - 1 /\ O.col = screen.col /\ O.buf = PartlyScrolled(screen.buf, index)
    BY <1>1, <2>3 DEF Screens
  <2>5. PartlyScrolled(screen'.buf, index + 1) = PartlyScrolled(screen.buf, index)
    BY <1>1, <2>2, ScrollStep
  <2>6. CASE index + 1 \in CellsShown
    <3>1. O' = [screen' EXCEPT !.buf = PartlyScrolled(@, index + 1), !.row = VGA_HEIGHT - 1]
      BY <2>1, <2>6 DEF O, OutcomeOf
    <3>2. O'.row = VGA_HEIGHT - 1 /\ O'.col = screen'.col
          /\ O'.buf = PartlyScrolled(screen'.buf, index + 1)
      BY <1>2, <3>1 DEF Screens
    <3> QED BY <1>23, <2>1, <2>2, <2>4, <2>5, <2>6, <3>2 DEF CallInv, Clearing, O
  <2>7. CASE index + 1 \notin CellsShown
    <3>1. O' = [screen' EXCEPT !.row = VGA_HEIGHT - 1]
      BY <2>1, <2>7 DEF O, OutcomeOf
    <3>2. O'.row = VGA_HEIGHT - 1 /\ O'.col = screen'.col /\ O'.buf = screen'.buf
      BY <1>2, <3>1 DEF Screens
    <3>3. PartlyScrolled(screen'.buf, index + 1) = screen'.buf
      BY <1>1, <1>2, <2>7, ScrollEnds
    <3> QED BY <1>23, <2>1, <2>2, <2>4, <2>5, <2>7, <3>2, <3>3 DEF CallInv, Clearing, O
  <2> QED BY <2>6, <2>7
<1>32. CASE ScrollRow
  <2>1. /\ access = "scroll_row" /\ access' = "cur_row" /\ sheet' = sheet
        /\ screen' = [screen EXCEPT !.row = VGA_HEIGHT - 1]
    BY <1>32 DEF ScrollRow, Jump
  <2>2. O = [screen EXCEPT !.row = VGA_HEIGHT - 1] /\ O' = screen'
    BY <2>1 DEF O, OutcomeOf
  <2> QED BY <1>23, <2>1, <2>2 DEF CallInv, Clearing, O
<1>33. ASSUME NEW c \in Keys, Echo(c) PROVE CallInv'
  <2>1. /\ screen' = Putchar(screen, c) /\ sheet' = Write(sheet, c)
        /\ UNCHANGED <<access, char, index, reg, pos>>
    BY <1>33 DEF Echo, mainVars
  <2>2. Untouched
    BY <1>33 DEF Echo
  <2>3. c \in Glyphs
    BY DEF Glyphs
  <2>4. CASE access = "clear"
    <3>1. index' = 0
      BY <2>1, <2>2, <2>4 DEF Untouched, AtRest
    <3> QED BY <1>1, <2>1, <2>4, <3>1 DEF CallInv, Clearing
  <2>5. CASE access # "clear"
    <3>1. /\ access \in Plain /\ access \notin {"index_col", "store"} \cup Clearing
          /\ access' = access /\ Paper' = Paper
      BY <2>1, <2>2, <2>5 DEF Untouched, AtRest, Plain, Clearing, Paper
    <3>2. SheetOK(sheet) /\ Shows(screen, sheet, Paper)
      BY <1>4, <3>1, PlainOutcome DEF O
    <3>3. SheetOK(sheet') /\ Shows(Laid(screen, c), sheet', Paper')
      BY <1>1, <2>1, <2>3, <3>1, <3>2, LaidShows
    <3>4. Shows(screen', sheet', Paper')
      BY <1>1, <2>1, <2>3, <3>3, PutcharIs, ShowsSame
    <3>5. OutcomeOf(access', screen', index') = screen'
      BY <3>1, PlainOutcome
    <3> QED BY <3>1, <3>3, <3>4, <3>5 DEF CallInv, Clearing, Plain
  <2> QED BY <2>4, <2>5
<1>34. CASE UNCHANGED bootVars
  BY <1>3, <1>34 DEF bootVars, tagVars, mainVars, CallInv, Here, Paper
<1> QED BY <1>7, <1>8, <1>9, <1>10, <1>11, <1>12, <1>13, <1>14, <1>15, <1>16, <1>17, <1>18, <1>19, <1>20, <1>21, <1>22, <1>24, <1>25, <1>26, <1>27, <1>28, <1>29, <1>30, <1>31, <1>32, <1>33, <1>34
   DEF BootNext, MainStep

(* Unless a key came in the middle of a call, the screen shows the last    *)
(* rows of what was written, however wraps, tabs, deletions and scrolls    *)
(* mix, whatever the size of the screen, the message and the keys          *)
(* (vga.c:52-117).                                                         *)
THEOREM BootScreenShowsText == BootSpec => []ScreenShowsText
<1>1. BootInit => BootTypeInv /\ CallInv
  BY BootTypeInit, CallInit
<1>2. BootTypeInv /\ CallInv /\ [BootNext]_bootVars => (BootTypeInv /\ CallInv)'
  BY BootTypeNext, CallNext
<1>3. CallInv => ScreenShowsText
  <2> SUFFICES ASSUME CallInv, AtRest, met = {} PROVE screen.buf = LastRows(sheet, Paper)
    BY DEF ScreenShowsText
  <2>1. access \in Plain /\ access \notin Clearing
    BY DEF AtRest, Plain, Clearing
  <2>2. Shows(screen, sheet, Paper)
    BY <2>1, PlainOutcome DEF CallInv
  <2> QED BY <2>2 DEF Shows
<1> QED BY <1>1, <1>2, <1>3, PTL DEF BootSpec
=============================================================================
