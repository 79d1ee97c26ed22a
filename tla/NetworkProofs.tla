--------------------------- MODULE NetworkProofs ----------------------------
(***************************************************************************)
(* The network card and the packets on it, for rings of any size and any   *)
(* number of packets and frames.                                           *)
(*                                                                         *)
(* First the rings: what the card transmits, what the driver reports and   *)
(* what it returns, up to the second time the driver is brought up.  Both  *)
(* rings are described from their head: the card's next descriptor to      *)
(* transmit, the driver's next frame to read.  The descriptors from there  *)
(* on hold consecutive numbers, as many as the indices are apart.          *)
(*                                                                         *)
(* Then the computations of net.c, for headers of any content and any text *)
(* of an address: a recursion over terms is followed by its first values   *)
(* (AccumulatedRuns).  Last the packets that carry both over the rings.    *)
(***************************************************************************)
EXTENDS Network, WellFoundedInduction, TLAPS

(* j places further round a ring of n, and the places from i to k.         *)
Ahead(i, j, n) == IF i + j < n THEN i + j ELSE (i + j) - n
Apart(i, k, n) == IF i <= k THEN k - i ELSE (k - i) + n

(* Packets that the tail register has passed.                              *)
Posted == IF pc \in {"describe", "tail"} THEN packets - 1 ELSE packets

Pending == Apart(TDH, TDT, NUM_TX_DESC)

OnWire == {wire[k][1] : k \in DOMAIN wire}

(* Frames the driver is done with, and those the card put behind them.     *)
Consumed == IF pc \in {"rearm", "rx_tail"} THEN Len(received) - 1 ELSE Len(received)
Unread == accepted - Consumed

-----------------------------------------------------------------------------
Budget ==
  /\ pc \in {"init", "reset"} /\ command \in Senders => packets < MaxSends
  /\ pc = "send" => packets < MaxSends
  /\ pc \in {"describe", "tail", "wait"} => packets > 0

BeforeInit ==
  inits = 0 =>
    /\ ~rings /\ ~enabled /\ pc \in {"idle", "init", "reset", "send"}
    /\ tx_cur = 0 /\ wire = <<>> /\ reported = {}
    /\ rx_cur = 0 /\ accepted = 0 /\ received = <<>>

TxInv ==
  /\ enabled =>
       /\ TDT = tx_cur /\ Pending <= Posted
       /\ \A j \in 0..(Pending - 1) :
            LET d == tx[Ahead(TDH, j, NUM_TX_DESC)]
            IN  d.buffer = (Posted - Pending) + 1 + j /\ d.length = d.buffer
       /\ \A n \in OnWire : n <= Posted - Pending
  /\ pc \in {"describe", "tail"} => tx[tx_cur].buffer = packets
  /\ pc = "tail" => tx[tx_cur].length = packets /\ ~tx[tx_cur].done
  /\ pc = "wait" /\ tx[old_cur].done => packets \in OnWire
  /\ WholePacketsInOrder /\ SentWasSent

RxInv ==
  /\ rings /\ inits > 0
  /\ FramesOnceInOrder
  /\ Consumed >= 0 /\ Unread \in 0..(NUM_RX_DESC - 1)
  /\ pc \in {"rearm", "rx_tail"} => Unread > 0
  /\ \A j \in RxSlots :
       LET d == rx[Ahead(rx_cur, j, NUM_RX_DESC)]
       IN  IF j < Unread
           THEN d.buffer = Consumed + 1 + j /\ (d.done <=> ~(j = 0 /\ pc = "rx_tail"))
           ELSE ~d.done
  /\ enabled =>
       /\ RDT = Ahead(rx_cur, NUM_RX_DESC - 1, NUM_RX_DESC)
       /\ RDH = Ahead(rx_cur, Unread, NUM_RX_DESC)

(* The driver has come up no more than once.                               *)
Once == inits <= 1

-----------------------------------------------------------------------------
(* Places in a ring.                                                       *)
LEMMA AheadTyped ==
  ASSUME NEW n \in Nat \ {0}, NEW i \in 0..(n - 1), NEW j \in 0..(n - 1)
  PROVE  Ahead(i, j, n) \in 0..(n - 1)
BY DEF Ahead

LEMMA NextPlace ==
  ASSUME NEW n \in Nat \ {0, 1}, NEW i \in 0..(n - 1)
  PROVE  (i + 1) % n = Ahead(i, 1, n)
<1>1. CASE i + 1 < n
  BY <1>1 DEF Ahead
<1>2. CASE i + 1 = n
  <2>1. n % n = 0
    OBVIOUS
  <2> QED BY <1>2, <2>1 DEF Ahead
<1> QED BY <1>1, <1>2

LEMMA PlaceBehind ==
  ASSUME NEW n \in Nat \ {0, 1}, NEW i \in 0..(n - 1)
  PROVE  (i + n - 1) % n = Ahead(i, n - 1, n)
<1>1. CASE i = 0
  BY <1>1 DEF Ahead
<1>2. CASE i # 0
  <2> DEFINE k == i - 1
  <2>1. k \in 0..(n - 1) /\ i + n - 1 = k + n /\ Ahead(i, n - 1, n) = k
    BY <1>2 DEF Ahead
  <2> HIDE DEF k
  <2>2. (k + n) % n = k
    BY <2>1
  <2> QED BY <2>1, <2>2
<1> QED BY <1>1, <1>2

-----------------------------------------------------------------------------
(* Descriptors.                                                            *)
TxDesc == [buffer : 0..MaxSends, length : 0..MaxSends, done : BOOLEAN]
RxDesc == [buffer : 0..MaxFrames, done : BOOLEAN]

LEMMA RingsSized ==
  /\ NUM_TX_DESC \in Nat \ {0, 1} /\ NUM_RX_DESC \in Nat \ {0, 1}
  /\ MaxSends \in Nat /\ MaxFrames \in Nat
  /\ 0 \in TxSlots /\ 0 \in RxSlots
BY E1000Parameters DEF TxSlots, RxSlots

LEMMA BufferSet ==
  ASSUME NEW t \in [TxSlots -> TxDesc], NEW i \in TxSlots, NEW v \in 0..MaxSends
  PROVE  LET u == [t EXCEPT ![i].buffer = v]
         IN  /\ u \in [TxSlots -> TxDesc]
             /\ \A k \in TxSlots \ {i} : u[k] = t[k]
             /\ u[i].buffer = v /\ u[i].length = t[i].length /\ u[i].done = t[i].done
<1> DEFINE r == [t[i] EXCEPT !.buffer = v]
           u == [t EXCEPT ![i].buffer = v]
<1>1. t[i] \in TxDesc
  OBVIOUS
<1>2. r \in TxDesc /\ r.buffer = v /\ r.length = t[i].length /\ r.done = t[i].done
  BY <1>1 DEF TxDesc
<1>3. u = [t EXCEPT ![i] = r]
  OBVIOUS
<1> HIDE DEF r, u
<1> QED BY <1>2, <1>3 DEF u

LEMMA LengthDoneSet ==
  ASSUME NEW t \in [TxSlots -> TxDesc], NEW i \in TxSlots, NEW v \in 0..MaxSends
  PROVE  LET u == [t EXCEPT ![i].length = v, ![i].done = FALSE]
         IN  /\ u \in [TxSlots -> TxDesc]
             /\ \A k \in TxSlots \ {i} : u[k] = t[k]
             /\ u[i].buffer = t[i].buffer /\ u[i].length = v /\ u[i].done = FALSE
<1> DEFINE w == FALSE
           r == [t[i] EXCEPT !.length = v, !.done = w]
           u == [t EXCEPT ![i].length = v, ![i].done = FALSE]
<1>1. t[i] \in TxDesc
  OBVIOUS
<1>2. r \in TxDesc /\ r.buffer = t[i].buffer /\ r.length = v /\ r.done = FALSE
  BY <1>1 DEF TxDesc
<1>3. u = [t EXCEPT ![i] = r]
  OBVIOUS
<1> HIDE DEF r, u
<1> QED BY <1>2, <1>3 DEF u

LEMMA DoneSet ==
  ASSUME NEW t \in [TxSlots -> TxDesc], NEW i \in TxSlots, NEW w \in BOOLEAN
  PROVE  LET u == [t EXCEPT ![i].done = w]
         IN  /\ u \in [TxSlots -> TxDesc]
             /\ \A k \in TxSlots \ {i} : u[k] = t[k]
             /\ u[i].buffer = t[i].buffer /\ u[i].length = t[i].length /\ u[i].done = w
<1> DEFINE r == [t[i] EXCEPT !.done = w]
           u == [t EXCEPT ![i].done = w]
<1>1. t[i] \in TxDesc
  OBVIOUS
<1>2. r \in TxDesc /\ r.buffer = t[i].buffer /\ r.length = t[i].length /\ r.done = w
  BY <1>1 DEF TxDesc
<1>3. u = [t EXCEPT ![i] = r]
  OBVIOUS
<1> HIDE DEF r, u
<1> QED BY <1>2, <1>3 DEF u

LEMMA RxDoneSet ==
  ASSUME NEW t \in [RxSlots -> RxDesc], NEW i \in RxSlots, NEW w \in BOOLEAN
  PROVE  LET u == [t EXCEPT ![i].done = w]
         IN  /\ u \in [RxSlots -> RxDesc]
             /\ \A k \in RxSlots \ {i} : u[k] = t[k]
             /\ u[i].buffer = t[i].buffer /\ u[i].done = w
<1> DEFINE r == [t[i] EXCEPT !.done = w]
           u == [t EXCEPT ![i].done = w]
<1>1. t[i] \in RxDesc
  OBVIOUS
<1>2. r \in RxDesc /\ r.buffer = t[i].buffer /\ r.done = w
  BY <1>1 DEF RxDesc
<1>3. u = [t EXCEPT ![i] = r]
  OBVIOUS
<1> HIDE DEF r, u
<1> QED BY <1>2, <1>3 DEF u

LEMMA FrameSet ==
  ASSUME NEW t \in [RxSlots -> RxDesc], NEW i \in RxSlots, NEW v \in 0..MaxFrames
  PROVE  LET u == [t EXCEPT ![i] = [buffer |-> v, done |-> TRUE]]
         IN  /\ u \in [RxSlots -> RxDesc]
             /\ \A k \in RxSlots \ {i} : u[k] = t[k]
             /\ u[i].buffer = v /\ u[i].done
<1> DEFINE w == TRUE
           r == [buffer |-> v, done |-> w]
<1>1. r \in RxDesc /\ r.buffer = v /\ r.done
  BY DEF RxDesc
<1> HIDE DEF r
<1>2. LET u == [t EXCEPT ![i] = r]
      IN  /\ u \in [RxSlots -> RxDesc] /\ \A k \in RxSlots \ {i} : u[k] = t[k]
          /\ u[i] = r
  BY <1>1
<1> QED BY <1>1, <1>2 DEF r

LEMMA FreshRings ==
  /\ FreshTx \in [TxSlots -> TxDesc] /\ FreshRx \in [RxSlots -> RxDesc]
  /\ \A i \in RxSlots : ~FreshRx[i].done
<1> DEFINE w == FALSE
<1>1. [buffer |-> 0, length |-> 0, done |-> w] \in TxDesc /\ [buffer |-> 0, done |-> w] \in RxDesc
  BY RingsSized DEF TxDesc, RxDesc
<1>2. [buffer |-> 0, done |-> FALSE].done = FALSE
  OBVIOUS
<1> QED BY <1>1, <1>2 DEF FreshTx, FreshRx

(* One more entry of a log.                                                *)
LEMMA Appended ==
  ASSUME NEW S, NEW s \in Seq(S), NEW x \in S
  PROVE  /\ Append(s, x) \in Seq(S) /\ Len(s) \in Nat
         /\ DOMAIN s = 1..Len(s) /\ DOMAIN Append(s, x) = 1..(Len(s) + 1)
         /\ Len(Append(s, x)) = Len(s) + 1
         /\ Append(s, x)[Len(s) + 1] = x
         /\ \A k \in 1..Len(s) : Append(s, x)[k] = s[k]
OBVIOUS

LEMMA LenTyped ==
  ASSUME NEW S, NEW s \in Seq(S)
  PROVE  Len(s) \in Nat
OBVIOUS

LEMMA ElementTyped ==
  ASSUME NEW S, NEW s \in Seq(S), NEW k \in 1..Len(s)
  PROVE  s[k] \in S
OBVIOUS

-----------------------------------------------------------------------------
(* Types and budget.                                                       *)
DriverTyped ==
  /\ pc \in {"idle", "init", "reset", "send", "describe", "tail", "wait", "rearm", "rx_tail"}
  /\ command \in Commands /\ net_initialized \in [Commands -> BOOLEAN] /\ inits \in Nat
  /\ rings \in BOOLEAN /\ enabled \in BOOLEAN

TxTyped ==
  /\ tx \in [TxSlots -> TxDesc]
  /\ tx_cur \in TxSlots /\ TDH \in TxSlots /\ TDT \in TxSlots
  /\ packets \in 0..MaxSends /\ wire \in Seq((0..MaxSends) \X (0..MaxSends))
  /\ reported \subseteq 1..packets

RxTyped ==
  /\ rx \in [RxSlots -> RxDesc]
  /\ rx_cur \in RxSlots /\ RDH \in RxSlots /\ RDT \in RxSlots
  /\ accepted \in 0..MaxFrames /\ received \in Seq(0..MaxFrames)

LEMMA TypesSplit == TypeOK <=> DriverTyped /\ TxTyped /\ RxTyped
BY DEF TypeOK, DriverTyped, TxTyped, RxTyped, TxDesc, RxDesc

Tidy == DriverTyped /\ TxTyped /\ RxTyped /\ Budget /\ BeforeInit

LEMMA NextSlots ==
  /\ \A i \in TxSlots : (i + 1) % NUM_TX_DESC = Ahead(i, 1, NUM_TX_DESC)
                        /\ Ahead(i, 1, NUM_TX_DESC) \in TxSlots
                        /\ (i + NUM_TX_DESC - 1) % NUM_TX_DESC = Ahead(i, NUM_TX_DESC - 1, NUM_TX_DESC)
                        /\ Ahead(i, NUM_TX_DESC - 1, NUM_TX_DESC) \in TxSlots
  /\ \A i \in RxSlots : (i + 1) % NUM_RX_DESC = Ahead(i, 1, NUM_RX_DESC)
                        /\ Ahead(i, 1, NUM_RX_DESC) \in RxSlots
<1>1. /\ 1 \in 0..(NUM_TX_DESC - 1) /\ NUM_TX_DESC - 1 \in 0..(NUM_TX_DESC - 1)
      /\ 1 \in 0..(NUM_RX_DESC - 1)
      /\ NUM_TX_DESC \in Nat \ {0} /\ NUM_RX_DESC \in Nat \ {0}
  BY RingsSized
<1> QED BY <1>1, RingsSized, NextPlace, PlaceBehind, AheadTyped DEF TxSlots, RxSlots

LEMMA TidyStart == Init => Tidy
<1> SUFFICES ASSUME Init PROVE Tidy
  OBVIOUS
<1>1. DriverTyped
  BY DEF Init, DriverTyped
<1>2. TxTyped
  BY FreshRings, RingsSized DEF Init, TxTyped
<1>3. RxTyped
  BY FreshRings, RingsSized DEF Init, RxTyped
<1>4. Budget /\ BeforeInit
  BY DEF Init, Budget, BeforeInit
<1> QED BY <1>1, <1>2, <1>3, <1>4 DEF Tidy

LEMMA TidyCommand ==
  ASSUME Tidy, NEW c \in Commands, Command(c)
  PROVE  Tidy'
<1>1. DriverTyped'
  BY DEF Tidy, DriverTyped, Command, AfterInit
<1>2. TxTyped' /\ RxTyped'
  BY DEF Tidy, TxTyped, RxTyped, Command, txVars, rxVars
<1>3. Budget'
  BY DEF Tidy, Budget, Command, AfterInit, txVars
<1>4. BeforeInit'
  BY DEF Tidy, BeforeInit, Command, AfterInit, txVars, rxVars
<1> QED BY <1>1, <1>2, <1>3, <1>4 DEF Tidy

LEMMA TidySetUp ==
  ASSUME Tidy, NoDevice \/ Reset \/ ResetTimeout \/ BringUp
  PROVE  Tidy'
<1>1. DriverTyped'
  <2>1. CASE BringUp
    <3> DEFINE w == TRUE
    <3>1. net_initialized' = [net_initialized EXCEPT ![command] = w] /\ w \in BOOLEAN
      BY <2>1 DEF BringUp
    <3> HIDE DEF w
    <3>2. net_initialized' \in [Commands -> BOOLEAN]
      BY <3>1 DEF Tidy, DriverTyped
    <3>3. /\ pc' \in {"send", "idle"} /\ command' = command /\ inits' = inits + 1
          /\ rings' \in BOOLEAN /\ enabled' \in BOOLEAN
      BY <2>1 DEF BringUp, AfterInit
    <3> QED BY <3>2, <3>3 DEF Tidy, DriverTyped
  <2>2. CASE NoDevice \/ Reset \/ ResetTimeout
    BY <2>2 DEF Tidy, DriverTyped, NoDevice, Reset, ResetTimeout, AfterInit
  <2> QED BY <2>1, <2>2
<1>2. TxTyped' /\ RxTyped'
  <2>1. CASE NoDevice \/ ResetTimeout
    BY <2>1 DEF Tidy, TxTyped, RxTyped, NoDevice, ResetTimeout, txVars, rxVars
  <2>2. CASE Reset
    BY <2>2, RingsSized DEF Tidy, TxTyped, RxTyped, Reset
  <2>3. CASE BringUp
    BY <2>3, RingsSized, FreshRings DEF Tidy, TxTyped, RxTyped, BringUp, RxSlots
  <2> QED BY <2>1, <2>2, <2>3
<1>3. Budget'
  BY DEF Tidy, Budget, NoDevice, Reset, ResetTimeout, BringUp, AfterInit, txVars
<1>4. BeforeInit'
  <2>1. CASE BringUp
    BY <2>1 DEF Tidy, BeforeInit, BringUp, DriverTyped
  <2>2. CASE NoDevice \/ Reset \/ ResetTimeout
    BY <2>2 DEF Tidy, BeforeInit, NoDevice, Reset, ResetTimeout, AfterInit, txVars, rxVars
  <2> QED BY <2>1, <2>2
<1> QED BY <1>1, <1>2, <1>3, <1>4 DEF Tidy

LEMMA TidySend ==
  ASSUME Tidy, SendRefused \/ SendCopy \/ SendDescribe \/ SendTail \/ SendDone \/ SendTimeout
  PROVE  Tidy'
<1>1. DriverTyped' /\ RxTyped'
  BY DEF Tidy, DriverTyped, RxTyped, SendRefused, SendCopy, SendDescribe, SendTail, SendDone,
         SendTimeout, rxVars
<1>2. TxTyped'
  <2>1. CASE SendRefused
    BY <2>1, RingsSized DEF Tidy, TxTyped, Budget, SendRefused
  <2>2. CASE SendCopy
    <3>1. packets' = packets + 1 /\ packets + 1 \in 0..MaxSends
      BY <2>2, RingsSized DEF Tidy, TxTyped, Budget, SendCopy
    <3>2. tx' \in [TxSlots -> TxDesc]
      BY <2>2, <3>1, BufferSet DEF Tidy, TxTyped, SendCopy
    <3> QED BY <2>2, <3>1, <3>2 DEF Tidy, TxTyped, SendCopy
  <2>3. CASE SendDescribe
    <3>1. tx' \in [TxSlots -> TxDesc]
      BY <2>3, LengthDoneSet DEF Tidy, TxTyped, SendDescribe
    <3> QED BY <2>3, <3>1 DEF Tidy, TxTyped, SendDescribe
  <2>4. CASE SendTail
    BY <2>4, NextSlots DEF Tidy, TxTyped, SendTail
  <2>5. CASE SendDone
    BY <2>5 DEF Tidy, TxTyped, Budget, SendDone
  <2>6. CASE SendTimeout
    BY <2>6 DEF Tidy, TxTyped, SendTimeout, txVars
  <2> QED BY <2>1, <2>2, <2>3, <2>4, <2>5, <2>6
<1>3. Budget'
  BY DEF Tidy, Budget, TxTyped, SendRefused, SendCopy, SendDescribe, SendTail, SendDone,
         SendTimeout, txVars
<1>4. BeforeInit'
  BY DEF Tidy, BeforeInit, SendRefused, SendCopy, SendDescribe, SendTail, SendDone,
         SendTimeout, txVars, rxVars
<1> QED BY <1>1, <1>2, <1>3, <1>4 DEF Tidy

LEMMA TidyReceive ==
  ASSUME Tidy, Receive \/ Rearm \/ ReceiveTail
  PROVE  Tidy'
<1>1. DriverTyped' /\ TxTyped'
  BY DEF Tidy, DriverTyped, TxTyped, Receive, Rearm, ReceiveTail, txVars
<1>2. RxTyped'
  <2>1. CASE Receive
    <3>1. rx[rx_cur].buffer \in 0..MaxFrames
      BY DEF Tidy, RxTyped, RxDesc
    <3> QED BY <2>1, <3>1, Appended DEF Tidy, RxTyped, Receive
  <2>2. CASE Rearm
    <3>1. rx' \in [RxSlots -> RxDesc]
      BY <2>2, RxDoneSet DEF Tidy, RxTyped, Rearm
    <3> QED BY <2>2, <3>1 DEF Tidy, RxTyped, Rearm
  <2>3. CASE ReceiveTail
    BY <2>3, NextSlots DEF Tidy, RxTyped, ReceiveTail
  <2> QED BY <2>1, <2>2, <2>3
<1>3. Budget' /\ BeforeInit'
  BY DEF Tidy, Budget, BeforeInit, Receive, Rearm, ReceiveTail, txVars
<1> QED BY <1>1, <1>2, <1>3 DEF Tidy

LEMMA TidyCard ==
  ASSUME Tidy, CardTransmits \/ CardReceives
  PROVE  Tidy'
<1>1. DriverTyped' /\ Budget'
  BY DEF Tidy, DriverTyped, Budget, CardTransmits, CardReceives, driverVars, txVars
<1>2. BeforeInit'
  BY DEF Tidy, BeforeInit, CardTransmits, CardReceives, driverVars
<1>3. CASE CardTransmits
  <2>1. tx[TDH] \in TxDesc
    BY DEF Tidy, TxTyped
  <2>2. tx[TDH].buffer \in 0..MaxSends /\ tx[TDH].length \in 0..MaxSends
        /\ (tx[TDH].length # 0) \in BOOLEAN
    BY <2>1 DEF TxDesc
  <2>3. tx' \in [TxSlots -> TxDesc]
    BY <1>3, <2>2, DoneSet DEF Tidy, TxTyped, CardTransmits
  <2>4. wire' \in Seq((0..MaxSends) \X (0..MaxSends))
    BY <1>3, <2>2, Appended DEF Tidy, TxTyped, CardTransmits
  <2>5. TxTyped'
    BY <1>3, <2>3, <2>4, NextSlots DEF Tidy, TxTyped, CardTransmits
  <2>6. RxTyped'
    BY <1>3 DEF Tidy, RxTyped, CardTransmits, rxVars
  <2> QED BY <1>1, <1>2, <2>5, <2>6 DEF Tidy
<1>4. CASE CardReceives
  <2>1. accepted' = accepted + 1 /\ accepted' \in 0..MaxFrames
    BY <1>4, RingsSized DEF Tidy, RxTyped, CardReceives
  <2>2. rx' \in [RxSlots -> RxDesc]
    BY <1>4, <2>1, FrameSet DEF Tidy, RxTyped, CardReceives
  <2>3. RxTyped'
    BY <1>4, <2>1, <2>2, NextSlots DEF Tidy, RxTyped, CardReceives
  <2>4. TxTyped'
    BY <1>4 DEF Tidy, TxTyped, CardReceives, txVars
  <2> QED BY <1>1, <1>2, <2>3, <2>4 DEF Tidy
<1> QED BY <1>3, <1>4

LEMMA TidyStep == Tidy /\ [Next]_vars => Tidy'
<1>1. ASSUME Tidy, UNCHANGED vars PROVE Tidy'
  BY <1>1 DEF Tidy, vars, driverVars, txVars, rxVars, DriverTyped, TxTyped, RxTyped, Budget, BeforeInit
<1> QED BY <1>1, TidyCommand, TidySetUp, TidySend, TidyReceive, TidyCard DEF Next, Driver

-----------------------------------------------------------------------------
(* The transmit ring.                                                      *)

(* The place of j + 1 is the place after that of j; the last place is the  *)
(* one behind the first.                                                   *)
LEMMA PlacesShift ==
  ASSUME NEW n \in Nat \ {0, 1}, NEW i \in 0..(n - 1)
  PROVE  /\ Ahead(i, 0, n) = i
         /\ \A j \in 0..(n - 2) : Ahead(Ahead(i, 1, n), j, n) = Ahead(i, j + 1, n)
         /\ Ahead(Ahead(i, 1, n), n - 1, n) = i
         /\ \A j, k \in 0..(n - 1) : Ahead(i, j, n) = Ahead(i, k, n) => j = k
BY DEF Ahead

LEMMA PlacesApart ==
  ASSUME NEW n \in Nat \ {0, 1}, NEW i \in 0..(n - 1), NEW k \in 0..(n - 1)
  PROVE  /\ Apart(i, k, n) \in 0..(n - 1)
         /\ Ahead(i, Apart(i, k, n), n) = k
         /\ Apart(i, k, n) = 0 <=> i = k
         /\ \A j \in 0..(Apart(i, k, n) - 1) :
              Ahead(i, j, n) \in 0..(n - 1) /\ Ahead(i, j, n) # k
         /\ i # k => Apart(Ahead(i, 1, n), k, n) = Apart(i, k, n) - 1
         /\ Apart(i, Ahead(k, 1, n), n) =
              IF Apart(i, k, n) = n - 1 THEN 0 ELSE Apart(i, k, n) + 1
BY DEF Ahead, Apart

LEMMA TxPlaces ==
  ASSUME TxTyped
  PROVE  /\ Pending \in 0..(NUM_TX_DESC - 1) /\ Ahead(TDH, Pending, NUM_TX_DESC) = TDT
         /\ Pending = 0 <=> TDH = TDT
         /\ \A j \in 0..(Pending - 1) :
              Ahead(TDH, j, NUM_TX_DESC) \in TxSlots /\ Ahead(TDH, j, NUM_TX_DESC) # TDT
         /\ Ahead(TDH, 0, NUM_TX_DESC) = TDH
<1>1. TDH \in 0..(NUM_TX_DESC - 1) /\ TDT \in 0..(NUM_TX_DESC - 1)
  BY DEF TxTyped, TxSlots
<1> QED BY <1>1, RingsSized, PlacesApart, PlacesShift DEF Pending, TxSlots

LEMMA TxKept ==
  ASSUME TxInv, UNCHANGED <<tx, tx_cur, packets, wire, reported>>,
         enabled' => enabled /\ UNCHANGED <<TDH, TDT>>,
         \/ pc' = pc
         \/ pc \notin {"describe", "tail"} /\ pc' \notin {"describe", "tail", "wait"}
  PROVE  TxInv'
<1>1. Posted' = Posted /\ OnWire' = OnWire /\ old_cur' = old_cur
  BY DEF Posted, OnWire, old_cur
<1>2. enabled' => enabled /\ Pending' = Pending
  BY DEF Pending
<1>3. WholePacketsInOrder' /\ SentWasSent'
  BY DEF TxInv, WholePacketsInOrder, SentWasSent
<1> QED BY <1>1, <1>2, <1>3 DEF TxInv

LEMMA TxSendCopy ==
  ASSUME Tidy, TxInv, SendCopy
  PROVE  TxInv'
<1>1. TxTyped /\ packets + 1 \in 0..MaxSends /\ packets \in Nat /\ tx_cur \in TxSlots
  BY RingsSized DEF Tidy, TxTyped, Budget, SendCopy
<1>2. /\ \A k \in TxSlots \ {tx_cur} : tx'[k] = tx[k]
      /\ tx'[tx_cur].buffer = packets + 1
  BY <1>1, BufferSet DEF SendCopy, TxTyped
<1>3. /\ Posted' = Posted /\ OnWire' = OnWire /\ pc' = "describe"
      /\ Pending' = Pending /\ packets' = packets + 1 /\ UNCHANGED <<enabled, TDH, TDT, tx_cur>>
  BY <1>1 DEF SendCopy, Posted, OnWire, Pending
<1>4. WholePacketsInOrder' /\ SentWasSent'
  BY DEF TxInv, WholePacketsInOrder, SentWasSent, SendCopy
<1>5. ASSUME enabled, NEW j \in 0..(Pending - 1)
      PROVE  tx'[Ahead(TDH, j, NUM_TX_DESC)] = tx[Ahead(TDH, j, NUM_TX_DESC)]
  <2>1. Ahead(TDH, j, NUM_TX_DESC) \in TxSlots \ {tx_cur}
    BY <1>1, <1>5, TxPlaces DEF TxInv
  <2> QED BY <1>2, <2>1
<1> QED BY <1>2, <1>3, <1>4, <1>5 DEF TxInv

LEMMA TxSendDescribe ==
  ASSUME Tidy, TxInv, SendDescribe
  PROVE  TxInv'
<1>1. TxTyped /\ packets \in 0..MaxSends /\ tx_cur \in TxSlots
  BY DEF Tidy, TxTyped
<1>2. /\ \A k \in TxSlots \ {tx_cur} : tx'[k] = tx[k]
      /\ tx'[tx_cur].buffer = packets /\ tx'[tx_cur].length = packets /\ ~tx'[tx_cur].done
  BY <1>1, LengthDoneSet DEF SendDescribe, TxTyped, TxInv
<1>3. /\ Posted' = Posted /\ OnWire' = OnWire /\ pc' = "tail"
      /\ Pending' = Pending /\ UNCHANGED <<packets, enabled, TDH, TDT, tx_cur>>
  BY <1>1 DEF SendDescribe, Posted, OnWire, Pending
<1>4. WholePacketsInOrder' /\ SentWasSent'
  BY DEF TxInv, WholePacketsInOrder, SentWasSent, SendDescribe
<1>5. ASSUME enabled, NEW j \in 0..(Pending - 1)
      PROVE  tx'[Ahead(TDH, j, NUM_TX_DESC)] = tx[Ahead(TDH, j, NUM_TX_DESC)]
  <2>1. Ahead(TDH, j, NUM_TX_DESC) \in TxSlots \ {tx_cur}
    BY <1>1, <1>5, TxPlaces DEF TxInv
  <2> QED BY <1>2, <2>1
<1> QED BY <1>2, <1>3, <1>4, <1>5 DEF TxInv

(* The tail register moves over one more packet; when that fills the ring, *)
(* it reaches the head and the card takes the ring for empty.              *)
LEMMA TxSendTail ==
  ASSUME Tidy, TxInv, SendTail
  PROVE  TxInv'
<1>1. TxTyped /\ packets \in Nat /\ packets > 0 /\ tx_cur \in 0..(NUM_TX_DESC - 1)
      /\ TDH \in 0..(NUM_TX_DESC - 1)
  BY RingsSized DEF Tidy, TxTyped, Budget, SendTail, TxSlots
<1>2. /\ tx_cur' = Ahead(tx_cur, 1, NUM_TX_DESC) /\ TDT' = tx_cur' /\ tx_cur' \in TxSlots
      /\ UNCHANGED <<enabled, tx, TDH, packets, wire, reported>>
      /\ pc = "tail" /\ pc' = "wait"
  BY <1>1, NextSlots DEF SendTail, TxSlots
<1>3. Posted = packets - 1 /\ Posted' = packets /\ OnWire' = OnWire
  BY <1>2 DEF Posted, OnWire
<1>4. ~tx'[old_cur'].done
  <2>1. old_cur' = Ahead(tx_cur', NUM_TX_DESC - 1, NUM_TX_DESC)
    BY <1>2, NextSlots DEF old_cur
  <2>2. old_cur' = tx_cur
    BY <1>1, <1>2, <2>1, RingsSized, PlacesShift
  <2> QED BY <1>2, <2>2 DEF TxInv
<1>5. WholePacketsInOrder' /\ SentWasSent'
  BY <1>2 DEF TxInv, WholePacketsInOrder, SentWasSent
<1>6. ASSUME enabled
      PROVE  /\ Pending' <= Posted'
             /\ \A j \in 0..(Pending' - 1) :
                  LET d == tx[Ahead(TDH, j, NUM_TX_DESC)]
                  IN  d.buffer = (Posted' - Pending') + 1 + j /\ d.length = d.buffer
             /\ \A n \in OnWire : n <= Posted' - Pending'
  <2>1. /\ TDT = tx_cur /\ Pending <= Posted
        /\ \A j \in 0..(Pending - 1) :
             LET d == tx[Ahead(TDH, j, NUM_TX_DESC)]
             IN  d.buffer = (Posted - Pending) + 1 + j /\ d.length = d.buffer
        /\ \A n \in OnWire : n <= Posted - Pending
    BY <1>6 DEF TxInv
  <2>2. Pending' = IF Pending = NUM_TX_DESC - 1 THEN 0 ELSE Pending + 1
    BY <1>1, <1>2, <2>1, RingsSized, PlacesApart DEF Pending
  <2>3. Pending \in 0..(NUM_TX_DESC - 1) /\ Ahead(TDH, Pending, NUM_TX_DESC) = tx_cur
    BY <1>1, <2>1, TxPlaces
  <2>4. tx[tx_cur].buffer = packets /\ tx[tx_cur].length = packets
    BY <1>2 DEF TxInv
  <2>5. \A n \in OnWire : n \in Nat
    BY <1>1, Appended DEF OnWire, TxTyped
  <2> HIDE DEF Pending, Posted, OnWire
  <2>6. CASE Pending = NUM_TX_DESC - 1
    <3>1. Pending' = 0 /\ Posted' = Posted + 1
      BY <1>1, <1>3, <2>2, <2>6
    <3> QED BY <1>1, <1>3, <2>1, <2>3, <2>5, <3>1
  <2>7. CASE Pending # NUM_TX_DESC - 1
    <3>1. Pending' = Pending + 1 /\ Posted' = Posted + 1 /\ Posted' - Pending' = Posted - Pending
      BY <1>1, <1>3, <2>2, <2>3, <2>7
    <3>2. ASSUME NEW j \in 0..(Pending' - 1)
          PROVE  LET d == tx[Ahead(TDH, j, NUM_TX_DESC)]
                 IN  d.buffer = (Posted' - Pending') + 1 + j /\ d.length = d.buffer
      <4>1. CASE j = Pending
        <5>1. (Posted' - Pending') + 1 + j = packets
          BY <1>1, <1>3, <2>3, <3>1, <4>1
        <5> QED BY <2>3, <2>4, <4>1, <5>1
      <4>2. CASE j # Pending
        <5>1. j \in 0..(Pending - 1)
          BY <2>3, <3>1, <4>2
        <5> QED BY <2>1, <3>1, <5>1
      <4> QED BY <4>1, <4>2
    <3>3. Pending' <= Posted'
      BY <1>1, <1>3, <2>1, <2>3, <3>1
    <3> QED BY <2>1, <3>1, <3>2, <3>3
  <2> QED BY <2>6, <2>7
<1> QED BY <1>2, <1>3, <1>4, <1>5, <1>6 DEF TxInv

LEMMA TxSendDone ==
  ASSUME TxInv, SendDone
  PROVE  TxInv'
<1>1. /\ pc = "wait" /\ tx[old_cur].done /\ pc' = "idle" /\ reported' = reported \cup {packets}
      /\ UNCHANGED <<enabled, tx, tx_cur, TDH, TDT, packets, wire>>
  BY DEF SendDone
<1>2. Posted' = Posted /\ OnWire' = OnWire /\ Pending' = Pending
  BY <1>1 DEF Posted, OnWire, Pending
<1>3. WholePacketsInOrder'
  BY <1>1 DEF TxInv, WholePacketsInOrder
<1>4. SentWasSent'
  BY <1>1 DEF TxInv, SentWasSent, OnWire
<1> QED BY <1>1, <1>2, <1>3, <1>4 DEF TxInv

LEMMA TxCardTransmits ==
  ASSUME Tidy, TxInv, CardTransmits
  PROVE  TxInv'
<1> DEFINE n == (Posted - Pending) + 1
<1>1. /\ TxTyped /\ packets \in Nat /\ TDH \in TxSlots /\ tx_cur \in TxSlots
      /\ TDH \in 0..(NUM_TX_DESC - 1) /\ TDT \in 0..(NUM_TX_DESC - 1)
      /\ pc \in {"describe", "tail", "wait"} => packets > 0
  BY RingsSized DEF Tidy, TxTyped, TxSlots, Budget
<1>2. /\ enabled /\ enabled' /\ TDH # TDT
      /\ UNCHANGED <<pc, tx_cur, TDT, packets, reported>>
      /\ wire' = Append(wire, <<tx[TDH].buffer, tx[TDH].length>>)
      /\ TDH' = Ahead(TDH, 1, NUM_TX_DESC)
  BY <1>1, NextSlots DEF CardTransmits, driverVars
<1>3. /\ TDT = tx_cur /\ Pending <= Posted
      /\ \A j \in 0..(Pending - 1) :
           LET d == tx[Ahead(TDH, j, NUM_TX_DESC)]
           IN  d.buffer = (Posted - Pending) + 1 + j /\ d.length = d.buffer
      /\ \A m \in OnWire : m <= Posted - Pending
  BY <1>2 DEF TxInv
<1>4. Posted \in Nat /\ Posted' = Posted
  BY <1>1, <1>2 DEF Posted
<1>5. Pending \in 1..(NUM_TX_DESC - 1) /\ Pending' = Pending - 1
  <2>1. Pending \in 0..(NUM_TX_DESC - 1) /\ Pending # 0
    BY <1>1, <1>2, TxPlaces
  <2>2. Pending' = Pending - 1
    BY <1>1, <1>2, RingsSized, PlacesApart DEF Pending
  <2> QED BY <2>1, <2>2
<1>6. n \in Nat /\ n # 0 /\ tx[TDH].buffer = n /\ tx[TDH].length = n
  <2> HIDE DEF Pending, Posted
  <2>1. 0 \in 0..(Pending - 1) /\ Ahead(TDH, 0, NUM_TX_DESC) = TDH
    BY <1>1, <1>5, TxPlaces
  <2>2. tx[TDH].buffer = (Posted - Pending) + 1 + 0 /\ tx[TDH].length = tx[TDH].buffer
    BY <1>3, <2>1
  <2> QED BY <1>3, <1>4, <1>5, <2>2, RingsSized
<1>7. /\ \A k \in TxSlots \ {TDH} : tx'[k] = tx[k]
      /\ tx'[TDH].buffer = tx[TDH].buffer /\ tx'[TDH].length = tx[TDH].length
  <2>1. (tx[TDH].length # 0) \in BOOLEAN
    OBVIOUS
  <2> QED BY <1>1, <2>1, DoneSet DEF CardTransmits, TxTyped
<1> HIDE DEF n
<1>8. /\ DOMAIN wire = 1..Len(wire) /\ DOMAIN wire' = 1..(Len(wire) + 1) /\ Len(wire) \in Nat
      /\ Len(wire') = Len(wire) + 1
      /\ wire'[Len(wire) + 1] = <<n, n>> /\ \A k \in 1..Len(wire) : wire'[k] = wire[k]
  <2> DEFINE D == (0..MaxSends) \X (0..MaxSends)
  <2>1. tx[TDH] \in TxDesc
    BY <1>1 DEF TxTyped
  <2>2. <<n, n>> \in D /\ wire \in Seq(D) /\ wire' = Append(wire, <<n, n>>)
    BY <1>1, <1>2, <1>6, <2>1 DEF TxDesc, TxTyped
  <2> HIDE DEF D
  <2> QED BY <2>2, Appended
<1>9. OnWire' = OnWire \cup {n}
  <2>1. ASSUME NEW k \in 1..(Len(wire) + 1) PROVE wire'[k][1] \in OnWire \cup {n}
    <3>1. CASE k = Len(wire) + 1
      BY <1>8, <3>1
    <3>2. CASE k # Len(wire) + 1
      <4>1. k \in 1..Len(wire)
        BY <1>8, <3>2
      <4> QED BY <1>8, <4>1 DEF OnWire
    <3> QED BY <3>1, <3>2
  <2>2. ASSUME NEW k \in 1..Len(wire) PROVE wire[k][1] \in OnWire'
    <3>1. k \in DOMAIN wire' /\ wire'[k] = wire[k]
      BY <1>8
    <3> QED BY <3>1 DEF OnWire
  <2>3. n \in OnWire'
    <3>1. Len(wire) + 1 \in DOMAIN wire' /\ wire'[Len(wire) + 1][1] = n
      BY <1>8
    <3> QED BY <3>1 DEF OnWire
  <2> QED BY <1>8, <2>1, <2>2, <2>3 DEF OnWire
<1>10. WholePacketsInOrder'
  <2>1. ASSUME NEW k \in DOMAIN wire' PROVE wire'[k][1] = wire'[k][2] /\ wire'[k][1] # 0
    <3>1. CASE k = Len(wire) + 1
      BY <1>6, <1>8, <3>1
    <3>2. CASE k # Len(wire) + 1
      <4>1. k \in 1..Len(wire)
        BY <1>8, <3>2
      <4> QED BY <1>8, <4>1 DEF TxInv, WholePacketsInOrder
    <3> QED BY <3>1, <3>2
  <2>2. ASSUME NEW k \in 1..Len(wire) PROVE wire'[k][1] < wire'[k + 1][1]
    <3>1. CASE k = Len(wire)
      <4>1. wire[k][1] \in OnWire
        BY <1>8 DEF OnWire
      <4>2. wire[k][1] <= Posted - Pending /\ wire[k][1] \in Nat
        <5>1. wire[k] \in (0..MaxSends) \X (0..MaxSends)
          BY <1>1, <1>8, ElementTyped DEF TxTyped
        <5> QED BY <1>3, <4>1, <5>1
      <4>3. wire'[k][1] = wire[k][1] /\ wire'[k + 1][1] = n
        BY <1>8, <3>1
      <4> HIDE DEF Posted, Pending
      <4> QED BY <1>4, <1>5, <4>2, <4>3, RingsSized DEF n
    <3>2. CASE k # Len(wire)
      <4> DEFINE w == Len(wire)
      <4>a. w \in Nat /\ k \in 1..w /\ k # w
        BY <1>8, <3>2
      <4> HIDE DEF w
      <4>b. k \in 1..(w - 1) /\ k + 1 \in 1..w
        BY <4>a
      <4>1. k \in 1..(Len(wire) - 1) /\ k + 1 \in 1..Len(wire)
        BY <4>b DEF w
      <4> QED BY <1>8, <4>1 DEF TxInv, WholePacketsInOrder
    <3> QED BY <3>1, <3>2
  <2> QED BY <1>8, <2>1, <2>2 DEF WholePacketsInOrder
<1>11. SentWasSent'
  BY <1>2, <1>9 DEF TxInv, SentWasSent, OnWire
<1>12. ASSUME NEW j \in 0..(Pending' - 1)
       PROVE  LET d == tx'[Ahead(TDH', j, NUM_TX_DESC)]
              IN  d.buffer = (Posted' - Pending') + 1 + j /\ d.length = d.buffer
  <2> HIDE DEF Pending, Posted
  <2>1. j + 1 \in 0..(Pending - 1) /\ j \in 0..(NUM_TX_DESC - 2)
    BY <1>5, RingsSized
  <2>2. Ahead(TDH', j, NUM_TX_DESC) = Ahead(TDH, j + 1, NUM_TX_DESC)
    BY <1>1, <1>2, <2>1, RingsSized, PlacesShift
  <2>3. Ahead(TDH, j + 1, NUM_TX_DESC) \in TxSlots
    BY <1>1, <2>1, TxPlaces
  <2> DEFINE k == Ahead(TDH, j + 1, NUM_TX_DESC)
  <2>4. tx[k].buffer = (Posted - Pending) + 1 + (j + 1) /\ tx[k].length = tx[k].buffer
    BY <1>3, <2>1
  <2>5. tx'[k].buffer = tx[k].buffer /\ tx'[k].length = tx[k].length
    BY <1>7, <2>3
  <2>6. (Posted' - Pending') + 1 + j = (Posted - Pending) + 1 + (j + 1)
    BY <1>4, <1>5, RingsSized
  <2> HIDE DEF k
  <2>7. tx'[k].buffer = (Posted' - Pending') + 1 + j /\ tx'[k].length = tx'[k].buffer
    BY <2>4, <2>5, <2>6
  <2> QED BY <2>2, <2>7 DEF k
<1>13. (\A m \in OnWire' : m <= Posted' - Pending') /\ Pending' <= Posted'
  <2> HIDE DEF Pending, Posted
  <2>1. \A m \in OnWire : m \in Nat
    <3>1. \A k \in DOMAIN wire : wire[k] \in (0..MaxSends) \X (0..MaxSends)
      BY <1>1, ElementTyped, <1>8 DEF TxTyped
    <3> QED BY <3>1 DEF OnWire
  <2>2. n = Posted - Pending + 1 /\ Posted' - Pending' = n
    BY <1>4, <1>5, RingsSized DEF n
  <2>3. \A m \in OnWire : m <= n
    <3>1. Posted - Pending <= n /\ Posted - Pending \in Int /\ n \in Int
      BY <1>4, <1>5, RingsSized DEF n
    <3> QED BY <1>3, <2>1, <3>1
  <2> QED BY <1>3, <1>4, <1>5, <1>9, <2>2, <2>3, RingsSized
<1>14. /\ pc' \in {"describe", "tail"} => tx'[tx_cur'].buffer = packets'
       /\ pc' = "tail" => tx'[tx_cur'].length = packets' /\ ~tx'[tx_cur'].done
  <2>1. tx'[tx_cur] = tx[tx_cur]
    BY <1>1, <1>2, <1>3, <1>7
  <2> QED BY <1>2, <2>1 DEF TxInv
<1>15. pc' = "wait" /\ tx'[old_cur'].done => packets' \in OnWire'
  <2> SUFFICES ASSUME pc = "wait", tx'[old_cur'].done PROVE packets \in OnWire'
    BY <1>2
  <2>1. old_cur' = old_cur /\ old_cur = Ahead(tx_cur, NUM_TX_DESC - 1, NUM_TX_DESC)
        /\ old_cur \in TxSlots
    BY <1>1, <1>2, NextSlots DEF old_cur
  <2>2. CASE old_cur = TDH
    <3>1. Pending = 1
      BY <1>1, <1>3, <2>1, <2>2, RingsSized DEF Pending, Apart, Ahead
    <3>2. Posted = packets
      BY DEF Posted
    <3>3. n = packets
      BY <1>1, <3>1, <3>2 DEF n
    <3> QED BY <1>9, <3>3
  <2>3. CASE old_cur # TDH
    BY <1>7, <1>9, <2>1, <2>3 DEF TxInv
  <2> QED BY <2>2, <2>3
<1> QED BY <1>2, <1>3, <1>10, <1>11, <1>12, <1>13, <1>14, <1>15 DEF TxInv

LEMMA TxBringUp ==
  ASSUME Tidy, BringUp, inits = 0
  PROVE  TxInv'
<1>1. /\ tx_cur = 0 /\ wire' = <<>> /\ reported' = {} /\ tx_cur' = 0 /\ TDT' = 0 /\ TDH' = 0
      /\ pc' \in {"idle", "send"} /\ packets' = packets /\ packets \in Nat
  BY RingsSized DEF Tidy, BeforeInit, TxTyped, BringUp, AfterInit
<1>2. Pending' = 0 /\ Posted' = packets
  BY <1>1, RingsSized DEF Pending, Posted, Apart
<1>3. OnWire' = {}
  BY <1>1 DEF OnWire
<1>4. WholePacketsInOrder' /\ SentWasSent'
  BY <1>1 DEF WholePacketsInOrder, SentWasSent
<1> QED BY <1>1, <1>2, <1>3, <1>4 DEF TxInv

-----------------------------------------------------------------------------
(* The receive ring.                                                       *)
LEMMA RxPlaces ==
  ASSUME RxTyped
  PROVE  /\ rx_cur \in 0..(NUM_RX_DESC - 1) /\ rx_cur \in RxSlots
         /\ Ahead(rx_cur, 0, NUM_RX_DESC) = rx_cur
         /\ \A j \in RxSlots : Ahead(rx_cur, j, NUM_RX_DESC) \in RxSlots
         /\ \A j, k \in RxSlots :
              Ahead(rx_cur, j, NUM_RX_DESC) = Ahead(rx_cur, k, NUM_RX_DESC) => j = k
<1>1. rx_cur \in 0..(NUM_RX_DESC - 1)
  BY DEF RxTyped, RxSlots
<1>2. \A j \in 0..(NUM_RX_DESC - 1) : Ahead(rx_cur, j, NUM_RX_DESC) \in 0..(NUM_RX_DESC - 1)
  BY <1>1, RingsSized, AheadTyped
<1> QED BY <1>1, <1>2, RingsSized, PlacesShift DEF RxSlots

LEMMA RxKept ==
  ASSUME RxInv, UNCHANGED <<rx, rx_cur, accepted, received, rings, inits>>,
         enabled' => enabled /\ UNCHANGED <<RDH, RDT>>,
         \/ pc' = pc
         \/ pc \notin {"rearm", "rx_tail"} /\ pc' \notin {"rearm", "rx_tail"}
  PROVE  RxInv'
<1>1. Consumed' = Consumed /\ Unread' = Unread
  BY DEF Consumed, Unread
<1>2. (pc' \in {"rearm", "rx_tail"} <=> pc \in {"rearm", "rx_tail"}) /\ (pc' = "rx_tail" <=> pc = "rx_tail")
  OBVIOUS
<1>3. FramesOnceInOrder'
  BY DEF RxInv, FramesOnceInOrder
<1>4. ASSUME NEW j \in RxSlots
      PROVE  LET d == rx'[Ahead(rx_cur', j, NUM_RX_DESC)]
             IN  IF j < Unread'
                 THEN d.buffer = Consumed' + 1 + j /\ (d.done <=> ~(j = 0 /\ pc' = "rx_tail"))
                 ELSE ~d.done
  BY <1>1, <1>2 DEF RxInv
<1> QED BY <1>1, <1>2, <1>3, <1>4 DEF RxInv

LEMMA RxCounts ==
  ASSUME RxTyped, RxInv
  PROVE  Len(received) \in Nat /\ accepted \in Nat /\ Consumed \in Nat /\ Unread \in Nat
         /\ accepted = Consumed + Unread /\ Unread \in RxSlots
<1>1. Len(received) \in Nat /\ accepted \in Nat
  BY LenTyped, RingsSized DEF RxTyped
<1>2. Consumed \in Nat
  BY <1>1 DEF RxInv, Consumed
<1> QED BY <1>1, <1>2, RingsSized DEF RxInv, Unread, RxSlots

LEMMA RxReceive ==
  ASSUME Tidy, RxInv, Receive
  PROVE  RxInv'
<1>1. RxTyped /\ pc = "idle" /\ pc' = "rearm" /\ rx[rx_cur].done
      /\ UNCHANGED <<rings, inits, enabled, rx, rx_cur, RDH, RDT, accepted>>
  BY DEF Tidy, Receive
<1>2. Consumed = Len(received) /\ Consumed \in Nat /\ Unread \in Nat
  BY <1>1, RxCounts DEF Consumed
<1>3. 0 < Unread /\ rx[rx_cur].buffer = Consumed + 1
  <2>1. 0 \in RxSlots /\ Ahead(rx_cur, 0, NUM_RX_DESC) = rx_cur
    BY <1>1, RxPlaces, RingsSized
  <2>2. 0 < Unread
    BY <1>1, <2>1 DEF RxInv
  <2>3. rx[rx_cur].buffer = Consumed + 1 + 0
    BY <2>1, <2>2 DEF RxInv
  <2> QED BY <1>2, <2>2, <2>3
<1>4. /\ DOMAIN received = 1..Len(received) /\ DOMAIN received' = 1..(Len(received) + 1)
      /\ Len(received') = Len(received) + 1 /\ received'[Len(received) + 1] = Len(received) + 1
      /\ \A k \in 1..Len(received) : received'[k] = received[k]
  <2>1. rx[rx_cur] \in RxDesc /\ received \in Seq(0..MaxFrames)
    BY <1>1 DEF RxTyped
  <2>2. rx[rx_cur].buffer \in 0..MaxFrames
    BY <2>1 DEF RxDesc
  <2>3. received' = Append(received, Len(received) + 1) /\ Len(received) + 1 \in 0..MaxFrames
    BY <1>2, <1>3, <2>2 DEF Receive
  <2> QED BY <2>1, <2>3, Appended
<1>5. Consumed' = Consumed /\ Unread' = Unread
  BY <1>1, <1>2, <1>4 DEF Consumed, Unread
<1>6. FramesOnceInOrder'
  <2> SUFFICES ASSUME NEW k \in 1..(Len(received) + 1) PROVE received'[k] = k
    BY <1>4 DEF FramesOnceInOrder
  <2>1. CASE k = Len(received) + 1
    BY <1>4, <2>1
  <2>2. CASE k # Len(received) + 1
    <3>1. k \in 1..Len(received)
      BY <1>2, <2>2
    <3> QED BY <1>4, <3>1 DEF RxInv, FramesOnceInOrder
  <2> QED BY <2>1, <2>2
<1>7. ASSUME NEW j \in RxSlots
      PROVE  LET d == rx'[Ahead(rx_cur', j, NUM_RX_DESC)]
             IN  IF j < Unread'
                 THEN d.buffer = Consumed' + 1 + j /\ (d.done <=> ~(j = 0 /\ pc' = "rx_tail"))
                 ELSE ~d.done
  BY <1>1, <1>5 DEF RxInv
<1> QED BY <1>1, <1>3, <1>5, <1>6, <1>7 DEF RxInv

LEMMA RxRearm ==
  ASSUME Tidy, RxInv, Rearm
  PROVE  RxInv'
<1>1. RxTyped /\ pc = "rearm" /\ pc' = "rx_tail"
      /\ UNCHANGED <<rings, inits, enabled, rx_cur, RDH, RDT, accepted, received>>
  BY DEF Tidy, Rearm
<1>2. /\ \A k \in RxSlots \ {rx_cur} : rx'[k] = rx[k]
      /\ rx'[rx_cur].buffer = rx[rx_cur].buffer /\ ~rx'[rx_cur].done
  BY <1>1, RxDoneSet DEF Rearm, RxTyped
<1>3. Consumed' = Consumed /\ Unread' = Unread /\ Unread > 0 /\ Unread \in Nat
  BY <1>1, RxCounts DEF Consumed, Unread, RxInv
<1>4. FramesOnceInOrder'
  BY <1>1 DEF RxInv, FramesOnceInOrder
<1>5. ASSUME NEW j \in RxSlots
      PROVE  LET d == rx'[Ahead(rx_cur', j, NUM_RX_DESC)]
             IN  IF j < Unread'
                 THEN d.buffer = Consumed' + 1 + j /\ (d.done <=> ~(j = 0 /\ pc' = "rx_tail"))
                 ELSE ~d.done
  <2> DEFINE k == Ahead(rx_cur, j, NUM_RX_DESC)
  <2>1. k \in RxSlots /\ (k = rx_cur => j = 0) /\ (j = 0 => k = rx_cur)
    BY <1>1, RxPlaces, RingsSized
  <2>2. IF j < Unread
        THEN rx[k].buffer = Consumed + 1 + j /\ (rx[k].done <=> ~(j = 0 /\ pc = "rx_tail"))
        ELSE ~rx[k].done
    BY DEF RxInv
  <2> HIDE DEF k
  <2>3. CASE j = 0
    BY <1>1, <1>2, <1>3, <2>1, <2>2, <2>3 DEF k
  <2>4. CASE j # 0
    BY <1>1, <1>2, <1>3, <2>1, <2>2, <2>4 DEF k
  <2> QED BY <2>3, <2>4
<1> QED BY <1>1, <1>3, <1>4, <1>5 DEF RxInv

(* The descriptor just read becomes the last one the card may fill.        *)
LEMMA RxReceiveTail ==
  ASSUME Tidy, RxInv, ReceiveTail
  PROVE  RxInv'
<1>1. RxTyped /\ pc = "rx_tail" /\ pc' = "idle" /\ RDT' = rx_cur
      /\ UNCHANGED <<rings, inits, enabled, rx, RDH, accepted, received>>
  BY DEF Tidy, ReceiveTail
<1>2. rx_cur' = Ahead(rx_cur, 1, NUM_RX_DESC) /\ rx_cur \in 0..(NUM_RX_DESC - 1)
  BY <1>1, NextSlots DEF ReceiveTail, RxTyped, RxSlots
<1>3. /\ Consumed \in Nat /\ Unread \in 1..(NUM_RX_DESC - 1)
      /\ Consumed' = Consumed + 1 /\ Unread' = Unread - 1
  <2>1. Consumed = Len(received) - 1 /\ Consumed' = Len(received) /\ Unread > 0
    BY <1>1 DEF Consumed, RxInv
  <2>2. Len(received) \in Nat /\ Consumed \in Nat /\ Unread \in Nat /\ accepted = Consumed + Unread
        /\ Unread \in RxSlots /\ accepted \in Nat
    BY <1>1, RxCounts
  <2>3. Unread' = accepted - Consumed'
    BY <1>1 DEF Unread
  <2> HIDE DEF Consumed, Unread
  <2> QED BY <2>1, <2>2, <2>3, RingsSized DEF RxSlots
<1>4. FramesOnceInOrder'
  BY <1>1 DEF RxInv, FramesOnceInOrder
<1>5. /\ \A j \in 0..(NUM_RX_DESC - 2) :
           Ahead(rx_cur', j, NUM_RX_DESC) = Ahead(rx_cur, j + 1, NUM_RX_DESC)
      /\ Ahead(rx_cur', NUM_RX_DESC - 1, NUM_RX_DESC) = rx_cur
      /\ Ahead(rx_cur, 0, NUM_RX_DESC) = rx_cur
  BY <1>2, RingsSized, PlacesShift
<1>6. ASSUME NEW j \in RxSlots
      PROVE  LET d == rx'[Ahead(rx_cur', j, NUM_RX_DESC)]
             IN  IF j < Unread'
                 THEN d.buffer = Consumed' + 1 + j /\ (d.done <=> ~(j = 0 /\ pc' = "rx_tail"))
                 ELSE ~d.done
  <2> HIDE DEF Consumed, Unread
  <2>1. CASE j = NUM_RX_DESC - 1
    <3>1. 0 \in RxSlots /\ 0 < Unread /\ ~(j < Unread')
      BY <1>3, <2>1, RingsSized
    <3>2. ~rx[rx_cur].done
      BY <1>1, <1>5, <3>1 DEF RxInv
    <3> QED BY <1>1, <1>5, <2>1, <3>1, <3>2
  <2>2. CASE j # NUM_RX_DESC - 1
    <3>1. j \in 0..(NUM_RX_DESC - 2) /\ j + 1 \in RxSlots /\ j + 1 # 0
          /\ (j < Unread' <=> j + 1 < Unread)
          /\ Consumed' + 1 + j = Consumed + 1 + (j + 1)
      BY <1>3, <2>2, RingsSized DEF RxSlots
    <3> DEFINE k == Ahead(rx_cur, j + 1, NUM_RX_DESC)
    <3>2. IF j + 1 < Unread
          THEN rx[k].buffer = Consumed + 1 + (j + 1) /\ (rx[k].done <=> ~(j + 1 = 0 /\ pc = "rx_tail"))
          ELSE ~rx[k].done
      BY <3>1 DEF RxInv
    <3>3. Ahead(rx_cur', j, NUM_RX_DESC) = k
      BY <1>5, <3>1
    <3> HIDE DEF k
    <3> QED BY <1>1, <3>1, <3>2, <3>3
  <2> QED BY <2>1, <2>2
<1>7. ASSUME enabled
      PROVE  /\ RDT' = Ahead(rx_cur', NUM_RX_DESC - 1, NUM_RX_DESC)
             /\ RDH' = Ahead(rx_cur', Unread', NUM_RX_DESC)
  <2> HIDE DEF Consumed, Unread
  <2>1. RDH' = Ahead(rx_cur, Unread, NUM_RX_DESC)
    BY <1>1, <1>7 DEF RxInv
  <2>2. Unread' \in 0..(NUM_RX_DESC - 2) /\ Unread' + 1 = Unread
    BY <1>3, RingsSized
  <2> QED BY <1>1, <1>5, <2>1, <2>2
<1>8. Unread' \in 0..(NUM_RX_DESC - 1) /\ Consumed' >= 0
  <2> HIDE DEF Consumed, Unread
  <2> QED BY <1>3, RingsSized
<1> QED BY <1>1, <1>4, <1>6, <1>7, <1>8 DEF RxInv

LEMMA RxCardReceives ==
  ASSUME Tidy, RxInv, CardReceives
  PROVE  RxInv'
<1>1. /\ RxTyped /\ enabled /\ enabled' /\ RDH # RDT /\ accepted' = accepted + 1
      /\ UNCHANGED <<pc, rings, inits, rx_cur, RDT, received>>
  BY DEF Tidy, CardReceives, driverVars
<1>2. /\ RDT = Ahead(rx_cur, NUM_RX_DESC - 1, NUM_RX_DESC)
      /\ RDH = Ahead(rx_cur, Unread, NUM_RX_DESC) /\ RDH \in RxSlots
  BY <1>1 DEF RxInv, RxTyped
<1>3. /\ \A k \in RxSlots \ {RDH} : rx'[k] = rx[k]
      /\ rx'[RDH].buffer = accepted + 1 /\ rx'[RDH].done
  <2>1. accepted + 1 \in 0..MaxFrames
    BY <1>1, RingsSized DEF CardReceives, RxTyped
  <2> QED BY <1>1, <1>2, <2>1, FrameSet DEF CardReceives, RxTyped
<1>4. /\ Consumed \in Nat /\ Unread \in 0..(NUM_RX_DESC - 2) /\ accepted = Consumed + Unread
      /\ Consumed' = Consumed /\ Unread' = Unread + 1 /\ Unread \in RxSlots
  <2>1. /\ Consumed \in Nat /\ Unread \in RxSlots /\ accepted = Consumed + Unread
        /\ Consumed' = Consumed /\ accepted \in Nat
    BY <1>1, RxCounts DEF Consumed
  <2>2. Unread' = accepted' - Consumed'
    BY DEF Unread
  <2>3. Unread # NUM_RX_DESC - 1
    BY <1>1, <1>2
  <2> HIDE DEF Consumed, Unread
  <2> QED BY <1>1, <2>1, <2>2, <2>3, RingsSized DEF RxSlots
<1>5. FramesOnceInOrder'
  BY <1>1 DEF RxInv, FramesOnceInOrder
<1>6. ASSUME NEW j \in RxSlots
      PROVE  LET d == rx'[Ahead(rx_cur', j, NUM_RX_DESC)]
             IN  IF j < Unread'
                 THEN d.buffer = Consumed' + 1 + j /\ (d.done <=> ~(j = 0 /\ pc' = "rx_tail"))
                 ELSE ~d.done
  <2> DEFINE k == Ahead(rx_cur, j, NUM_RX_DESC)
  <2>1. k \in RxSlots /\ (k = RDH <=> j = Unread)
    BY <1>1, <1>2, <1>4, RxPlaces
  <2>2. IF j < Unread
        THEN rx[k].buffer = Consumed + 1 + j /\ (rx[k].done <=> ~(j = 0 /\ pc = "rx_tail"))
        ELSE ~rx[k].done
    BY DEF RxInv
  <2>3. pc = "rx_tail" => Unread # 0
    BY DEF RxInv
  <2> HIDE DEF k, Consumed, Unread
  <2>4. CASE j = Unread
    <3>1. j < Unread' /\ accepted + 1 = Consumed' + 1 + j
      BY <1>4, <2>4, RingsSized
    <3>2. rx'[k].buffer = Consumed' + 1 + j /\ rx'[k].done /\ ~(j = 0 /\ pc' = "rx_tail")
      BY <1>1, <1>3, <2>1, <2>3, <2>4, <3>1
    <3> QED BY <1>1, <3>1, <3>2 DEF k
  <2>5. CASE j # Unread
    <3>1. rx'[k] = rx[k] /\ (j < Unread' <=> j < Unread) /\ Consumed' = Consumed
      BY <1>3, <1>4, <2>1, <2>5, RingsSized DEF RxSlots
    <3> QED BY <1>1, <2>2, <3>1 DEF k
  <2> QED BY <2>4, <2>5
<1>7. RDH' = Ahead(rx_cur', Unread', NUM_RX_DESC)
  <2> HIDE DEF Consumed, Unread
  <2>1. RDH' = Ahead(RDH, 1, NUM_RX_DESC)
    BY <1>2, NextSlots DEF CardReceives
  <2>2. Ahead(Ahead(rx_cur, Unread, NUM_RX_DESC), 1, NUM_RX_DESC) = Ahead(rx_cur, Unread + 1, NUM_RX_DESC)
    <3>1. rx_cur \in 0..(NUM_RX_DESC - 1)
      BY <1>1, RxPlaces
    <3> QED BY <1>4, <3>1, RingsSized DEF Ahead
  <2> QED BY <1>1, <1>2, <1>4, <2>1, <2>2
<1>8. Unread' \in 0..(NUM_RX_DESC - 1) /\ Unread' > 0
  <2> HIDE DEF Consumed, Unread
  <2> QED BY <1>4, RingsSized
<1> QED BY <1>1, <1>2, <1>4, <1>5, <1>6, <1>7, <1>8 DEF RxInv

LEMMA RxBringUp ==
  ASSUME Tidy, BringUp, inits = 0
  PROVE  RxInv'
<1>1. /\ rx_cur' = 0 /\ received' = <<>> /\ accepted' = 0 /\ rings' /\ inits' = 1
      /\ pc' \in {"idle", "send"} /\ rx' = FreshRx /\ RDH' = 0 /\ RDT' = NUM_RX_DESC - 1
  BY DEF Tidy, BeforeInit, BringUp, AfterInit
<1>2. Consumed' = 0 /\ Unread' = 0
  <2>1. Len(<<>>) = 0
    OBVIOUS
  <2>2. Consumed' = Len(received')
    BY <1>1 DEF Consumed
  <2>3. Consumed' = 0
    BY <1>1, <2>1, <2>2
  <2> QED BY <1>1, <2>3 DEF Unread
<1>3. FramesOnceInOrder'
  BY <1>1 DEF FramesOnceInOrder
<1>4. \A j \in RxSlots : Ahead(0, j, NUM_RX_DESC) = j
  BY RingsSized DEF Ahead, RxSlots
<1>5. ASSUME NEW j \in RxSlots PROVE ~(j < Unread') /\ ~rx'[Ahead(rx_cur', j, NUM_RX_DESC)].done
  BY <1>1, <1>2, <1>4, FreshRings DEF RxSlots
<1>6. /\ RDT' = Ahead(rx_cur', NUM_RX_DESC - 1, NUM_RX_DESC)
      /\ RDH' = Ahead(rx_cur', Unread', NUM_RX_DESC)
  <2>1. NUM_RX_DESC - 1 \in RxSlots /\ 0 \in RxSlots
    BY RingsSized DEF RxSlots
  <2> QED BY <1>1, <1>2, <1>4, <2>1
<1>7. Unread' \in 0..(NUM_RX_DESC - 1) /\ Consumed' >= 0
  BY <1>2, RingsSized
<1> QED BY <1>1, <1>3, <1>5, <1>6, <1>7 DEF RxInv

-----------------------------------------------------------------------------
(* The invariant.                                                          *)
E1000Inv == Tidy /\ (Once => TxInv) /\ (Once /\ inits > 0 => RxInv)

LEMMA E1000Start == Init => E1000Inv
<1> SUFFICES ASSUME Init PROVE E1000Inv
  OBVIOUS
<1>1. ~enabled /\ pc = "idle" /\ wire = <<>> /\ reported = {} /\ inits = 0
  BY DEF Init
<1>2. TxInv
  BY <1>1 DEF TxInv, WholePacketsInOrder, SentWasSent
<1> QED BY <1>1, <1>2, TidyStart DEF E1000Inv

(* While the driver comes up no more than once: before it does, nothing is *)
(* in the rings; when it does, both are fresh.                             *)
LEMMA RingsStep ==
  ASSUME Tidy, Once => TxInv, Once /\ inits > 0 => RxInv, Next, Once'
  PROVE  TxInv' /\ (inits' > 0 => RxInv')
<1>0. inits \in Nat /\ inits' \in Nat /\ inits' <= 1
  BY TidyStep DEF Tidy, DriverTyped, Once
<1>1. CASE BringUp
  <2>1. inits' = inits + 1
    BY <1>1 DEF BringUp
  <2>2. inits = 0
    BY <1>0, <2>1
  <2> QED BY <1>1, <2>2, TxBringUp, RxBringUp
<1>2. CASE inits' = inits
  <2>1. TxInv /\ (inits > 0 => RxInv)
    BY <1>2 DEF Once
  <2>2. ~rings => ~enabled
    BY <1>0, <2>1 DEF Tidy, BeforeInit, RxInv
  <2>3. inits = 0 => ~rings /\ ~enabled
    BY DEF Tidy, BeforeInit
  <2>4. ASSUME NEW c \in Commands, Command(c) PROVE TxInv' /\ (inits' > 0 => RxInv')
    BY <1>2, <2>1, <2>4, TxKept, RxKept DEF Command, AfterInit, txVars, rxVars
  <2>5. CASE NoDevice \/ ResetTimeout
    BY <1>2, <2>1, <2>5, TxKept, RxKept DEF NoDevice, ResetTimeout, AfterInit, txVars, rxVars
  <2>6. CASE Reset
    BY <1>2, <2>1, <2>6, TxKept, RxKept DEF Reset
  <2>7. CASE SendRefused
    <3>1. ~enabled /\ inits = 0
      BY <1>0, <2>1, <2>2, <2>7 DEF SendRefused, RxInv
    <3>2. TxInv'
      BY <2>1, <2>7, <3>1 DEF SendRefused, TxInv, WholePacketsInOrder, SentWasSent
    <3> QED BY <1>2, <3>1, <3>2
  <2>8. CASE SendCopy \/ SendDescribe \/ SendTail \/ SendDone
    <3>1. TxInv'
      BY <2>1, <2>8, TxSendCopy, TxSendDescribe, TxSendTail, TxSendDone
    <3>2. inits > 0 => RxInv'
      BY <1>2, <2>1, <2>8, RxKept DEF SendCopy, SendDescribe, SendTail, SendDone, rxVars
    <3> QED BY <1>2, <3>1, <3>2
  <2>9. CASE SendTimeout
    BY <1>2, <2>1, <2>9, TxKept, RxKept DEF SendTimeout, txVars, rxVars
  <2>10. CASE Receive \/ Rearm \/ ReceiveTail
    <3>1. TxInv'
      BY <2>1, <2>10, TxKept DEF Receive, Rearm, ReceiveTail, txVars
    <3>2. inits > 0 => RxInv'
      BY <2>1, <2>10, RxReceive, RxRearm, RxReceiveTail
    <3> QED BY <1>2, <3>1, <3>2
  <2>11. CASE CardTransmits
    BY <1>2, <2>1, <2>11, TxCardTransmits, RxKept DEF CardTransmits, driverVars, rxVars
  <2>12. CASE CardReceives
    BY <1>2, <2>1, <2>12, TxKept, RxCardReceives DEF CardReceives, driverVars, txVars
  <2> QED BY <1>1, <2>4, <2>5, <2>6, <2>7, <2>8, <2>9, <2>10, <2>11, <2>12, TxBringUp DEF Next, Driver
<1> QED BY <1>1, <1>2 DEF Next, Driver, Command, NoDevice, Reset, ResetTimeout, SendRefused, SendCopy,
          SendDescribe, SendTail, SendDone, SendTimeout, Receive, Rearm, ReceiveTail,
          CardTransmits, CardReceives, driverVars

LEMMA E1000Step == E1000Inv /\ [Next]_vars => E1000Inv'
<1> SUFFICES ASSUME E1000Inv, [Next]_vars PROVE E1000Inv'
  OBVIOUS
<1>1. Tidy /\ (Once => TxInv) /\ (Once /\ inits > 0 => RxInv)
  BY DEF E1000Inv
<1>2. Tidy'
  BY <1>1, TidyStep
<1>3. CASE Next
  <2>1. (Once => TxInv)' /\ (Once /\ inits > 0 => RxInv)'
    BY <1>1, <1>3, RingsStep
  <2> QED BY <1>2, <2>1 DEF E1000Inv
<1>4. CASE UNCHANGED vars
  <2>1. /\ UNCHANGED <<tx, tx_cur, packets, wire, reported, enabled, TDH, TDT, pc>>
        /\ UNCHANGED <<rx, rx_cur, accepted, received, rings, inits, RDH, RDT>>
    BY <1>4 DEF vars, driverVars, txVars, rxVars
  <2>2. (Once => TxInv)'
    BY <1>1, <2>1, TxKept DEF Once
  <2>3. (Once /\ inits > 0 => RxInv)'
    BY <1>1, <2>1, RxKept DEF Once
  <2> QED BY <1>2, <2>2, <2>3 DEF E1000Inv
<1> QED BY <1>3, <1>4

-----------------------------------------------------------------------------
(* The theorems.                                                           *)

(* The inductive invariant of driver and card, for any set of commands.    *)
THEOREM E1000Invariant == Spec => []E1000Inv
<1> QED BY E1000Start, E1000Step, PTL DEF Spec

(* The rings, indices, registers and logs keep their types.                *)
THEOREM E1000TypeOK == Spec => []TypeOK
<1>1. E1000Inv => TypeOK
  BY TypesSplit DEF E1000Inv, Tidy
<1> QED BY <1>1, E1000Invariant, PTL

AllInOrder == WholePacketsInOrder /\ SentWasSent /\ FramesOnceInOrder /\ ReceiveNeverWedges

LEMMA OnceInOrder ==
  ASSUME E1000Inv, Once
  PROVE  AllInOrder
<1>1. Tidy /\ TxInv /\ (inits > 0 => RxInv)
  BY DEF E1000Inv
<1>2. CASE inits = 0
  <2>1. received = <<>> /\ ~enabled
    BY <1>1, <1>2 DEF Tidy, BeforeInit
  <2> QED BY <1>1, <2>1 DEF TxInv, AllInOrder, FramesOnceInOrder, ReceiveNeverWedges
<1>3. CASE inits > 0
  <2>1. ASSUME enabled, pc = "idle", RDH = RDT PROVE rx[rx_cur].done
    <3>1. RxTyped /\ RxInv /\ Unread \in RxSlots /\ Unread \in Nat
      BY <1>1, <1>3, RxCounts DEF Tidy
    <3>2. Ahead(rx_cur, NUM_RX_DESC - 1, NUM_RX_DESC) = Ahead(rx_cur, Unread, NUM_RX_DESC)
      BY <2>1, <3>1 DEF RxInv
    <3>3. NUM_RX_DESC - 1 \in RxSlots /\ 0 \in RxSlots /\ NUM_RX_DESC - 1 > 0
      BY RingsSized DEF RxSlots
    <3> HIDE DEF Unread
    <3>4. Unread = NUM_RX_DESC - 1
      BY <3>1, <3>2, <3>3, RxPlaces
    <3>5. 0 < Unread /\ Ahead(rx_cur, 0, NUM_RX_DESC) = rx_cur
      BY <3>1, <3>3, <3>4, RxPlaces
    <3> QED BY <2>1, <3>1, <3>3, <3>5 DEF RxInv
  <2> QED BY <1>1, <1>3, <2>1 DEF TxInv, RxInv, AllInOrder, ReceiveNeverWedges
<1> QED BY <1>1, <1>2, <1>3 DEF Tidy, DriverTyped

(* Whatever commands use the network: until the driver is brought up for   *)
(* the second time, packets go out whole and in order, "Packet sent" is    *)
(* true, frames come in once and in order, and receiving cannot stop.      *)
THEOREM E1000UntilSecondInit == Spec => [](inits <= 1 => AllInOrder)
<1>1. E1000Inv => (inits <= 1 => AllInOrder)
  BY OnceInOrder DEF Once
<1> QED BY <1>1, E1000Invariant, PTL

-----------------------------------------------------------------------------
(* One command, whose static flag keeps it from bringing the driver up     *)
(* again.                                                                  *)
OneCommand == \A c, d \in Commands : c = d

FlagCounts ==
  /\ inits \in {0, 1} /\ command \in Commands
  /\ net_initialized \in [Commands -> BOOLEAN]
  /\ net_initialized[command] <=> inits = 1
  /\ pc \in {"init", "reset"} => inits = 0

LEMMA FlagStart == Init => FlagCounts
BY DEF Init, FlagCounts

LEMMA FlagStep ==
  ASSUME OneCommand, FlagCounts, [Next]_vars
  PROVE  FlagCounts'
<1>1. CASE UNCHANGED vars
  BY <1>1 DEF FlagCounts, vars, driverVars
<1>2. ASSUME NEW c \in Commands, Command(c) PROVE FlagCounts'
  <2>1. c = command
    BY DEF OneCommand, FlagCounts
  <2> QED BY <1>2, <2>1 DEF FlagCounts, Command, AfterInit
<1>3. CASE BringUp
  <2> DEFINE w == TRUE
  <2>1. net_initialized' = [net_initialized EXCEPT ![command] = w] /\ w \in BOOLEAN /\ w
    BY <1>3 DEF BringUp
  <2> HIDE DEF w
  <2>2. net_initialized' \in [Commands -> BOOLEAN] /\ net_initialized'[command]
    BY <2>1 DEF FlagCounts
  <2>3. inits = 0 /\ inits' = inits + 1 /\ command' = command /\ pc' \notin {"init", "reset"}
    BY <1>3 DEF BringUp, FlagCounts, AfterInit
  <2> QED BY <2>2, <2>3 DEF FlagCounts
<1>4. CASE NoDevice \/ Reset \/ ResetTimeout
  BY <1>4 DEF FlagCounts, NoDevice, Reset, ResetTimeout, AfterInit
<1>5. CASE \/ SendRefused \/ SendCopy \/ SendDescribe \/ SendTail \/ SendDone \/ SendTimeout
           \/ Receive \/ Rearm \/ ReceiveTail
  BY <1>5 DEF FlagCounts, SendRefused, SendCopy, SendDescribe, SendTail, SendDone, SendTimeout,
     Receive, Rearm, ReceiveTail
<1>6. CASE CardTransmits \/ CardReceives
  BY <1>6 DEF FlagCounts, CardTransmits, CardReceives, driverVars
<1> QED BY <1>1, <1>2, <1>3, <1>4, <1>5, <1>6 DEF Next, Driver

LEMMA OneCommandInOrder ==
  ASSUME OneCommand
  PROVE  Spec => []AllInOrder
<1>1. FlagCounts /\ [Next]_vars => FlagCounts'
  BY FlagStep
<1>2. FlagCounts => inits <= 1
  BY DEF FlagCounts
<1> QED BY <1>1, <1>2, FlagStart, E1000UntilSecondInit, PTL DEF Spec

(* The card transmits whole packets, each once and in order, although a    *)
(* timed-out e1000_driver_send goes on and refills descriptors             *)
(* (e1000.c:156-182).                                                      *)
THEOREM E1000WholePackets ==
  ASSUME OneCommand
  PROVE  Spec => []WholePacketsInOrder
<1>1. AllInOrder => WholePacketsInOrder
  BY DEF AllInOrder
<1> QED BY <1>1, OneCommandInOrder, PTL

(* A packet reported as sent was transmitted: the done bit that            *)
(* e1000_driver_send sees is never an earlier packet's (e1000.c:164-179).  *)
THEOREM E1000SentWasSent ==
  ASSUME OneCommand
  PROVE  Spec => []SentWasSent
<1>1. AllInOrder => SentWasSent
  BY DEF AllInOrder
<1> QED BY <1>1, OneCommandInOrder, PTL

(* e1000_driver_receive returns every frame once and in the order of       *)
(* arrival, with the card refilling behind it (e1000.c:188-206).           *)
THEOREM E1000FramesInOrder ==
  ASSUME OneCommand
  PROVE  Spec => []FramesOnceInOrder
<1>1. AllInOrder => FramesOnceInOrder
  BY DEF AllInOrder
<1> QED BY <1>1, OneCommandInOrder, PTL

(* A card out of descriptors means a frame for the driver to read, which   *)
(* hands a descriptor back (e1000.c:206).                                  *)
THEOREM E1000NeverWedges ==
  ASSUME OneCommand
  PROVE  Spec => []ReceiveNeverWedges
<1>1. AllInOrder => ReceiveNeverWedges
  BY DEF AllInOrder
<1> QED BY <1>1, OneCommandInOrder, PTL

-----------------------------------------------------------------------------
(* Recursion over a sequence of terms.                                     *)
LEMMA LeastNumber ==
  ASSUME NEW T, T \subseteq Nat, T # {}
  PROVE  \E m \in T : \A k \in T : m <= k
<1>1. PICK m \in T : \A k \in T : <<k, m>> \notin OpToRel(<, Nat)
  BY WFMin, NatLessThanWellFounded, Zenon
<1>2. \A k \in T : ~(k < m)
  BY <1>1 DEF OpToRel
<1> QED BY <1>2

LEMMA NatInductive ==
  ASSUME NEW S, 0 \in S, \A k \in Nat : k \in S => k + 1 \in S
  PROVE  \A k \in Nat : k \in S
<1> SUFFICES ASSUME Nat \ S # {} PROVE FALSE
  OBVIOUS
<1>1. PICK m \in Nat \ S : \A k \in Nat \ S : m <= k
  BY LeastNumber
<1>2. m # 0 /\ m - 1 \in Nat /\ m - 1 \in S
  BY <1>1
<1> QED BY <1>2

(* a runs through the values after 0, 1, ... l of the terms.               *)
Runs(a, scale, terms, l) ==
  a = [k \in 0..l |-> IF k = 0 THEN 0 ELSE scale * a[k - 1] + terms[k]]

LEMMA RunsExists ==
  ASSUME NEW scale, NEW terms
  PROVE  \A l \in Nat : \E a : Runs(a, scale, terms, l)
<1> DEFINE S == {l \in Nat : \E a : Runs(a, scale, terms, l)}
<1>1. 0 \in S
  <2> DEFINE a == [k \in 0..0 |-> 0]
  <2>1. a = [k \in 0..0 |-> IF k = 0 THEN 0 ELSE scale * a[k - 1] + terms[k]]
    OBVIOUS
  <2> QED BY <2>1 DEF Runs
<1>2. ASSUME NEW l \in Nat, l \in S PROVE l + 1 \in S
  <2>1. PICK a : Runs(a, scale, terms, l)
    BY <1>2
  <2> DEFINE At(f, k) == IF k = 0 THEN 0 ELSE scale * f[k - 1] + terms[k]
             b == [k \in 0..(l + 1) |-> IF k = l + 1 THEN scale * a[l] + terms[l + 1] ELSE a[k]]
             bb == [k \in 0..(l + 1) |-> At(b, k)]
  <2>2. ASSUME NEW k \in 0..(l + 1) PROVE b[k] = bb[k]
    <3>1. CASE k = l + 1
      <4>1. b[l] = a[l] /\ (l + 1) - 1 = l /\ l + 1 # 0
        OBVIOUS
      <4>2. b[k] = scale * a[l] + terms[l + 1]
        BY <3>1
      <4>3. bb[k] = scale * b[l] + terms[l + 1]
        BY <3>1, <4>1
      <4> HIDE DEF b, bb
      <4> QED BY <4>1, <4>2, <4>3
    <3>2. CASE k = 0
      <4>1. a[0] = 0
        BY <2>1 DEF Runs
      <4> QED BY <3>2, <4>1
    <3>3. CASE k \in 1..l
      <4>1. b[k] = a[k] /\ k - 1 \in 0..l /\ k \in 0..l /\ b[k - 1] = a[k - 1]
        BY <3>3
      <4>2. bb[k] = scale * b[k - 1] + terms[k]
        BY <3>3
      <4>3. a[k] = scale * a[k - 1] + terms[k]
        BY <2>1, <3>3, <4>1 DEF Runs
      <4> HIDE DEF b, bb
      <4> QED BY <4>1, <4>2, <4>3
    <3> QED BY <3>1, <3>2, <3>3
  <2>3. b = bb
    <3>1. /\ b = [k \in 0..(l + 1) |-> b[k]]
          /\ bb = [k \in 0..(l + 1) |-> bb[k]]
      OBVIOUS
    <3> HIDE DEF b, bb
    <3> QED BY <2>2, <3>1
  <2>4. Runs(b, scale, terms, l + 1)
    BY <2>3 DEF Runs
  <2> QED BY <2>4
<1> HIDE DEF S
<1>3. \A l \in Nat : l \in S
  BY <1>1, <1>2, NatInductive
<1> QED BY <1>3 DEF S

LEMMA AccumulatedRuns ==
  ASSUME NEW scale \in Nat, NEW terms \in Seq(Nat)
  PROVE  \E a : /\ a \in [0..Len(terms) -> Nat] /\ a[0] = 0
                /\ \A k \in 1..Len(terms) : a[k] = scale * a[k - 1] + terms[k]
                /\ a[Len(terms)] = Accumulated(scale, terms)
<1> DEFINE a == CHOOSE n : Runs(n, scale, terms, Len(terms))
<1>1. Accumulated(scale, terms) = a[Len(terms)]
  BY Zenon DEF Accumulated, Runs
<1>0. Len(terms) \in Nat
  OBVIOUS
<1>2. Runs(a, scale, terms, Len(terms))
  <2>1. \E n : Runs(n, scale, terms, Len(terms))
    BY <1>0, RunsExists, Zenon
  <2> QED BY <2>1, Zenon
<1> HIDE DEF a
<1>3. /\ a = [k \in 0..Len(terms) |-> a[k]] /\ a[0] = 0
      /\ \A k \in 1..Len(terms) : a[k] = scale * a[k - 1] + terms[k]
  <2> DEFINE At(k) == IF k = 0 THEN 0 ELSE scale * a[k - 1] + terms[k]
  <2>1. a = [k \in 0..Len(terms) |-> At(k)]
    BY <1>2, Zenon DEF Runs
  <2>2. At(0) = 0 /\ \A k \in 1..Len(terms) : At(k) = scale * a[k - 1] + terms[k]
    OBVIOUS
  <2> HIDE DEF At
  <2>3. \A k \in 0..Len(terms) : a[k] = At(k)
    BY <2>1
  <2>4. a = [k \in 0..Len(terms) |-> a[k]]
    BY <2>1
  <2>5. 0 \in 0..Len(terms) /\ \A k \in 1..Len(terms) : k \in 0..Len(terms)
    BY <1>0
  <2>6. \A k \in 1..Len(terms) : a[k] = scale * a[k - 1] + terms[k]
    BY <2>2, <2>3, <2>5, Zenon
  <2>7. a[0] = 0
    BY <2>2, <2>3, <2>5, Zenon
  <2> QED BY <2>4, <2>6, <2>7, Zenon
<1> DEFINE S == {k \in Nat : k <= Len(terms) => a[k] \in Nat}
<1>4. 0 \in S
  BY <1>3
<1>5. ASSUME NEW k \in Nat, k \in S PROVE k + 1 \in S
  <2> SUFFICES ASSUME k + 1 <= Len(terms) PROVE a[k + 1] \in Nat
    OBVIOUS
  <2>1. a[k] \in Nat /\ k + 1 \in 1..Len(terms) /\ terms[k + 1] \in Nat /\ (k + 1) - 1 = k
    BY <1>0, <1>5
  <2>2. a[k + 1] = scale * a[k] + terms[k + 1]
    BY <1>3, <2>1
  <2>3. \A x, y, z \in Nat : x * y + z \in Nat
    OBVIOUS
  <2>4. scale * a[k] + terms[k + 1] \in Nat
    BY <2>1, <2>3
  <2> QED BY <2>2, <2>4
<1> HIDE DEF S
<1>6. \A k \in Nat : k \in S
  BY <1>4, <1>5, NatInductive
<1>7. \A k \in 0..Len(terms) : a[k] \in Nat
  BY <1>0, <1>6 DEF S
<1>8. a \in [0..Len(terms) -> Nat]
  BY <1>3, <1>7
<1> QED BY <1>0, <1>1, <1>3, <1>8

-----------------------------------------------------------------------------
(* The checksum.                                                           *)
Byte == 0..255

LEMMA ByteAt ==
  ASSUME NEW bytes \in Seq(Byte), NEW k \in 1..Len(bytes)
  PROVE  bytes[k] \in 0..255
<1>1. bytes[k] \in Byte
  OBVIOUS
<1> QED BY <1>1 DEF Byte

LEMMA WordTerms ==
  ASSUME NEW bytes \in Seq(Byte)
  PROVE  /\ [j \in 1..Len(bytes) |-> bytes[j] * (IF j % 2 = 1 THEN 1 ELSE 256)] \in Seq(Nat)
         /\ [j \in 1..Len(bytes) |-> bytes[j] * (IF j % 2 = 1 THEN 256 ELSE 1)] \in Seq(Nat)
         /\ Len(bytes) \in Nat
<1>1. Len(bytes) \in Nat
  OBVIOUS
<1>2. \A j \in 1..Len(bytes) : bytes[j] \in Nat
  <2>1. 0..255 \subseteq Nat
    OBVIOUS
  <2> QED BY <2>1, ByteAt, Zenon
<1>3. \A j \in 1..Len(bytes) : /\ bytes[j] * (IF j % 2 = 1 THEN 1 ELSE 256) \in Nat
                              /\ bytes[j] * (IF j % 2 = 1 THEN 256 ELSE 1) \in Nat
  BY <1>2
<1> QED BY <1>1, <1>3

(* The two sums of a header, in the order of this machine and of the       *)
(* network.                                                                *)
LEMMA SumRuns ==
  ASSUME NEW bytes \in Seq(Byte)
  PROVE  \E w, n \in [0..Len(bytes) -> Nat] :
            /\ w[0] = 0 /\ w[Len(bytes)] = WordSum(bytes)
            /\ n[0] = 0 /\ n[Len(bytes)] = NetworkSum(bytes)
            /\ \A k \in 1..Len(bytes) :
                 /\ w[k] = w[k - 1] + bytes[k] * (IF k % 2 = 1 THEN 1 ELSE 256)
                 /\ n[k] = n[k - 1] + bytes[k] * (IF k % 2 = 1 THEN 256 ELSE 1)
<1> DEFINE ws == [j \in 1..Len(bytes) |-> bytes[j] * (IF j % 2 = 1 THEN 1 ELSE 256)]
           ns == [j \in 1..Len(bytes) |-> bytes[j] * (IF j % 2 = 1 THEN 256 ELSE 1)]
<1>1. ws \in Seq(Nat) /\ ns \in Seq(Nat) /\ Len(bytes) \in Nat
  BY WordTerms
<1>2. Len(ws) = Len(bytes) /\ Len(ns) = Len(bytes) /\ 1 \in Nat
  BY <1>1
<1>3. /\ \A k \in 1..Len(bytes) : ws[k] = bytes[k] * (IF k % 2 = 1 THEN 1 ELSE 256)
      /\ \A k \in 1..Len(bytes) : ns[k] = bytes[k] * (IF k % 2 = 1 THEN 256 ELSE 1)
  OBVIOUS
<1>4. WordSum(bytes) = Accumulated(1, ws) /\ NetworkSum(bytes) = Accumulated(1, ns)
  BY Zenon DEF WordSum, NetworkSum
<1> HIDE DEF ws, ns
<1>5. PICK w : /\ w \in [0..Len(ws) -> Nat] /\ w[0] = 0
               /\ \A k \in 1..Len(ws) : w[k] = 1 * w[k - 1] + ws[k]
               /\ w[Len(ws)] = Accumulated(1, ws)
  BY <1>1, <1>2, AccumulatedRuns, Zenon
<1>6. PICK n : /\ n \in [0..Len(ns) -> Nat] /\ n[0] = 0
               /\ \A k \in 1..Len(ns) : n[k] = 1 * n[k - 1] + ns[k]
               /\ n[Len(ns)] = Accumulated(1, ns)
  BY <1>1, <1>2, AccumulatedRuns, Zenon
<1>7. ASSUME NEW k \in 1..Len(bytes)
      PROVE  /\ w[k] = w[k - 1] + bytes[k] * (IF k % 2 = 1 THEN 1 ELSE 256)
             /\ n[k] = n[k - 1] + bytes[k] * (IF k % 2 = 1 THEN 256 ELSE 1)
  <2>1. w[k] = 1 * w[k - 1] + ws[k] /\ n[k] = 1 * n[k - 1] + ns[k]
    BY <1>2, <1>5, <1>6, <1>7
  <2>2. w[k - 1] \in Nat /\ n[k - 1] \in Nat
    <3>1. k - 1 \in 0..Len(ws) /\ k - 1 \in 0..Len(ns)
      BY <1>1, <1>2, <1>7
    <3> QED BY <1>5, <1>6, <3>1
  <2>3. 1 * w[k - 1] = w[k - 1] /\ 1 * n[k - 1] = n[k - 1]
    BY <2>2
  <2> QED BY <1>3, <1>7, <2>1, <2>3, Zenon
<1>8. /\ w \in [0..Len(bytes) -> Nat] /\ w[0] = 0 /\ w[Len(bytes)] = WordSum(bytes)
      /\ n \in [0..Len(bytes) -> Nat] /\ n[0] = 0 /\ n[Len(bytes)] = NetworkSum(bytes)
  BY <1>2, <1>4, <1>5, <1>6, Zenon
<1> QED BY <1>7, <1>8, Zenon

(* 256 times the one sum is the other, but for multiples of 65535.         *)
Match(w, n, k) ==
  w <= 65280 * k /\ w <= 256 * n /\ \E e \in Nat : n + 65535 * e = 256 * w

LEMMA MatchStep ==
  ASSUME NEW w \in Nat, NEW n \in Nat, NEW k \in Nat, NEW x \in 0..255, Match(w, n, k)
  PROVE  Match(w + x * 1, n + x * 256, k + 1) /\ Match(w + x * 256, n + x * 1, k + 1)
<1>1. w <= 65280 * k /\ w <= 256 * n
  BY DEF Match
<1>2. PICK e \in Nat : n + 65535 * e = 256 * w
  BY DEF Match
<1>3. x \in Nat /\ x <= 255
  OBVIOUS
<1>4. w + x * 1 <= 65280 * (k + 1) /\ w + x * 1 <= 256 * (n + x * 256)
  BY <1>1, <1>3
<1>5. (n + x * 256) + 65535 * e = 256 * (w + x * 1)
  BY <1>2, <1>3
<1>6. w + x * 256 <= 65280 * (k + 1) /\ w + x * 256 <= 256 * (n + x * 1)
  BY <1>1, <1>3
<1>7. (n + x * 1) + 65535 * (e + x) = 256 * (w + x * 256) /\ e + x \in Nat
  BY <1>2, <1>3
<1> QED BY <1>4, <1>5, <1>6, <1>7 DEF Match

LEMMA SumsAgree ==
  ASSUME NEW bytes \in Seq(Byte)
  PROVE  /\ WordSum(bytes) \in Nat /\ NetworkSum(bytes) \in Nat
         /\ Match(WordSum(bytes), NetworkSum(bytes), Len(bytes))
<1>0. Len(bytes) \in Nat
  OBVIOUS
<1>1. PICK w, n \in [0..Len(bytes) -> Nat] :
            /\ w[0] = 0 /\ w[Len(bytes)] = WordSum(bytes)
            /\ n[0] = 0 /\ n[Len(bytes)] = NetworkSum(bytes)
            /\ \A k \in 1..Len(bytes) :
                 /\ w[k] = w[k - 1] + bytes[k] * (IF k % 2 = 1 THEN 1 ELSE 256)
                 /\ n[k] = n[k - 1] + bytes[k] * (IF k % 2 = 1 THEN 256 ELSE 1)
  BY SumRuns, Zenon
<1> DEFINE S == {k \in Nat : k <= Len(bytes) => Match(w[k], n[k], k)}
<1>2. 0 \in S
  <2>1. 0 <= 65280 * 0 /\ 0 <= 256 * 0 /\ 0 + 65535 * 0 = 256 * 0 /\ 0 \in Nat
    OBVIOUS
  <2>2. Match(0, 0, 0)
    BY <2>1 DEF Match
  <2> QED BY <1>1, <2>2
<1>3. ASSUME NEW k \in Nat, k \in S PROVE k + 1 \in S
  <2> SUFFICES ASSUME k + 1 <= Len(bytes) PROVE Match(w[k + 1], n[k + 1], k + 1)
    OBVIOUS
  <2>1. k \in 0..Len(bytes) /\ k + 1 \in 1..Len(bytes) /\ k + 1 \in 0..Len(bytes)
        /\ (k + 1) - 1 = k
    BY <1>0
  <2>2. w[k] \in Nat /\ n[k] \in Nat /\ bytes[k + 1] \in 0..255
    BY <1>1, <2>1, ByteAt
  <2>3. Match(w[k], n[k], k)
    BY <1>0, <1>3
  <2> HIDE DEF S
  <2>4. /\ w[k + 1] = w[k] + bytes[k + 1] * (IF (k + 1) % 2 = 1 THEN 1 ELSE 256)
        /\ n[k + 1] = n[k] + bytes[k + 1] * (IF (k + 1) % 2 = 1 THEN 256 ELSE 1)
    BY <1>1, <2>1
  <2>5. /\ Match(w[k] + bytes[k + 1] * 1, n[k] + bytes[k + 1] * 256, k + 1)
        /\ Match(w[k] + bytes[k + 1] * 256, n[k] + bytes[k + 1] * 1, k + 1)
    BY <2>2, <2>3, MatchStep
  <2>6. CASE (k + 1) % 2 = 1
    BY <2>4, <2>5, <2>6
  <2>7. CASE (k + 1) % 2 # 1
    BY <2>4, <2>5, <2>7
  <2> QED BY <2>6, <2>7
<1> HIDE DEF S
<1>4. \A k \in Nat : k \in S
  BY <1>2, <1>3, NatInductive
<1>5. Match(w[Len(bytes)], n[Len(bytes)], Len(bytes))
  BY <1>0, <1>4 DEF S
<1>6. w[Len(bytes)] \in Nat /\ n[Len(bytes)] \in Nat
  BY <1>0, <1>1
<1> QED BY <1>1, <1>5, <1>6

(* Adding the carries back twice leaves 16 bits and the same remainder.    *)
High(sum) == sum \div 65536
Low(sum) == sum % 65536

Fits(n) == n < 65536

Split(sum) ==
  /\ High(sum) \in Nat /\ Low(sum) \in Nat /\ Low(sum) < 65536
  /\ sum = 65536 * High(sum) + Low(sum) /\ Carried(sum) = Low(sum) + High(sum)

LEMMA CarriedOnce ==
  ASSUME NEW sum \in Nat
  PROVE  Split(sum)
<1>1. High(sum) \in Nat
  BY DEF High
<1>2. Low(sum) \in Nat
  BY DEF Low
<1>3. Low(sum) < 65536
  BY DEF Low
<1>4. sum = 65536 * High(sum) + Low(sum)
  BY DEF High, Low
<1>5. Carried(sum) = Low(sum) + High(sum)
  BY DEF High, Low, Carried
<1> QED BY <1>1, <1>2, <1>3, <1>4, <1>5 DEF Split

LEMMA FoldedKeeps ==
  ASSUME NEW sum \in Nat, Fits(High(sum))
  PROVE  /\ Folded(sum) \in Nat /\ Folded(sum) < 65536
         /\ \E q \in Nat : sum = Folded(sum) + 65535 * q
<1> DEFINE one == Carried(sum)
           q == High(sum) + High(one)
<1>1. /\ High(sum) \in Nat /\ Low(sum) \in Nat /\ Low(sum) < 65536
      /\ sum = 65536 * High(sum) + Low(sum) /\ one = Low(sum) + High(sum)
  BY CarriedOnce DEF Split
<1> HIDE DEF one, q
<1>2. one \in Nat
  BY <1>1
<1>3. /\ High(one) \in Nat /\ Low(one) \in Nat /\ Low(one) < 65536
      /\ one = 65536 * High(one) + Low(one) /\ Carried(one) = Low(one) + High(one)
  <2>1. Split(one)
    BY <1>2, CarriedOnce, Zenon
  <2> QED BY <2>1 DEF Split
<1>4. Folded(sum) = Carried(one)
  BY DEF Folded, one
<1>5. Carried(one) \in Nat /\ Carried(one) < 65536
  BY <1>1, <1>3 DEF Fits
<1>6. q \in Nat /\ sum = Carried(one) + 65535 * q
  BY <1>1, <1>3 DEF q
<1> QED BY <1>4, <1>5, <1>6

Word(low, high) == low + 256 * high

(* The word in the place of the checksum adds itself to the sum.           *)
LEMMA SumWithWord ==
  ASSUME NEW before \in Seq(Byte), NEW after \in Seq(Byte), Len(before) % 2 = 0,
         NEW low \in Byte, NEW high \in Byte
  PROVE  WordSum(before \o <<low, high>> \o after)
           = WordSum(before \o <<0, 0>> \o after) + Word(low, high)
<1> DEFINE s == before \o <<0, 0>> \o after
           t == before \o <<low, high>> \o after
           p == Len(before)
           l == Len(before) + 2 + Len(after)
           lh == <<low, high>>
           zz == <<0, 0>>
<1>1. p \in Nat /\ Len(after) \in Nat /\ l \in Nat
  OBVIOUS
<1>2. low \in 0..255 /\ high \in 0..255 /\ 0 \in Byte
  BY DEF Byte
<1>3. /\ lh \in Seq(Byte) /\ Len(lh) = 2 /\ lh[1] = low /\ lh[2] = high
      /\ zz \in Seq(Byte) /\ Len(zz) = 2 /\ zz[1] = 0 /\ zz[2] = 0
  BY <1>2
<1> HIDE DEF lh, zz
<1>4. s \in Seq(Byte) /\ t \in Seq(Byte) /\ Len(s) = l /\ Len(t) = l
  BY <1>3 DEF lh, zz
<1>5. /\ t[p + 1] = low /\ t[p + 2] = high /\ s[p + 1] = 0 /\ s[p + 2] = 0
      /\ \A k \in 1..l : k # p + 1 /\ k # p + 2 => t[k] = s[k]
  BY <1>1, <1>3 DEF lh, zz
<1> HIDE DEF s, t, l, p
<1>6. PICK a, na \in [0..Len(s) -> Nat] :
            /\ a[0] = 0 /\ a[Len(s)] = WordSum(s)
            /\ na[0] = 0 /\ na[Len(s)] = NetworkSum(s)
            /\ \A k \in 1..Len(s) :
                 /\ a[k] = a[k - 1] + s[k] * (IF k % 2 = 1 THEN 1 ELSE 256)
                 /\ na[k] = na[k - 1] + s[k] * (IF k % 2 = 1 THEN 256 ELSE 1)
  BY <1>4, SumRuns, Zenon
<1>7. PICK b, nb \in [0..Len(t) -> Nat] :
            /\ b[0] = 0 /\ b[Len(t)] = WordSum(t)
            /\ nb[0] = 0 /\ nb[Len(t)] = NetworkSum(t)
            /\ \A k \in 1..Len(t) :
                 /\ b[k] = b[k - 1] + t[k] * (IF k % 2 = 1 THEN 1 ELSE 256)
                 /\ nb[k] = nb[k - 1] + t[k] * (IF k % 2 = 1 THEN 256 ELSE 1)
  BY <1>4, SumRuns, Zenon
<1> DEFINE Extra(k) == IF k <= p THEN 0 ELSE IF k = p + 1 THEN low ELSE low + 256 * high
           S == {k \in Nat : k <= l => b[k] = a[k] + Extra(k)}
<1>8. 0 \in S
  BY <1>1, <1>6, <1>7
<1>80. (p + 1) % 2 = 1 /\ (p + 2) % 2 # 1
  <2>1. ASSUME NEW x \in Nat, x % 2 = 0 PROVE (x + 1) % 2 = 1
    <3>1. x = 2 * (x \div 2) + (x % 2) /\ x \div 2 \in Nat
      OBVIOUS
    <3>2. x + 1 = 2 * ((x + 1) \div 2) + ((x + 1) % 2) /\ (x + 1) \div 2 \in Nat
      OBVIOUS
    <3>3. (x + 1) % 2 \in {0, 1}
      OBVIOUS
    <3>4. x = 2 * (x \div 2)
      BY <2>1, <3>1
    <3>5. \A h, g \in Nat, m \in {0, 1} : 2 * h + 1 = 2 * g + m => m = 1
      OBVIOUS
    <3> DEFINE h == x \div 2
               g == (x + 1) \div 2
               m == (x + 1) % 2
    <3>6. h \in Nat /\ g \in Nat /\ m \in {0, 1} /\ x = 2 * h /\ x + 1 = 2 * g + m
      BY <3>1, <3>2, <3>3, <3>4
    <3> HIDE DEF h, g, m
    <3>7. m = 1
      BY <3>5, <3>6
    <3> QED BY <3>7 DEF m
  <2>2. \A x \in Nat : x % 2 = 0 => (x + 2) % 2 = 0
    OBVIOUS
  <2> QED BY <1>1, <2>1, <2>2 DEF p
<1>9. ASSUME NEW k \in Nat, k \in S PROVE k + 1 \in S
  <2> SUFFICES ASSUME k + 1 <= l PROVE b[k + 1] = a[k + 1] + Extra(k + 1)
    OBVIOUS
  <2>1. k \in 0..l /\ k + 1 \in 1..l /\ (k + 1) - 1 = k
    BY <1>1
  <2>2. b[k] = a[k] + Extra(k)
    BY <1>1, <1>9
  <2> HIDE DEF S
  <2>3. a[k] \in Nat /\ b[k] \in Nat /\ s[k + 1] \in 0..255 /\ t[k + 1] \in 0..255
    BY <1>4, <1>6, <1>7, <2>1, ByteAt
  <2>4. /\ a[k + 1] = a[k] + s[k + 1] * (IF (k + 1) % 2 = 1 THEN 1 ELSE 256)
        /\ b[k + 1] = b[k] + t[k + 1] * (IF (k + 1) % 2 = 1 THEN 1 ELSE 256)
    BY <1>4, <1>6, <1>7, <2>1
  <2>5. CASE k + 1 = p + 1
    <3>1. (k + 1) % 2 = 1 /\ k = p
      BY <1>1, <1>80, <2>5
    <3>2. s[k + 1] = 0 /\ t[k + 1] = low
      BY <1>5, <2>5
    <3>3. a[k + 1] = a[k] + 0 * 1 /\ b[k + 1] = b[k] + low * 1
      BY <2>4, <3>1, <3>2
    <3>4. a[k + 1] = a[k] /\ b[k + 1] = b[k] + low
      BY <1>2, <2>3, <3>3
    <3> QED BY <1>1, <1>2, <2>2, <2>3, <2>5, <3>1, <3>4
  <2>6. CASE k + 1 = p + 2
    <3>0. k = p + 1
      BY <1>1, <2>6
    <3>1. (k + 1) % 2 # 1 /\ k = p + 1
      BY <1>80, <2>6, <3>0, Zenon
    <3>2. s[k + 1] = 0 /\ t[k + 1] = high
      BY <1>5, <2>6
    <3>3. a[k + 1] = a[k] + 0 * 256 /\ b[k + 1] = b[k] + high * 256
      BY <2>4, <3>1, <3>2
    <3>4. a[k + 1] = a[k] /\ b[k + 1] = b[k] + 256 * high
      BY <1>2, <2>3, <3>3
    <3>5. Extra(k) = low /\ Extra(k + 1) = low + 256 * high
      BY <1>1, <2>6, <3>1
    <3> HIDE DEF Extra
    <3> QED BY <1>2, <2>2, <2>3, <3>4, <3>5
  <2>7. CASE k + 1 # p + 1 /\ k + 1 # p + 2
    <3>1. t[k + 1] = s[k + 1] /\ Extra(k + 1) = Extra(k) /\ Extra(k) \in Nat
      BY <1>1, <1>2, <1>5, <2>1, <2>7
    <3> HIDE DEF Extra
    <3> DEFINE step == s[k + 1] * (IF (k + 1) % 2 = 1 THEN 1 ELSE 256)
    <3>2. step \in Nat
      <4>1. \A x \in 0..255 : x * 1 \in Nat /\ x * 256 \in Nat
        OBVIOUS
      <4> QED BY <2>3, <4>1
    <3>3. a[k + 1] = a[k] + step /\ b[k + 1] = b[k] + step
      BY <2>4, <3>1
    <3> HIDE DEF step
    <3> QED BY <2>2, <2>3, <3>1, <3>2, <3>3
  <2> QED BY <2>5, <2>6, <2>7
<1> HIDE DEF S
<1>10. \A k \in Nat : k \in S
  BY <1>8, <1>9, NatInductive
<1>11. b[l] = a[l] + Extra(l)
  BY <1>1, <1>10 DEF S
<1>12. Extra(l) = low + 256 * high
  <2>1. l = p + 2 + Len(after)
    BY DEF l, p
  <2>2. ~(l <= p) /\ l # p + 1
    BY <1>1, <2>1
  <2> QED BY <2>2
<1> HIDE DEF Extra
<1> QED BY <1>4, <1>6, <1>7, <1>11, <1>12 DEF s, t, Word

Short(before, after) == Len(before) + Len(after) < 65000

(* A header of any content with the checksum in an even place verifies.    *)
LEMMA ChecksumVerifies ==
  ASSUME NEW before \in Seq(Byte), NEW after \in Seq(Byte), Len(before) % 2 = 0,
         Short(before, after)
  PROVE  Verifies(WithChecksum(before, after))
<1> DEFINE s == before \o <<0, 0>> \o after
           sum == WordSum(s)
           c == net_checksum(s)
           t == WithChecksum(before, after)
<1>1. s \in Seq(Byte) /\ Len(s) = Len(before) + 2 + Len(after)
      /\ Len(before) \in Nat /\ Len(after) \in Nat
  <2>1. <<0, 0>> \in Seq(Byte) /\ Len(<<0, 0>>) = 2
    BY DEF Byte
  <2> QED BY <2>1
<1>2. sum \in Nat /\ sum <= 65280 * Len(s)
  <2>1. sum \in Nat /\ Match(sum, NetworkSum(s), Len(s))
    BY <1>1, SumsAgree, Zenon
  <2> QED BY <2>1 DEF Match
<1>20. sum \in Nat
  BY <1>2
<1>3. Fits(High(sum))
  <2> HIDE DEF sum
  <2>1. Split(sum)
    BY <1>20, CarriedOnce, Zenon
  <2>2. sum = 65536 * High(sum) + Low(sum) /\ High(sum) \in Nat /\ Low(sum) \in Nat
    BY <2>1 DEF Split
  <2>3. 65280 * 65002 < 65536 * 65536
    OBVIOUS
  <2>4. sum < 65536 * 65536
    BY <1>1, <1>2, <2>3 DEF Short
  <2> QED BY <2>2, <2>4 DEF Fits
<1>4. Folded(sum) \in Nat /\ Folded(sum) < 65536
  BY <1>2, <1>3, FoldedKeeps
<1>5. PICK q \in Nat : sum = Folded(sum) + 65535 * q
  BY <1>2, <1>3, FoldedKeeps
<1> HIDE DEF s
<1>6. c = 65535 - Folded(sum)
  BY DEF net_checksum
<1>61. t = before \o LittleEndian(c) \o after
  BY Zenon DEF WithChecksum, s
<1> HIDE DEF sum, c
<1>7. c \in Nat /\ c < 65536
  BY <1>4, <1>6
<1> DEFINE low == c % 256
           high == c \div 256
<1>8. low \in Byte
  BY <1>7 DEF Byte
<1>9. high \in Byte
  BY <1>7 DEF Byte
<1>10. c = Word(low, high)
  BY <1>7 DEF Word
<1>11. t = before \o <<low, high>> \o after
  BY <1>61, Zenon DEF LittleEndian
<1>12. t \in Seq(Byte)
  <2> HIDE DEF low, high, t
  <2>1. <<low, high>> \in Seq(Byte)
    BY <1>8, <1>9
  <2> QED BY <1>11, <2>1
<1> HIDE DEF low, high
<1>13. WordSum(t) = sum + c
  <2>1. WordSum(t) = sum + Word(low, high)
    <3>1. WordSum(before \o <<low, high>> \o after)
            = WordSum(before \o <<0, 0>> \o after) + Word(low, high)
      BY <1>8, <1>9, SumWithWord, Zenon
    <3> QED BY <1>11, <3>1, Zenon DEF sum, s
  <2> QED BY <1>10, <2>1
<1> HIDE DEF t
<1>140. NetworkSum(t) \in Nat /\ Match(WordSum(t), NetworkSum(t), Len(t))
  BY <1>12, SumsAgree, Zenon
<1>14. NetworkSum(t) \in Nat /\ WordSum(t) <= 256 * NetworkSum(t)
  BY <1>140 DEF Match
<1>15. PICK e \in Nat : NetworkSum(t) + 65535 * e = 256 * WordSum(t)
  BY <1>140 DEF Match
<1>16. WordSum(t) = 65535 * (q + 1)
  BY <1>4, <1>5, <1>6, <1>13
<1>17. NetworkSum(t) > 0
  BY <1>14, <1>16
<1>18. NetworkSum(t) = 65535 * (256 * (q + 1) - e) /\ 256 * (q + 1) - e \in Int
  BY <1>14, <1>15, <1>16
<1>19. NetworkSum(t) % 65535 = 0
  <2>1. \A m \in Int, x \in Nat : x = 65535 * m => x % 65535 = 0
    OBVIOUS
  <2> QED BY <1>14, <1>18, <2>1
<1> QED BY <1>17, <1>19 DEF Verifies, t

-----------------------------------------------------------------------------
(* The conversions of addresses.                                           *)
LEMMA EightBits ==
  ASSUME NEW t \in Seq(Nat), Len(t) = 8
  PROVE  Accumulated(2, t) = 128 * t[1] + 64 * t[2] + 32 * t[3] + 16 * t[4]
                               + 8 * t[5] + 4 * t[6] + 2 * t[7] + t[8]
<1>1. PICK a : /\ a \in [0..Len(t) -> Nat] /\ a[0] = 0
               /\ \A k \in 1..Len(t) : a[k] = 2 * a[k - 1] + t[k]
               /\ a[Len(t)] = Accumulated(2, t)
  BY AccumulatedRuns
<1>2. /\ a[0] \in Nat /\ a[1] \in Nat /\ a[2] \in Nat /\ a[3] \in Nat /\ a[4] \in Nat
      /\ a[5] \in Nat /\ a[6] \in Nat /\ a[7] \in Nat /\ a[8] \in Nat
  BY <1>1
<1>3. /\ t[1] \in Nat /\ t[2] \in Nat /\ t[3] \in Nat /\ t[4] \in Nat
      /\ t[5] \in Nat /\ t[6] \in Nat /\ t[7] \in Nat /\ t[8] \in Nat
  <2>1. \A k \in 1..8 : t[k] \in Nat
    BY ElementTyped
  <2> QED BY <2>1
<1>4. /\ a[1] = 2 * a[0] + t[1] /\ a[2] = 2 * a[1] + t[2] /\ a[3] = 2 * a[2] + t[3]
      /\ a[4] = 2 * a[3] + t[4] /\ a[5] = 2 * a[4] + t[5] /\ a[6] = 2 * a[5] + t[6]
      /\ a[7] = 2 * a[6] + t[7] /\ a[8] = 2 * a[7] + t[8]
  BY <1>1
<1>5. a[0] = 0 /\ a[8] = Accumulated(2, t)
  BY <1>1
<1> DEFINE a1 == a[1] a2 == a[2] a3 == a[3] a4 == a[4]
           a5 == a[5] a6 == a[6] a7 == a[7] a8 == a[8]
           t1 == t[1] t2 == t[2] t3 == t[3] t4 == t[4]
           t5 == t[5] t6 == t[6] t7 == t[7] t8 == t[8]
<1>6. /\ t1 \in Nat /\ t2 \in Nat /\ t3 \in Nat /\ t4 \in Nat
      /\ t5 \in Nat /\ t6 \in Nat /\ t7 \in Nat /\ t8 \in Nat
      /\ a1 \in Nat /\ a2 \in Nat /\ a3 \in Nat /\ a4 \in Nat
      /\ a5 \in Nat /\ a6 \in Nat /\ a7 \in Nat /\ a8 \in Nat
  BY <1>2, <1>3
<1>7. /\ a1 = t1 /\ a2 = 2 * a1 + t2 /\ a3 = 2 * a2 + t3 /\ a4 = 2 * a3 + t4
      /\ a5 = 2 * a4 + t5 /\ a6 = 2 * a5 + t6 /\ a7 = 2 * a6 + t7 /\ a8 = 2 * a7 + t8
  <2>1. 2 * a[0] + t[1] = t[1]
    BY <1>3, <1>5
  <2> QED BY <1>4, <2>1, Zenon
<1>8. Accumulated(2, t) = a8
  BY <1>5
<1> HIDE DEF a1, a2, a3, a4, a5, a6, a7, a8, t1, t2, t3, t4, t5, t6, t7, t8
<1>9. a8 = 128 * t1 + 64 * t2 + 32 * t3 + 16 * t4 + 8 * t5 + 4 * t6 + 2 * t7 + t8
  BY <1>6, <1>7
<1> QED BY <1>8, <1>9 DEF t1, t2, t3, t4, t5, t6, t7, t8

LEMMA BitsOf ==
  ASSUME NEW n \in 0..255
  PROVE  n = 128 * Bit(n, 1) + 64 * Bit(n, 2) + 32 * Bit(n, 3) + 16 * Bit(n, 4)
               + 8 * Bit(n, 5) + 4 * Bit(n, 6) + 2 * Bit(n, 7) + Bit(n, 8)
<1>1. /\ Bit(n, 1) = (n \div 128) % 2 /\ Bit(n, 2) = (n \div 64) % 2
      /\ Bit(n, 3) = (n \div 32) % 2 /\ Bit(n, 4) = (n \div 16) % 2
      /\ Bit(n, 5) = (n \div 8) % 2 /\ Bit(n, 6) = (n \div 4) % 2
      /\ Bit(n, 7) = (n \div 2) % 2 /\ Bit(n, 8) = (n \div 1) % 2
  BY DEF Bit
<1>2. n \div 1 = n
  OBVIOUS
<1>3. n \div 1 = 2 * (n \div 2) + ((n \div 1) % 2)
  BY <1>2
<1>4. n \div 2 = 2 * (n \div 4) + ((n \div 2) % 2)
  OBVIOUS
<1>5. n \div 4 = 2 * (n \div 8) + ((n \div 4) % 2)
  OBVIOUS
<1>6. n \div 8 = 2 * (n \div 16) + ((n \div 8) % 2)
  OBVIOUS
<1>7. n \div 16 = 2 * (n \div 32) + ((n \div 16) % 2)
  OBVIOUS
<1>8. n \div 32 = 2 * (n \div 64) + ((n \div 32) % 2)
  OBVIOUS
<1>9. n \div 64 = 2 * (n \div 128) + ((n \div 64) % 2)
  OBVIOUS
<1>10. n \div 128 = (n \div 128) % 2
  OBVIOUS
<1> QED BY <1>1, <1>2, <1>3, <1>4, <1>5, <1>6, <1>7, <1>8, <1>9, <1>10

(* Every text gives four octets.                                           *)
LEMMA AddressTyped ==
  ASSUME NEW text
  PROVE  ip_from_string(text) \in [1..4 -> 0..255]
<1> DEFINE bits(j) == [k \in 1..8 |->
                        IF \E i \in j..4 : Bit(Shifted(Octet(text, i), i - j), k) = 1 THEN 1 ELSE 0]
<1>1. ip_from_string(text) = [j \in 1..4 |-> Accumulated(2, bits(j))]
  BY Zenon DEF ip_from_string
<1>2. ASSUME NEW j \in 1..4 PROVE Accumulated(2, bits(j)) \in 0..255
  <2> DEFINE e(k) == IF \E i \in j..4 : Bit(Shifted(Octet(text, i), i - j), k) = 1 THEN 1 ELSE 0
             t == [k \in 1..8 |-> e(k)]
  <2>0. bits(j) = t /\ \A k \in 1..8 : e(k) \in 0..1 /\ e(k) \in Nat
    OBVIOUS
  <2> HIDE DEF e, bits
  <2>1. t \in [1..8 -> 0..1]
    BY <2>0
  <2>2. t \in Seq(Nat) /\ Len(t) = 8
    BY <2>0
  <2> HIDE DEF t
  <2>3. /\ t[1] \in 0..1 /\ t[2] \in 0..1 /\ t[3] \in 0..1 /\ t[4] \in 0..1
        /\ t[5] \in 0..1 /\ t[6] \in 0..1 /\ t[7] \in 0..1 /\ t[8] \in 0..1
    BY <2>1
  <2>4. Accumulated(2, t) = 128 * t[1] + 64 * t[2] + 32 * t[3] + 16 * t[4]
                               + 8 * t[5] + 4 * t[6] + 2 * t[7] + t[8]
    BY <2>2, EightBits
  <2>5. Accumulated(2, t) \in 0..255
    BY <2>3, <2>4
  <2> QED BY <2>0, <2>5
<1> HIDE DEF bits
<1> QED BY <1>1, <1>2

(* The digits of a number are read back as they were typed.                *)
LEMMA NumberTyped ==
  ASSUME NEW digits \in Seq(0..9)
  PROVE  Number(digits) \in Nat
<1>1. digits \in Seq(Nat) /\ Len(digits) \in Nat /\ 10 \in Nat
  OBVIOUS
<1>2. PICK a : /\ a \in [0..Len(digits) -> Nat] /\ a[Len(digits)] = Accumulated(10, digits)
  BY <1>1, AccumulatedRuns
<1> QED BY <1>1, <1>2 DEF Number

LEMMA DecimalCases ==
  ASSUME NEW n \in Nat
  PROVE  /\ n < 10 => Decimal(n) = <<n>>
         /\ n \in 10..99 => Decimal(n) = <<n \div 10, n % 10>>
         /\ n >= 100 => Decimal(n) = <<n \div 100, (n % 100) \div 10, n % 10>>
<1>1. ASSUME n < 10 PROVE Decimal(n) = <<n>>
  <2>1. ~(n >= 100) /\ ~(n \in 10..99)
    BY <1>1
  <2> QED BY <1>1, <2>1 DEF Decimal
<1>2. ASSUME n \in 10..99 PROVE Decimal(n) = <<n \div 10, n % 10>>
  <2>1. ~(n >= 100) /\ ~(n < 10)
    BY <1>2
  <2> QED BY <1>2, <2>1 DEF Decimal
<1>3. ASSUME n >= 100 PROVE Decimal(n) = <<n \div 100, (n % 100) \div 10, n % 10>>
  <2>1. ~(n \in 10..99) /\ ~(n < 10)
    BY <1>3
  <2> QED BY <1>3, <2>1 DEF Decimal
<1> QED BY <1>1, <1>2, <1>3

LEMMA DecimalReads ==
  ASSUME NEW digits \in Seq(0..9), digits # <<>>, Number(digits) < 256,
         Len(digits) > 1 => digits[1] # 0
  PROVE  Decimal(Number(digits)) = digits
<1> DEFINE l == Len(digits)
<1>1. digits \in Seq(Nat) /\ l \in Nat /\ l > 0 /\ 10 \in Nat
  OBVIOUS
<1>2. PICK a : /\ a \in [0..l -> Nat] /\ a[0] = 0
               /\ \A k \in 1..l : a[k] = 10 * a[k - 1] + digits[k]
               /\ a[l] = Accumulated(10, digits)
  BY <1>1, AccumulatedRuns
<1>3. a[l] = Number(digits)
  BY <1>2 DEF Number
<1>4. \A k \in 1..l : digits[k] \in 0..9
  OBVIOUS
<1>5. a[1] = digits[1]
  BY <1>1, <1>2, <1>4
<1> HIDE DEF l
<1> DEFINE Grown(k) == /\ k >= 1 => a[k] >= 1
                       /\ k >= 2 => a[k] >= 10
                       /\ k >= 3 => a[k] >= 100
                       /\ k >= 4 => a[k] >= 1000
           S == {k \in Nat : k <= l => Grown(k)}
<1>6. ASSUME l > 1 PROVE l < 4
  <2>1. 0 \in S
    OBVIOUS
  <2>2. ASSUME NEW k \in Nat, k \in S PROVE k + 1 \in S
    <3> SUFFICES ASSUME k + 1 <= l
                 PROVE  Grown(k + 1)
      OBVIOUS
    <3>1. CASE k = 0
      BY <1>1, <1>4, <1>5, <1>6, <3>1 DEF l
    <3>2. CASE k > 0
      <4>1. k + 1 \in 1..l /\ (k + 1) - 1 = k /\ k \in 0..l
        BY <1>1, <3>2
      <4>2. a[k + 1] = 10 * a[k] + digits[k + 1] /\ a[k] \in Nat /\ digits[k + 1] \in 0..9
        BY <1>2, <1>4, <4>1
      <4>3. Grown(k)
        BY <1>1, <2>2, <4>1
      <4> HIDE DEF S
      <4> DEFINE x == a[k]
                 y == a[k + 1]
                 d == digits[k + 1]
      <4>4. x \in Nat /\ d \in 0..9 /\ y = 10 * x + d
        BY <4>2
      <4>5. x >= 1 /\ (k >= 2 => x >= 10) /\ (k >= 3 => x >= 100)
        BY <3>2, <4>3
      <4> HIDE DEF x, y, d
      <4>6. y >= 10 /\ (k >= 2 => y >= 100) /\ (k >= 3 => y >= 1000)
        BY <4>4, <4>5
      <4> QED BY <4>4, <4>6 DEF y
    <3> QED BY <3>1, <3>2
  <2> HIDE DEF S
  <2>3. \A k \in Nat : k \in S
    BY <2>1, <2>2, NatInductive
  <2>4. l \in S
    BY <1>1, <2>3
  <2>5. Grown(l)
    BY <1>1, <2>4 DEF S
  <2> QED BY <1>1, <1>2, <1>3, <2>5
<1> HIDE DEF S, Grown
<1>7. CASE l = 1
  <2>1. Number(digits) = digits[1] /\ digits[1] \in 0..9
    BY <1>3, <1>4, <1>5, <1>7
  <2>2. Decimal(Number(digits)) = <<digits[1]>>
    BY <2>1, DecimalCases
  <2> QED BY <1>7, <2>2 DEF l
<1>8. CASE l = 2
  <2> DEFINE d == digits[1]
             e == digits[2]
  <2>1. d \in 1..9 /\ e \in 0..9
    BY <1>4, <1>8 DEF l
  <2>2. Number(digits) = 10 * d + e
    <3>1. a[2] = 10 * a[1] + digits[2]
      BY <1>2, <1>8
    <3> QED BY <1>3, <1>5, <1>8, <3>1
  <2>3. digits = <<d, e>>
    BY <1>8 DEF l
  <2> HIDE DEF d, e
  <2>4. (10 * d + e) \div 10 = d /\ (10 * d + e) % 10 = e
    BY <2>1
  <2>5. 10 * d + e \in 10..99
    BY <2>1
  <2>6. Decimal(10 * d + e) = <<(10 * d + e) \div 10, (10 * d + e) % 10>>
    <3> DEFINE n == 10 * d + e
    <3>1. n \in Nat /\ n \in 10..99
      BY <2>1, <2>5
    <3> HIDE DEF n
    <3>2. Decimal(n) = <<n \div 10, n % 10>>
      BY <3>1, DecimalCases
    <3> QED BY <3>2 DEF n
  <2> QED BY <2>2, <2>3, <2>4, <2>6
<1>9. CASE l = 3
  <2> DEFINE d == digits[1]
             e == digits[2]
             f == digits[3]
             n == 100 * d + 10 * e + f
  <2>1. d \in 1..9 /\ e \in 0..9 /\ f \in 0..9
    BY <1>4, <1>9 DEF l
  <2>2. Number(digits) = n
    <3>1. a[2] = 10 * a[1] + digits[2] /\ a[3] = 10 * a[2] + digits[3]
      BY <1>2, <1>9
    <3>2. a[1] = d /\ a[2] = 10 * a[1] + e /\ a[3] = 10 * a[2] + f
      BY <1>5, <3>1
    <3> HIDE DEF d, e, f
    <3>3. a[2] = 10 * d + e
      BY <3>2
    <3>4. a[3] = 100 * d + 10 * e + f
      BY <2>1, <3>2, <3>3
    <3> QED BY <1>3, <1>9, <3>4
  <2>3. digits = <<d, e, f>>
    BY <1>9 DEF l
  <2> HIDE DEF d, e, f
  <2>4. n \div 100 = d
    BY <2>1
  <2>5. n % 10 = f
    BY <2>1
  <2>6. n % 100 = 10 * e + f
    BY <2>1
  <2>7. (10 * e + f) \div 10 = e
    BY <2>1
  <2>8. n \in Nat /\ n >= 100
    BY <2>1
  <2> HIDE DEF n
  <2>9. Decimal(n) = <<n \div 100, (n % 100) \div 10, n % 10>>
    BY <2>8, DecimalCases
  <2> QED BY <2>2, <2>3, <2>4, <2>5, <2>6, <2>7, <2>9
<1> QED BY <1>1, <1>6, <1>7, <1>8, <1>9

LEMMA BitTyped ==
  ASSUME NEW n \in Nat, NEW k \in 1..8
  PROVE  Bit(n, k) \in {0, 1}
<1> DEFINE p == <<128, 64, 32, 16, 8, 4, 2, 1>>[k]
<1>1. p \in Nat \ {0}
  OBVIOUS
<1> HIDE DEF p
<1>2. n \div p \in Nat
  BY <1>1
<1>3. Bit(n, k) = (n \div p) % 2
  BY DEF Bit, p
<1> HIDE DEF p
<1> DEFINE q == n \div p
<1> HIDE DEF q
<1>4. q % 2 \in {0, 1}
  BY <1>2 DEF q
<1> QED BY <1>3, <1>4 DEF q

LEMMA BitOfZero ==
  ASSUME NEW k \in 1..8
  PROVE  Bit(0, k) = 0
<1> DEFINE p == <<128, 64, 32, 16, 8, 4, 2, 1>>[k]
<1>1. p \in Nat \ {0}
  OBVIOUS
<1> HIDE DEF p
<1>2. 0 \div p = 0
  BY <1>1
<1>3. Bit(0, k) = (0 \div p) % 2
  BY DEF Bit, p
<1> QED BY <1>2, <1>3

LEMMA ShiftedOctet ==
  ASSUME NEW n \in 0..255
  PROVE  Shifted(n, 0) = n /\ Shifted(n, 1) = 0 /\ Shifted(n, 2) = 0 /\ Shifted(n, 3) = 0
<1>1. n \div 1 = n
  OBVIOUS
<1>2. n \div 256 = 0
  OBVIOUS
<1>3. n \div 65536 = 0
  OBVIOUS
<1>4. n \div 16777216 = 0
  OBVIOUS
<1> QED BY <1>1, <1>2, <1>3, <1>4 DEF Shifted

LEMMA OctetReads ==
  ASSUME NEW text \in Seq(Seq(0..9)), IsAddress(text), NEW j \in 1..4
  PROVE  /\ Octet(text, j) = Number(text[j]) /\ Number(text[j]) \in 0..255
         /\ Decimal(Number(text[j])) = text[j]
<1>1. Len(text) = 4 /\ DOMAIN text = 1..4
  BY DEF IsAddress
<1>2. text[j] \in Seq(0..9)
  BY <1>1, ElementTyped
<1>3. text[j] # <<>> /\ Number(text[j]) < 256 /\ (Len(text[j]) > 1 => text[j][1] # 0)
  BY DEF IsAddress
<1>4. Octet(text, j) = Number(text[j])
  BY <1>1 DEF Octet
<1>5. Number(text[j]) \in Nat
  BY <1>2, NumberTyped
<1>6. Decimal(Number(text[j])) = text[j]
  BY <1>2, <1>3, DecimalReads
<1> DEFINE n == Number(text[j])
<1>7. n \in Nat /\ n < 256
  BY <1>3, <1>5
<1> HIDE DEF n
<1>8. n \in 0..255
  BY <1>7
<1> QED BY <1>4, <1>6, <1>8 DEF n

(* Both conversions agree on four numbers of a byte each.                  *)
LEMMA AddressReads ==
  ASSUME NEW text \in Seq(Seq(0..9)), IsAddress(text)
  PROVE  ip_to_string(ip_from_string(text)) = text
<1> DEFINE bits(j) == [k \in 1..8 |->
                        IF \E i \in j..4 : Bit(Shifted(Octet(text, i), i - j), k) = 1 THEN 1 ELSE 0]
<1>1. ip_from_string(text) = [j \in 1..4 |-> Accumulated(2, bits(j))]
  BY Zenon DEF ip_from_string
<1>2. Len(text) = 4 /\ DOMAIN text = 1..4
  BY DEF IsAddress
<1>3. ASSUME NEW j \in 1..4
      PROVE  /\ Octet(text, j) = Number(text[j]) /\ Number(text[j]) \in 0..255
             /\ Decimal(Number(text[j])) = text[j]
  BY <1>2, <1>3, OctetReads
<1>4. ASSUME NEW j \in 1..4 PROVE Accumulated(2, bits(j)) = Number(text[j])
  <2> DEFINE n == Number(text[j])
             t == [k \in 1..8 |-> Bit(n, k)]
             e(k) == IF \E i \in j..4 : Bit(Shifted(Octet(text, i), i - j), k) = 1 THEN 1 ELSE 0
  <2>1. n \in 0..255 /\ n \in Nat
    <3>1. n \in 0..255
      BY <1>3
    <3> HIDE DEF n
    <3> QED BY <3>1
  <2>2. ASSUME NEW k \in 1..8 PROVE e(k) = Bit(n, k)
    <3>1. Bit(n, k) \in {0, 1}
      BY <2>1, BitTyped
    <3>2. Bit(Shifted(Octet(text, j), j - j), k) = Bit(n, k) /\ j \in j..4
      <4>1. j - j = 0 /\ j \in j..4
        OBVIOUS
      <4>2. Shifted(n, 0) = n
        BY <2>1, ShiftedOctet
      <4> QED BY <1>3, <4>1, <4>2
    <3>3. ASSUME NEW i \in j..4, i # j PROVE Bit(Shifted(Octet(text, i), i - j), k) = 0
      <4>1. i \in 1..4 /\ i - j \in {1, 2, 3}
        BY <3>3
      <4> DEFINE m == Octet(text, i)
      <4>2. m \in 0..255
        <5>1. i \in 1..4
          BY <4>1
        <5>2. Octet(text, i) = Number(text[i]) /\ Number(text[i]) \in 0..255
          BY <5>1, OctetReads
        <5> QED BY <5>2
      <4> HIDE DEF m
      <4>3. Shifted(m, 1) = 0 /\ Shifted(m, 2) = 0 /\ Shifted(m, 3) = 0
        BY <4>2, ShiftedOctet
      <4>4. Shifted(m, i - j) = 0
        BY <4>1, <4>3
      <4>5. Shifted(Octet(text, i), i - j) = 0
        BY <4>4 DEF m
      <4> QED BY <4>5, BitOfZero
    <3>4. CASE Bit(n, k) = 1
      BY <3>2, <3>4
    <3>5. CASE Bit(n, k) = 0
      <4>1. \A i \in j..4 : Bit(Shifted(Octet(text, i), i - j), k) # 1
        BY <3>2, <3>3, <3>5
      <4> QED BY <3>5, <4>1
    <3> QED BY <3>1, <3>4, <3>5
  <2>3. bits(j) = [k \in 1..8 |-> e(k)]
    OBVIOUS
  <2> HIDE DEF e, bits
  <2>4. bits(j) = t
    BY <2>2, <2>3
  <2>5. \A k \in 1..8 : Bit(n, k) \in Nat
    <3>1. {0, 1} \subseteq Nat
      OBVIOUS
    <3> QED BY <2>1, <3>1, BitTyped, Zenon
  <2> HIDE DEF n
  <2>6. t \in Seq(Nat) /\ Len(t) = 8
    BY <2>5
  <2>7. Accumulated(2, t) = 128 * t[1] + 64 * t[2] + 32 * t[3] + 16 * t[4]
                               + 8 * t[5] + 4 * t[6] + 2 * t[7] + t[8]
    BY <2>6, EightBits
  <2>8. /\ t[1] = Bit(n, 1) /\ t[2] = Bit(n, 2) /\ t[3] = Bit(n, 3) /\ t[4] = Bit(n, 4)
        /\ t[5] = Bit(n, 5) /\ t[6] = Bit(n, 6) /\ t[7] = Bit(n, 7) /\ t[8] = Bit(n, 8)
    OBVIOUS
  <2> HIDE DEF t
  <2>9. n = 128 * Bit(n, 1) + 64 * Bit(n, 2) + 32 * Bit(n, 3) + 16 * Bit(n, 4)
               + 8 * Bit(n, 5) + 4 * Bit(n, 6) + 2 * Bit(n, 7) + Bit(n, 8)
    BY <2>1, BitsOf
  <2>10. Accumulated(2, t) = n
    BY <2>7, <2>8, <2>9
  <2> QED BY <2>4, <2>10 DEF n
<1> HIDE DEF bits
<1> DEFINE ip == ip_from_string(text)
<1>5. \A j \in 1..4 : ip[j] = Number(text[j])
  BY <1>1, <1>4
<1>6. ip_to_string(ip) = [j \in 1..4 |-> Decimal(ip[j])]
  BY Zenon DEF ip_to_string
<1> HIDE DEF ip
<1>7. \A j \in 1..4 : Decimal(ip[j]) = text[j]
  BY <1>3, <1>5
<1>8. ip_to_string(ip) = [j \in 1..4 |-> text[j]]
  BY <1>6, <1>7
<1>9. text = [j \in 1..4 |-> text[j]]
  BY <1>2
<1> QED BY <1>8, <1>9 DEF ip

-----------------------------------------------------------------------------
(* The headers of an echo request.                                         *)
Bytes(s, n) == s \in Seq(Byte) /\ Len(s) = n

LEMMA FieldsTyped ==
  /\ Bytes(<<69, 0>>, 2) /\ Bytes(<<0, 0>>, 2) /\ Bytes(<<64, 1>>, 2) /\ Bytes(<<8, 0>>, 2)
  /\ Bytes(LittleEndian(28), 2) /\ Bytes(LittleEndian(4660), 2) /\ Bytes(LittleEndian(1), 2)
<1>1. LittleEndian(28) = <<28, 0>>
  BY DEF LittleEndian
<1>2. LittleEndian(4660) = <<52, 18>>
  BY DEF LittleEndian
<1>3. LittleEndian(1) = <<1, 0>>
  BY DEF LittleEndian
<1>4. /\ Bytes(<<69, 0>>, 2) /\ Bytes(<<0, 0>>, 2) /\ Bytes(<<64, 1>>, 2) /\ Bytes(<<8, 0>>, 2)
      /\ Bytes(<<28, 0>>, 2) /\ Bytes(<<52, 18>>, 2) /\ Bytes(<<1, 0>>, 2)
  BY DEF Byte, Bytes
<1> QED BY <1>1, <1>2, <1>3, <1>4

LEMMA ReverseTyped ==
  ASSUME NEW ip \in [1..4 -> Byte]
  PROVE  Bytes(Reverse(ip), 4)
<1>1. ip \in Seq(Byte) /\ Len(ip) = 4
  <2>1. ip = [i \in 1..4 |-> ip[i]] /\ \A i \in 1..4 : ip[i] \in Byte
    OBVIOUS
  <2> QED BY <2>1
<1>2. Reverse(ip) = [i \in 1..4 |-> ip[(4 - i) + 1]]
  BY <1>1 DEF Reverse
<1>3. \A i \in 1..4 : ip[(4 - i) + 1] \in Byte
  OBVIOUS
<1> QED BY <1>2, <1>3 DEF Bytes

LEMMA Joined ==
  ASSUME NEW s, NEW t, NEW m, NEW n, Bytes(s, m), Bytes(t, n)
  PROVE  Bytes(s \o t, m + n)
BY DEF Bytes

LEMMA HeadersVerify ==
  ASSUME NEW src \in [1..4 -> Byte], NEW dest \in [1..4 -> Byte]
  PROVE  Verifies(IpHeader(src, dest)) /\ Verifies(IcmpHeader)
<1> DEFINE a == <<69, 0>>
           b == LittleEndian(28)
           c == LittleEndian(4660)
           d == <<0, 0>>
           e == <<64, 1>>
           f == <<8, 0>>
           g == LittleEndian(1)
           r == Reverse(src)
           q == Reverse(dest)
           before == a \o b \o c \o d \o e
           after == r \o q
           rest == c \o g
<1>1. /\ Bytes(a, 2) /\ Bytes(d, 2) /\ Bytes(e, 2) /\ Bytes(f, 2)
      /\ Bytes(b, 2) /\ Bytes(c, 2) /\ Bytes(g, 2)
  BY FieldsTyped
<1>2. Bytes(r, 4) /\ Bytes(q, 4)
  BY ReverseTyped, Zenon
<1>3. IpHeader(src, dest) = WithChecksum(before, after)
  BY Zenon DEF IpHeader
<1>4. IcmpHeader = WithChecksum(f, rest)
  BY Zenon DEF IcmpHeader
<1> HIDE DEF a, b, c, d, e, f, g, r, q
<1>5. Bytes(before, 10)
  <2>1. Bytes(a \o b, 2 + 2)
    BY <1>1, Joined, Zenon
  <2>2. Bytes((a \o b) \o c, (2 + 2) + 2)
    BY <1>1, <2>1, Joined, Zenon
  <2>3. Bytes(((a \o b) \o c) \o d, ((2 + 2) + 2) + 2)
    BY <1>1, <2>2, Joined, Zenon
  <2>4. Bytes((((a \o b) \o c) \o d) \o e, (((2 + 2) + 2) + 2) + 2)
    BY <1>1, <2>3, Joined, Zenon
  <2>5. (((2 + 2) + 2) + 2) + 2 = 10
    OBVIOUS
  <2> QED BY <2>4, <2>5, Zenon
<1>6. Bytes(after, 8)
  <2>1. Bytes(after, 4 + 4)
    BY <1>2, Joined, Zenon
  <2>2. 4 + 4 = 8
    OBVIOUS
  <2> QED BY <2>1, <2>2, Zenon
<1>7. Bytes(rest, 4)
  <2>1. Bytes(rest, 2 + 2)
    BY <1>1, Joined, Zenon
  <2>2. 2 + 2 = 4
    OBVIOUS
  <2> QED BY <2>1, <2>2, Zenon
<1> HIDE DEF before, after, rest
<1>8. Verifies(WithChecksum(before, after))
  <2>1. before \in Seq(Byte) /\ Len(before) = 10 /\ after \in Seq(Byte) /\ Len(after) = 8
    BY <1>5, <1>6 DEF Bytes
  <2>2. Len(before) % 2 = 0
    BY <2>1
  <2>3. Short(before, after)
    BY <2>1 DEF Short
  <2> QED BY <2>1, <2>2, <2>3, ChecksumVerifies, Zenon
<1>9. Verifies(WithChecksum(f, rest))
  <2>1. f \in Seq(Byte) /\ Len(f) = 2 /\ rest \in Seq(Byte) /\ Len(rest) = 4
    BY <1>1, <1>7 DEF Bytes
  <2>2. Len(f) % 2 = 0
    BY <2>1
  <2>3. Short(f, rest)
    BY <2>1 DEF Short
  <2> QED BY <2>1, <2>2, <2>3, ChecksumVerifies, Zenon
<1> QED BY <1>3, <1>4, <1>8, <1>9, Zenon

-----------------------------------------------------------------------------
(* The network over the driver.                                            *)
Addresses == [1..4 -> Byte]

(* Packet numbers in the transmit ring's buffers and on the wire.          *)
InFlight == {tx[i].buffer : i \in TxSlots} \cup {wire[k][1] : k \in DOMAIN wire}

LogLine(k) == ip_to_string(ip_from_string(Typed[k]))

PacketInv ==
  /\ net_if.ip \in Addresses
  /\ frames = [k \in 1..packets |-> frames[k]]
  /\ \A k \in 1..packets : Verifies(frames[k].ip) /\ Verifies(frames[k].icmp)
  /\ log = [k \in 1..packets |-> LogLine(k)]
  /\ \A n \in InFlight : n <= packets

(* What is in a ring was built while the interface had the card's address. *)
SourceInv ==
  /\ rings => net_if.mac = CardMac
  /\ \A n \in InFlight : n # 0 => frames[n].src_mac = CardMac

LEMMA DriverStep == [NetworkNext]_<<vars, netVars>> => [Next]_vars
BY Zenon DEF NetworkNext, NetInitFailed, NetInitDone, Ping, DriverAlone, Next, Driver

LEMMA InFlightKept ==
  ASSUME Tidy, NoDevice \/ ResetTimeout \/ BringUp \/ SendRefused \/ DriverAlone
  PROVE  InFlight' \subseteq InFlight \cup {0}
<1>0. /\ tx \in [TxSlots -> TxDesc] /\ tx_cur \in TxSlots /\ TDH \in TxSlots
      /\ packets \in 0..MaxSends /\ wire \in Seq((0..MaxSends) \X (0..MaxSends))
  BY DEF Tidy, TxTyped
<1>1. CASE UNCHANGED <<tx, wire>>
  BY <1>1 DEF InFlight
<1>2. CASE BringUp
  <2>1. wire' = wire /\ \A i \in TxSlots : tx'[i].buffer = 0
    BY <1>2 DEF BringUp, FreshTx
  <2> QED BY <2>1 DEF InFlight
<1>3. CASE SendDescribe
  <2>1. wire' = wire /\ \A i \in TxSlots : tx'[i].buffer = tx[i].buffer
    BY <1>0, <1>3, LengthDoneSet DEF SendDescribe
  <2> QED BY <2>1 DEF InFlight
<1>4. CASE CardTransmits
  <2> DEFINE w == tx[TDH].length # 0
             x == <<tx[TDH].buffer, tx[TDH].length>>
  <2>1. tx[TDH].buffer \in 0..MaxSends /\ tx[TDH].length \in 0..MaxSends
    BY <1>0 DEF TxDesc
  <2>2. w \in BOOLEAN /\ x \in (0..MaxSends) \X (0..MaxSends) /\ x[1] = tx[TDH].buffer
    BY <2>1
  <2>3. wire' = Append(wire, x) /\ tx' = [tx EXCEPT ![TDH].done = w]
    BY <1>4 DEF CardTransmits
  <2> HIDE DEF w, x
  <2>4. \A i \in TxSlots : tx'[i].buffer = tx[i].buffer
    BY <1>0, <2>2, <2>3, DoneSet
  <2>5. /\ DOMAIN wire = 1..Len(wire) /\ DOMAIN wire' = 1..(Len(wire) + 1) /\ Len(wire) \in Nat
        /\ wire'[Len(wire) + 1] = x /\ \A k \in 1..Len(wire) : wire'[k] = wire[k]
    BY <1>0, <2>2, <2>3, Appended
  <2>6. \A k \in DOMAIN wire' : wire'[k] = x \/ (k \in DOMAIN wire /\ wire'[k] = wire[k])
    BY <2>5
  <2>7. ASSUME NEW n \in InFlight' PROVE n \in InFlight
    <3>1. (\E i \in TxSlots : n = tx'[i].buffer) \/ (\E k \in DOMAIN wire' : n = wire'[k][1])
      BY <2>7, Zenon DEF InFlight
    <3>2. CASE \E i \in TxSlots : n = tx'[i].buffer
      BY <2>4, <3>2, Zenon DEF InFlight
    <3>3. CASE \E k \in DOMAIN wire' : n = wire'[k][1]
      <4>1. PICK k \in DOMAIN wire' : n = wire'[k][1]
        BY <3>3
      <4>2. CASE wire'[k] = x
        <5>1. n = tx[TDH].buffer
          BY <2>2, <4>1, <4>2, Zenon
        <5> QED BY <1>0, <5>1, Zenon DEF InFlight
      <4>3. CASE k \in DOMAIN wire /\ wire'[k] = wire[k]
        <5>1. n = wire[k][1]
          BY <4>1, <4>3, Zenon
        <5> QED BY <4>3, <5>1, Zenon DEF InFlight
      <4> QED BY <2>6, <4>2, <4>3, Zenon
    <3> QED BY <3>1, <3>2, <3>3, Zenon
  <2> QED BY <2>7
<1>5. CASE NoDevice \/ ResetTimeout \/ SendRefused
  BY <1>1, <1>5 DEF NoDevice, ResetTimeout, SendRefused, txVars
<1>6. CASE \E cm \in Commands : Command(cm)
  BY <1>1, <1>6 DEF Command, txVars
<1>7. CASE \/ Reset \/ SendTail \/ SendDone \/ SendTimeout \/ Receive \/ Rearm \/ ReceiveTail
           \/ CardReceives
  BY <1>1, <1>7 DEF Reset, SendTail, SendDone, SendTimeout, Receive, Rearm, ReceiveTail, CardReceives,
     txVars
<1> QED BY <1>2, <1>3, <1>4, <1>5, <1>6, <1>7 DEF DriverAlone

LEMMA InFlightCopy ==
  ASSUME Tidy, SendCopy
  PROVE  InFlight' \subseteq InFlight \cup {packets'}
<1>0. /\ tx \in [TxSlots -> TxDesc] /\ tx_cur \in TxSlots /\ packets \in 0..MaxSends
  BY DEF Tidy, TxTyped
<1>1. packets' = packets + 1 /\ packets < MaxSends
  BY DEF Tidy, Budget, SendCopy
<1>2. packets' \in 0..MaxSends
  BY <1>0, <1>1, RingsSized
<1>3. tx' = [tx EXCEPT ![tx_cur].buffer = packets'] /\ wire' = wire
  BY DEF SendCopy
<1> DEFINE p == packets'
<1> HIDE DEF p
<1>4. tx' = [tx EXCEPT ![tx_cur].buffer = p] /\ p \in 0..MaxSends
  BY <1>2, <1>3 DEF p
<1>5. tx'[tx_cur].buffer = p /\ \A i \in TxSlots \ {tx_cur} : tx'[i] = tx[i]
  BY <1>0, <1>4, BufferSet
<1> QED BY <1>0, <1>3, <1>5 DEF InFlight, p

Row(s, n) == s = [k \in 1..n |-> s[k]]

Extends(t, s, n, x) == Row(t, n + 1) /\ t[n + 1] = x /\ \A k \in 1..n : t[k] = s[k]

LEMMA AppendRow ==
  ASSUME NEW n \in Nat, NEW s, NEW x, Row(s, n)
  PROVE  Extends(Append(s, x), s, n, x)
<1> DEFINE S == {s[k] : k \in 1..n} \cup {x}
<1>1. x \in S /\ \A k \in 1..n : s[k] \in S
  OBVIOUS
<1> HIDE DEF S
<1>2. s \in Seq(S) /\ Len(s) = n
  BY <1>1 DEF Row
<1> QED BY <1>1, <1>2 DEF Row, Extends

(* Steps that build no packet.                                             *)
LEMMA PacketKept ==
  ASSUME PacketInv, InFlight' \subseteq InFlight \cup {0}, packets \in Nat,
         UNCHANGED <<packets, frames, log>>, net_if'.ip \in Addresses
  PROVE  PacketInv'
<1>1. \A n \in InFlight' : n <= packets'
  BY DEF PacketInv
<1> QED BY <1>1 DEF PacketInv, LogLine

LEMMA ConfiguredTyped ==
  ASSUME NEW mac, Configured(mac)
  PROVE  net_if'.ip \in Addresses /\ net_if'.mac = mac
<1>1. <<10, 0, 2, 15>> \in Addresses
  BY DEF Addresses, Byte
<1>2. net_if' = [mac |-> mac, ip |-> <<10, 0, 2, 15>>]
  BY DEF Configured
<1> QED BY <1>1, <1>2

(* The step that builds one.                                               *)
LEMMA PacketBuilt ==
  ASSUME Tidy, PacketInv, Ping
  PROVE  /\ PacketInv' /\ packets' = packets + 1
         /\ frames'[packets'].src_mac = net_if.mac
         /\ \A k \in 1..packets : frames'[k] = frames[k]
<1> DEFINE dest == ip_from_string(Typed[packets'])
           x == EchoRequest(net_if, dest)
<1>1. packets \in Nat /\ packets' = packets + 1
  BY DEF Tidy, TxTyped, Ping, SendCopy, SendRefused
<1>2. frames' = Append(frames, x) /\ log' = Append(log, ip_to_string(dest)) /\ net_if' = net_if
  BY Zenon DEF Ping
<1>3. dest \in Addresses
  BY AddressTyped DEF Addresses, Byte
<1>4. Verifies(x.ip) /\ Verifies(x.icmp) /\ x.src_mac = net_if.mac
  <2> HIDE DEF dest
  <2>1. x.ip = IpHeader(net_if.ip, dest) /\ x.icmp = IcmpHeader /\ x.src_mac = net_if.mac
    BY DEF EchoRequest
  <2>2. Verifies(IpHeader(net_if.ip, dest)) /\ Verifies(IcmpHeader)
    BY <1>3, HeadersVerify DEF PacketInv, Addresses
  <2> QED BY <2>1, <2>2
<1>5. ip_to_string(dest) = LogLine(packets')
  BY Zenon DEF LogLine
<1> HIDE DEF x, dest
<1>6. /\ Row(frames', packets + 1)
      /\ frames'[packets + 1] = x /\ \A k \in 1..packets : frames'[k] = frames[k]
  <2> DEFINE fs == Append(frames, x)
  <2>1. Row(frames, packets)
    BY Zenon DEF PacketInv, Row
  <2>2. Extends(fs, frames, packets, x)
    <3>1. packets \in Nat
      BY <1>1
    <3> QED BY <2>1, <3>1, AppendRow, Zenon
  <2>3. frames' = fs
    BY <1>2
  <2> HIDE DEF fs
  <2> QED BY <2>2, <2>3, Zenon DEF Extends
<1>7. log' = [k \in 1..(packets + 1) |-> LogLine(k)]
  <2> DEFINE y == ip_to_string(dest)
             ls == Append(log, y)
  <2>1. log = [k \in 1..packets |-> LogLine(k)]
    BY Zenon DEF PacketInv
  <2>2. Row(log, packets) /\ \A k \in 1..packets : log[k] = LogLine(k)
    <3> HIDE DEF y, ls
    <3> QED BY <2>1 DEF Row
  <2>3. Extends(ls, log, packets, y)
    <3>1. packets \in Nat
      BY <1>1
    <3> HIDE DEF y
    <3> QED BY <2>2, <3>1, AppendRow, Zenon
  <2>4. log' = ls
    BY <1>2
  <2>5. y = LogLine(packets + 1)
    BY <1>1, <1>5, Zenon
  <2> HIDE DEF ls, y
  <2>6. \A k \in 1..(packets + 1) : ls[k] = LogLine(k)
    <3>1. \A k \in 1..(packets + 1) : k = packets + 1 \/ k \in 1..packets
      BY <1>1
    <3> QED BY <2>2, <2>3, <2>5, <3>1, Zenon DEF Extends
  <2> QED BY <2>3, <2>4, <2>6 DEF Row, Extends
<1>8. \A k \in 1..packets' : Verifies(frames'[k].ip) /\ Verifies(frames'[k].icmp)
  BY <1>1, <1>4, <1>6 DEF PacketInv
<1>9. InFlight' \subseteq InFlight \cup {0, packets'}
  BY InFlightKept, InFlightCopy DEF Ping
<1>10. \A n \in InFlight' : n <= packets'
  <2>1. \A n \in InFlight : n \in Nat
    <3>1. \A i \in TxSlots : tx[i].buffer \in Nat
      BY DEF Tidy, TxTyped, TxDesc
    <3>2. \A k \in DOMAIN wire : wire[k][1] \in Nat
      BY ElementTyped DEF Tidy, TxTyped
    <3> QED BY <3>1, <3>2 DEF InFlight
  <2> QED BY <1>1, <1>9, <2>1 DEF PacketInv
<1>11. log' = [k \in 1..packets' |-> LogLine(k)'] /\ frames' = [k \in 1..packets' |-> frames'[k]]
  BY <1>1, <1>6, <1>7 DEF LogLine, Row
<1> QED BY <1>1, <1>2, <1>4, <1>6, <1>8, <1>10, <1>11 DEF PacketInv

(* Packet numbers are numbers of packets built, or none.                   *)
LEMMA InFlightNumbers ==
  ASSUME Tidy, PacketInv, NEW n \in InFlight, n # 0
  PROVE  n \in 1..packets
<1>1. \A i \in TxSlots : tx[i].buffer \in Nat
  BY DEF Tidy, TxTyped, TxDesc
<1>2. \A k \in DOMAIN wire : wire[k][1] \in Nat
  BY ElementTyped DEF Tidy, TxTyped
<1>3. n \in Nat
  BY <1>1, <1>2 DEF InFlight
<1>4. n <= packets /\ packets \in Nat
  BY DEF PacketInv, Tidy, TxTyped
<1> QED BY <1>3, <1>4

LEMMA PacketStart ==
  ASSUME NetworkInit
  PROVE  PacketInv
<1>1. net_if.ip \in Addresses
  <2>1. <<0, 0, 0, 0>> \in Addresses
    BY DEF Addresses, Byte
  <2> QED BY <2>1 DEF NetworkInit
<1>2. packets = 0 /\ 1..packets = {} /\ frames = <<>> /\ log = <<>>
  BY DEF NetworkInit, Init
<1>3. frames = [k \in 1..packets |-> frames[k]] /\ log = [k \in 1..packets |-> LogLine(k)]
  BY <1>2
<1>4. \A n \in InFlight : n <= packets
  <2>1. wire = <<>> /\ \A i \in TxSlots : tx[i].buffer = 0
    BY DEF NetworkInit, Init, FreshTx
  <2>2. \A n \in InFlight : n = 0
    BY <2>1 DEF InFlight
  <2> QED BY <1>2, <2>2
<1> QED BY <1>1, <1>2, <1>3, <1>4 DEF PacketInv

LEMMA PacketStep ==
  ASSUME Tidy, PacketInv, [NetworkNext]_<<vars, netVars>>
  PROVE  PacketInv'
<1>1. packets \in Nat /\ net_if.ip \in Addresses
  BY DEF Tidy, TxTyped, PacketInv
<1>2. CASE UNCHANGED <<vars, netVars>>
  <2>1. InFlight' = InFlight /\ UNCHANGED <<packets, frames, log, net_if>>
    BY <1>2 DEF InFlight, vars, txVars, netVars
  <2> QED BY <1>1, <2>1, PacketKept
<1>3. CASE NetInitFailed
  <2>1. InFlight' \subseteq InFlight \cup {0}
    BY <1>3, InFlightKept DEF NetInitFailed
  <2>2. UNCHANGED <<packets, frames, log>>
    BY <1>3 DEF NetInitFailed, NoDevice, ResetTimeout, txVars
  <2>3. net_if'.ip \in Addresses
    BY <1>3, ConfiguredTyped DEF NetInitFailed
  <2> QED BY <1>1, <2>1, <2>2, <2>3, PacketKept
<1>4. CASE NetInitDone
  <2>1. InFlight' \subseteq InFlight \cup {0}
    BY <1>4, InFlightKept DEF NetInitDone
  <2>2. UNCHANGED <<packets, frames, log>>
    BY <1>4 DEF NetInitDone, BringUp
  <2>3. net_if'.ip \in Addresses
    BY <1>4, ConfiguredTyped DEF NetInitDone
  <2> QED BY <1>1, <2>1, <2>2, <2>3, PacketKept
<1>5. CASE Ping
  BY <1>5, PacketBuilt
<1>6. CASE DriverAlone /\ UNCHANGED netVars
  <2>1. InFlight' \subseteq InFlight \cup {0}
    BY <1>6, InFlightKept
  <2>2. UNCHANGED <<packets, frames, log>>
    BY <1>6 DEF DriverAlone, netVars, Command, Reset, SendDescribe, SendTail, SendDone, SendTimeout,
       Receive, Rearm, ReceiveTail, CardTransmits, CardReceives, txVars
  <2>3. net_if'.ip \in Addresses
    BY <1>1, <1>6 DEF netVars
  <2> QED BY <1>1, <2>1, <2>2, <2>3, PacketKept
<1> QED BY <1>2, <1>3, <1>4, <1>5, <1>6 DEF NetworkNext

LEMMA SourceStart ==
  ASSUME NetworkInit
  PROVE  SourceInv
<1>1. ~rings /\ wire = <<>> /\ \A i \in TxSlots : tx[i].buffer = 0
  BY DEF NetworkInit, Init, FreshTx
<1>2. \A n \in InFlight : n = 0
  BY <1>1 DEF InFlight
<1> QED BY <1>1, <1>2 DEF SourceInv

(* Steps after which nothing is in flight that was not before.             *)
LEMMA SourceKept ==
  ASSUME Tidy, PacketInv, SourceInv, InFlight' \subseteq InFlight \cup {0},
         \A k \in 1..packets : frames'[k] = frames[k], rings' => net_if'.mac = CardMac
  PROVE  SourceInv'
<1>1. ASSUME NEW n \in InFlight', n # 0 PROVE frames'[n].src_mac = CardMac
  <2>1. n \in InFlight
    BY <1>1
  <2>2. n \in 1..packets
    BY <1>1, <2>1, InFlightNumbers
  <2>3. frames[n].src_mac = CardMac
    BY <1>1, <2>1 DEF SourceInv
  <2> QED BY <2>2, <2>3
<1> QED BY <1>1 DEF SourceInv

LEMMA SourceStep ==
  ASSUME FlagCounts, Tidy, PacketInv, SourceInv, [NetworkNext]_<<vars, netVars>>
  PROVE  SourceInv'
<1>1. rings => net_if.mac = CardMac
  BY DEF SourceInv
<1>2. CASE UNCHANGED <<vars, netVars>>
  <2>1. InFlight' = InFlight /\ UNCHANGED <<packets, frames, rings, net_if>>
    BY <1>2 DEF InFlight, vars, txVars, netVars
  <2> QED BY <1>1, <2>1, SourceKept
<1>3. CASE NetInitFailed
  <2>1. InFlight' \subseteq InFlight \cup {0}
    BY <1>3, InFlightKept DEF NetInitFailed
  <2>2. pc \in {"init", "reset"} /\ rings' = rings /\ frames' = frames
    BY <1>3 DEF NetInitFailed, NoDevice, ResetTimeout
  <2>3. ~rings
    BY <2>2 DEF FlagCounts, Tidy, BeforeInit
  <2> QED BY <2>1, <2>2, <2>3, SourceKept
<1>4. CASE NetInitDone
  <2>1. InFlight' \subseteq InFlight \cup {0}
    BY <1>4, InFlightKept DEF NetInitDone
  <2>2. frames' = frames
    BY <1>4 DEF NetInitDone
  <2>3. net_if'.mac = CardMac
    BY <1>4, ConfiguredTyped DEF NetInitDone
  <2> QED BY <2>1, <2>2, <2>3, SourceKept
<1>5. CASE Ping
  <2>1. net_if' = net_if /\ \A k \in 1..packets : frames'[k] = frames[k]
    BY <1>5, PacketBuilt DEF Ping
  <2>2. CASE SendRefused
    <3>1. InFlight' \subseteq InFlight \cup {0}
      BY <2>2, InFlightKept
    <3>2. rings' = rings
      BY <2>2 DEF SendRefused
    <3> QED BY <1>1, <2>1, <3>1, <3>2, SourceKept
  <2>3. CASE SendCopy
    <3>1. InFlight' \subseteq InFlight \cup {packets'}
      BY <2>3, InFlightCopy
    <3>2. rings /\ rings' = rings
      BY <2>3 DEF SendCopy
    <3>3. frames'[packets'].src_mac = CardMac
      BY <1>1, <1>5, <3>2, PacketBuilt
    <3>4. ASSUME NEW n \in InFlight', n # 0 PROVE frames'[n].src_mac = CardMac
      <4>1. CASE n = packets'
        BY <3>3, <4>1
      <4>2. CASE n \in InFlight
        <5>1. n \in 1..packets
          BY <3>4, <4>2, InFlightNumbers
        <5>2. frames[n].src_mac = CardMac
          BY <3>4, <4>2 DEF SourceInv
        <5> QED BY <2>1, <5>1, <5>2
      <4> QED BY <3>1, <3>4, <4>1, <4>2
    <3> QED BY <1>1, <2>1, <3>2, <3>4 DEF SourceInv
  <2> QED BY <1>5, <2>2, <2>3 DEF Ping
<1>6. CASE DriverAlone /\ UNCHANGED netVars
  <2>1. InFlight' \subseteq InFlight \cup {0}
    BY <1>6, InFlightKept
  <2>2. rings' = rings /\ frames' = frames /\ net_if' = net_if
    BY <1>6 DEF DriverAlone, netVars, Command, Reset, SendDescribe, SendTail, SendDone, SendTimeout,
       Receive, Rearm, ReceiveTail, CardTransmits, CardReceives
  <2> QED BY <1>1, <2>1, <2>2, SourceKept
<1> QED BY <1>2, <1>3, <1>4, <1>5, <1>6 DEF NetworkNext

-----------------------------------------------------------------------------
(* The theorems about packets.                                             *)

(* Pinging, configuring and the card below them make no step the driver's  *)
(* specification does not allow: what E1000 promises, net.c has.           *)
THEOREM NetworkImplementsDriver == NetworkSpec => Spec
<1>1. NetworkInit => Init
  BY DEF NetworkInit
<1> QED BY <1>1, DriverStep, PTL DEF NetworkSpec, Spec

(* Every packet built so far has headers whose checksums a receiver finds  *)
(* right, its address is the one that was typed, and no descriptor or      *)
(* transmission names a packet that was not built (net.c:101-148).         *)
THEOREM NetworkPackets == NetworkSpec => [](Tidy /\ PacketInv)
<1>1. NetworkInit => Tidy /\ PacketInv
  BY TidyStart, PacketStart DEF NetworkInit
<1>2. Tidy /\ PacketInv /\ [NetworkNext]_<<vars, netVars>> => (Tidy /\ PacketInv)'
  BY DriverStep, TidyStep, PacketStep
<1> QED BY <1>1, <1>2, PTL DEF NetworkSpec

(* Both checksums of every packet on the wire verify in network order,     *)
(* though net_checksum adds words in this machine's order and its carries  *)
(* can carry again (net.c:49-67): whatever address was typed.              *)
THEOREM NetworkChecksums == NetworkSpec => []ChecksumsVerify
<1>1. Tidy /\ PacketInv => ChecksumsVerify
  <2> SUFFICES ASSUME Tidy, PacketInv, NEW f \in Transmitted
               PROVE  Verifies(f.ip) /\ Verifies(f.icmp)
    BY DEF ChecksumsVerify
  <2>1. PICK k \in DOMAIN wire : wire[k][1] # 0 /\ f = frames[wire[k][1]]
    BY DEF Transmitted
  <2>2. wire[k][1] \in InFlight
    BY DEF InFlight
  <2>3. wire[k][1] \in 1..packets
    BY <2>1, <2>2, InFlightNumbers
  <2> QED BY <2>1, <2>3 DEF PacketInv
<1> QED BY <1>1, NetworkPackets, PTL

(* Where an address was typed, ip_to_string writes it back digit for digit *)
(* from what ip_from_string made of it (net.c:106-108, 150-191).           *)
THEOREM NetworkLoggedAsTyped == NetworkSpec => []LoggedAsTyped
<1>1. Tidy /\ PacketInv => LoggedAsTyped
  <2> SUFFICES ASSUME Tidy, PacketInv, NEW k \in DOMAIN log, IsAddress(Typed[k])
               PROVE  log[k] = Typed[k]
    BY DEF LoggedAsTyped
  <2>1. k \in 1..packets /\ log[k] = LogLine(k)
    BY DEF PacketInv
  <2>2. k \in 1..Len(Typed)
    BY <2>1, NetworkParameters, RingsSized DEF Tidy, TxTyped
  <2>3. Typed[k] \in Seq(Seq(0..9))
    BY <2>2, NetworkParameters
  <2> QED BY <2>1, <2>3, AddressReads DEF LogLine
<1> QED BY <1>1, NetworkPackets, PTL

(* A packet on the wire carries the card's address, in whatever order      *)
(* failed set-ups, retries and pings come: the fallback address stays in   *)
(* packets the driver refused (net.c:8-26, 117).                           *)
THEOREM NetworkSourceIsCard ==
  ASSUME OneCommand
  PROVE  NetworkSpec => []SourceIsCard
<1>1. NetworkInit => FlagCounts /\ SourceInv
  BY FlagStart, SourceStart DEF NetworkInit
<1>2. FlagCounts /\ Tidy /\ PacketInv /\ SourceInv /\ [NetworkNext]_<<vars, netVars>>
        => (FlagCounts /\ SourceInv)'
  BY DriverStep, FlagStep, SourceStep
<1>3. Tidy /\ PacketInv /\ SourceInv => SourceIsCard
  <2> SUFFICES ASSUME SourceInv, NEW f \in Transmitted PROVE f.src_mac = CardMac
    BY DEF SourceIsCard
  <2>1. PICK k \in DOMAIN wire : wire[k][1] # 0 /\ f = frames[wire[k][1]]
    BY DEF Transmitted
  <2> QED BY <2>1 DEF SourceInv, InFlight
<1> QED BY <1>1, <1>2, <1>3, NetworkPackets, PTL DEF NetworkSpec

=============================================================================
