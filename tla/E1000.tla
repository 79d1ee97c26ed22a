--------------------------------- MODULE E1000 ---------------------------------
(***************************************************************************)
(* kernel/drivers/e1000.c against the network card: the transmit and       *)
(* receive rings in memory, which the driver and the card both write, and  *)
(* the head and tail registers with which they hand descriptors over.      *)
(*                                                                         *)
(* Commands are the shell commands that bring the network up; each has its *)
(* own static net_initialized (kernel.c:455, 487, 536).  Packets and frames *)
(* are numbered in the order they are sent and accepted; number 0 is what  *)
(* a fresh buffer or descriptor holds.                                     *)
(*                                                                         *)
(* The four checked allocations of e1000_driver_init do not fail here: the *)
(* heap has room for every file at its largest and for three sets of rings. *)
(***************************************************************************)
EXTENDS Integers, Sequences

CONSTANTS
  NUM_TX_DESC, NUM_RX_DESC,   \* ring sizes
  Commands,                   \* shell commands that call net_init
  Senders,                    \* the ones that then send a packet
  MaxSends, MaxFrames         \* bounds on packets sent and frames accepted

ASSUME E1000Parameters ==
  /\ NUM_TX_DESC \in Nat \ {0, 1} /\ NUM_RX_DESC \in Nat \ {0, 1}
  /\ Senders \subseteq Commands
  /\ MaxSends \in Nat /\ MaxFrames \in Nat

VARIABLES
  pc, command,                \* where the driver is, and for which command
  net_initialized,            \* one flag per command
  inits,                      \* how often the driver came up
  rings,                      \* TRUE when the ring pointers are set
  tx, tx_cur, TDH, TDT,       \* transmit ring, driver's index, card's registers
  rx, rx_cur, RDH, RDT,       \* receive ring, driver's index, card's registers
  enabled,                    \* the EN bits of TCTL and RCTL
  packets,                    \* packets handed to e1000_driver_send so far
  wire,                       \* descriptors the card has transmitted
  reported,                   \* packets reported as "Packet sent"
  accepted,                   \* frames the card has put into the ring
  received                    \* frames e1000_driver_receive has returned

driverVars == <<pc, command, net_initialized, inits>>
txVars == <<tx, tx_cur, TDH, TDT, packets, wire, reported>>
rxVars == <<rx, rx_cur, RDH, RDT, accepted, received>>
vars == <<driverVars, rings, enabled, txVars, rxVars>>

TxSlots == 0..(NUM_TX_DESC - 1)
RxSlots == 0..(NUM_RX_DESC - 1)

FreshTx == [i \in TxSlots |-> [buffer |-> 0, length |-> 0, done |-> FALSE]]
FreshRx == [i \in RxSlots |-> [buffer |-> 0, done |-> FALSE]]

Init ==
  /\ pc = "idle" /\ command \in Commands
  /\ net_initialized = [c \in Commands |-> FALSE] /\ inits = 0
  /\ rings = FALSE /\ enabled = FALSE
  /\ tx = FreshTx /\ tx_cur = 0 /\ TDH = 0 /\ TDT = 0
  /\ packets = 0 /\ wire = <<>> /\ reported = {}
  /\ rx = FreshRx /\ rx_cur = 0 /\ RDH = 0 /\ RDT = 0
  /\ accepted = 0 /\ received = <<>>

-----------------------------------------------------------------------------
(* What a command does once net_init is behind it: only ping sends, and it *)
(* does so whether or not the network came up.                             *)
AfterInit(c) == IF c \in Senders THEN "send" ELSE "idle"

Command(c) ==
  /\ pc = "idle" /\ (c \in Senders => packets < MaxSends)
  /\ command' = c
  /\ pc' = (IF net_initialized[c] THEN AfterInit(c) ELSE "init")
  /\ UNCHANGED <<net_initialized, inits, rings, enabled, txVars, rxVars>>

(* No card, or one without a memory window: -1 before anything is written. *)
NoDevice ==
  /\ pc = "init" /\ pc' = AfterInit(command)
  /\ UNCHANGED <<command, net_initialized, inits, rings, enabled, txVars, rxVars>>

(* Setting CTRL.RST stops both directions and clears the registers.        *)
Reset ==
  /\ pc = "init" /\ pc' = "reset"
  /\ enabled' = FALSE
  /\ TDH' = 0 /\ TDT' = 0 /\ RDH' = 0 /\ RDT' = 0
  /\ UNCHANGED <<command, net_initialized, inits, rings, tx, tx_cur, packets,
                 wire, reported, rx, rx_cur, accepted, received>>

ResetTimeout ==
  /\ pc = "reset" /\ pc' = AfterInit(command)
  /\ UNCHANGED <<command, net_initialized, inits, rings, enabled, txVars, rxVars>>

(* Seeded fault: TDT is set up the way RDT is.                             *)
BringUpTailAtEnd ==
  /\ pc = "reset" /\ pc' = AfterInit(command)
  /\ net_initialized' = [net_initialized EXCEPT ![command] = TRUE]
  /\ inits' = inits + 1
  /\ rings' = TRUE /\ enabled' = TRUE
  /\ tx' = FreshTx /\ TDH' = 0 /\ TDT' = NUM_TX_DESC - 1
  /\ rx' = FreshRx /\ RDH' = 0 /\ RDT' = NUM_RX_DESC - 1
  /\ UNCHANGED <<command, tx_cur, packets, wire, reported, rx_cur, accepted, received>>

(* New rings and buffers, the registers, and the enable bits.  The driver's *)
(* own indices tx_cur and rx_cur keep their values.                        *)
BringUp ==
  /\ pc = "reset" /\ pc' = AfterInit(command)
  /\ net_initialized' = [net_initialized EXCEPT ![command] = TRUE]
  /\ inits' = inits + 1
  /\ rings' = TRUE /\ enabled' = TRUE
  /\ tx' = FreshTx /\ TDH' = 0 /\ TDT' = 0
  /\ rx' = FreshRx /\ RDH' = 0 /\ RDT' = NUM_RX_DESC - 1
  /\ UNCHANGED <<command, tx_cur, packets, wire, reported, rx_cur, accepted, received>>

-----------------------------------------------------------------------------
(* e1000_driver_send, statement by statement where the card can look on.   *)
SendRefused ==
  /\ pc = "send" /\ ~rings /\ pc' = "idle"
  /\ packets' = packets + 1
  /\ UNCHANGED <<command, net_initialized, inits, rings, enabled, tx, tx_cur,
                 TDH, TDT, wire, reported, rxVars>>

SendCopy ==
  /\ pc = "send" /\ rings /\ pc' = "describe"
  /\ packets' = packets + 1
  /\ tx' = [tx EXCEPT ![tx_cur].buffer = packets']
  /\ UNCHANGED <<command, net_initialized, inits, rings, enabled, tx_cur,
                 TDH, TDT, wire, reported, rxVars>>

(* Seeded fault: the status of the previous lap stays.                     *)
SendDescribeStale ==
  /\ pc = "describe" /\ pc' = "tail"
  /\ tx' = [tx EXCEPT ![tx_cur].length = packets]
  /\ UNCHANGED <<command, net_initialized, inits, rings, enabled, tx_cur,
                 TDH, TDT, packets, wire, reported, rxVars>>

SendDescribe ==
  /\ pc = "describe" /\ pc' = "tail"
  /\ tx' = [tx EXCEPT ![tx_cur].length = packets, ![tx_cur].done = FALSE]
  /\ UNCHANGED <<command, net_initialized, inits, rings, enabled, tx_cur,
                 TDH, TDT, packets, wire, reported, rxVars>>

SendTail ==
  /\ pc = "tail" /\ pc' = "wait"
  /\ tx_cur' = (tx_cur + 1) % NUM_TX_DESC
  /\ TDT' = tx_cur'
  /\ UNCHANGED <<command, net_initialized, inits, rings, enabled, tx, TDH,
                 packets, wire, reported, rxVars>>

old_cur == (tx_cur + NUM_TX_DESC - 1) % NUM_TX_DESC

SendDone ==
  /\ pc = "wait" /\ tx[old_cur].done /\ pc' = "idle"
  /\ reported' = reported \cup {packets}
  /\ UNCHANGED <<command, net_initialized, inits, rings, enabled, tx, tx_cur,
                 TDH, TDT, packets, wire, rxVars>>

(* The loop runs out: the card may be slower than 10000 looks at the bit.  *)
SendTimeout ==
  /\ pc = "wait" /\ pc' = "idle"
  /\ UNCHANGED <<command, net_initialized, inits, rings, enabled, txVars, rxVars>>

-----------------------------------------------------------------------------
(* e1000_driver_receive, for a caller that saw net_init succeed.           *)
Receive ==
  /\ pc = "idle" /\ rings /\ rx[rx_cur].done /\ pc' = "rearm"
  /\ received' = Append(received, rx[rx_cur].buffer)
  /\ UNCHANGED <<command, net_initialized, inits, rings, enabled, txVars,
                 rx, rx_cur, RDH, RDT, accepted>>

(* Seeded fault: the descriptor's status is not reset.                     *)
RearmNothing ==
  /\ pc = "rearm" /\ pc' = "rx_tail"
  /\ UNCHANGED <<command, net_initialized, inits, rings, enabled, txVars, rxVars>>

Rearm ==
  /\ pc = "rearm" /\ pc' = "rx_tail"
  /\ rx' = [rx EXCEPT ![rx_cur].done = FALSE]
  /\ UNCHANGED <<command, net_initialized, inits, rings, enabled, txVars,
                 rx_cur, RDH, RDT, accepted, received>>

(* Seeded fault: the tail is set to the next descriptor to read.           *)
ReceiveTailNext ==
  /\ pc = "rx_tail" /\ pc' = "idle"
  /\ rx_cur' = (rx_cur + 1) % NUM_RX_DESC
  /\ RDT' = rx_cur'
  /\ UNCHANGED <<command, net_initialized, inits, rings, enabled, txVars,
                 rx, RDH, accepted, received>>

ReceiveTail ==
  /\ pc = "rx_tail" /\ pc' = "idle"
  /\ RDT' = rx_cur
  /\ rx_cur' = (rx_cur + 1) % NUM_RX_DESC
  /\ UNCHANGED <<command, net_initialized, inits, rings, enabled, txVars,
                 rx, RDH, accepted, received>>

-----------------------------------------------------------------------------
(* The card.  It owns the descriptors from head up to tail; equal registers *)
(* mean it owns none.  The bit `done' is written back only for descriptors *)
(* that asked for it (RS), which fresh ones do not.                        *)
CardTransmits ==
  /\ enabled /\ TDH # TDT
  /\ wire' = Append(wire, <<tx[TDH].buffer, tx[TDH].length>>)
  /\ tx' = [tx EXCEPT ![TDH].done = (tx[TDH].length # 0)]
  /\ TDH' = (TDH + 1) % NUM_TX_DESC
  /\ UNCHANGED <<driverVars, rings, enabled, tx_cur, TDT, packets, reported, rxVars>>

CardReceives ==
  /\ enabled /\ RDH # RDT /\ accepted < MaxFrames
  /\ accepted' = accepted + 1
  /\ rx' = [rx EXCEPT ![RDH] = [buffer |-> accepted', done |-> TRUE]]
  /\ RDH' = (RDH + 1) % NUM_RX_DESC
  /\ UNCHANGED <<driverVars, rings, enabled, txVars, rx_cur, RDT, received>>

Driver ==
  \/ \E c \in Commands : Command(c)
  \/ NoDevice \/ Reset \/ ResetTimeout \/ BringUp
  \/ SendRefused \/ SendCopy \/ SendDescribe \/ SendTail \/ SendDone \/ SendTimeout
  \/ Receive \/ Rearm \/ ReceiveTail

Next == Driver \/ CardTransmits \/ CardReceives

Spec == Init /\ [][Next]_vars

-----------------------------------------------------------------------------
TypeOK ==
  /\ pc \in {"idle", "init", "reset", "send", "describe", "tail", "wait", "rearm", "rx_tail"}
  /\ command \in Commands /\ net_initialized \in [Commands -> BOOLEAN] /\ inits \in Nat
  /\ rings \in BOOLEAN /\ enabled \in BOOLEAN
  /\ tx \in [TxSlots -> [buffer : 0..MaxSends, length : 0..MaxSends, done : BOOLEAN]]
  /\ tx_cur \in TxSlots /\ TDH \in TxSlots /\ TDT \in TxSlots
  /\ rx \in [RxSlots -> [buffer : 0..MaxFrames, done : BOOLEAN]]
  /\ rx_cur \in RxSlots /\ RDH \in RxSlots /\ RDT \in RxSlots
  /\ packets \in 0..MaxSends /\ wire \in Seq((0..MaxSends) \X (0..MaxSends))
  /\ reported \subseteq 1..packets
  /\ accepted \in 0..MaxFrames /\ received \in Seq(0..MaxFrames)

(* The card transmits whole packets, none twice and none before an earlier *)
(* one, although the driver goes on after a timeout and refills            *)
(* descriptors the card has not reached (e1000.c:156-182).                 *)
WholePacketsInOrder ==
  /\ \A k \in DOMAIN wire : wire[k][1] = wire[k][2] /\ wire[k][1] # 0
  /\ \A k \in 1..(Len(wire) - 1) : wire[k][1] < wire[k + 1][1]

(* "Packet sent" is true when it is said: the done bit is this packet's,   *)
(* not what an earlier lap left in the descriptor (e1000.c:164, 173-179).  *)
SentWasSent == reported \subseteq {wire[k][1] : k \in DOMAIN wire}

(* Every frame the card accepts is returned once, whole and in order, with *)
(* the card refilling descriptors behind the reader (e1000.c:188-206).     *)
FramesOnceInOrder == \A k \in DOMAIN received : received[k] = k

(* The card is never left without a descriptor while the driver sees no    *)
(* frame to read: receiving cannot come to a standstill (e1000.c:206).     *)
ReceiveNeverWedges ==
  enabled /\ pc = "idle" /\ RDH = RDT => rx[rx_cur].done

(* kernel.c:454, 486, 535 "Initialize network on first use": the driver is *)
(* brought up once, by whichever command comes first.                      *)
InitOnFirstUse == inits <= 1
=============================================================================
