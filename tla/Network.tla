-------------------------------- MODULE Network --------------------------------
(***************************************************************************)
(* kernel/net.c over the driver: net_init settles the interface's addresses *)
(* and net_ping builds an echo request for the driver to send.  The steps  *)
(* are the driver's and the card's of E1000.tla; frames[k] is the packet   *)
(* that E1000 counts as its k-th.                                          *)
(***************************************************************************)
EXTENDS E1000, NetPackets

CONSTANTS
  Typed,               \* the address typed for the k-th ping
  CardMac, FallbackMac, NoMac

ASSUME NetworkParameters ==
  /\ Len(Typed) >= MaxSends
  /\ Typed \in Seq(Seq(Seq(0..9))) /\ \A k \in DOMAIN Typed : Len(Typed[k]) \in 1..4
  /\ CardMac \notin {FallbackMac, NoMac}

VARIABLES
  net_if,              \* the interface: its mac and ip
  frames,              \* the packets built by net_ping
  log                  \* the addresses written to the serial line

netVars == <<net_if, frames, log>>

NetworkInit ==
  /\ Init
  /\ net_if = [mac |-> NoMac, ip |-> <<0, 0, 0, 0>>]
  /\ frames = <<>> /\ log = <<>>

-----------------------------------------------------------------------------
(* Seeded fault: an interface that has an address keeps it.                *)
ConfiguredOnce(mac) ==
  net_if' = IF net_if.mac = NoMac THEN [mac |-> mac, ip |-> <<10, 0, 2, 15>>] ELSE net_if

Configured(mac) == net_if' = [mac |-> mac, ip |-> <<10, 0, 2, 15>>]

(* net_init: the addresses are set whether or not the driver came up.      *)
NetInitFailed ==
  (NoDevice \/ ResetTimeout) /\ Configured(FallbackMac) /\ UNCHANGED <<frames, log>>

NetInitDone == BringUp /\ Configured(CardMac) /\ UNCHANGED <<frames, log>>

(* net_ping up to the driver's copy of the packet.                         *)
Ping ==
  /\ SendCopy \/ SendRefused
  /\ LET dest == ip_from_string(Typed[packets'])
     IN  /\ log' = Append(log, ip_to_string(dest))
         /\ frames' = Append(frames, EchoRequest(net_if, dest))
  /\ UNCHANGED net_if

DriverAlone ==
  \/ \E c \in Commands : Command(c)
  \/ Reset \/ SendDescribe \/ SendTail \/ SendDone \/ SendTimeout
  \/ Receive \/ Rearm \/ ReceiveTail
  \/ CardTransmits \/ CardReceives

NetworkNext ==
  NetInitFailed \/ NetInitDone \/ Ping \/ (DriverAlone /\ UNCHANGED netVars)

NetworkSpec == NetworkInit /\ [][NetworkNext]_<<vars, netVars>>

-----------------------------------------------------------------------------
Transmitted == {frames[wire[k][1]] : k \in {j \in DOMAIN wire : wire[j][1] # 0}}

(* A receiver that sums the headers in network order finds both checksums  *)
(* right, although this machine sums them in its own byte order and the    *)
(* carries may carry again (net.c:49-67).                                  *)
ChecksumsVerify == \A f \in Transmitted : Verifies(f.ip) /\ Verifies(f.icmp)

(* Every packet on the wire names the card as its sender.  The fallback    *)
(* address of a failed net_init stays in packets that were never sent,     *)
(* whatever order failures, retries and pings come in (net.c:8-26, 117).   *)
SourceIsCard == \A f \in Transmitted : f.src_mac = CardMac

(* The serial line names the address that was typed, where that was one:   *)
(* both conversions agree on every octet (net.c:106-108, 150-191).         *)
LoggedAsTyped == \A k \in DOMAIN log : IsAddress(Typed[k]) => log[k] = Typed[k]
=============================================================================
