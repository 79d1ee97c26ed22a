------------------------------- MODULE MCNetwork -------------------------------
(* Rings of three descriptors that wrap, with more packets than descriptors *)
(* so that timeouts can fill the transmit ring.                             *)
EXTENDS Network

MCSenders == {"ping"}

(* The driver brought up by ping alone, and by every command that does it.  *)
OnlyPing == {"ping"}
AllCommands == {"ping", "ifconfig", "wget"}

(* 10.0.2.2; 240.13.240.14, whose header sum carries twice; 1.20.105.250;   *)
(* the broadcast address; a number above a byte in a short text; 010.0.0.1. *)
MCTyped == <<
  <<<<1, 0>>, <<0>>, <<2>>, <<2>>>>,
  <<<<2, 4, 0>>, <<1, 3>>, <<2, 4, 0>>, <<1, 4>>>>,
  <<<<1>>, <<2, 0>>, <<1, 0, 5>>, <<2, 5, 0>>>>,
  <<<<2, 5, 5>>, <<2, 5, 5>>, <<2, 5, 5>>, <<2, 5, 5>>>>,
  <<<<1, 0>>, <<3, 0, 0>>>>,
  <<<<0, 1, 0>>, <<0>>, <<0>>, <<1>>>> >>
=============================================================================
