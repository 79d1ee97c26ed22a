------------------------------- MODULE MCKeyboard -------------------------------
(* A ring of three slots (two keys), so that it fills and wraps.           *)
EXTENDS Keyboard

(* kernel_main's loop on the kernel as built, where an interrupt may or may *)
(* not find the handler.                                                   *)
AsBuilt == [sends |-> {"letter"}, runs |-> BOOLEAN, asks |-> {TRUE}]

(* The port left to the main loop, by either way into keyboard_getchar.    *)
PortPolled == [sends |-> Bytes, runs |-> {FALSE}, asks |-> BOOLEAN]

MCSetups == {AsBuilt, PortPolled}
OnlyAsBuilt == {AsBuilt}
=============================================================================
