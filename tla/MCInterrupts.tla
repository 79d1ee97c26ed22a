------------------------------ MODULE MCInterrupts ------------------------------
(* Timer, keyboard, and one line of the second controller; a fault with and *)
(* one without an error code; words that hit an entry of the table, miss,   *)
(* ask for an end of interrupt at the second controller, or lie past it.    *)
EXTENDS Interrupts

MCLines == {0, 1, 12}
MCFaults == {0, 13}
MCWords == {7, 32, 33, 44, 300}
=============================================================================
