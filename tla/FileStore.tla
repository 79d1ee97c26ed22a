------------------------------- MODULE FileStore -------------------------------
(***************************************************************************)
(* What the file system promises its callers: a bounded map from names to  *)
(* contents.  A file that was never written, or whose last write found no  *)
(* memory, has no content.                                                 *)
(***************************************************************************)
EXTENDS FiniteSets, Integers

CONSTANTS Names, Contents, NoContent, MaxFiles

VARIABLE store

Init == DOMAIN store \subseteq Names /\ \A n \in DOMAIN store : store[n] \in Contents

Set(n, v) == store' = [m \in DOMAIN store \cup {n} |-> IF m = n THEN v ELSE store[m]]

Create(n) ==
  n \notin DOMAIN store /\ Cardinality(DOMAIN store) < MaxFiles /\ Set(n, NoContent)

Write(n, c) == n \in DOMAIN store /\ Set(n, c)

WriteFails(n) == n \in DOMAIN store /\ Set(n, NoContent)

Delete(n) ==
  n \in DOMAIN store /\ store' = [m \in DOMAIN store \ {n} |-> store[m]]

Next ==
  \E n \in Names :
    Create(n) \/ WriteFails(n) \/ Delete(n) \/ \E c \in Contents : Write(n, c)

Spec == Init /\ [][Next]_store
=============================================================================
