------------------------------- MODULE Allocator -------------------------------
(***************************************************************************)
(* What kmalloc and kfree promise their callers, with no list in sight: a  *)
(* grant is an aligned run of bytes of the arena, as long as what was      *)
(* asked for, that no other holder has, until its holder gives it back.    *)
(***************************************************************************)
EXTENDS Integers

CONSTANTS ArenaStart, ArenaEnd, Sizes

VARIABLE held   \* the set of grants [ptr, asked, len] not yet given back

Address == {a \in ArenaStart..ArenaEnd : a % 4 = 0}
Length  == 0..(ArenaEnd - ArenaStart)

Grant == [ptr : Address, asked : Sizes, len : Length]

Apart(g, h) == g.ptr + g.len <= h.ptr \/ h.ptr + h.len <= g.ptr

Init == held = {}

Malloc ==
  \E g \in Grant :
    /\ g.len >= g.asked
    /\ g.ptr + g.len <= ArenaEnd
    /\ \A h \in held : g.ptr # h.ptr /\ Apart(g, h)
    /\ held' = held \cup {g}

Free == \E g \in held : held' = held \ {g}

Next == Malloc \/ Free

Spec == Init /\ [][Next]_held
=============================================================================
