---------------------------- MODULE MCConfigSet ----------------------------
(* Small instances of ConfigSet for TLC. *)
EXTENDS ConfigSet, TLC

CONSTANTS a, b, p1, p2, c1, c2

\* Two members in two directories, declared in both orders.
TwoDirs == (a :> 2) @@ (b :> 1)
BothOrders == {<<a, b>>, <<b, a>>}
\* The same, and a set that shares only the directory locked last.
Overlapping == BothOrders \cup {<<a>>}

\* What goes wrong in one behaviour: one call fails while any two sets are
\* published concurrently; one call and a kill, when both processes publish the
\* same set; any two of failing calls, a kill, a power loss and an edit, when
\* one process runs at a time.
SameSet == \A q \in Proc : mem[q] \in {<<>>, <<a, b>>}
OneAtATime == Cardinality({q \in Proc : pc[q] # "idle"}) <= 1
Stories ==
    \/ faults <= 1 /\ kills + losses + edits = 0
    \/ SameSet /\ faults <= 1 /\ losses + edits = 0
    \/ SameSet /\ OneAtATime /\ faults + kills + losses + edits <= 2

Symmetric == Permutations(Proc) \cup Permutations(Content)
=============================================================================
