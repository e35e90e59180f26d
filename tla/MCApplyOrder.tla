---------------------------- MODULE MCApplyOrder ----------------------------
(* Small recipes for the order of api.Apply. *)
EXTENDS Naturals, FiniteSetsExt

CONSTANT NoId
VARIABLES body, phase, edges, left, kept, dropped, conflicts, out

Ids == {"a", "b", "c", "d", "e"}
Letters == <<"a", "b", "c", "d", "e">>
Paths == {"/d", "/d/f"}
ParentChain == [p \in Paths |-> IF p = "/d/f" THEN <<"/d">> ELSE <<>>]

\* n ops of the given classes, with a set of dependencies and of watches.
Recipe(classes, deps, watches) ==
    [i \in DOMAIN classes |->
       LET watched == {Letters[w[2]] : w \in {w \in watches : w[1] = i}}
       IN  [kind |-> "op", id |-> Letters[i],
            deps |-> {Letters[e[1]] : e \in {e \in deps : e[2] = i}},
            gated |-> watched # {}, watch |-> watched,
            elevate |-> classes[i], cond |-> "linux", require |-> FALSE, valid |-> TRUE,
            paths |-> <<>>, makesDir |-> FALSE]]

UpTo(n, S) == UNION {kSubset(k, S) : k \in 0..n}
Pairs(n) == {p \in (1..n) \X (1..n) : p[1] # p[2]}

\* Four ops of any classes, at most three dependencies, one watch.
SplitBodies ==
    {Recipe(c, d, w) : c \in [1..4 -> BOOLEAN], d \in UpTo(3, Pairs(4)),
                       w \in {{}, {<<1, 2>>}, {<<3, 2>>, <<4, 1>>}}}
    \cup {Recipe(<<FALSE, TRUE>>, {<<1, 1>>}, {})}

\* Four unprivileged ops that may watch each other, one elevated op between.
ConflictBodies ==
    {Recipe(<<FALSE, FALSE, FALSE, FALSE, TRUE>>, d, w) :
        d \in UpTo(3, {<<1, 5>>, <<5, 2>>, <<3, 5>>, <<4, 2>>, <<5, 4>>}),
        w \in UpTo(4, {<<1, 2>>, <<1, 3>>, <<2, 3>>, <<3, 2>>, <<3, 4>>, <<4, 2>>})}

\* A directory and two files in it, of any classes.
DirBodies ==
    {LET r == Recipe(c, d, w)
     IN  [i \in DOMAIN r |-> [r[i] EXCEPT !.paths = IF i = 4 THEN <<"/d">>
                                                    ELSE IF i <= 2 THEN <<"/d/f">> ELSE <<>>,
                                          !.makesDir = (i = 4)]] :
        c \in [1..4 -> BOOLEAN], d \in UpTo(2, Pairs(4)), w \in {{}, {<<1, 2>>}, {<<1, 4>>}}}

INSTANCE ApplyOrder WITH
    Bodies <- SplitBodies \cup ConflictBodies \cup DirBodies,
    Id <- Ids, HostFact <- {"linux"}, Path <- Paths, AncestorsOf <- ParentChain
=============================================================================
