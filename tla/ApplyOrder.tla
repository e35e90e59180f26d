----------------------------- MODULE ApplyOrder -----------------------------
(***************************************************************************)
(* How api.Apply orders registered resources before the privilege split    *)
(* (api/apply_order.go, api/apply_levels.go, api/apply_conflicts.go): as   *)
(* few privilege chunks as possible, no dependency on a later chunk, and a *)
(* change-gated op in the chunk of what it watches wherever that can be.   *)
(*                                                                         *)
(* An edge <<u, v>> says that v depends on u, a watch <<g, w>> that g is   *)
(* gated on changes of w.  The scratch marks of the searches and Tarjan's  *)
(* stack are left out: reachability says what they find.                   *)
(***************************************************************************)
EXTENDS PlanSplit, Integers

CONSTANT Bodies     \* the registered resources: flat plans, one op per id

VARIABLES
    body,
    phase,      \* "apply", "watch", "explain", "order", "done", "refused"
    edges,      \* the dependencies; from "order" on, parent directories too
    left,       \* watches keptWatches has not decided
    kept, dropped,
    conflicts,  \* of [watch, with]: what a dropped watch conflicts with
    out         \* the chosen order: position -> op

vars == <<body, phase, edges, left, kept, dropped, conflicts, out>>

(***************************************************************************)
(* Graphs over the ops of a body b.                                        *)
(***************************************************************************)
newDepGraph(b) ==
    {e \in (DOMAIN b) \X (DOMAIN b) :
       /\ b[e[1]].id \in b[e[2]].deps
       /\ \A i \in 1..(e[1] - 1) : b[i].id # b[e[1]].id}

sameClassWatches(b) ==
    {w \in (DOMAIN b) \X (DOMAIN b) :
       /\ b[w[1]].gated
       /\ b[w[2]].id \in b[w[1]].watch
       /\ w[1] # w[2]
       /\ b[w[1]].elevate = b[w[2]].elevate}

\* levelGraph.each: dependencies one way, watches both ways.
LevelGraph(deps, watches) == deps \cup watches \cup {<<w[2], w[1]>> : w \in watches}

\* The pairs of ops such that the first reaches the second, or is it.
Closure(b, g) ==
    LET step[n \in 0..Len(b)] ==
          IF n = 0 THEN {<<u, u>> : u \in DOMAIN b}
          ELSE LET prev == step[n - 1]
               IN  prev \cup {<<pe[1][1], pe[2][2]>> : pe \in
                               {pe \in prev \X g : pe[1][2] = pe[2][1]}}
    IN  step[Len(b)]

Crosses(b, e) == b[e[1]].elevate # b[e[2]].elevate

\* No component holds ops of both privilege classes.
watchesSatisfiable(b, deps, watches) ==
    LET g == LevelGraph(deps, watches)
        reach == Closure(b, g)
    IN  \A e \in g : <<e[2], e[1]>> \in reach => ~Crosses(b, e)

\* A walk between the ends, in either direction, through both classes.
\* Mutant: one direction is searched.
closesCrossCycleForward(b, deps, watches, p) ==
    LET g == LevelGraph(deps, watches)
        reach == Closure(b, g)
    IN  \E e \in g : Crosses(b, e) /\ {<<p[1], e[1]>>, <<e[2], p[2]>>} \subseteq reach

closesCrossCycle(b, deps, watches, p) ==
    LET g == LevelGraph(deps, watches)
        reach == Closure(b, g)
        hasCrossWalk(from, to) ==
          \E e \in g : Crosses(b, e) /\ {<<from, e[1]>>, <<e[2], to>>} \subseteq reach
    IN  hasCrossWalk(p[1], p[2]) \/ hasCrossWalk(p[2], p[1])

(***************************************************************************)
(* The explanation of a dropped watch.                                     *)
(***************************************************************************)
At(op, watches) == {w \in watches : op \in {w[1], w[2]}}

\* Watches in series: they meet at an op with no other edge.  One is needed
\* exactly if all are.
seriesUnits(b, deps, watches, p) ==
    LET plain(op) == /\ op \notin {p[1], p[2]}
                     /\ Cardinality(At(op, watches)) = 2
                     /\ \A e \in deps : op \notin {e[1], e[2]}
        grow(unit) == unit \cup UNION {At(op, watches) :
                        op \in {op \in DOMAIN b : plain(op) /\ At(op, unit) # {}}}
        unitOf(w) == LET run[n \in 0..Len(b)] == IF n = 0 THEN {w} ELSE grow(run[n - 1])
                     IN  run[Len(b)]
    IN  {unitOf(w) : w \in watches}

shrinkConflict(b, deps, watches, p) ==
    LET try(with, unit) ==
          IF closesCrossCycle(b, deps, with \ unit, p) THEN with \ unit ELSE with
    IN  FoldLeft(try, watches, SetToSeq(seriesUnits(b, deps, watches, p)))

(***************************************************************************)
(* Levels and order.                                                       *)
(***************************************************************************)
withParentDirDeps(b, deps, watches) ==
    deps \cup InferParentDirDeps(Unsplit(b)[1].lines, LevelGraph(deps, watches))

\* The lowest level of every op: even levels have the class start.  A walk
\* costs a level pair wherever it returns to that class; a component, being
\* of one class, is free to walk and so shares its level.
chunkLevels(b, deps, start, watches) ==
    LET g == LevelGraph(deps, watches)
        late(i) == IF b[i].elevate = start THEN 0 ELSE 1
        walks[n \in 0..Len(b)] ==
          IF n = 0 THEN {<<v, 0>> : v \in DOMAIN b}
          ELSE LET prev == walks[n - 1]
               IN  prev \cup {<<we[2][2], we[1][2] + late(we[2][1]) * (1 - late(we[2][2]))>> :
                               we \in {we \in prev \X g : we[1][1] = we[2][1]}}
        all == walks[Len(b)]
    IN  [i \in DOMAIN b |-> 2 * Max({w[2] : w \in {w \in all : w[1] = i}}) + late(i)]

\* Of the ops whose dependencies are placed, the lowest rank, then index.
kahn(b, deps, rank) ==
    LET ready(placed) ==
          {i \in DOMAIN b \ {placed[n] : n \in DOMAIN placed} :
             \A e \in deps : e[2] = i => \E n \in DOMAIN placed : placed[n] = e[1]}
        run[n \in 0..Len(b)] ==
          IF n = 0 THEN <<>>
          ELSE LET prev == run[n - 1]
                   rs == ready(prev)
                   first == {i \in rs : \A j \in rs :
                               rank[i] < rank[j] \/ (rank[i] = rank[j] /\ i <= j)}
               IN  IF rs = {} THEN prev ELSE Append(prev, CHOOSE i \in first : TRUE)
    IN  run[Len(b)]

cycleBlocked(b, deps) == Len(kahn(b, deps, [i \in DOMAIN b |-> 0])) < Len(b)

chunkCount(b, order) ==
    Cardinality({n \in DOMAIN order : n > 1 => b[order[n]].elevate # b[order[n - 1]].elevate})

\* Both classes are tried as the first one.
fewerChunks(b, deps, watches) ==
    LET ready == {i \in DOMAIN b : \A e \in deps : e[2] # i}
        start == b[Min(ready)].elevate
        first == kahn(b, deps, chunkLevels(b, deps, start, watches))
        other == kahn(b, deps, chunkLevels(b, deps, ~start, watches))
    IN  IF chunkCount(b, other) < chunkCount(b, first) THEN other ELSE first

(***************************************************************************)
(* applyPackagedOps and orderForPrivilegeSplit                             *)
(***************************************************************************)
Init ==
    /\ body \in Bodies
    /\ phase = "apply"
    /\ edges = {} /\ left = {} /\ kept = {} /\ dropped = {} /\ conflicts = {}
    /\ out = <<>>

\* Without an elevated op the plan goes to ApplyPlan unsorted.
ApplyUnsplit ==
    /\ phase = "apply"
    /\ ~\E i \in DOMAIN body : body[i].elevate
    /\ phase' = "done"
    /\ out' = [i \in DOMAIN body |-> i]
    /\ UNCHANGED <<body, edges, left, kept, dropped, conflicts>>

RefuseCycle ==
    /\ phase = "apply"
    /\ \E i \in DOMAIN body : body[i].elevate
    /\ cycleBlocked(body, newDepGraph(body))
    /\ phase' = "refused"
    /\ UNCHANGED <<body, edges, left, kept, dropped, conflicts, out>>

\* keptWatches: all of them if they fit together, else one after the other.
StartOrder ==
    /\ phase = "apply"
    /\ \E i \in DOMAIN body : body[i].elevate
    /\ ~cycleBlocked(body, newDepGraph(body))
    /\ edges' = newDepGraph(body)
    /\ IF watchesSatisfiable(body, newDepGraph(body), sameClassWatches(body))
       THEN kept' = sameClassWatches(body) /\ phase' = "order" /\ UNCHANGED left
       ELSE left' = sameClassWatches(body) /\ phase' = "watch" /\ UNCHANGED kept
    /\ UNCHANGED <<body, dropped, conflicts, out>>

\* In the order of the gated ops; an op lists its watches in any order.
DecideWatch ==
    /\ phase = "watch"
    /\ \E p \in left :
          /\ \A q \in left : p[1] <= q[1]
          /\ IF closesCrossCycle(body, edges, kept, p)
             THEN dropped' = dropped \cup {p} /\ UNCHANGED kept
             ELSE kept' = kept \cup {p} /\ UNCHANGED dropped
          /\ left' = left \ {p}
    /\ UNCHANGED <<body, phase, edges, conflicts, out>>

EndWatches ==
    /\ phase = "watch"
    /\ left = {}
    /\ left' = dropped
    /\ phase' = "explain"
    /\ UNCHANGED <<body, edges, kept, dropped, conflicts, out>>

\* conflictsOf, for one dropped watch.  Which conflicting walk the search
\* meets first is left open: any kept watches that conflict with it.
ExplainDropped ==
    /\ phase = "explain"
    /\ \E p \in left :
          /\ left' = left \ {p}
          /\ IF closesCrossCycle(body, edges, {}, p)
             THEN UNCHANGED conflicts
             ELSE \E with \in SUBSET kept :
                    /\ closesCrossCycle(body, edges, with, p)
                    /\ \A w \in with : <<w[2], w[1]>> \notin with
                    /\ conflicts' = conflicts \cup
                         {[watch |-> p, with |-> shrinkConflict(body, edges, with, p)]}
    /\ UNCHANGED <<body, phase, edges, kept, dropped, out>>

EndExplain ==
    /\ phase = "explain"
    /\ left = {}
    /\ phase' = "order"
    /\ UNCHANGED <<body, edges, left, kept, dropped, conflicts, out>>

Order ==
    /\ phase = "order"
    /\ edges' = withParentDirDeps(body, edges, kept)
    /\ out' = fewerChunks(body, edges', kept)
    /\ phase' = "done"
    /\ UNCHANGED <<body, left, kept, dropped, conflicts>>

Next ==
    \/ ApplyUnsplit \/ RefuseCycle \/ StartOrder
    \/ DecideWatch \/ EndWatches \/ ExplainDropped \/ EndExplain
    \/ Order

Spec == Init /\ [][Next]_vars

(***************************************************************************)
(* Reference definitions: every order of the ops.                          *)
(***************************************************************************)
Orders == Permutations(DOMAIN body)
Reordered(p) == [i \in DOMAIN p |-> body[p[i]]]

\* Two positions of an order are in one chunk.
Together(p, i, j) == \A n \in i..j : body[p[n]].elevate = body[p[i]].elevate

\* No edge into a later chunk, watches within one.
Fits(p, deps, watches) ==
    \A i, j \in DOMAIN p :
       i < j /\ (<<p[j], p[i]>> \in deps \/ {<<p[i], p[j]>>, <<p[j], p[i]>>} \cap watches # {})
       => Together(p, i, j)

Possible(deps, watches) == \E p \in Orders : Fits(p, deps, watches)

Split(p) == SplitPrivilegeChunks(Reordered(p))

\* The pre-flight and the sort of every chunk accept the order.
Accepted(p) ==
    /\ ValidateChunks(Split(p))
    /\ \A k \in DOMAIN Split(p) :
         LET lines == Split(p)[k].lines
         IN  \A e \in DepEdges(lines) : ~Reaches(DepEdges(lines), e[2], e[1], Len(lines))

\* The order honours dependencies, parent directories and kept watches, and
\* no order that does needs fewer privilege chunks.
FewestChunks ==
    phase = "done" /\ (\E i \in DOMAIN body : body[i].elevate) =>
       /\ Fits(out, edges, kept)
       /\ \A p \in Orders : Fits(p, edges, kept) => chunkCount(body, out) <= chunkCount(body, p)

\* Apply refuses a recipe only if no order of its resources is acceptable:
\* choosing the order never costs a valid recipe.
NeverRefusesValid ==
    phase \in {"done", "refused"} =>
       ((\E p \in Orders : Accepted(p)) => phase = "done" /\ Accepted(out))

\* The greedy choice keeps watches that fit together and drops only those
\* that do not fit with the kept ones.
KeptIsMaximal ==
    phase \in {"order", "done"} =>
       /\ Possible(newDepGraph(body), kept)
       /\ \A p \in dropped : ~Possible(newDepGraph(body), kept \cup {p})

\* Every explanation is a minimal conflict: the dropped watch does not fit
\* with the watches it names, and would fit without any one of them.
ConflictsMinimal ==
    \A c \in conflicts :
       LET deps == newDepGraph(body)
       IN  /\ c.with # {}
           /\ ~Possible(deps, c.with \cup {c.watch})
           /\ \A w \in c.with : Possible(deps, (c.with \ {w}) \cup {c.watch})

\* What Apply decides about the watches it cannot all keep: a largest choice
\* that fits, and an explanation of every refusal that names nothing else.
WatchChoice == KeptIsMaximal /\ ConflictsMinimal
=============================================================================
