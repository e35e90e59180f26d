----------------------------- MODULE PlanSplit -----------------------------
(***************************************************************************)
(* The pure part of the plan engine (plan/split.go, plan/require.go,       *)
(* plan/pathdeps.go and the graph half of plan/apply.go): how a recorded   *)
(* plan body is cut into privilege chunks, what the pre-flight refuses,    *)
(* and which lines of a chunk must precede which.                          *)
(*                                                                         *)
(* A body is a sequence of ops, a chunk a record of its privilege and its  *)
(* lines; a line is an op with the body position it was recorded at (0 for *)
(* the copies hoistRequirements makes).  The plan header is left out: it   *)
(* is the same for every chunk.                                            *)
(***************************************************************************)
EXTENDS Naturals, Sequences, FiniteSets, SequencesExt

CONSTANTS
    Id,         \* resource ids
    NoId,
    HostFact,   \* goos, profile and hostname predicates
    Path,       \* destination paths: created by ops, tested by path_exists
    AncestorsOf \* path -> its strict ancestors in Path, nearest first

ASSUME FactsAssumption == HostFact \cap Path = {}
ASSUME AncestorsAssumption ==
    \A p \in Path : \A i \in DOMAIN AncestorsOf[p] : AncestorsOf[p][i] # p

\* One plan line.  gated/watch: change gate; converges: a service or timer,
\* whose gate holds back its restart or reload only; notes: the ids a change
\* may be noted under (a tree notes its files, a path token its expansion);
\* cond/require: of a when_begin; paths: what the op creates, makesDir: it is
\* a dir, sync_dir or ensure_dir; valid: passes the per-op checks (negated OS,
\* service enable-only).
Op == [kind: {"op", "begin", "end"}, id: Id \cup {NoId}, deps: SUBSET Id,
       gated: BOOLEAN, watch: SUBSET Id, converges: BOOLEAN,
       notes: SUBSET (Id \cup {NoId}), elevate: BOOLEAN,
       cond: HostFact \cup Path, require: BOOLEAN, valid: BOOLEAN,
       paths: Seq(Path), makesDir: BOOLEAN]

IsControlKind(op) == op.kind \in {"begin", "end"}

WhenEnd(begin) == [begin EXCEPT !.kind = "end", !.require = FALSE, !.id = NoId]

OpsOf(lines) == [i \in DOMAIN lines |-> lines[i].op]

\* The numbers of a finite set, in ascending order.
Ascending(S) ==
    [i \in 1..Cardinality(S) |-> CHOOSE x \in S : Cardinality({y \in S : y < x}) = i - 1]

(***************************************************************************)
(* Matching of when_begin and when_end, as the stacks of effectiveElevate, *)
(* ValidateRequirementScopes, requirementStubs and applyLine do it.        *)
(***************************************************************************)
Count(b, kind, i, j) == Cardinality({n \in i..j : b[n].kind = kind})

Closes(b, s, e) ==
    /\ s < e
    /\ b[s].kind = "begin"
    /\ b[e].kind = "end"
    /\ Count(b, "begin", s + 1, e - 1) = Count(b, "end", s + 1, e - 1)
    /\ \A m \in (s + 1)..(e - 1) :
          Count(b, "end", s + 1, m) <= Count(b, "begin", s + 1, m)

\* The when_begin lines still open before line i.
OpenAt(b, i) ==
    {s \in 1..(i - 1) : /\ b[s].kind = "begin"
                        /\ \A e \in (s + 1)..(i - 1) : ~Closes(b, s, e)}

(***************************************************************************)
(* Requirements and the privilege split.                                   *)
(***************************************************************************)
RequirementsOf(b) == {i \in DOMAIN b : b[i].kind = "begin" /\ b[i].require}

\* A requirement and every block around it use host facts only.
ScopeIsHostFact(b, r) == \A s \in OpenAt(b, r) \cup {r} : b[s].cond \in HostFact

\* Requirement r inside the openers around it, with an empty body.
Stub(b, r) ==
    LET chain == Ascending(OpenAt(b, r) \cup {r})
        depth == Len(chain)
    IN  [i \in 1..(2 * depth) |->
           [op |-> IF i <= depth THEN b[chain[i]]
                                 ELSE WhenEnd(b[chain[2 * depth + 1 - i]]),
            at |-> 0]]

requirementStubs(b) ==
    LET rs == Ascending({r \in RequirementsOf(b) : ScopeIsHostFact(b, r)})
    IN  FlattenSeq([i \in DOMAIN rs |-> Stub(b, rs[i])])

\* The stubs of the chunks after k.
Pending(parts, k) ==
    LET stubs == [j \in DOMAIN parts |-> requirementStubs(OpsOf(parts[j].lines))]
    IN  FlattenSeq(SubSeq(stubs, k + 1, Len(parts)))

\* Mutant: chunks keep only their own requirements.
hoistNothing(parts) == parts

hoistRequirements(parts) ==
    [k \in DOMAIN parts |-> [elevate |-> parts[k].elevate,
                             lines |-> Pending(parts, k) \o parts[k].lines]]

\* A block with an elevated op in it is elevated as a whole.
effectiveElevate(b) ==
    [i \in DOMAIN b |->
       \/ b[i].elevate
       \/ \E s \in 1..i, e \in i..Len(b) :
             Closes(b, s, e) /\ \E j \in s..e : b[j].elevate]

Line(b, i) == [op |-> b[i], at |-> i]

\* The body cut where the effective privilege changes.
PrivilegeParts(b) ==
    LET eff == effectiveElevate(b)
        starts == Ascending({i \in DOMAIN b : i > 1 => eff[i] # eff[i - 1]})
        stop(k) == IF k = Len(starts) THEN Len(b) ELSE starts[k + 1] - 1
    IN  [k \in DOMAIN starts |->
           [elevate |-> eff[starts[k]],
            lines |-> [j \in 1..(stop(k) + 1 - starts[k]) |->
                         Line(b, starts[k] + j - 1)]]]

SplitPrivilegeChunks(b) ==
    IF b = <<>>
    THEN <<[elevate |-> FALSE, lines |-> <<>>]>>
    ELSE hoistRequirements(PrivilegeParts(b))

\* A whole body as one chunk, the way `gonf apply <plan>` takes it.
Unsplit(b) == <<[elevate |-> FALSE, lines |-> [i \in DOMAIN b |-> Line(b, i)]]>>

(***************************************************************************)
(* The pre-flight.                                                         *)
(***************************************************************************)
Carries(lines, id) == \E i \in DOMAIN lines : lines[i].op.id = id

ValidOps(chunks) == \A k \in DOMAIN chunks :
    \A i \in DOMAIN chunks[k].lines : chunks[k].lines[i].op.valid

ValidateChunkDeps(chunks) == \A k \in DOMAIN chunks :
    \A i \in DOMAIN chunks[k].lines : \A dep \in chunks[k].lines[i].op.deps :
       \E j \in 1..k : Carries(chunks[j].lines, dep)

ValidateChangeGates(chunks) == \A k \in DOMAIN chunks :
    \A i \in DOMAIN chunks[k].lines :
       LET op == chunks[k].lines[i].op
       IN  op.gated =>
             /\ op.watch # {}
             /\ \A w \in op.watch : /\ Carries(chunks[k].lines, w)
                                    /\ \A j \in 1..(k - 1) : ~Carries(chunks[j].lines, w)

ValidateRequirementScopes(chunks) == \A k \in DOMAIN chunks :
    LET b == OpsOf(chunks[k].lines)
    IN  \A r \in RequirementsOf(b) : ScopeIsHostFact(b, r)

ValidateChunks(chunks) ==
    /\ ValidOps(chunks)
    /\ ValidateChunkDeps(chunks)
    /\ ValidateChangeGates(chunks)
    /\ ValidateRequirementScopes(chunks)

(***************************************************************************)
(* The dependency graph of one chunk.  A run is a maximal stretch of       *)
(* resource ops between control lines; only ops of a run are reordered.    *)
(***************************************************************************)
SameRun(lines, i, j) == \A n \in i..j \cup j..i : ~IsControlKind(lines[n].op)

RunOf(lines, i) == {j \in DOMAIN lines : SameRun(lines, i, j)}

\* Mutant: the dependency of a run's first op is not looked at.
HasLaterDepSkipsFirst(lines) ==
    \E i \in DOMAIN lines : \E dep \in lines[i].op.deps :
       /\ i > 1 /\ ~IsControlKind(lines[i].op) /\ ~IsControlKind(lines[i - 1].op)
       /\ Carries(lines, dep)
       /\ \A j \in DOMAIN lines :
             lines[j].op.id = dep => j > i /\ j \notin RunOf(lines, i)

\* An op of a run depends on an id that only a later run carries.
HasLaterDep(lines) ==
    \E i \in DOMAIN lines : \E dep \in lines[i].op.deps :
       /\ ~IsControlKind(lines[i].op)
       /\ Carries(lines, dep)
       /\ \A j \in DOMAIN lines :
             lines[j].op.id = dep => j > i /\ j \notin RunOf(lines, i)

\* <<j, i>>: i waits for j.
DepEdges(lines) ==
    {e \in (DOMAIN lines) \X (DOMAIN lines) :
       /\ SameRun(lines, e[1], e[2])
       /\ lines[e[1]].op.id \in lines[e[2]].op.deps}

Reaches(edges, from, to, n) ==
    LET step[k \in 0..n] ==
          IF k = 0 THEN {from}
          ELSE LET prev == step[k - 1]
               IN  prev \cup {e[2] : e \in {e \in edges : e[1] \in prev}}
    IN  to \in step[n]

\* The directory ops of i's run at the nearest ancestor of path p they create.
nearestProviders(lines, i, p) ==
    LET makes(j, n) == lines[j].op.makesDir /\ lines[j].op.paths = <<AncestorsOf[p][n]>>
        known == {n \in DOMAIN AncestorsOf[p] : \E j \in RunOf(lines, i) : makes(j, n)}
    IN  {j \in RunOf(lines, i) \ {i} :
            \E n \in known : makes(j, n) /\ \A m \in known : n <= m}

\* The directory ops of i's run that what i creates lies in.
Parents(lines, i) ==
    UNION {nearestProviders(lines, i, lines[i].op.paths[n]) : n \in DOMAIN lines[i].op.paths}

\* <<d, i>>: op i creates something in the directory of d.
ParentEdges(lines) == UNION {Parents(lines, i) \X {i} : i \in DOMAIN lines}

\* Op after op; an edge that would close a cycle is dropped.  The edges into
\* one op do not change what it reaches, so they are tried together.
InferParentDirDeps(lines, deps) ==
    LET edges[i \in 0..Len(lines)] ==
          IF i = 0 THEN {}
          ELSE edges[i - 1] \cup
                 {d \in Parents(lines, i) :
                    ~Reaches(deps \cup edges[i - 1], i, d, Len(lines))} \X {i}
    IN  edges[Len(lines)]

\* Lines on the other side of a control line stay there.
Barrier(lines, i, j) == j < i /\ ~SameRun(lines, j, i)

\* For every line, the lines that must be placed before it.
Preds(lines, edges) ==
    [i \in DOMAIN lines |->
       {j \in DOMAIN lines : Barrier(lines, i, j) \/ <<j, i>> \in edges}]
=============================================================================
