----------------------------- MODULE PlanApply -----------------------------
(***************************************************************************)
(* Applying a plan (plan/apply.go, api/apply_chunks.go): split it into     *)
(* privilege chunks, pre-flight them, and apply chunk after chunk; each    *)
(* chunk is validated, sorted by its dependencies, checked for unmet       *)
(* requirements and then applied line by line.  An elevated chunk runs in  *)
(* a child process behind sudo or doas.                                    *)
(*                                                                         *)
(* The user may interrupt at any step, a resource may fail, a path_exists  *)
(* test may fail, and the elevated child may be killed.                    *)
(***************************************************************************)
EXTENDS PlanSplit

CONSTANTS
    Fires,      \* id -> the ids whose change note fires a watch on it
    Bodies,     \* the recorded plan bodies considered
    Entries,    \* entry points: "chunks" (ApplyChunks) and "plan" (ApplyPlan)
    Invokers,   \* [mode, root, cliHost] of the processes that apply
    MaxFaults   \* bound on failing resources, failing tests and killed children

\* A watch on an id fires on a note of that id, of its expanded form where it
\* holds a path token, and for Directory[p] of any File under p.
ASSUME FiresAssumption ==
    /\ Fires \in [Id \cup {NoId} -> SUBSET (Id \cup {NoId})]
    /\ \A i \in DOMAIN Fires : i \in Fires[i]
ASSUME BodiesAssumption == \A b \in Bodies : b \in Seq(Op)
ASSUME EntriesAssumption == Entries \subseteq {"chunks", "plan"}
ASSUME InvokersAssumption ==
    Invokers \subseteq [mode: {"none", "sudo", "doas"}, root: BOOLEAN, cliHost: BOOLEAN]
ASSUME FaultsAssumption == MaxFaults \in Nat

VARIABLES
    body,       \* the plan
    entry,      \* how it is applied
    priv,       \* the invoking process
    host,       \* the host facts that hold on the destination
    exists,     \* the destination paths that exist
    phase,      \* "start", "next", "sort", "require", "body", "done"
    chunks,
    k,          \* the chunk being applied
    preds,      \* line of chunk k -> lines that precede it (indeg, waiters)
    order,      \* the lines of chunk k in apply order
    at,         \* the next position of order
    stack,      \* of "on" and "off": the open when blocks
    notes,      \* the ids under which this apply process noted changes
    ctx,        \* "live", "canceled", "told": the elevated child knows it too
    outcome,    \* "none" until the apply returns
    log,        \* ghost: the lines passed so far, in order
    faults

vars == <<body, entry, priv, host, exists, phase, chunks, k, preds, order, at,
          stack, notes, ctx, outcome, log, faults>>
inputs == <<body, entry, priv, host>>
sorting == <<preds, order>>
world == <<exists, notes, log>>

Lines == chunks[k].lines

\* The chunk runs as `gonf apply <chunk>` behind the privilege wrapper.
InChild == chunks[k].elevate /\ ~(priv.mode = "none" /\ priv.root)

\* The context of the process that applies the chunk is done.
CtxDone == ctx = "told" \/ (ctx = "canceled" /\ ~InChild)

Return(o) == phase' = "done" /\ outcome' = o

Fault == faults < MaxFaults /\ faults' = faults + 1

Init ==
    /\ body \in Bodies
    /\ entry \in Entries
    /\ priv \in Invokers
    /\ host \in SUBSET HostFact
    /\ exists = {}
    /\ phase = "start"
    /\ chunks = <<>>
    /\ k = 1
    /\ preds = <<>>
    /\ order = <<>>
    /\ at = 1
    /\ stack = <<>>
    /\ notes = {}
    /\ ctx = "live"
    /\ outcome = "none"
    /\ log = <<>>
    /\ faults = 0

(***************************************************************************)
(* Entry points                                                            *)
(***************************************************************************)
preflightElevation(cs) ==
    (\E j \in DOMAIN cs : cs[j].elevate /\ \E i \in DOMAIN cs[j].lines :
        cs[j].lines[i].op.kind = "op" /\ cs[j].lines[i].op.id # NoId)
    => IF priv.mode = "none" THEN priv.root ELSE priv.cliHost

ApplyChunks ==
    /\ phase = "start"
    /\ entry = "chunks"
    /\ \E cs \in {SplitPrivilegeChunks(body)} :
          IF ValidateChunks(cs) /\ preflightElevation(cs)
          THEN /\ chunks' = cs
               /\ phase' = "next"
               /\ UNCHANGED outcome
          ELSE Return("refused") /\ UNCHANGED chunks
    /\ UNCHANGED <<inputs, world, sorting, k, at, stack, ctx, faults>>

ApplyPlan ==
    /\ phase = "start"
    /\ entry = "plan"
    /\ chunks' = Unsplit(body)
    /\ phase' = "next"
    /\ UNCHANGED <<inputs, world, sorting, k, at, stack, ctx, outcome, faults>>

(***************************************************************************)
(* One chunk: ApplyWithContext                                             *)
(***************************************************************************)
\* Mutant: the sort knows the declared dependencies only.
StartChunkDeclaredOnly ==
    /\ phase = "next"
    /\ k \in DOMAIN chunks
    /\ ~(InChild /\ ctx = "canceled")
    /\ IF /\ ValidOps(<<chunks[k]>>)
          /\ ValidateChangeGates(<<chunks[k]>>)
          /\ ~HasLaterDep(Lines)
       THEN /\ phase' = "sort"
            /\ preds' = Preds(Lines, DepEdges(Lines))
            /\ order' = <<>>
            /\ UNCHANGED outcome
       ELSE Return("refused") /\ UNCHANGED sorting
    /\ notes' = {}
    /\ UNCHANGED <<inputs, exists, log, chunks, k, at, stack, ctx, faults>>

\* Start the process of the chunk, validate it and reset the report.
StartChunk ==
    /\ phase = "next"
    /\ k \in DOMAIN chunks
    /\ ~(InChild /\ ctx = "canceled")
    /\ IF /\ ValidOps(<<chunks[k]>>)
          /\ ValidateChangeGates(<<chunks[k]>>)
          /\ ~HasLaterDep(Lines)
       THEN /\ phase' = "sort"
            /\ \E deps \in {DepEdges(Lines)} :
                  \E dirs \in {InferParentDirDeps(Lines, deps)} :
                     preds' = Preds(Lines, deps \cup dirs)
            /\ order' = <<>>
            /\ UNCHANGED outcome
       ELSE Return("refused") /\ UNCHANGED sorting
    /\ notes' = {}
    /\ UNCHANGED <<inputs, exists, log, chunks, k, at, stack, ctx, faults>>

\* exec.CommandContext starts nothing once its context is done.
StartChunkCanceled ==
    /\ phase = "next"
    /\ k \in DOMAIN chunks
    /\ InChild /\ ctx = "canceled"
    /\ Return("canceled")
    /\ UNCHANGED <<inputs, world, sorting, chunks, k, at, stack, ctx, faults>>

\* kahnStable: of the lines whose predecessors are placed, the earliest.
Placed == {order[i] : i \in DOMAIN order}
Ready == {i \in DOMAIN preds \ Placed : preds[i] \subseteq Placed}

SortNext ==
    /\ phase = "sort"
    /\ \E i \in Ready :
          /\ \A j \in Ready : i <= j
          /\ order' = Append(order, i)
    /\ UNCHANGED <<inputs, world, phase, chunks, k, preds, at, stack, ctx,
                   outcome, faults>>

SortCircular ==
    /\ phase = "sort"
    /\ Ready = {}
    /\ DOMAIN preds \ Placed # {}
    /\ Return("circular")
    /\ UNCHANGED <<inputs, world, sorting, chunks, k, at, stack, ctx, faults>>

SortEnd ==
    /\ phase = "sort"
    /\ DOMAIN preds \ Placed = {}
    /\ phase' = "require"
    /\ UNCHANGED <<inputs, world, sorting, chunks, k, at, stack, ctx, outcome,
                   faults>>

Holds(cond) == cond \in host \cup exists

\* The chunk in apply order.  Control lines keep their positions.
Sorted == [i \in DOMAIN order |-> Lines[order[i]].op]

checkRequirements ==
    /\ phase = "require"
    /\ LET rs == RequirementsOf(Sorted)
           unmet == {r \in rs : /\ \A s \in OpenAt(Sorted, r) : Holds(Sorted[s].cond)
                                /\ ~Holds(Sorted[r].cond)}
       IN  IF (\A r \in rs : ScopeIsHostFact(Sorted, r)) /\ unmet = {}
           THEN phase' = "body" /\ UNCHANGED outcome
           ELSE Return("requirement")
    /\ at' = 1
    /\ stack' = <<>>
    /\ UNCHANGED <<inputs, world, sorting, chunks, k, ctx, faults>>

\* A path_exists test fails while the requirements are checked.
checkRequirementsFails ==
    /\ phase = "require"
    /\ RequirementsOf(Sorted) # {}
    /\ \E i \in DOMAIN Sorted :
          /\ Sorted[i].kind = "begin"
          /\ Sorted[i].cond \in Path
          /\ \A s \in OpenAt(Sorted, i) : Holds(Sorted[s].cond)
    /\ Fault
    /\ Return("failed")
    /\ UNCHANGED <<inputs, world, sorting, chunks, k, at, stack, ctx>>

(***************************************************************************)
(* applyBody                                                               *)
(***************************************************************************)
InBody == phase = "body" /\ at <= Len(order)
Cur == Lines[order[at]]
Active == IF stack = <<>> THEN TRUE ELSE stack[Len(stack)] = "on"

\* Mutant: fires on a change noted under the watched id itself only.
AnyChangedSameId(ids) == ids \cap notes # {}

\* A change gate: fires when this process noted a change a watched id covers.
AnyChanged(ids) == \E w \in ids : Fires[w] \cap notes # {}

\* The change gate of an op holds back what it gates.
Held(op) == op.gated /\ ~AnyChanged(op.watch)

\* The current line was passed; how says what became of it, noted under which
\* ids a change of it was noted.
Pass(how, noted) ==
    /\ at' = at + 1
    /\ log' = Append(log, [line |-> order[at], at |-> Cur.at, id |-> Cur.op.id,
                           chunk |-> k, how |-> how, noted |-> noted,
                           fired |-> how \in {"same", "changed"} /\ ~Held(Cur.op)])
    /\ UNCHANGED <<inputs, sorting, phase, chunks, k, ctx, outcome, faults>>

StopBeforeLine ==
    /\ InBody
    /\ CtxDone
    /\ Return("canceled")
    /\ UNCHANGED <<inputs, world, sorting, chunks, k, at, stack, ctx, faults>>

\* The requirement test is applyLine's defensive one.
WhenBegin ==
    /\ InBody /\ ~CtxDone
    /\ Cur.op.kind = "begin"
    /\ LET ok == Active /\ Holds(Cur.op.cond)
       IN  IF Active /\ ~ok /\ Cur.op.require
           THEN /\ Return("requirement")
                /\ UNCHANGED <<inputs, log, sorting, chunks, k, at, stack, ctx, faults>>
           ELSE /\ stack' = Append(stack, IF ok THEN "on" ELSE "off")
                /\ Pass(IF ok THEN "on" ELSE "off", {})
    /\ UNCHANGED <<exists, notes>>

WhenBeginFails ==
    /\ InBody /\ ~CtxDone
    /\ Cur.op.kind = "begin"
    /\ Active /\ Cur.op.cond \in Path
    /\ Fault
    /\ Return("failed")
    /\ UNCHANGED <<inputs, world, sorting, chunks, k, at, stack, ctx>>

WhenEndLine ==
    /\ InBody /\ ~CtxDone
    /\ Cur.op.kind = "end"
    /\ stack # <<>>
    /\ stack' = SubSeq(stack, 1, Len(stack) - 1)
    /\ Pass("end", {})
    /\ UNCHANGED <<exists, notes>>

WhenEndUnmatched ==
    /\ InBody /\ ~CtxDone
    /\ Cur.op.kind = "end"
    /\ stack = <<>>
    /\ Return("unbalanced")
    /\ UNCHANGED <<inputs, world, sorting, chunks, k, at, stack, ctx, faults>>

SkipInactive ==
    /\ InBody /\ ~CtxDone
    /\ Cur.op.kind = "op"
    /\ ~Active
    /\ Pass("inactive", {})
    /\ UNCHANGED <<exists, notes, stack>>

\* A held command does nothing; a held service or timer may have nothing to do.
GateIdle ==
    /\ InBody /\ ~CtxDone
    /\ Cur.op.kind = "op"
    /\ Active
    /\ Held(Cur.op)
    /\ Pass("idle", {})
    /\ UNCHANGED <<exists, notes, stack>>

Creates(op) == {op.paths[i] : i \in DOMAIN op.paths}

\* A service or timer is enabled, started or stopped although its gate holds.
Acts == Held(Cur.op) => Cur.op.converges

\* What a change of the op is noted under fires a watch on the op.
ApplyOp ==
    /\ InBody /\ ~CtxDone
    /\ Cur.op.kind = "op"
    /\ Active
    /\ Acts
    /\ \/ Pass("same", {}) /\ UNCHANGED notes
       \/ \E noted \in SUBSET Cur.op.notes :
             /\ noted \cap Fires[Cur.op.id] # {}
             /\ Pass("changed", noted)
             /\ notes' = notes \cup noted
    /\ exists' = exists \cup Creates(Cur.op)
    /\ UNCHANGED stack

ApplyOpFails ==
    /\ InBody /\ ~CtxDone
    /\ Cur.op.kind = "op"
    /\ Active
    /\ Acts
    /\ Fault
    /\ Return("failed")
    /\ exists' \in {exists, exists \cup Creates(Cur.op)}
    /\ UNCHANGED <<inputs, notes, log, sorting, chunks, k, at, stack, ctx>>

EndChunk ==
    /\ phase = "body"
    /\ at > Len(order)
    /\ IF stack = <<>>
       THEN k' = k + 1 /\ phase' = "next" /\ UNCHANGED outcome
       ELSE Return("unbalanced") /\ UNCHANGED k
    /\ ctx' = IF ctx = "told" THEN "canceled" ELSE ctx
    /\ UNCHANGED <<inputs, world, sorting, chunks, at, stack, faults>>

ApplyReturns ==
    /\ phase = "next"
    /\ k \notin DOMAIN chunks
    /\ Return("ok")
    /\ UNCHANGED <<inputs, world, sorting, chunks, k, at, stack, ctx, faults>>

(***************************************************************************)
(* Interrupts and the elevated child                                       *)
(***************************************************************************)
Cancel ==
    /\ phase # "done"
    /\ ctx = "live"
    /\ ctx' = "canceled"
    /\ UNCHANGED <<inputs, world, sorting, phase, chunks, k, at, stack, outcome, faults>>

\* The cancel byte or the relayed SIGTERM reaches the child.
CancelReachesChild ==
    /\ phase \in {"sort", "require", "body"}
    /\ InChild
    /\ ctx = "canceled"
    /\ ctx' = "told"
    /\ UNCHANGED <<inputs, world, sorting, phase, chunks, k, at, stack, outcome, faults>>

\* The interrupt arrives while the command of an op runs, and stops it.
CancelStopsOp ==
    /\ InBody
    /\ Cur.op.kind = "op"
    /\ Active
    /\ Acts
    /\ ctx = IF InChild THEN "canceled" ELSE "live"
    /\ ctx' = IF InChild THEN "told" ELSE "canceled"
    /\ Return("canceled")
    /\ exists' \in {exists, exists \cup Creates(Cur.op)}
    /\ UNCHANGED <<inputs, notes, log, sorting, chunks, k, at, stack, faults>>

\* The chunk timeout, or the end of the cancel grace, kills the child.
ChildKilled ==
    /\ phase \in {"sort", "require", "body"}
    /\ InChild
    /\ Fault
    /\ Return("killed")
    /\ UNCHANGED <<inputs, world, sorting, chunks, k, at, stack, ctx>>

\* Splitting and starting are computations: enabled throughout their phase.
Begin == ApplyChunks \/ ApplyPlan
NextChunk == StartChunk \/ StartChunkCanceled \/ ApplyReturns

Work ==
    \/ SortNext \/ SortCircular \/ SortEnd
    \/ checkRequirements \/ checkRequirementsFails
    \/ StopBeforeLine \/ WhenBegin \/ WhenBeginFails \/ WhenEndLine
    \/ WhenEndUnmatched \/ SkipInactive \/ GateIdle \/ ApplyOp \/ ApplyOpFails
    \/ EndChunk

Environment == Cancel \/ CancelReachesChild \/ CancelStopsOp \/ ChildKilled

Next == Begin \/ NextChunk \/ Work \/ Environment

Spec == Init /\ [][Next]_vars

(***************************************************************************)
(* Properties                                                              *)
(***************************************************************************)
OpOf(e) == chunks[e.chunk].lines[e.line].op
WasApplied(e) == e.how \in {"same", "changed"}
AppliedAnything == exists # {} \/ \E i \in DOMAIN log : WasApplied(log[i])

\* An op is passed only after a line carrying each id it depends on was
\* passed, in its own chunk or an earlier one, whenever the plan carries that
\* id; and through ApplyChunks the plan always carries it.
DepsBefore ==
    \A i \in DOMAIN log : \A dep \in OpOf(log[i]).deps :
       /\ OpOf(log[i]).kind = "op"
       /\ entry = "chunks" \/ \E c \in DOMAIN chunks : Carries(chunks[c].lines, dep)
       => \E j \in 1..(i - 1) : log[j].id = dep

\* No resource is applied, in any chunk, when a requirement in an active
\* scope of the plan does not hold on the host: it is refused before the
\* first mutation, even if a later privileged chunk declares it.
RequirementsProtect ==
    (\E r \in RequirementsOf(body) :
        /\ ScopeIsHostFact(body, r)
        /\ \A s \in OpenAt(body, r) : body[s].cond \in host
        /\ body[r].cond \notin host)
    => ~AppliedAnything

\* A change a gate sees: of a watched op anywhere in the apply, or noted
\* earlier in its own chunk under an id that a watched id covers.
SeenChange(i) ==
    \E j \in 1..(i - 1) :
       /\ log[j].how = "changed"
       /\ \/ log[j].id \in OpOf(log[i]).watch
          \/ /\ log[j].chunk = log[i].chunk
             /\ \E w \in OpOf(log[i]).watch : log[j].noted \cap Fires[w] # {}

\* The gate of a command, service or timer in an entered block is open exactly
\* when an op it watches changed earlier in the apply, although each chunk has
\* a report of its own, or when its own chunk noted a change that a watched id
\* covers (a File under a watched Directory, the expansion of a path token).
\* A command runs exactly then; a service or timer converges also while its
\* restart or reload is held.
GateFires ==
    \A i \in DOMAIN log :
       OpOf(log[i]).gated /\ log[i].how \in {"idle", "same", "changed"} =>
          /\ log[i].fired <=> SeenChange(i)
          /\ OpOf(log[i]).converges \/ (WasApplied(log[i]) <=> SeenChange(i))

\* No op of its run that a gated op watches and depends on comes after it,
\* also when several ops carry the watched id.
WatchedFirst ==
    \A i, j \in DOMAIN log :
       /\ i < j
       /\ log[j].chunk = log[i].chunk
       /\ SameRun(chunks[log[i].chunk].lines, log[i].line, log[j].line)
       => log[j].id \notin OpOf(log[i]).watch \cap OpOf(log[i]).deps

\* An op recorded as privileged is applied by a privileged process, and an
\* op is so applied only if it, or an op of a block around it, asks for it.
PrivilegeKept ==
    entry = "chunks" => \A i \in DOMAIN log : LET p == log[i].at IN
       /\ p > 0 /\ body[p].elevate => chunks[log[i].chunk].elevate
       /\ p > 0 /\ chunks[log[i].chunk].elevate =>
             \/ body[p].elevate
             \/ \E s \in OpenAt(body, p) \cup {p}, e \in p..Len(body) :
                   Closes(body, s, e) /\ \E q \in s..e : body[q].elevate

Balanced(b) ==
    \A i \in DOMAIN b :
       /\ b[i].kind = "begin" => \E e \in DOMAIN b : Closes(b, i, e)
       /\ b[i].kind = "end" => \E s \in DOMAIN b : Closes(b, s, i)

\* The split never cuts a when block: a balanced plan does not end with an
\* unmatched when_begin or when_end in one of its chunks.
BlocksIntact == Balanced(body) => outcome # "unbalanced"

\* A successful apply passed every line of the plan once; an op was skipped
\* exactly when one of the blocks around it in the plan was not entered.
WholePlan ==
    /\ \A i, j \in DOMAIN log : log[i].at = log[j].at => i = j \/ log[i].at = 0
    /\ outcome = "ok" => \A p \in DOMAIN body : \E i \in DOMAIN log : log[i].at = p
    /\ Balanced(body) => \A i \in DOMAIN log :
         log[i].at > 0 /\ OpOf(log[i]).kind = "op" =>
           (log[i].how = "inactive" <=>
              \E j \in 1..(i - 1) : /\ log[j].at \in OpenAt(body, log[i].at)
                                    /\ log[j].how = "off")

\* The split into chunks changes neither who applies a line nor in which scope:
\* privileges, blocks and the set of lines are those of the plan.
ScopeKept == PrivilegeKept /\ BlocksIntact /\ WholePlan

\* The plan is applied as recorded: the split changes neither who applies a
\* line nor in which scope, and a requirement that does not hold refuses the
\* whole plan before the first mutation.
PlanKept == ScopeKept /\ RequirementsProtect

Acyclic(edges, n) == \A e \in edges : ~Reaches(edges, e[2], e[1], n)

\* A directory is applied before what is created in it, in one run, unless
\* the declared dependencies and such edges contradict each other; and such
\* edges alone never make a plan circular.
DirsFirst ==
    /\ phase = "body" =>
         LET hints == ParentEdges(Lines)
         IN  Acyclic(DepEdges(Lines) \cup hints, Len(Lines)) =>
               \A i, j \in DOMAIN order : <<order[i], order[j]>> \in hints => i < j
    /\ outcome = "circular" => ~Acyclic(DepEdges(Lines), Len(Lines))

\* The sort of a run orders more than the declared dependencies: all carriers
\* of a watched id and the parent directories.
RunOrder == WatchedFirst /\ DirsFirst

\* The claim of the comment at the sort in ApplyWithContext: a plan refused
\* by the sort leaves the destination untouched.
RefusedIsUntouched == outcome \in {"refused", "circular"} => ~AppliedAnything

(***************************************************************************)
(* The inductive invariant behind DepsBefore and GateFires.                *)
(***************************************************************************)
\* What the pre-flight, or having one chunk, establishes about the chunks.
ChunksInv ==
    \A c \in DOMAIN chunks :
       /\ DOMAIN chunks[c].lines \subseteq Int
       /\ \A i \in DOMAIN chunks[c].lines :
            LET op == chunks[c].lines[i].op
            IN  /\ \A dep \in op.deps :
                     (entry = "chunks" \/ \E d \in DOMAIN chunks : Carries(chunks[d].lines, dep))
                     => \E d \in 1..c : Carries(chunks[d].lines, dep)
                /\ \A w \in op.watch : \A d \in 1..(c - 1) :
                     op.gated => ~Carries(chunks[d].lines, w)

\* The sort in progress places no line before its predecessors.
SortInv ==
    phase \in {"sort", "require", "body"} =>
       /\ k \in DOMAIN chunks
       /\ ~HasLaterDep(Lines)
       /\ DOMAIN preds = DOMAIN Lines
       /\ \A i, j \in DOMAIN Lines :
             Barrier(Lines, i, j) \/ <<j, i>> \in DepEdges(Lines) => j \in preds[i]
       /\ order \in Seq(DOMAIN Lines)
       /\ \A n \in DOMAIN order : preds[order[n]] \subseteq {order[m] : m \in 1..(n - 1)}

LogIsSeq == \E S : log \in Seq(S)

\* The log holds lines of the chunks begun, all of the chunks before the
\* current one, and the part of the current one that was passed.
LogInv ==
    /\ k \in Nat \ {0}
    /\ phase = "start" => k = 1 /\ log = <<>>
    /\ \A n \in DOMAIN log :
         /\ log[n].chunk \in 1..k
         /\ log[n].chunk \in DOMAIN chunks
         /\ log[n].line \in DOMAIN chunks[log[n].chunk].lines
         /\ log[n].id = OpOf(log[n]).id
         /\ IF log[n].how = "changed" THEN log[n].noted \cap Fires[log[n].id] # {}
                                      ELSE log[n].noted = {}
         /\ phase \in {"next", "sort", "require"} => log[n].chunk < k
    /\ \A c \in 1..(k - 1) : \A i \in DOMAIN chunks[c].lines :
         \E n \in DOMAIN log : log[n].chunk = c /\ log[n].line = i
    /\ phase \in {"require", "body"} => DOMAIN Lines \subseteq Placed
    /\ phase = "body" =>
         /\ at \in 1..(Len(order) + 1)
         /\ \A m \in 1..(at - 1) :
              \E n \in DOMAIN log : log[n].chunk = k /\ log[n].line = order[m]

\* The report holds the changes of the current chunk, no others.
NotesInv ==
    phase \in {"sort", "require", "body"} =>
       notes = UNION {log[n].noted : n \in {n \in DOMAIN log : log[n].chunk = k}}
=============================================================================
