------------------------------ MODULE Recording ------------------------------
(***************************************************************************)
(* How a recipe becomes a plan: the task registry (api/task.go,            *)
(* task_alias.go, aggregate.go, task_needs.go, methods.go), one recording  *)
(* of a list of tasks (api/plan.go, api/packager.go, plan/record.go), the  *)
(* resource repository it borrows (resource/repository.go), and what the   *)
(* process does next with the outcome: a local Run, a push, a plan         *)
(* directory (api/stage.go) or a direct Apply (api/resource.go).           *)
(*                                                                         *)
(* A recording runs task bodies that record other tasks, so it is written  *)
(* as recursive operators over the session record `s`; each returns the    *)
(* session it leaves and the Go error it returns ("none" for nil).         *)
(***************************************************************************)
EXTENDS Naturals, Sequences, FiniteSets, SequencesExt

CONSTANTS
    NameOrder,  \* every task name the recipe may use, in sorted order
    Universe,   \* the registering calls it may make: sequences of candidates
    Calls,      \* the recordings it may ask for: <<task list, mode>>
    TopIds,     \* the resources main may declare outside any task
    HeldHere,   \* the serializable guards that hold on this host
    MaxTasks,   \* how many registrations are made
    MaxEdits    \* how often a source file may change on disk

VARIABLES
    tasks,      \* the queued candidates
    first,      \* declerr: a declaration error is sticky
    repo,       \* the process's resource repository: id -> who declared it
    failed,     \* lastRecordFailure # nil
    version,    \* content version of the source files (a blob of 0: none)
    planDir,    \* blob ref -> content version in the plan directory
    planFile,   \* the blobs its plan.jsonl refers to, as recorded
    last,       \* the last recording: request, mode, session, outcome
    applied,    \* what the last successful Apply applied
    \* history, for the properties only
    declared,   \* what main declared outside recordings
    owed,       \* a recording failed and none succeeded since
    torn        \* a commit into planDir failed half way

vars == <<tasks, first, repo, failed, version, planDir, planFile, last,
          applied, declared, owed, torn>>

None == "none"

-----------------------------------------------------------------------------
(* The registry.                                                           *)

Exists(n) == \E c \in tasks : c.name = n

Find(n) == CHOOSE c \in tasks : c.name = n

\* The task a method reference names: the method's only registration, or the
\* one under the dependent's prefix.
MethodTaskName(reg, e) ==
    LET of == {c.name : c \in {d \in reg : d.method = e.method}}
    IN  IF Cardinality(of) = 1 THEN CHOOSE n \in of : TRUE
        ELSE IF e.rel \in of THEN e.rel ELSE None

\* A plain name is tried relative to the dependent's prefix first.
ResolveNeed(reg, e) ==
    LET names == {c.name : c \in reg}
    IN  IF e.method # None THEN MethodTaskName(reg, e)
        ELSE IF e.rel \in names THEN e.rel
        ELSE IF e.full \in names THEN e.full ELSE None

NeedEdges(reg, c) ==
    IF c.kind = "alias" THEN {c.target}
    ELSE {ResolveNeed(reg, c.needs[i]) : i \in DOMAIN c.needs} \ {None}

\* Every name reached from the names S along the edges of a registry (a
\* function from its names to sets of names), S included.
RECURSIVE Reach(_, _)
Reach(edges, S) ==
    LET next == S \cup UNION {edges[n] : n \in S \cap DOMAIN edges}
    IN  IF next = S THEN S ELSE Reach(edges, next)

NeedGraph(reg) ==
    [n \in {c.name : c \in reg} |->
        NeedEdges(reg, CHOOSE c \in reg : c.name = n)]

\* No need of itself and no Needs cycle through the candidate c about to be
\* queued.
CheckNeeds(reg, c) ==
    LET all == reg \cup {c}
    IN  c.needs = <<>> \/ c.name \notin Reach(NeedGraph(all), NeedEdges(all, c))

CheckAlias(reg, c) ==
    /\ c.target # c.name
    /\ \A d \in reg : d.name = c.target => c.name \notin Range(d.members)

CheckAggregateMembers(reg, c) ==
    /\ c.members # <<>>
    /\ c.name \notin Range(c.members)
    /\ IsInjective(c.members)
    /\ \A d \in reg : d.name \in Range(c.members) => d.target # c.name

\* Task, Alias and AggregateTasks refuse misuse, a nil option or a companion of
\* the wrong signature included, instead of queueing a weaker task.
Registrable(reg, c) ==
    /\ ~c.misuse
    /\ c.kind = "alias" => CheckAlias(reg, c)
    /\ c.kind = "tasks" => CheckAggregateMembers(reg, c)
    /\ c.kind = "task" => CheckNeeds(reg, c)
    /\ \A d \in reg : d.name # c.name

\* The registrations of one call in order: [reg, bad], bad when one of them was
\* refused.
Registered(reg, cs) ==
    FoldLeft(LAMBDA acc, c : IF Registrable(acc.reg, c)
                             THEN [acc EXCEPT !.reg = @ \cup {c}]
                             ELSE [acc EXCEPT !.bad = TRUE],
             [reg |-> reg, bad |-> FALSE], cs)

\* resolveAlias: one level only, an alias of an alias is broken.
ResolveAlias(n) ==
    IF ~Exists(n) \/ Find(n).kind # "alias" THEN n
    ELSE LET t == Find(n).target
         IN  IF Exists(t) /\ Find(t).kind # "alias" THEN t ELSE None

\* Activate: an opaque predicate decides, a serializable guard never does;
\* an alias is active with its target.
Active(n) ==
    LET t == ResolveAlias(n)
    IN  t # None /\ Exists(t) /\ Find(t).opaque # "fails"

\* What recording a task records through registrations alone.
RecordGraph(reg) ==
    [n \in {c.name : c \in reg} |->
        LET c == CHOOSE d \in reg : d.name = n
        IN  NeedEdges(reg, c) \cup Range(c.members)]

\* Mutant: only the matched task's own mark counts.
OperationalByNameOnly(n) == \E c \in tasks : c.operational /\ c.name = n

ContainsOperational(n) ==
    \E c \in tasks : c.operational /\ c.name \in Reach(RecordGraph(tasks), {n})

\* skippedOnLocalDestination: only a local Run resolves a member's guard now.
SkipLocal(mode, n) ==
    LET t == ResolveAlias(n)
    IN  /\ mode = "run"
        /\ t # None /\ Exists(t)
        /\ Find(t).guard \notin HeldHere \cup {None}

PatternMembers(mode, c) ==
    SelectSeq(NameOrder,
        LAMBDA n : /\ n \in c.matches /\ Exists(n) /\ Active(n)
                   /\ n # c.name /\ ResolveAlias(n) # c.name
                   /\ ~ContainsOperational(n)
                   /\ ~SkipLocal(mode, n))

BrokenMember(c) ==
    \E n \in Range(c.members) : ~Exists(n) \/ ResolveAlias(n) = None

ActiveMembers(mode, c) ==
    SelectSeq(c.members, LAMBDA n : Active(n) /\ ~SkipLocal(mode, n))

-----------------------------------------------------------------------------
(* The recording session.                                                  *)

NewSession(mode) ==
    [mode |-> mode, ops |-> <<>>, stack |-> <<>>, elevate |-> FALSE,
     seenOn |-> FALSE, seen |-> {}, recorded |-> {}, viaNeeds |-> {},
     cycleErr |-> FALSE, bodyErr |-> FALSE, packErr |-> FALSE,
     opaqueOnly |-> {}, repo |-> {}, drafts |-> {},
     sink |-> TRUE, first |-> FALSE, panicked |-> FALSE,
     \* history: the resources registered, the bodies recorded, the innermost one, the innermost that
     \* is not an aggregate with the stack depth it runs at, the Run list
     \* being recorded, and whether anything at all went wrong
     ids |-> {}, log |-> <<>>, cur |-> 0, env |-> 0, base |-> 0, lists |-> 0, list |-> 0,
     trouble |-> FALSE]

Ok(s) == [s |-> s, err |-> None]
Fail(s, e) == [s |-> [s EXCEPT !.trouble = TRUE], err |-> e]

\* The early return of an error: what comes next sees the session only.
Then(r, Rest(_)) == IF r.err # None THEN r ELSE Rest(r.s)

Emit(s, op) == [s EXCEPT !.ops = Append(@, op)]

Op(kind, id, s) ==
    [op |-> kind, id |-> id, elevate |-> s.elevate, guard |-> None,
     watch |-> {}, blob |-> 0, by |-> s.cur]

IsControl(op) == op.op \in {"when_begin", "when_end"}

\* declerr.Report: captured by the session, or sticky when a body lost the
\* session's sink.
Report(s) ==
    [s EXCEPT !.trouble = TRUE,
              !.bodyErr = @ \/ s.sink,
              !.first = @ \/ ~s.sink]

\* packageDraft lowers the draft, packs its source and scans it for secrets.
Packaged(step) == ~step.unpackable

\* recordSessionDraft: the first packaging failure ends all recording.
RecordDraft(s, step, op) ==
    IF s.packErr THEN s
    ELSE LET d == [s EXCEPT !.drafts = @ \cup {step.id}]
         IN  IF Packaged(step) THEN Emit(d, op)
             ELSE [d EXCEPT !.packErr = TRUE, !.trouble = TRUE]

\* plan.AmendRecorded: the recorded reload absorbs a further declaration only
\* while no control op and no other privilege was recorded since.
AmendReload(s, step) ==
    LET at == {i \in DOMAIN s.ops : s.ops[i].id = step.id}
        i == CHOOSE j \in at : \A k \in at : k <= j
        after == {s.ops[k] : k \in {j \in DOMAIN s.ops : j > i}}
    IN  IF s.packErr \/ at = {} THEN s
        ELSE IF \/ \E o \in after : IsControl(o) \/ o.elevate # s.ops[i].elevate
                \/ s.elevate # s.ops[i].elevate
               THEN Report(s)
               ELSE [s EXCEPT !.ops[i].watch = @ \cup {step.watch}]

\* resource.Register and the draft a registering constructor emits after it.
RegisterStep(s, step) ==
    LET r == [s EXCEPT !.repo = @ \cup {step.id}, !.ids = @ \cup {step.id}]
        b == IF step.blob THEN version ELSE 0
    IN  IF step.id \in s.repo THEN Report(s)
        ELSE IF step.drafted
               THEN RecordDraft(r, step, [Op("file", step.id, s) EXCEPT !.blob = b])
               ELSE r

\* systemd.Present: the reload of a bus is one per recipe scope.
ReloadStep(s, step) ==
    IF step.id \in s.repo THEN AmendReload(s, step)
    ELSE RecordDraft([s EXCEPT !.repo = @ \cup {step.id}], step,
             [Op("daemon_reload", step.id, s) EXCEPT !.watch = {step.watch}])

\* WhenHostname and WhenPathExists open a scope of their own.
WhenStep(s, step) ==
    [Emit(s, [Op("when_begin", step.id, s) EXCEPT !.elevate = FALSE])
        EXCEPT !.repo = {}]

\* requireGOOS keeps the surrounding scope.
RequireStep(s, step) == Emit(s, [Op("when_begin", step.id, s) EXCEPT !.elevate = FALSE])

EndStep(s, step) == Emit(s, [Op("when_end", step.id, s) EXCEPT !.elevate = FALSE])

\* A body that calls resource.ResetForTest loses the session's error sink.
ResetStep(s) == [s EXCEPT !.repo = {}, !.sink = FALSE, !.first = FALSE]

\* One statement of a task body that is not a nested Run.
BodyStep(s, step) ==
    CASE step.k = "res" -> RegisterStep(s, step)
      [] step.k = "reload" -> ReloadStep(s, step)
      [] step.k = "when" -> WhenStep(s, step)
      [] step.k = "require" -> RequireStep(s, step)
      [] step.k = "end" -> EndStep(s, step)
      [] step.k = "misuse" -> Report(s)
      [] step.k = "reset" -> ResetStep(s)
      [] step.k = "panic" -> [s EXCEPT !.panicked = TRUE, !.trouble = TRUE]

\* Mutant: a nested Run's error is only returned to the body.
PropagateNothing(s, err) == s

\* recordNestedRun's propagateNestedRunError: an error no stash carries yet is
\* stashed, so the enclosing body fails although it ignored it.
Propagate(s, err) ==
    LET carried == \/ err = "cycle" /\ s.cycleErr
                   \/ err = "pack" /\ s.packErr
                   \/ err = "body" /\ s.bodyErr
    IN  IF err = None \/ carried THEN s ELSE [s EXCEPT !.bodyErr = TRUE]

\* The Go error runTaskBody returns when a body's fn came back.
BodyOutcome(s) ==
    IF s.panicked THEN "panic"
    ELSE IF s.cycleErr THEN "cycle"
    ELSE IF s.bodyErr THEN "body"
    ELSE IF s.packErr THEN "pack"
    ELSE IF s.repo \subseteq s.drafts THEN None ELSE "undrafted"

RECURSIVE RecordList(_, _), RecordNames(_, _), RecordName(_, _, _),
          RecordNeeds(_, _), RecordMembers(_, _), BodySteps(_, _)

\* recordTaskBodies: one Run list is one Needs scope of its own.
RecordList(s, names) ==
    [RecordNames([s EXCEPT !.recorded = {}, !.viaNeeds = {},
                           !.lists = @ + 1, !.list = s.lists + 1], names)
        EXCEPT !.s.recorded = s.recorded, !.s.viaNeeds = s.viaNeeds, !.s.list = s.list]

RecordNames(s, names) ==
    IF names = <<>> THEN Ok(s)
    ELSE Then(IF ResolveAlias(Head(names)) \in s.viaNeeds THEN Ok(s)   \* skipNeeded
              ELSE RecordName(s, Head(names), "list"),
              LAMBDA t : RecordNames([t EXCEPT !.recorded = @ \cup {ResolveAlias(Head(names))}],
                                     Tail(names)))

\* Mutant: a member an aggregate recorded is not noted for the Needs after it.
MembersUnnoted(s, names) ==
    IF names = <<>> THEN Ok(s)
    ELSE LET n == ResolveAlias(Head(names))
         IN  Then(IF n \in s.seen THEN Ok(s) ELSE RecordName(s, Head(names), "member"),
                  LAMBDA t : RecordMembers([t EXCEPT !.seen = @ \cup {n}], Tail(names)))

\* recordAggregate's loop; only finished members count as recorded.
RecordMembers(s, names) ==
    IF names = <<>> THEN Ok(s)
    ELSE LET n == ResolveAlias(Head(names))
         IN  Then(IF n \in s.seen THEN Ok(s) ELSE RecordName(s, Head(names), "member"),
                  LAMBDA t : RecordMembers([t EXCEPT !.seen = @ \cup {n},
                                                     !.recorded = @ \cup {n}], Tail(names)))

\* An aggregate's body: the outermost one of a tree owns the dedupe scope,
\* and a failure is stashed because the body cannot return it.
AggregateBody(s, c) ==
    LET members == IF c.kind = "pattern" THEN PatternMembers(s.mode, c)
                   ELSE ActiveMembers(s.mode, c)
        stashed(r) == [r.s EXCEPT !.bodyErr = @ \/ r.err \notin {None, "panic"},
                                  !.seenOn = s.seenOn,
                                  !.seen = IF s.seenOn THEN @ ELSE {}]
    IN  stashed(IF (c.kind = "tasks" /\ BrokenMember(c)) \/ members = <<>>
                THEN Fail(s, "aggregate")
                ELSE RecordMembers([s EXCEPT !.seenOn = TRUE], members))

BodySteps(s, steps) ==
    IF steps = <<>> \/ s.panicked THEN s
    ELSE LET run(r) == Propagate(r.s, r.err)
         IN  BodySteps(IF Head(steps).k = "run" THEN run(RecordList(s, Head(steps).names))
                       ELSE BodyStep(s, Head(steps)), Tail(steps))

\* A body that is not an aggregate runs with scopes of its own
\* (enterAggregateScope).
PlainBody(s, c) ==
    LET t == BodySteps([s EXCEPT !.seenOn = FALSE, !.seen = {}, !.recorded = {},
                                 !.viaNeeds = {}, !.env = s.cur,
                                 !.base = Len(s.stack)], c.body)
    IN  [t EXCEPT !.seenOn = s.seenOn, !.seen = s.seen, !.recorded = s.recorded,
                  !.viaNeeds = s.viaNeeds, !.env = s.env, !.base = s.base]

\* runTaskBody: a fresh repository and draft set, which the enclosing body
\* does not get back.
RunTaskBody(s, c, how) ==
    LET entry == [task |-> c.name, env |-> s.env, list |-> s.list, how |-> how,
                  path |-> SubSeq(s.stack, s.base + 1, Len(s.stack))]
        begin == [s EXCEPT !.repo = {}, !.drafts = {}, !.log = Append(@, entry),
                           !.cur = Len(s.log) + 1]
        ended(t) == IF BodyOutcome(t) = None THEN Ok(t) ELSE Fail(t, BodyOutcome(t))
    IN  ended([(IF c.kind \in {"pattern", "tasks"} THEN AggregateBody(begin, c)
                ELSE PlainBody(begin, c)) EXCEPT !.cur = s.cur])

\* recordSingleTaskBody: the task's serializable guard wraps its ops; a task
\* guarded by an opaque predicate only is noted, for push to refuse.
RecordBody(s, c, how) ==
    LET begin == [s EXCEPT !.elevate = c.privileged,
                           !.opaqueOnly = IF c.opaque = "holds" /\ c.guard = None
                                          THEN @ \cup {c.name} ELSE @]
        guarded(t, kind) == IF c.guard = None THEN t
                            ELSE Emit(t, [Op(kind, c.name, begin) EXCEPT !.guard = c.guard])
    IN  IF c.opaque = "fails" THEN Fail(s, "opaque")
        ELSE [Then(RunTaskBody(guarded(begin, "when_begin"), c, how),
                   LAMBDA t : Ok(guarded(t, "when_end"))) EXCEPT !.s.elevate = s.elevate]

\* recordNeeds: what the scope has not recorded yet, before the dependent.
RecordNeeds(s, needs) ==
    IF needs = <<>> THEN Ok(s)
    ELSE LET need == ResolveNeed(tasks, Head(needs))
             n == ResolveAlias(need)
         IN  IF need = None \/ n = None THEN Fail(s, "need")
             ELSE IF n \in s.recorded \cup s.seen THEN RecordNeeds(s, Tail(needs))
             ELSE Then(RecordName(s, need, "need"),
                       LAMBDA t : RecordNeeds([t EXCEPT !.seen = IF s.seenOn THEN @ \cup {n} ELSE @,
                                                        !.recorded = @ \cup {n},
                                                        !.viaNeeds = @ \cup {n}], Tail(needs)))

RecordName(s, n, how) ==
    IF Contains(s.stack, n) THEN Fail([s EXCEPT !.cycleErr = TRUE], "cycle")
    ELSE IF ResolveAlias(n) = None THEN Fail(s, "alias")
    ELSE LET pushed == [s EXCEPT !.stack = Append(@, n)]
             r == IF ~Exists(n) THEN Fail(pushed, "unknown")
                  ELSE IF Find(n).kind = "alias"
                         THEN RecordName(pushed, ResolveAlias(n), how)
                  ELSE Then(RecordNeeds(pushed, Find(n).needs),
                            LAMBDA t : RecordBody(t, Find(n), how))
         IN  [r EXCEPT !.s.stack = s.stack]

\* recordPlanBody and the re-check of declerr after it. refuse: the
\* dependency pre-flight of the finished plan refuses it.
Session(mode, request, refuse) ==
    Then(RecordList(NewSession(mode), request),
         LAMBDA t : IF t.packErr THEN Fail(t, "pack")
                    ELSE IF refuse THEN Fail(t, "preflight")
                    ELSE IF t.first THEN Fail(t, "declaration")
                    ELSE Ok(t))

\* Mutant: the record's own declaration of a known id stays.
RestoreByName(before, s) ==
    [i \in DOMAIN before |-> IF i \in s.repo THEN "task" ELSE before[i]]

\* RecordPlanTo puts the repository it found back, whatever happened.
Restored(before, s) == before

-----------------------------------------------------------------------------
(* The process.                                                            *)

NoRecording ==
    [request |-> <<>>, mode |-> "none", ok |-> FALSE, shipped |-> FALSE,
     s |-> NewSession("none")]

Init ==
    /\ tasks = {} /\ first = FALSE /\ repo = [id \in {} |-> None]
    /\ failed = FALSE /\ version = 1
    /\ planDir = [r \in {} |-> 0] /\ planFile = {}
    /\ last = NoRecording
    /\ applied = [ids |-> {}, owed |-> FALSE]
    /\ declared = [id \in {} |-> None] /\ owed = FALSE /\ torn = FALSE

recipe == <<tasks, first, repo, declared>>
outcome == <<failed, last, owed>>
disk == <<planDir, planFile, torn>>

\* One registering call of the recipe: Task, Alias, Aggregate or
\* AggregateTasks, or RegisterMethods with a task per method of a struct. The
\* history of the last recording ends here: its properties are about the
\* registry it saw.
Register(cs) ==
    /\ Cardinality(tasks) + Len(cs) <= MaxTasks
    /\ \E r \in {Registered(tasks, cs)} : tasks' = r.reg /\ first' = (first \/ r.bad)
    /\ last' = NoRecording
    /\ UNCHANGED <<repo, declared, failed, owed, disk, version, applied>>

\* main registers a resource outside any task (resource.Register).
Declare(id) ==
    /\ IF id \in DOMAIN repo THEN first' = TRUE /\ UNCHANGED <<repo, declared>>
       ELSE /\ repo' = [i \in DOMAIN repo \cup {id} |-> IF i = id THEN "main" ELSE repo[i]]
            /\ declared' = [i \in DOMAIN declared \cup {id} |-> "main"]
            /\ UNCHANGED first
    /\ UNCHANGED <<tasks, outcome, disk, version, applied>>

ResetDeclarationError ==
    /\ first /\ first' = FALSE
    /\ UNCHANGED <<tasks, repo, declared, outcome, disk, version, applied>>

EditSource ==
    /\ version <= MaxEdits /\ version' = version + 1
    /\ UNCHANGED <<recipe, outcome, disk, applied>>

\* What a plan's ops refer to: <<ref, content version>>, a ref being the
\* resource's id.
Blobs(ops) == {<<ops[i].id, ops[i].blob>> : i \in {j \in DOMAIN ops : ops[j].blob # 0}}

Committed(dir, blobs) ==
    [r \in DOMAIN dir \cup {b[1] : b \in blobs} |->
        IF \E b \in blobs : b[1] = r THEN (CHOOSE b \in blobs : b[1] = r)[2]
        ELSE dir[r]]

\* commitBlobs, only after the plan exists. An I/O error may leave any of the
\* blobs copied.
Commit(blobs) ==
    \/ planDir' = Committed(planDir, blobs) /\ planFile' = blobs /\ torn' = FALSE
    \/ \E some \in SUBSET blobs :
          planDir' = Committed(planDir, some) /\ torn' = TRUE /\ UNCHANGED planFile

\* A push refuses a plan with a task whose condition could not travel.
RefuseOpaqueOnlyPush(s) == s.opaqueOnly # {}

\* RecordPlanTo and its callers: Run (mode "run"), gonf plan ("plan"),
\* push, cluster and fleet ("push"). A sticky declaration error refuses
\* before any body runs.
Record(request, mode, refuse) ==
    /\ ~first
    /\ \E r \in {Session(mode, request, refuse)} :
       LET ok == r.err = None
       IN  /\ failed' = ~ok /\ owed' = ~ok
           /\ first' = r.s.first
           /\ repo' = Restored(repo, r.s)
           /\ last' = [request |-> request, mode |-> mode, ok |-> ok, s |-> r.s,
                       shipped |-> mode = "push" /\ ok /\ ~RefuseOpaqueOnlyPush(r.s)]
           /\ IF ok /\ mode = "plan" THEN Commit(Blobs(r.s.ops)) ELSE UNCHANGED disk
    /\ UNCHANGED <<tasks, declared, version, applied>>

\* Apply of what main declared: refused by a sticky declaration error or by an
\* earlier failed recording.
Apply ==
    /\ ~first /\ ~failed
    /\ applied' = [ids |-> {<<i, repo[i]>> : i \in DOMAIN repo}, owed |-> owed]
    /\ UNCHANGED <<recipe, outcome, disk, version>>

Next ==
    \/ \E cs \in Universe : Register(cs)
    \/ \E id \in TopIds : Declare(id)
    \/ ResetDeclarationError
    \/ EditSource
    \/ \E call \in Calls, refuse \in BOOLEAN : Record(call[1], call[2], refuse)
    \/ Apply

Spec == Init /\ [][Next]_vars

-----------------------------------------------------------------------------
(* Properties.                                                             *)

Log == last.s.log

\* The log indices of the plain bodies that enclose body i, i included.
RECURSIVE Chain(_)
Chain(i) == IF i = 0 THEN {} ELSE {i} \cup Chain(Log[i].env)

\* Needs: in a recorded plan every needed task stands before its dependent
\* and in the envelope of the dependent (the same enclosing task body, so
\* the same guards), and a Needs never records a task a second time in the
\* Run list or aggregate tree that already holds it.
NeedsRecordedFirst ==
    last.ok =>
        \A i \in DOMAIN Log :
            /\ \A k \in DOMAIN Find(Log[i].task).needs :
                 LET t == ResolveAlias(ResolveNeed(tasks, Find(Log[i].task).needs[k]))
                 IN  \E j \in 1..(i - 1) : Log[j].task = t /\ Log[j].env = Log[i].env
            /\ Log[i].how = "need" =>
                 \A j \in 1..(i - 1) :
                    ~(Log[j].task = Log[i].task /\ Log[j].list = Log[i].list)

\* A recording that returns a plan dropped nothing: no nested Run failed, no
\* misuse was reported and nothing panicked anywhere below it, whatever the
\* bodies did with the errors they got; every requested task is in it; and
\* a merged daemon-reload stands in one run and privilege with all it
\* watches, so its change gate can fire.
NothingDropped ==
    last.ok =>
        /\ ~last.s.trouble
        /\ \A n \in Range(last.request) :
              \E i \in DOMAIN Log : Log[i].task = ResolveAlias(n)
        /\ \A i \in DOMAIN last.s.ops : \A w \in last.s.ops[i].watch :
              \E j \in DOMAIN last.s.ops :
                 /\ last.s.ops[j].id = w
                 /\ last.s.ops[j].elevate = last.s.ops[i].elevate
                 /\ \A k \in DOMAIN last.s.ops :
                       (i < k /\ k < j) \/ (j < k /\ k < i) => ~IsControl(last.s.ops[k])

\* Conditions and privilege travel exactly: around every recorded resource
\* the open task guards are those of the bodies it was recorded in and no
\* others, it is elevated as its own task says, a plan that is pushed holds
\* no task whose only condition stayed behind on the controller, and no
\* pattern aggregate recorded an operational task by name, alias, member or
\* need.
GuardsTravel ==
    last.ok =>
        LET ops == last.s.ops
            Open(i) == {ops[k].id : k \in {b \in 1..i :
                          /\ ops[b].op = "when_begin" /\ ops[b].guard # None
                          /\ Cardinality({j \in b..i : ops[j].op = "when_begin" /\ ops[j].id = ops[b].id})
                             > Cardinality({j \in b..i : ops[j].op = "when_end" /\ ops[j].id = ops[b].id})}}
        IN  /\ \A i \in DOMAIN ops : ~IsControl(ops[i]) =>
                 /\ Open(i) = {n \in {Log[j].task : j \in Chain(ops[i].by)} : Find(n).guard # None}
                 /\ ops[i].elevate = Find(Log[ops[i].by].task).privileged
            /\ last.shipped =>
                 \A i \in DOMAIN Log : Find(Log[i].task).opaque = "holds" =>
                                          Find(Log[i].task).guard # None
            /\ \A i \in DOMAIN Log : Find(Log[i].task).operational =>
                 \A n \in Range(Log[i].path) : Find(n).kind # "pattern"

\* The recorder "fails the record when a registered resource produced no
\* draft" (api/plan.go): every resource a recorded body registered is an op
\* of the plan.
EveryResourceRecorded ==
    last.ok => last.s.ids \subseteq {last.s.ops[i].id : i \in DOMAIN last.s.ops}

\* A recording leaves no trace but its outcome: main's resources are what they
\* were, with the values main gave them; an Apply applies exactly those, and
\* never while a failed recording has not been made good; and the blobs beside
\* a written plan hold what that plan was recorded with, unless a commit
\* itself broke off.
RecordingsLeaveNoTrace ==
    /\ repo = declared
    /\ applied.ids \subseteq {<<i, declared[i]>> : i \in DOMAIN declared}
    /\ ~applied.owed
    /\ ~torn => \A b \in planFile : b[1] \in DOMAIN planDir /\ planDir[b[1]] = b[2]

=============================================================================
