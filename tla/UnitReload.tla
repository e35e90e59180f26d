----------------------------- MODULE UnitReload -----------------------------
(***************************************************************************)
(* Daemon reloads of the systemd managers.  A recipe declares files, synced *)
(* trees, daemon-reloads, SystemdUnits compositions and SystemdTimers; a    *)
(* reload is one op per bus and recipe scope, which later declarations      *)
(* merge into and SystemdTimers are ordered before.  An apply then writes   *)
(* the inputs, reloads where a change asks for it and starts the units.     *)
(***************************************************************************)
EXTENDS Naturals, Sequences, FiniteSets

CONSTANTS
    Files,          \* single files: units, drop-ins and other inputs
    Trees,          \* directories synced as a whole
    Items,          \* what is written: Files, a content of each tree, timers' units
    In,             \* the tree a file or content lies in, or "none"
    Path,           \* of a file or content: [at, parent, base]
    BusOf,          \* the manager that reads an item
    Timers,         \* SystemdTimers: [id, item, bus, related, deps]
    Compositions,   \* SystemdUnits: [bus, inputs, unit, id]
    Reloads,        \* explicit DaemonReloads: [bus, gated, watch, deps]
    Buses,
    MaxDecls, MaxApplies, MaxFails

VARIABLES
    phase,      \* "declare", "refused", "idle" or "apply"
    ops,        \* the recorded plan
    scope,      \* the ids registered in the current recipe scope
    joiners,    \* the timers the registered reloads are ordered after
    unwritten,  \* items whose wanted content is not on disk
    unloaded,   \* items on disk that their manager has not loaded
    outdated,   \* running units started before an input of theirs changed
    running, notes, todo, fails, applies

recipe == <<ops, scope, joiners>>
host == <<unwritten, unloaded, outdated, running, notes>>
vars == <<phase, recipe, host, todo, fails, applies>>

-----------------------------------------------------------------------------
(* Unit names.  A name is [stem, at, dash, type, d]: the parts between its  *)
(* dashes, "" or the text after its @, whether a dash ends it, its type and *)
(* whether ".d" follows.                                                    *)

Template(u) == IF u.at \in {"", "@"} THEN {} ELSE {[u EXCEPT !.at = "@"]}

D(n) == [n EXCEPT !.d = TRUE]

dropinDirs(u) ==
    {[stem |-> SubSeq(u.stem, 1, k), at |-> "", dash |-> TRUE, type |-> u.type, d |-> TRUE] :
        k \in 1..(Len(u.stem) - 1)}
    \cup {[stem |-> <<>>, at |-> "", dash |-> FALSE, type |-> u.type, d |-> TRUE]}

\* Mutant: only the unit's own file and its own drop-in directory count.
NamesOnly(id, u) == id \notin Files \/ Path[id].base = u \/ Path[id].parent = D(u)

\* A resource that is no single file may install any unit.
mayManageUnit(id, u) ==
    \/ id \notin Files
    \/ \E n \in {u} \cup Template(u) :
          \/ Path[id].base = n
          \/ Path[id].parent = D(n)
          \/ Path[id].parent \in dropinDirs(n) /\ Path[id].at = "dropin"

-----------------------------------------------------------------------------
(* Registration.                                                           *)

Within(id, t) == t \in Trees /\ id \in DOMAIN In /\ In[id] = t
Covers(w, id) == id = w \/ Within(id, w)
RegisteredWatchTargets(watch) == {id \in scope : \E w \in watch : Covers(w, id)}

IsControl(op) == op.kind = "control"
At(id) == CHOOSE i \in DOMAIN ops :
             ops[i].id = id /\ \A j \in DOMAIN ops : ops[j].id = id => j <= i
Reload(bus) == ops[At(bus)]

\* repository.reaches, along the dependencies of the scope.
RECURSIVE ReachedFrom(_, _)
ReachedFrom(ids, seen) ==
    LET next == UNION {ops[At(id)].deps : id \in ids \cap scope} \ seen
    IN  IF next = {} THEN seen ELSE ReachedFrom(next, seen \cup next)
reaches(start, target) == target \in ReachedFrom({start}, {})

\* Adding deps to id must not close a cycle.
checkAmendable(id, deps) == \A dep \in deps : dep # id /\ ~reaches(dep, id)

\* A control op, or one of another privilege, recorded after the op.
AmendRecorded(id) == \A i \in (At(id) + 1)..Len(ops) : ~IsControl(ops[i])

Amendable(id, deps) == checkAmendable(id, deps) /\ AmendRecorded(id)

Op(kind, id, deps, gated, watch) ==
    [kind |-> kind, id |-> id, deps |-> deps, gated |-> gated, watch |-> watch,
     inputs |-> {}, timer |-> {}]

Register(op) ==
    /\ ops' = Append(ops, op)
    /\ scope' = scope \cup {op.id}

CanDeclare == phase = "declare" /\ Len(ops) < MaxDecls

\* Install a file, perhaps after an earlier composition (DependsOn).
DeclareFile(f, deps) ==
    /\ CanDeclare /\ f \notin scope
    /\ deps \subseteq scope
    /\ Register(Op("file", f, deps, FALSE, {}))
    /\ UNCHANGED <<phase, joiners, host, todo, fails, applies>>

DeclareTree(t) ==
    /\ CanDeclare /\ t \notin scope
    /\ Register(Op("tree", t, {}, FALSE, {}))
    /\ UNCHANGED <<phase, joiners, host, todo, fails, applies>>

-----------------------------------------------------------------------------
(* The reload.                                                             *)

\* The DependsOn ids are watched when nothing else is.
newReload(d) == [d EXCEPT !.watch = IF d.watch = {} THEN d.deps ELSE d.watch]

orderingDeps(d) == d.deps \cup RegisteredWatchTargets(d.watch)

merged(op, d) == [op EXCEPT !.gated = op.gated /\ d.gated,
                            !.watch = op.watch \cup d.watch,
                            !.deps = op.deps \cup orderingDeps(d),
                            !.inputs = op.inputs \cup RegisteredWatchTargets(d.watch)]

relatedInput(op, related) ==
    \E u \in related : \E id \in op.watch \cup RegisteredWatchTargets(op.watch) :
       mayManageUnit(id, u)

Joined(bus) == {j \in joiners : j.bus = bus}
refuseRelatedJoiner(bus, op) == \E j \in Joined(bus) : relatedInput(op, j.related)

\* What the declaration d of a reload leaves in the plan: Present registers
\* the bus's reload or merges d into it; a refused merge fails the record.
MergeRefused(d) ==
    /\ d.bus \in scope
    /\ \/ refuseRelatedJoiner(d.bus, merged(Reload(d.bus), d))
       \/ ~Amendable(d.bus, orderingDeps(d))

PresentReload(d) ==
    IF d.bus \in scope
    THEN [ops EXCEPT ![At(d.bus)] = merged(Reload(d.bus), d)]
    ELSE Append(ops, [Op("reload", d.bus, d.deps, d.gated, d.watch)
                         EXCEPT !.inputs = RegisteredWatchTargets(d.watch)])

DeclareReload(r) ==
    /\ CanDeclare
    /\ r.watch \cup r.deps \subseteq scope
    /\ LET d == newReload(r)
       IN  IF MergeRefused(d)
           THEN phase' = "refused" /\ UNCHANGED <<ops, scope>>
           ELSE ops' = PresentReload(d) /\ scope' = scope \cup {d.bus} /\ UNCHANGED phase
    /\ UNCHANGED <<joiners, host, todo, fails, applies>>

\* A composition: the reload of its bus, then the activation of its unit,
\* gated on the composition's own inputs.
ComposedReload(c) == [bus |-> c.bus, gated |-> TRUE, watch |-> c.inputs, deps |-> c.inputs]

activate(c) ==
    [Op("start", c.id, c.inputs \cup {c.bus}, TRUE, c.inputs)
        EXCEPT !.inputs = c.inputs \cup RegisteredWatchTargets(c.inputs)]

SystemdUnits(c) ==
    /\ CanDeclare /\ c.id \notin scope
    /\ c.inputs \subseteq scope
    /\ IF MergeRefused(ComposedReload(c))
       THEN phase' = "refused" /\ UNCHANGED <<ops, scope>>
       ELSE /\ ops' = Append(PresentReload(ComposedReload(c)), activate(c))
            /\ scope' = scope \cup {c.bus, c.id}
            /\ UNCHANGED phase
    /\ UNCHANGED <<joiners, host, todo, fails, applies>>

\* What systemd reads for a unit: its file and the drop-ins of its unit
\* load path.
Reads(u) ==
    {f \in DOMAIN Path : \E n \in {u} \cup Template(u) :
        \/ Path[f].at = "unit" /\ Path[f].base = n
        \/ Path[f].at = "dropin" /\ Path[f].parent \in {D(n)} \cup dropinDirs(n)}

\* The inputs of the registered reload that the timer's units are made of.
TimerNeeds(t) ==
    IF t.bus \notin scope THEN {}
    ELSE {f \in UNION {Reads(u) : u \in t.related} :
             \E w \in Reload(t.bus).watch : Covers(w, f)}

\* The reload of the timer's bus, if there is one, is ordered after the timer
\* unless the timer depends on it or the reload's inputs may be its units.
JoinRegisteredReload(t) ==
    /\ t.bus \in scope
    /\ ~relatedInput(Reload(t.bus), t.related)
    /\ Amendable(t.bus, t.deps)

TimerOp(t) == [Op("timer", t.id, t.deps, FALSE, {})
                  EXCEPT !.timer = {t}, !.inputs = {t.item} \cup TimerNeeds(t)]

SystemdTimer(t) ==
    /\ CanDeclare /\ t.id \notin scope
    /\ t.deps \subseteq scope
    /\ IF JoinRegisteredReload(t)
       THEN /\ ops' = Append([ops EXCEPT ![At(t.bus)].deps = @ \cup {t.id}], TimerOp(t))
            /\ joiners' = joiners \cup {t}
       ELSE ops' = Append(ops, TimerOp(t)) /\ UNCHANGED joiners
    /\ scope' = scope \cup {t.id}
    /\ UNCHANGED <<phase, host, todo, fails, applies>>

Control == [Op("control", "control", {}, FALSE, {}) EXCEPT !.inputs = {}]

\* A requirement block or a task of another privilege, in the same scope.
Boundary ==
    /\ CanDeclare /\ scope # {} /\ ~\E i \in DOMAIN ops : IsControl(ops[i])
    /\ ops' = Append(ops, Control)
    /\ UNCHANGED <<phase, scope, joiners, host, todo, fails, applies>>

\* A when-block with a scope of its own begins or ends.
Fragment ==
    /\ CanDeclare /\ scope # {} /\ ~\E i \in DOMAIN ops : IsControl(ops[i])
    /\ ops' = Append(ops, Control)
    /\ scope' = {} /\ joiners' = {}
    /\ UNCHANGED <<phase, host, todo, fails, applies>>

-----------------------------------------------------------------------------
(* Apply.                                                                  *)

\* kahnStable: of the ops whose predecessors are placed, the earliest; runs
\* between control ops keep their places, and a directory comes before the
\* files in it.
SameRun(i, j) == \A n \in i..j \cup j..i : ~IsControl(ops[n])
Before(j, i) ==
    \/ j < i /\ ~SameRun(i, j)
    \/ /\ SameRun(i, j)
       /\ \/ ops[j].id \in ops[i].deps
          \/ ops[i].kind = "file" /\ Within(ops[i].id, ops[j].id)
Ready(placed) == {i \in DOMAIN ops \ placed : \A j \in DOMAIN ops : Before(j, i) => j \in placed}
First(S) == CHOOSE i \in S : \A j \in S : i <= j

RECURSIVE SortedFrom(_)
SortedFrom(placed) ==
    IF Ready(placed) = {} THEN <<>>
    ELSE LET i == First(Ready(placed))
         IN  <<ops[i]>> \o SortedFrom(placed \cup {i})

\* A SystemdTimer writes its units, reloads for them and converges the timer;
\* an absent one stops the timer first.
Do(do, op) == [do |-> do, op |-> op]
PrivateReload(t) == Op("reload", t.bus, {}, TRUE, {t.item})
Steps(op) ==
    IF op.kind # "timer" THEN <<Do(op.kind, op)>>
    ELSE LET t == CHOOSE t \in op.timer : TRUE
         IN  IF t.absent
             THEN <<Do("stop", op), Do("file", Op("file", t.item, {}, FALSE, {})),
                    Do("reload", PrivateReload(t)), Do("note", op)>>
             ELSE <<Do("file", Op("file", t.item, {}, FALSE, {})),
                    Do("reload", PrivateReload(t)), Do("start", op), Do("note", op)>>

RECURSIVE Flat(_)
Flat(ss) == IF ss = <<>> THEN <<>> ELSE Steps(Head(ss)) \o Flat(Tail(ss))

Units == {c.id : c \in Compositions} \cup {t.id : t \in Timers}
ItemOf(id) == IF id \in Trees THEN CHOOSE i \in DOMAIN In : In[i] = id /\ i \notin Files ELSE id
Written == {ItemOf(ops[i].id) : i \in {j \in DOMAIN ops : ops[j].kind \in {"file", "tree"}}}
           \cup {t.item : t \in {u \in Timers : \E i \in DOMAIN ops : ops[i].id = u.id}}

\* The plan pre-flight: a gated op watches something.
ValidateChangeGates == \A i \in DOMAIN ops : ops[i].gated => ops[i].watch # {}

\* An apply of the recorded plan, on a host where some of the content is not
\* there yet and some of the units run.
StartApply ==
    /\ phase \in {"declare", "idle"}
    /\ ops # <<>> /\ applies < MaxApplies
    /\ IF ValidateChangeGates
       THEN /\ phase' = "apply"
            /\ todo' = Flat(SortedFrom({}))
            /\ \E S \in SUBSET Written, R \in {{}, Units \cap {ops[i].id : i \in DOMAIN ops}} :
                  /\ unwritten' = unwritten \cup S
                  /\ running' = R
                  /\ outdated' = outdated \cap R
       ELSE phase' = "refused" /\ UNCHANGED <<todo, unwritten, running, outdated>>
    /\ notes' = <<>>
    /\ applies' = applies + 1
    /\ UNCHANGED <<recipe, unloaded, fails>>

Now == Head(todo)
Doing(do) == phase = "apply" /\ todo # <<>> /\ Now.do = do
Done == todo' = Tail(todo) /\ UNCHANGED <<phase, recipe, fails, applies>>

AnyChanged(watch) == \E n \in DOMAIN notes : \E w \in watch : Covers(w, notes[n])

ChangedSince(bus, watch) ==
    \E n \in DOMAIN notes : /\ \E w \in watch : Covers(w, notes[n])
                            /\ \A m \in DOMAIN notes : notes[m] = bus => m < n

\* A unit started before its inputs changed is outdated.
InputOf(i, unit) == \E n \in DOMAIN ops : /\ ops[n].id = unit /\ ops[n].kind = "start"
                                          /\ i \in {ItemOf(id) : id \in ops[n].inputs}

WriteItem(do, item) ==
    /\ Doing(do)
    /\ IF item \in unwritten
       THEN /\ unwritten' = unwritten \ {item}
            /\ unloaded' = unloaded \cup {item}
            /\ outdated' = outdated \cup {u \in running : InputOf(item, u)}
            /\ notes' = Append(notes, item)
       ELSE UNCHANGED <<unwritten, unloaded, outdated, notes>>
    /\ Done /\ UNCHANGED running

ApplyFile == \E i \in Items : Doing("file") /\ i = Now.op.id /\ WriteItem("file", i)
ApplyTree == \E i \in Items : Doing("tree") /\ i = ItemOf(Now.op.id) /\ WriteItem("tree", i)

ApplyReload ==
    /\ Doing("reload")
    /\ IF Now.op.gated /\ ~ChangedSince(Now.op.id, Now.op.watch)
       THEN UNCHANGED <<unloaded, notes>>
       ELSE /\ unloaded' = {i \in unloaded : BusOf[i] # Now.op.id}
            /\ notes' = Append(notes, Now.op.id)
    /\ Done /\ UNCHANGED <<unwritten, outdated, running>>

\* Mutant: an activation starts what is stopped and nothing else.
StartsStopped(op) == op.id \notin running \/ op.kind = "timer"

\* A unit that runs restarts when an input changed; SystemdTimers are declared
\* WithRestart here and always do.
Starts(op) == op.id \notin running \/ op.kind = "timer" \/ AnyChanged(op.watch)

ApplyStart ==
    /\ Doing("start")
    /\ IF Starts(Now.op)
       THEN /\ running' = running \cup {Now.op.id}
            /\ outdated' = outdated \ {Now.op.id}
            /\ notes' = Append(notes, Now.op.id)
       ELSE UNCHANGED <<running, outdated, notes>>
    /\ Done /\ UNCHANGED <<unwritten, unloaded>>

\* Best effort: the unit files are removed whether or not the timer stopped.
ApplyStop ==
    /\ Doing("stop")
    /\ running' \in {running, running \ {Now.op.id}}
    /\ Done /\ UNCHANGED <<unwritten, unloaded, outdated, notes>>

\* The SystemdTimer's own note: one of its parts changed, any reload of its
\* bus in this apply among them.
ApplyNote ==
    /\ Doing("note")
    /\ \E t \in Now.op.timer :
          notes' = IF AnyChanged({t.item, t.bus, t.id}) THEN Append(notes, t.id) ELSE notes
    /\ Done /\ UNCHANGED <<unwritten, unloaded, outdated, running>>

ApplyControl == Doing("control") /\ Done /\ UNCHANGED host

\* An op fails or the process is killed; nothing after it runs.
Fail ==
    /\ phase = "apply" /\ todo # <<>> /\ fails < MaxFails
    /\ phase' = "idle" /\ todo' = <<>> /\ fails' = fails + 1
    /\ UNCHANGED <<recipe, host, applies>>

EndApply ==
    /\ phase = "apply" /\ todo = <<>>
    /\ phase' = "idle"
    /\ UNCHANGED <<recipe, host, todo, fails, applies>>

Init ==
    /\ phase = "declare" /\ ops = <<>> /\ scope = {} /\ joiners = {}
    /\ unwritten = {} /\ unloaded = {} /\ outdated = {} /\ running = {}
    /\ notes = <<>> /\ todo = <<>> /\ fails = 0 /\ applies = 0

Declare ==
    \/ \E f \in Files, b \in Buses : DeclareFile(f, {}) \/ DeclareFile(f, {b})
    \/ \E t \in Trees : DeclareTree(t)
    \/ \E r \in Reloads : DeclareReload(r)
    \/ \E c \in Compositions : SystemdUnits(c)
    \/ \E t \in Timers : SystemdTimer(t)
    \/ Boundary
    \/ Fragment

Next ==
    \/ Declare
    \/ StartApply
    \/ ApplyFile \/ ApplyTree \/ ApplyReload \/ ApplyStart \/ ApplyStop \/ ApplyNote \/ ApplyControl
    \/ Fail
    \/ EndApply

Spec == Init /\ [][Next]_vars

-----------------------------------------------------------------------------
(* Properties.                                                             *)

Started == IF Doing("start") THEN {Now.op} ELSE {}
Loaded(ids) == {ItemOf(id) : id \in ids} \cap unloaded = {}

\* A timer that shares no reload keeps its own after the registered one: when
\* an apply starts or restarts a SystemdTimer, the inputs of its bus's reload
\* that its units are made of are loaded as they are on disk.
TimerAfterReload ==
    \A op \in Started : op.kind = "timer" /\ fails = 0 => Loaded(op.inputs)

\* A later declaration moved the reload behind an op declared after the timer.
RECURSIVE Closure(_)
Closure(ids) ==
    LET next == ids \cup UNION {ops[i].deps : i \in {j \in DOMAIN ops : ops[j].id \in ids}}
    IN  IF next = ids THEN ids ELSE Closure(next)
Overtaken(op) ==
    \E t \in op.timer : \E i, n \in DOMAIN ops :
        ops[n] = op /\ n < i /\ ops[i].id \in Closure({t.bus})

\* No unit is started or restarted from a stale definition: what the
\* composition that activates it was given and, for a SystemdTimer no later
\* declaration moved the reload of its bus behind, the inputs of that reload
\* its units are made of, are loaded as they are on disk.
NoStaleStart ==
    \A op \in Started : Starts(op) /\ fails = 0 /\ ~Overtaken(op) => Loaded(op.inputs)

\* An apply that ends well leaves no input that was declared before a reload
\* of its bus unloaded, and no activated unit running from before an input
\* changed.
AllLoaded ==
    phase = "idle" /\ fails = 0 =>
        /\ outdated = {}
        /\ \A i \in DOMAIN ops : ops[i].kind = "reload" => Loaded(ops[i].inputs)
=============================================================================
