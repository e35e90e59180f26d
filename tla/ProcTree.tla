------------------------------ MODULE ProcTree ------------------------------
(***************************************************************************)
(* The timeout kill of a validator and the verdict on it                   *)
(* (internal/validator proctree.go, validator.go).                         *)
(*                                                                         *)
(* A validator (the leader) and its descendants run, fork, exit and are    *)
(* reaped while killTree, one system call a step, stops what the process   *)
(* table shows below the leader, reads the table once more and kills.      *)
(* Pids are reused; a start time tells two processes of one pid apart.     *)
(* One read of the table is one step.  Budgets are the end of a search at  *)
(* any point.                                                              *)
(***************************************************************************)
EXTENDS Naturals, Sequences, SequencesExt

CONSTANTS
    Pids,           \* pids, the leader's among them
    Leader,
    Reused,         \* pids that another process may take over
    MaxRounds,      \* maxFreezeRounds
    MaxBirths,      \* bound on processes ever started
    MaxStrangers,   \* bound on processes outside the tree
    MaxResumes,     \* bound on SIGCONTs from outside, for each value of suid
    TableFails,     \* whether reading the table may fail or exceed its budget
    Suid            \* whether gonf may lack the permission to signal, of BOOLEAN

InitProc == "init"  \* adopts orphans and reaps them at once
Gonf == "gonf"

VARIABLES
    suid,       \* processes of the tree may be out of gonf's reach
    proc,       \* per pid: [state, ppid, start, tree, escaped, eperm]
    births,     \* processes started, the source of start times
    strangers, resumes,
    pc,         \* of killTree
    round, seen, queue,
    stopped,    \* processes whose SIGSTOP succeeded, oldest first
    current,    \* the verifying read: a set of processes, or no read
    clean,      \* the search ended because a round found nothing new
    killed,     \* killedByTimeout
    bound,      \* the apply was stopped
    exit,       \* how the leader ended: "none", "ok", "fail", "killed"
    outcome,    \* of runIn: "none", "ok", "fail", "timeout", "stopped"
    victims     \* processes outside the tree that killTree killed

kernel == <<suid, proc, births, strangers, resumes, exit>>
search == <<round, seen, queue, stopped, current, clean>>
vars == <<kernel, search, pc, killed, bound, outcome, victims>>

Free == [state |-> "free", ppid |-> InitProc, start |-> 0, tree |-> FALSE,
         escaped |-> FALSE, eperm |-> FALSE]
NoTable == [read |-> FALSE, ids |-> {}]

Init ==
    /\ suid \in Suid
    /\ \E e \in {FALSE, suid} :
          proc = [p \in Pids |->
                     IF p = Leader
                     THEN [state |-> "run", ppid |-> Gonf, start |-> 1, tree |-> TRUE,
                           escaped |-> FALSE, eperm |-> e]
                     ELSE Free]
    /\ births = 1 /\ strangers = 0 /\ resumes = 0
    /\ pc = "idle" /\ round = 0 /\ seen = {} /\ queue = {} /\ stopped = <<>>
    /\ current = NoTable /\ clean = FALSE
    /\ killed = FALSE /\ bound = FALSE /\ exit = "none" /\ outcome = "none" /\ victims = {}

(***************************************************************************)
(* The kernel                                                              *)
(***************************************************************************)
Live(p) == proc[p].state \in {"run", "stop"}
Exists(p) == proc[p].state # "free"

\* The processes n generations below the one with pid p.
Generation(p) ==
    LET g[n \in Nat] ==
            IF n = 0 THEN {p}
            ELSE {q \in Pids : Exists(q) /\ proc[q].ppid \in g[n - 1]}
    IN g

\* The death of p: a zombie until its parent reaps it; its children go to
\* init, which reaps the dead ones.  own: not by killTree's hand, so that what
\* is below p has left the tree.
Dies(p, own) ==
    LET below == UNION {Generation(p)[n] : n \in 1..MaxBirths}
    IN [q \in Pids |->
        CASE q = p -> IF proc[p].ppid = InitProc THEN [Free EXCEPT !.start = proc[p].start]
                      ELSE [proc[p] EXCEPT !.state = "zombie"]
          [] q # p /\ Exists(q) /\ proc[q].ppid = p ->
                 IF proc[q].state = "zombie" THEN [Free EXCEPT !.start = proc[q].start]
                 ELSE [proc[q] EXCEPT !.ppid = InitProc, !.escaped = @ \/ own]
          [] q # p /\ q \in below /\ proc[q].ppid # p -> [proc[q] EXCEPT !.escaped = @ \/ own]
          [] OTHER -> proc[q]]

Born(c, parent, intree, gone) ==
    \E e \in {FALSE, suid} :
        proc' = [proc EXCEPT ![c] = [state |-> "run", ppid |-> parent, start |-> births + 1,
                                     tree |-> intree, escaped |-> gone, eperm |-> e]]

Vacant(c) == ~Exists(c) /\ (proc[c].start = 0 \/ c \in Reused)

Fork(p) ==
    /\ proc[p].state = "run" /\ proc[p].tree /\ births < MaxBirths
    /\ \E c \in Pids : Vacant(c) /\ Born(c, p, TRUE, proc[p].escaped)
    /\ births' = births + 1
    /\ UNCHANGED <<suid, strangers, resumes, exit, search, pc, killed, bound, outcome, victims>>

\* Another program starts a process, below one of its own if it has one.
Stranger ==
    /\ strangers < MaxStrangers /\ births < MaxBirths
    /\ \E c \in Pids : \E q \in {InitProc} \cup {s \in Pids : Live(s) /\ ~proc[s].tree} :
          Vacant(c) /\ Born(c, q, FALSE, FALSE)
    /\ births' = births + 1 /\ strangers' = strangers + 1
    /\ UNCHANGED <<suid, resumes, exit, search, pc, killed, bound, outcome, victims>>

Exit(p) ==
    /\ proc[p].state = "run" /\ proc[p].tree
    /\ proc' = Dies(p, TRUE)
    /\ exit' \in IF p = Leader /\ proc[p].start = 1 THEN {"ok", "fail"} ELSE {exit}
    /\ UNCHANGED <<suid, births, strangers, resumes, search, pc, killed, bound, outcome, victims>>

\* A running parent reaps its child.
Reap(p) ==
    /\ proc[p].state = "zombie" /\ proc[p].ppid \in Pids
    /\ proc[proc[p].ppid].state = "run"
    /\ proc' = [proc EXCEPT ![p] = [Free EXCEPT !.start = proc[p].start]]
    /\ UNCHANGED <<suid, births, strangers, resumes, exit, search, pc, killed, bound, outcome, victims>>

Resume(p) ==
    /\ proc[p].state = "stop" /\ resumes < MaxResumes[suid]
    /\ proc' = [proc EXCEPT ![p].state = "run"]
    /\ resumes' = resumes + 1
    /\ UNCHANGED <<suid, births, strangers, exit, search, pc, killed, bound, outcome, victims>>

\* Signals.  A zombie takes them and keeps its state.
Signallable(p) == Exists(p) /\ ~proc[p].eperm
Stopped(p) == [proc EXCEPT ![p].state = IF @ = "run" THEN "stop" ELSE @]
AfterKill(p) == IF Live(p) THEN Dies(p, FALSE) ELSE proc

(***************************************************************************)
(* killTree                                                                *)
(***************************************************************************)
Id(p) == [pid |-> p, start |-> proc[p].start]
LeaderReaped == ~Exists(Leader) \/ proc[Leader].start # 1

\* Mutant: the children only.
descendantsDirect == {[id |-> Id(p), depth |-> 1] : p \in Generation(Leader)[1]}

descendants ==
    UNION {{[id |-> Id(p), depth |-> n] : p \in Generation(Leader)[n]} : n \in 1..MaxBirths}

\* The timeout: the leader is stopped first.
StopLeader ==
    /\ pc = "idle" /\ outcome = "none"
    /\ CASE LeaderReaped -> pc' = "done" /\ UNCHANGED proc
         [] ~LeaderReaped /\ ~Signallable(Leader) -> pc' = "leader" /\ UNCHANGED proc
         [] OTHER -> pc' = "table" /\ proc' = Stopped(Leader)
    /\ UNCHANGED <<suid, births, strangers, resumes, exit, search, killed, bound, outcome, victims>>

\* freezeDescendants, a round: read the table; stop, one by one, parents
\* first, what no round has seen.
Freeze ==
    /\ pc = "table" /\ queue = {}
    /\ \/ /\ round < MaxRounds
          /\ LET fresh == {d \in descendants : d.id \notin seen}
             IN /\ queue' = fresh
                /\ seen' = seen \cup {d.id : d \in fresh}
                /\ round' = round + 1
                /\ clean' = (fresh = {})
                /\ pc' = IF fresh = {} THEN "verify" ELSE "table"
       \/ /\ round = MaxRounds \/ TableFails
          /\ pc' = "verify"
          /\ UNCHANGED <<queue, seen, round, clean>>
    /\ UNCHANGED <<kernel, stopped, current, killed, bound, outcome, victims>>

\* The signal goes to whoever has the pid by now.
Sigstop ==
    /\ pc = "table" /\ queue # {}
    /\ \E d \in queue :
          /\ \A e \in queue : d.depth <= e.depth
          /\ queue' = queue \ {d}
          /\ IF Signallable(d.id.pid)
             THEN stopped' = Append(stopped, d.id) /\ proc' = Stopped(d.id.pid)
             ELSE UNCHANGED <<stopped, proc>>
    /\ UNCHANGED <<suid, births, strangers, resumes, exit, pc, round, seen, current, clean, killed, bound,
                   outcome, victims>>

Verify ==
    /\ pc = "verify"
    /\ IF stopped = <<>> THEN pc' = "leader" /\ UNCHANGED current
       ELSE /\ \/ current' = [read |-> TRUE, ids |-> {Id(p) : p \in {q \in Pids : Exists(q)}}]
               \/ TableFails /\ current' = NoTable
            /\ pc' = "kill"
    /\ UNCHANGED <<kernel, round, seen, queue, stopped, clean, killed, bound, outcome, victims>>

\* Mutant: the search order, parents first.
KillForward ==
    /\ pc = "kill"
    /\ IF stopped = <<>> THEN pc' = "leader" /\ UNCHANGED <<proc, stopped, victims>>
       ELSE LET id == Head(stopped)
                hit == (current.read => id \in current.ids) /\ Signallable(id.pid)
            IN /\ stopped' = Tail(stopped)
               /\ proc' = IF hit THEN AfterKill(id.pid) ELSE proc
               /\ victims' = victims \cup {p \in {id.pid} : hit /\ ~proc[p].tree}
               /\ UNCHANGED pc
    /\ UNCHANGED <<suid, births, strangers, resumes, exit, round, seen, queue, current, clean, killed,
                   bound, outcome>>

\* killStopped: children first.
KillStopped ==
    /\ pc = "kill"
    /\ IF stopped = <<>> THEN pc' = "leader" /\ UNCHANGED <<proc, stopped, victims>>
       ELSE LET id == Last(stopped)
                hit == (current.read => id \in current.ids) /\ Signallable(id.pid)
            IN /\ stopped' = Front(stopped)
               /\ proc' = IF hit THEN AfterKill(id.pid) ELSE proc
               /\ victims' = victims \cup {p \in {id.pid} : hit /\ ~proc[p].tree}
               /\ UNCHANGED pc
    /\ UNCHANGED <<suid, births, strangers, resumes, exit, round, seen, queue, current, clean, killed,
                   bound, outcome>>

\* leader.Kill and killForTimeout.
KillLeader ==
    /\ pc = "leader"
    /\ pc' = "done"
    /\ IF LeaderReaped \/ ~Signallable(Leader)
       THEN UNCHANGED <<proc, killed, exit>>
       ELSE /\ proc' = AfterKill(Leader)
            /\ killed' = TRUE
            /\ exit' = IF Live(Leader) THEN "killed" ELSE exit
    /\ UNCHANGED <<suid, births, strangers, resumes, search, bound, outcome, victims>>

(***************************************************************************)
(* The waiting goroutine                                                   *)
(***************************************************************************)
\* Wait: concurrent with the kill.
ReapLeader ==
    /\ proc[Leader].state = "zombie" /\ proc[Leader].ppid = Gonf
    /\ proc' = [proc EXCEPT ![Leader] = [Free EXCEPT !.start = 1]]
    /\ UNCHANGED <<suid, births, strangers, resumes, exit, search, pc, killed, bound, outcome, victims>>

\* validatorRunError.
runError ==
    CASE killed /\ exit = "killed" -> "timeout"
      [] exit = "ok" -> "ok"
      [] OTHER -> "fail"

\* Run ends once the leader is reaped and a kill under way is over; pipes
\* that survivors hold are closed after WaitDelay.  runIn discards the verdict
\* of a stopped apply.
Return ==
    /\ outcome = "none" /\ LeaderReaped /\ pc \in {"idle", "done"}
    /\ outcome' = IF bound THEN "stopped" ELSE runError
    /\ UNCHANGED <<kernel, search, pc, killed, bound, victims>>

StopApply ==
    /\ ~bound /\ outcome = "none"
    /\ bound' = TRUE
    /\ UNCHANGED <<kernel, search, pc, killed, outcome, victims>>

killTree == StopLeader \/ Freeze \/ Sigstop \/ Verify \/ KillStopped \/ KillLeader
World == Stranger \/ StopApply \/ \E p \in Pids : Fork(p) \/ Exit(p) \/ Reap(p) \/ Resume(p)

Next == outcome = "none" /\ (killTree \/ ReapLeader \/ Return \/ World)

\* The deadline fires, killTree's calls return, a zombie leader is reaped.
Spec == Init /\ [][Next]_vars /\ WF_vars(killTree) /\ WF_vars(ReapLeader) /\ WF_vars(Return)

(***************************************************************************)
(* Properties                                                              *)
(***************************************************************************)
\* The timeout kill hits no process outside the validator's tree: pids that
\* were reused between the table and the signals are told apart, and killing
\* children first keeps the pids of dead ones taken.  (Only an unreadable
\* table, a process resumed, a tree with processes out of gonf's reach, or
\* another process with the pid of a leader that exited by itself excuse it.)
NoStrangerKilled ==
    victims # {} => \/ pc \in {"kill", "leader", "done"} /\ ~current.read
                    \/ resumes > 0
                    \/ suid
                    \/ proc[Leader].start # 1

\* After a search that ended by itself, every process of the tree still alive
\* had left the tree by the exit of an ancestor.  (Processes resumed, or out of
\* gonf's reach, may go on forking.)
TreeKilled ==
    pc = "done" /\ clean /\ killed /\ exit = "killed" /\ resumes = 0 /\ ~suid =>
        \A p \in Pids : Live(p) /\ proc[p].tree => proc[p].escaped

\* killTree leaves nothing stopped for good that it found in the tree.
NoneLeftStopped ==
    pc = "done" => \A id \in seen \cup {[pid |-> Leader, start |-> 1]} :
                       proc[id.pid].start = id.start => proc[id.pid].state # "stop"

\* The timeout kill leaves nothing of the tree behind, running or stopped.
TreeDealtWith == TreeKilled /\ NoneLeftStopped

\* The verdict is the validator's own whenever it ended by itself, also when
\* the timeout struck at the same moment; only a stopped apply discards it.
VerdictIsTrue ==
    outcome \notin {"none", "stopped"} =>
        outcome = CASE exit = "ok" -> "ok" [] exit = "killed" -> "timeout" [] OTHER -> "fail"

\* A validator that gonf may signal never holds up the apply for good.
ValidationIsOver == outcome # "none" \/ proc[Leader].eperm

(***************************************************************************)
(* The inductive invariant behind them.                                    *)
(***************************************************************************)
ConstantsOK ==
    /\ Leader \in Pids /\ {InitProc, Gonf} \cap Pids = {}
    /\ MaxBirths \in Nat \ {0} /\ Suid \subseteq BOOLEAN

Process == [state : {"free", "run", "stop", "zombie"}, ppid : Pids \cup {InitProc, Gonf},
            start : Nat, tree : BOOLEAN, escaped : BOOLEAN, eperm : BOOLEAN]
Ids == [pid : Pids, start : Nat]
Is(id) == Exists(id.pid) /\ proc[id.pid].start = id.start
InStopped(id) == \E n \in DOMAIN stopped : stopped[n] = id
Queued(id) == \E d \in queue : d.id = id
\* A process of the tree that nothing has separated from it.
Attached(p) == Live(p) /\ proc[p].tree /\ ~proc[p].escaped

TypeInv ==
    /\ suid \in BOOLEAN /\ births \in Nat /\ resumes \in Nat
    /\ proc \in [Pids -> Process]
    /\ seen \subseteq Ids /\ queue \subseteq [id : Ids, depth : Nat] /\ stopped \in Seq(Ids)
    /\ current \in [read : BOOLEAN, ids : SUBSET Ids]
    /\ victims \subseteq Pids /\ killed \in BOOLEAN /\ clean \in BOOLEAN /\ bound \in BOOLEAN
    /\ exit \in {"none", "ok", "fail", "killed"}
    /\ outcome \in {"none", "ok", "fail", "timeout", "stopped"}
    /\ pc \in {"idle", "table", "verify", "kill", "leader", "done"}

\* The process table: a parent is alive, older and of the same kind, orphans
\* are init's, and start times tell processes of one pid apart.
Entry(p) ==
    /\ proc[p].start <= births
    /\ Exists(p) => proc[p].start > 0
    /\ ~Exists(p) => proc[p].ppid = InitProc
    /\ proc[p].eperm => suid
    /\ proc[p].state = "stop" => ~proc[p].eperm
    /\ proc[p].state = "zombie" => proc[p].ppid # InitProc
    /\ proc[p].ppid \in Pids =>
          /\ Live(proc[p].ppid) /\ proc[proc[p].ppid].start < proc[p].start
          /\ proc[proc[p].ppid].tree = proc[p].tree
    /\ proc[p].ppid = Gonf => p = Leader /\ proc[p].start = 1
    /\ proc[p].start = 1 => p = Leader /\ (Exists(p) => proc[p].ppid = Gonf /\ proc[p].tree)

KernelInv ==
    /\ births \in 1..MaxBirths
    /\ \A p \in Pids : Entry(p)
    /\ exit = "none" => Live(Leader) /\ proc[Leader].start = 1 /\ ~proc[Leader].escaped
    /\ exit # "none" => ~(Live(Leader) /\ proc[Leader].start = 1)
    /\ exit = "killed" => killed

\* Before the kill an attached process hangs below the leader.
AttachedInv ==
    pc \in {"idle", "table", "verify"} =>
        \A p \in Pids : Attached(p) /\ proc[p].start # 1 =>
            proc[p].ppid \in Pids /\ Attached(proc[p].ppid)

\* What the search has found, has still to stop, and has stopped: of several
\* processes of one pid, in the order of their starts.
SearchInv ==
    /\ pc = "idle" => seen = {} /\ queue = {} /\ stopped = <<>>
    /\ pc # "table" => queue = {}
    /\ pc \in {"leader", "done"} => stopped = <<>>
    /\ pc \in {"idle", "table"} => ~clean
    /\ \A id \in seen : id.pid # Leader /\ id.start <= proc[id.pid].start
    /\ \A n \in DOMAIN stopped : stopped[n] \in seen
    /\ \A m, n \in DOMAIN stopped :
          m < n /\ stopped[m].pid = stopped[n].pid => stopped[m].start < stopped[n].start
    /\ \A d \in queue :
          /\ d.id \in seen /\ ~InStopped(d.id)
          /\ \A e \in queue : e.id.pid = d.id.pid => e = d
          /\ \A id \in seen : id.pid = d.id.pid => id.start <= d.id.start

\* Every process that the search stopped is on the list of those to kill.
StopInv ==
    /\ \A id \in seen : Is(id) /\ proc[id.pid].state = "stop" => InStopped(id) \/ Queued(id)
    /\ pc = "kill" /\ current.read =>
          \A n \in DOMAIN stopped : Is(stopped[n]) => stopped[n] \in current.ids
    /\ proc[Leader].start = 1 /\ proc[Leader].state = "stop" => pc \notin {"idle", "done"}

\* The hold: stopped processes stay, dead ones as zombies of stopped parents
\* that are killed after them.
Calm == ~suid /\ resumes = 0 /\ proc[Leader].start = 1
Parent(id) == proc[id.pid].ppid
HoldInv ==
    Calm =>
        /\ pc \notin {"idle", "done"} => proc[Leader].state # "run"
        /\ \A id \in seen : Is(id) =>
              /\ proc[id.pid].tree
              /\ pc \in {"table", "verify"} => InStopped(id) \/ Queued(id)
        /\ \A d \in queue : Is(d.id) /\ Parent(d.id) \in Pids =>
              \/ Parent(d.id) = Leader \/ InStopped(Id(Parent(d.id)))
              \/ \E e \in queue : e.id = Id(Parent(d.id)) /\ e.depth < d.depth
        /\ \A n \in DOMAIN stopped : Is(stopped[n]) =>
              /\ proc[stopped[n].pid].state # "run"
              /\ proc[stopped[n].pid].state = "zombie" =>
                    \/ Parent(stopped[n]) = Leader
                    \/ \E m \in 1..(n - 1) : stopped[m] = Id(Parent(stopped[n]))
        /\ pc = "kill" /\ current.read =>
              \A n \in DOMAIN stopped : stopped[n] \in current.ids => Is(stopped[n])
        /\ victims = {} \/ (pc \in {"kill", "leader", "done"} /\ ~current.read)

\* A clean search has stopped all that was attached.
CleanInv ==
    /\ exit = "killed" => pc = "done"
    /\ clean /\ ~suid /\ resumes = 0 =>
          /\ pc = "done" => exit # "none"
          /\ exit = "none" =>
                \A p \in Pids : Attached(p) /\ proc[p].start # 1 => InStopped(Id(p))
          /\ exit = "killed" => \A p \in Pids : ~Attached(p)

VerdictInv == outcome \notin {"none", "stopped"} => outcome = runError

TreeInv ==
    /\ TypeInv /\ KernelInv /\ AttachedInv /\ SearchInv /\ StopInv /\ HoldInv /\ CleanInv
    /\ VerdictInv
=============================================================================
