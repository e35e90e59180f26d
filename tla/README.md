# TLA+ verification of gonf

gonf is a configuration-management tool written in Go. A recipe (Go code that
uses `api`) declares resources; recording turns it into a plan, a sequence of
operations with ids, dependencies, change watches, conditions and privilege
flags; the plan is applied on the local machine or pushed over ssh to hosts,
where a gonf of the right release applies it, chunk by privilege chunk, with
one chunk at a time behind `sudo` or `doas`.

This directory holds TLA+ modules translated from that source, TLC
configurations that check them on small instances, and proofs checked by the
TLA+ proof system. `PROJECT.json` lists components, runs, the source lines of
every definition, hazards, findings and theorems.

## 1. Inventory

For each component: its state, its operations, whom it interacts with, what is
hard about it and what makes it correct.

**Recording** (`api/plan.go`, `task.go`, `task_needs.go`, `aggregate.go`,
`methods.go`, `packager.go`, `stage.go`). State: registered tasks, the recording
session, the process-wide repository a recording borrows, the plan directory.
Operations: register, record a list of tasks with what their bodies run, merge
daemon-reloads, and use the outcome (run, push, write a plan, apply). Hard:
bodies record other bodies, errors are stashed and found later, a panic unwinds
half of it. Correct when needs come first, nothing declared is dropped,
conditions and privilege stay with what they guard, and a recording leaves no
trace.

**Systemd reloads and timers** (`resource/systemd`). State: one registered reload
per bus and scope, and who joined it. Later declarations merge into the reload
and move it. Hard: whether a unit starts before the reload that loads it depends
on the order of declarations, names and the plan engine's sort. Correct when no
unit starts from a stale definition and nothing stays unloaded.

**Apply order** (`api/apply_order.go`, `apply_levels.go`, `apply_conflicts.go`).
State: the graph of ops, the watches decided so far, the order. It chooses an
order of a recipe's resources that the privilege split can cut into few chunks,
with watchers in the chunk of what they watch. Hard: it combines dependencies,
inferred parent directories and a greedy choice of watches; a wrong order is
refused later by the pre-flight, so a valid recipe would fail. Correct when it
never costs a valid recipe, uses the fewest chunks, keeps a maximal set of
watches and explains refusals minimally.

**Plan engine** (`plan/split.go`, `require.go`, `pathdeps.go`, `apply.go`,
`api/apply_chunks.go`). State: the chunks, the sort of the current one, the
stack of open `when` blocks, the report of the ids a change was noted under.
Operations: split, pre-flight over all chunks, per-chunk sort, requirement check,
line-by-line apply. Hard: the sort and report see one chunk only; an interrupt, a failing
op or a dead elevated child can end it between any two lines. Correct when
order, scope, privileges, requirements and change gates are those of the plan.

**Elevated apply** (`api/apply_chunks.go`, `internal/cli`, `internal/exec`,
`internal/logger/redact.go`). Controller, wrapper (`sudo`, `doas`) and root child
are three processes joined by a cancel pipe and an output pipe. Hard: cancel,
timeout, the wrapper's own signal rules, a dying controller and a hanging op
race. Correct when the child stops only on request and between ops, no command
is cut off, success means applied, and a cancel returns.

**Config sets** (`resource/configset`). State: member files, pending markers,
staging directories, directory locks. Publishes several files as a validated
unit. Hard: concurrent applies over overlapping directories, kills, power loss,
failures in the rollback. Correct when publications are serialized, a change
signal is never lost, a rollback restores, and backups survive until they are
not needed.

**Cron** (`resource/cron`). State: a crontab of marker blocks and foreign lines;
a lock file under two directories that gonf creates itself. Hard: damaged
markers, environment lines that apply to everything below, lock files removed by
a failed setup. Correct when foreign lines and environments are kept, applies
converge, and the table behaves as if each update were atomic.

**Files** (`resource/file`, `internal/atomicfile`). State: the file at the path,
its temporary, a candidate for the validator. Operations: line edits, whole
content, templates, ensure, absent, owner and mode; lowering to a plan op and
back. Hard: other writers share the file, any step can be the last, entries are
planted between two steps, and everything an apply depends on has to survive the
plan. Correct when others' lines are kept, edits settle, the path always holds a
whole validated file, and a planned file is the declared one.

**Directories and links** (`resource/dir`, `resource/link`). State: source and
destination trees; for a link, the path, its target and `path.old`. Hard:
pruning next to exclusions and templates, previews computed from another tree
than the apply sees, an entry moved aside when the process dies. Correct when
what was not declared stays, previews hold, syncs settle, and data is given up
last.

**Services, timers, rc.conf** (`resource/service`, `resource/timer`). State: what
four service managers say and do; on NetBSD the text of `rc.conf`. Hard: the
order of enable, flags, start, reload and restart when one of them fails; a shell
script edited as text. Correct when an apply that succeeds leaves the declared
state, a second has nothing to do, and an edit of `rc.conf` takes effect or is
refused.

**Secrets and redaction** (`secret`, `internal/logger/redact.go`). State: a
snapshot with entries in flight, the registry of resolved values, the pending
part of a line. Hard: several goroutines share a lookup whose leader may be
canceled, stores change meanwhile, output is cut anywhere. Correct when an answer
was true at some moment of the lookup, lookups return, and no part of a secret
passes the writer.

**Validators** (`internal/validator`). Runs a command with a timeout and kills
its process tree. Hard: processes fork, exit and reuse pids while the tree is
searched. Correct when nothing else is killed, nothing of the tree stays, the
verdict is the validator's own and the run returns.

**Fleet fan-out** (`internal/remote/fleet.go`, `internal/orchestrate`). Nested
errgroups over clusters and hosts with limits and timeouts. Hard: the abort of
siblings looks like an interrupt. Correct when the joined error and the tally
say what happened, a failure stops the fleet, and the run returns.

**Host delivery** (`internal/remote`). State of the host: the installed
binaries, the staging and sticky directories in `/tmp`, running ssh sessions.
Probes, upgrades gonf, uploads blobs, streams chunks, cleans up. Hard: every ssh
can fail or be cut, the remote side may go on, and the sticky directory has the
same name for every push of a plan. Correct when chunks read their own push's
blobs with a fitting binary, secrets stay sealed, directories go, deliveries end.

**Cross builds** (`internal/remote/crossbuild.go`, `sync_buildcache.go`). State: a
lock per platform, the cache of built binaries, the current and the retired
private directories. Hard: a push retires a directory that another builds into
or copies from, and the directories can be swept, replaced or opened up. Correct
when no push gets or loses a binary through another, nothing foreign is reused,
and Close leaves nothing.

Interactions: Recording (with the reloads it merges) → Apply order → Plan engine
(pre-flight and apply) → resources (files, trees, links, services, config sets,
cron, validators); the plan engine starts the elevated apply for a privileged
chunk; Fleet fan-out calls Host delivery for each host, which runs the plan
engine of the remote gonf per chunk, with a gonf the cross builds provide; secrets are resolved while recording and
redacted from every child's output. `Recording` produces what `ApplyOrder`
takes, `ApplyOrder` is built on the split and pre-flight of `PlanSplit` that
`PlanApply` executes, and the crontab lock surrounds the merge.

## 2. Modules

| Module | Models | Run |
|---|---|---|
| `ConfigSet`, `ConfigSetProofs` | the publication of a config set | `configset` |
| `PlanSplit` | pure part of the plan engine: split, hoisting, pre-flight, edges | with `PlanApply` |
| `PlanApply`, `PlanApplyProofs` | the apply of a plan, built on `PlanSplit` | `plan`, `plan_refusal` |
| `ApplyOrder` | the order of a recipe, built on `PlanSplit` | `plan` |
| `Recording` | from registered tasks to a plan and its use | `recipes`, `recording_low_level` |
| `UnitReload` | daemon-reloads, composed units, timers | `recipes`, `reload_overtaken` |
| `ElevatedApply` | controller, wrapper and root child | `processes` |
| `ProcTree`, `ProcTreeProofs` | the timeout kill of a validator | `processes` |
| `Fleet` | clusters and fleets | `processes` |
| `Delivery` | pushes and previews of one host | `processes` |
| `CrossBuild` | the shared cross builds of gonf | `processes` |
| `SecretResolve` | concurrent secret lookups | `processes` |
| `ControllerProofs` | theorems about `Fleet`, `Delivery`, `CrossBuild`, `SecretResolve` | `processes` |
| `Processes`, `ProcessesProofs` | the sum of these six, and theorems about it | `processes` |
| `CrontabMerge` | the rewriting of a table | `crontab` |
| `AtomicCrontab` | what crontab transactions promise | `crontab` |
| `CrontabLock`, `CrontabLockProofs` | the lock and the transaction, refining it | `crontab`, `crontab_lock_rollback` |
| `FileWrite` | the write of one file | `resources` |
| `FileEdit`, `FileDecl` | line edits; a file's way through the plan | `resources` |
| `TreeSync`, `LinkApply` | directories; links | `resources`, `tree_preview`, `link_loop` |
| `ServiceConverge`, `RcConf` | services and timers; flags in rc.conf | `resources` |
| `RedactStream` | the redacting writer | `resources` |
| `HostProofs` | theorems about `FileWrite`, `LinkApply`, `FileDecl`, `ServiceConverge` | `resources` |
| `Resources`, `ResourcesProofs` | the sum of these eight, and theorems about it | `resources` |

`MC*` modules hold the instances. A run that covers several modules takes their
sum: the variable `part` says which module a behaviour belongs to, and the other
modules' variables rest. The sums `Processes` and `Resources` are modules of their
own, for every value of the constants, so that a property of the run and the
theorem about it are the same definition; the others are in `MCPlan`, `MCCrontab`
and `MCRecipes`. A sum keeps the variables of its first module and lends a row
`x1`, `x2`, ... to the others, one of which uses it at a time. A definition called like another with a suffix and a comment
"Mutant:" is a deliberately wrong variant of the definition below it; each
property is known to fail when one of them is put in place.

### ConfigSet

`pc[q]` is the phase of the apply in process `q`; one action per system call
that other processes or a crash can observe. `live` and `marker` are the visible
directory contents, `liveDisk` and `markerDisk` the sets of contents a power loss
may leave, which `Sync` (fsync of the directory) collapses to the visible one.
`owed`, `torn` and `untidy` are history: bytes renamed into place and not yet
reported, markers left without their fsync, members where a marker may rightly
stay. `Kill`, `PowerLoss` and `Edit` are the environment; `...Fails` actions are
failing system calls. Locks are taken in sorted directory order (`NextLock`);
`LockDirFails` covers the lock timeout. Contents are model values, ownership and
mode repair are "this call may fail". Markers are keyed by member path, as the
digest of the path in the code is.

### PlanSplit, PlanApply

A plan line is a record (kind, id, deps, gate, watch, whether it converges while
its gate is closed, the ids it may note a change under, elevate, cond, require,
paths). `SplitPrivilegeChunks`, `hoistRequirements`, `ValidateChunkDeps`,
`ValidateChangeGates`, `DepEdges` and `InferParentDirDeps` follow the functions
of those names. What loops over a sequence in the code is a recursive function or
a set here (`Ascending`, `Parents`), so that it can be proved about; the parents of
one op are tried together, as an edge into an op does not change what the op
reaches. `PlanApply` takes a body from `Bodies` and an invoker (root or
not, wrapper or not, able to re-exec or not), then steps: pre-flight, start of a
chunk, one placement of the sort at a time, requirement check, one line at a
time, end of chunk. `log` records the lines passed and how. What a resource does
is abstracted to changed, unchanged or failed, the ids it notes a change under
(a synced directory notes its files), and which paths exist.

`Fires` says which notes fire a watch on an id, as `watchForms` and `watchCovers`
do: the id itself, its expansion when it holds a path token, and every `File`
under a `Directory`. A closed gate (`Held`) stops a command (`GateIdle`); a
service or timer is still enabled, started or stopped (`Acts`), with only its
restart or reload held. So `GateFires` says: a gate is open exactly when a watched
op changed earlier in the apply, in whatever chunk, or a covered id was noted in
the gate's own chunk. The second half is about the own chunk only, see the
observations.

### ApplyOrder

The phases of `orderForPrivilegeSplit`: cycle check, watches one at a time
(`closesCrossCycle`, `shrinkConflict`), parent directories, order. Tarjan's
stack and search marks are abstracted to reachability. Its properties compare
the result with brute force over all permutations.

### Recording, UnitReload

`Recording` keeps the registry, the repository and the plan directory as
variables and computes one recording with recursive operators over a session
record, because bodies nest: envelope of a task (guard, privilege), its needs,
its body statement by statement, dedupe scopes, stashed errors, a panic. Actions
are what a program does between recordings: register, declare, edit a file, run,
push, write a plan, apply. `UnitReload` declares files, trees, reloads,
compositions and timers one by one, with `merge` and `join` deciding on unit
names (stem, instance, drop-in prefix, type) as `mayManageUnit` does, and then
applies the ops in the plan engine's order with notes of what changed.

### ElevatedApply

Time is ticks: `grace` counts down to the kill of the wrapper, `left` bounds the
command or validator that runs. Four wrapper kinds differ in whom a signal
reaches and whether the wrapper can be killed. `slow` ops are those nothing
bounds (a hanging file system). `Overrun` is how far a command may exceed its
timeout; `OverrunAssumption` bounds it by the margin the code leaves.

### CrontabMerge, CrontabLock, AtomicCrontab

A table is a sequence of lines of the kinds begin, end, env, entry, blank and
bad. `reconcile` is the whole rewriting: adoption of unmanaged copies, stripping
of the job's blocks, placement of the block, trimming. `CrontabLock` models
the lock path as inodes at three levels: open, create, repair of mode, verify,
flock, and the rollback that unlinks what a failed attempt created. Its table is
a set of jobs; `AtomicCrontab` adds a job in one step and reports it in another,
and `UpdatesAreAtomic` states that `CrontabLock` implements it with the table as
the table and the finished processes as those told.

### FileEdit, FileWrite, FileDecl

`FileEdit` collects option calls, checks them against each other and applies
blocks, removals, keyed lines and added lines to a file of tagged lines with line
endings. `FileWrite` has one action per system call of a write with or without
validation, of ensure, of absent, and of the attribute repair through a
descriptor. `changed` compares checksums, and a file the apply cannot read has the
zero one: a user whose file is declared with a mode without read permission has it
rewritten, and a change reported, on every apply. `OutcomeTrue` states that
(`Owed`), so that a report says what the apply did rather than whether the bytes
differed; `stable` is what a power loss leaves, `Plant` puts an entry at the
path. `FileDecl` takes options in any order to a plan op, to bytes and back to a
file on the destination.

### TreeSync, LinkApply

Trees are functions from paths to entries. `TreeSync` walks the source entry by
entry, replaces, prunes, and can be killed between two entries and run again;
`foreseen` is what the dry run before it said. `LinkApply` follows an apply call
by call through the names path, path.old, target and via (a symlink that leads to
one of them); `doomed` marks the entry a link replaces.

### ServiceConverge, RcConf

`ServiceConverge` computes the commands a probe asks for and runs them one by
one on a host model that knows what each manager does with the flags at start,
restart and reload. `RcConf` holds a file as statements; the parser sees their
tokens, `Eval` is what sh makes of the statements, and the edit is judged by
`Eval` before and after.

### RedactStream, SecretResolve

`RedactStream` writes real character sequences through `Write`, `FlushPoint` and
`Close`, while `Add` registers secrets, with small limits in place of the code's.
`FlushPoint` looks at the registry up to four times without a lock; each look is an
argument of its own, and `WriteDuringAdd` lets a secret arrive between two. In
`SecretResolve` a caller is a goroutine: it leads a lookup or waits for the
leader, probes the contract once for all, asks foostore, then the files, one step
per call, while stores lock, change, vanish and return and contexts end.

### ProcTree, Fleet, Delivery, CrossBuild

`ProcTree`: pids with a state, parent and start time. `Freeze` reads the table,
stops what is new and repeats up to the code's bound of rounds; `KillStopped`
verifies and kills in reverse order. The environment forks, exits, reparents,
reaps and reuses pids at any moment. One read of the process table is one step.
`Fleet` has one step per start, end and tally of a host and of a group, and the
contexts between them. `Delivery` has a controller step per ssh invocation and
separate sessions on the host that may run on after their ssh was killed
(`Linger`). Releases are numbers ordered by capability (none, no schema, ...,
controller's own); encryption is who can open what. `CrossBuild` has the steps of
`buildGonf` for several pushes under one lock per platform; `spoiled` records what
a temp cleaner or an operator did to a binary.

## 3. Runs

Every run finishes in one to five minutes with two workers. Deadlock is not
checked where the program stops when it has returned; the config-set processes
apply again and again, and there it is.

| Run | Instance | Shows |
|---|---|---|
| `configset` | 2 processes, 2 members in 2 directories, sets in both orders and one that shares a single directory, 2 contents | `Serialization`, `NoCircularWait`; `SignalSurvivesKill` and `SignalSurvivesPowerLoss`; `OutcomeIsTrue`: success means rendered bytes, complete rollback the old ones, no spurious marker; `BackupsSurvive` |
| `plan` | PlanApply: 3 to 7 lines with any dependencies, nested and consecutive blocks, gates of commands and services on ids, on files under a directory and on expanded tokens, directories, odd plans; 4 invokers, whole plan or chunks, one failure, an interrupt anywhere. ApplyOrder: 4 resources of any classes and up to 3 dependencies; 4 watching each other around an elevated one; a directory and its contents | `DepsBefore`, `GateFires`, `PlanKept` (privileges, blocks, lines and requirements of the plan), `RunOrder`, `OrderIsBest` (valid recipes accepted, fewest chunks, best choice of watches) |
| `plan_refusal` | the dependency plans above, no failures | a violation, see Findings |
| `recipes` | Recording: up to 4 registrations from a universe with every kind of task, alias, aggregate, struct and body; run, push, plan and apply in any order with an edit between. UnitReload: all recipes of up to 4 declarations out of files, drop-ins, a tree, 4 compositions, 4 reloads and 4 timers on two buses, an apply with any content missing and one failure | `NeedsRecordedFirst`, `NothingDropped`, `GuardsTravel`, `RecordingsLeaveNoTrace`; `NoStaleStart`, `AllLoaded` |
| `recording_low_level`, `reload_overtaken` | a body that registers without a draft; recipes of up to 4 unit declarations | violations, see Findings |
| `processes` | ElevatedApply: 4 wrappers, 2 ops of which one may hang, an interrupt, a timeout, a dying controller. ProcTree: 3 pids, all of them reusable, 4 births, 1 stranger, 1 resume, unreadable tables. Fleet: clusters of 2 and 1 hosts, 1 at a time. Delivery: 4 settings, from repeated pushes over every pair of releases to lingering sessions. SecretResolve: 2 goroutines, 3 spellings of one name, 3 stores, a store event. CrossBuild: 3 pushes to 2 platforms, 3 directories, 2 outside events | `GraceSuffices`, `ChildRunsOn`; `NoStrangerKilled`, `TreeDealtWith`; `FreshBlobs`, `SecretsSealed`; `FreshBlobs` and `FailuresContained` of cross builds too; `ReportsTrue` of the others; `FailuresContained` of fleets and deliveries; `CallsReturn` of all six |
| `crontab` | CrontabLock: 3 processes, 6 inodes, one kill, failing calls at each level, umask that damages new objects, flock supported or not. CrontabMerge: all tables of up to 4 lines from 8, two applies of 5 job forms with hand edits between | `Exclusive`, `UpdatesAreAtomic` (the refinement); `Settled`; `OthersUnharmed`: foreign lines and environments stay, a failed lock leaves nothing behind |
| `crontab_lock_rollback` | the lock, where the repair of a new lock file may fail | a violation, see Findings |
| `resources` | FileEdit: every file of 3 lines or 4 markers, every pair of 13 option calls. FileWrite: 130 declarations on 8 entries, two runs, one planted entry, a kill or a power loss anywhere. FileDecl: 5 constructors, 4 paths, 3 of 17 options in any order. TreeSync: 18 sources on 38 destinations under 41 declarations, two runs, kills. LinkApply: 189 states of four names, 16 declarations, two runs, a planted entry. ServiceConverge: every declaration on every state of 4 managers, a failing command, two applies. RcConf: all files of 2 statements from 32, some of 3, overrides and defaults. RedactStream: 6 families of overlapping secrets over 2 characters and a line break, added before, between and during the writes | `OthersKept`, `AppliesSettle`, `ReportsTrue`, `WholeFiles`, `AttributesSafe`, `PlanMirrorsFile`, `PreviewHolds`, `DataKept`, `SecretsHidden`, `PendingBounded` |
| `link_loop`, `tree_preview` | links alone; trees alone | violations, see Findings |

Why the bounds are enough:

- `configset`: two processes and two directories are what a circular wait, a
  stale diff and a partial rollback need. The constraint `Stories` bounds what
  goes wrong in one behaviour: a failing call under full concurrency, or a
  failing call with a kill under concurrency on one set, or two of anything
  with one process at a time (a crash and the next apply's handling of what it
  left is such a pair).
- `plan`: the algorithms compare pairs of lines, ids carried twice and chunks on
  both sides of a block; three ids, two blocks and three chunks contain each
  such relation.
- `recipes`: a nested Run inside a needed task inside an aggregate takes four
  registrations; an overtaken reload takes a reload, a refused timer and a
  declaration that moves the reload, and the content they are about.
- `processes`: of the elevated apply only the order of timers matters;
  `CmdTimeout`, `CancelGrace` and `Overrun` are small and distinct, the proof
  covers all values. Leader, child and grandchild (or stranger) fit on three
  pids and four births allow a reused pid. A fleet has a queued and a running
  sibling and another group. Two goroutines are a leader and a waiter; the waiter
  leads next when the leader was canceled.
- `crontab`: the race of a rollback needs a creator, a holder and a newcomer; six
  inodes let every level be created twice.
- `resources`: two runs are what settling, and recovery from a kill, are about.
  A block is damaged by one stray, missing or swapped marker, all within four
  lines. A redacted line is cut at most four characters from the end of any
  secret, and all secrets that overlap each other's ends are in the families.

### Fairness

Only `processes` assumes fairness (`SumFairness`), and each part has its own:

- elevated: the program's own steps and timers happen. An op that hangs
  (`EndSlow`) is not assumed to end; interrupts and deaths are free.
- validator: `killTree` runs, the kernel delivers the leader's exit
  (`ReapLeader`), and `Return` follows `WaitDelay`. Nothing is assumed of the
  validator's processes.
- fleet: goroutines are scheduled and each delivery ends, which the delivery
  part shows.
- delivery: the controller's steps happen and the host timeout fires, which
  kills the ssh. `-host-timeout 0` (no limit) is excluded. Nothing is assumed of
  the host.
- cross builds: goroutines are scheduled and `go build` ends.
- secrets: goroutines are scheduled and each call of a provider returns
  (a read of foostore has a timeout and a kill behind it). Nothing is assumed of
  cancellation or the stores.

## 4. Proofs

Proved by TLAPS for every value of the constants the assumptions allow. Each
invariant below is inductive: it holds initially, every action keeps it (one
lemma or step per action), and the property follows from it.

**`ConfigSetProofs`** (any number of processes, paths, contents, sets, failures,
kills, power losses and edits) proves all properties of `ConfigSet`:

- `TypeCorrect`, `PublicationsSerialized` (`[]Serialization`), `SignalKept`
  (`[]SignalSurvivesKill`). `SignalSurvivesKill` is not inductive: removing a
  marker is harmless only if nothing is owed at its member, and that depends on
  where the apply is in its loops. `SignalInv` adds `LoopInv` (the loop sets hold
  members only, and changed ones while publishing), `LockInv` (past `lockDirs` a
  process holds every lock of its set) and `MarkInv` (what holds right before a
  rename and right before a marker removal). A step of one process touches only
  members in directories it has locked (`FootprintStep`), and locks exclude
  (`LockExcludes`), so the other processes' parts are kept (`MarkFrame`).
- `NobodyWaitsInACircle` (`[]NoCircularWait`). `OrderInv`: what a process holds
  lies below what it waits for, in the order of directories by device and inode.
  In a circle of waiting processes one waits for the greatest directory, and its
  holder can wait for nothing; that a finite set has a greatest element is why
  `FiniteAssumption` is there.
- `SignalKeptAcrossPowerLoss`. `PowerInv` relates the disk to the directory: what
  was synced is all a power loss can leave (`DurableInv`, `BackupInv`).
- `ReportedOutcomeIsTrue` and `PreviousBytesSurvive` (an action property).
  `OutcomeInv` says what is known in each phase about contents (`ContentInv`),
  about the bytes that were there before (`KeptInv`), about who answers for a
  marker (`AnswerableInv`) and which markers may stay (`TidyInv`).

Assumptions: `PathAssumption`, `ProcAssumption`, `FiniteAssumption`,
`ContentAssumption`, `DirAssumption`, `VariantAssumption` (non-empty sets without
duplicate paths, as the declaration check ensures), `BoundAssumption`.

**`PlanApplyProofs`** (any plan, host, invoker, failures):

- `DependenciesFirst` (`[]DepsBefore`) and `GatesFire` (`[]GateFires`). `Inv`
  combines `ChunksInv` (what the pre-flight guarantees of the chunks: every
  dependency has a carrier in the same or an earlier chunk, no watched id is carried
  by an earlier chunk than the gate's), `SortInv` (the partial sort never places a line before its
  predecessors), `LogInv` (the log is exactly the finished chunks plus the passed
  part of this one) and `NotesInv` (the report is what the ops of this chunk noted).
  That a watched op that changed notes an id that fires its watch is part of `LogInv`;
  together they give both directions of `GateFires`, whatever `Fires` is. `DepIsPred` turns a dependency inside a chunk into a predecessor of the
  sort; `PassKeeps` is the step that passes a line.
- `RunsOrdered` (`[]RunOrder`). The lemmas are about what the sort computes, for
  chunks of any length: the split makes typed chunks (`SplitType`); `Reaches` is
  reachability, because after n steps a set that still grew would have more than n
  members (`ReachesLeast`); an inferred edge closes no cycle (`AddEdges`), so the
  inferred edges keep an acyclic graph acyclic and are all of the parent edges if
  those contradict nothing (`InferredEdges`); and if each line of a set waits for
  another of the set, there is a cycle (`CycleExists`). A sort that is stuck is
  stuck at the earliest line left, which no control line holds back, so its run
  has a cycle, and that is one of declared dependencies (`StuckIsCircular`).
  `RunInv` adds that the order repeats no line and that what was passed of a
  chunk is a beginning of it.
- `PrivilegesKept` (`[]PrivilegeKept`). A part of the split holds lines of the body
  of one effective privilege (`PartsScope`), hoisted lines are at no position of
  the body, and a block has one end (`OneCloser`), so a block around an op that the
  split finds is one that is open at the op.
- `PlanAsRecorded` (`[]PlanKept`), from `PrivilegesKept` and the following three;
  their inductive invariant is `KeptInv`. Blocks are counted as depth: a block is
  open where the depth has not fallen below its own (`OpenAtDepth`), and in a
  balanced plan the depth is never negative and is zero at the end
  (`BalancedNested`).
  - `BlocksKept` (`[]BlocksIntact`). All lines of an outermost block have one
    effective privilege (`OuterElevates`), so the split cuts at depth zero
    (`CutDepth`) and a chunk, nested stubs and then lines of the body, is nested
    (`ChunksNested`). The sort keeps each line on its side of every control line,
    so a control line keeps its place (`ControlFixed`, by counting what is before
    it) and an op stays inside the same blocks (`OpenKept`). Hence the stack has
    one entry for each open block (`Stacked`, `StackedBegin`, `StackedEnd`).
  - `PlanWhole` (`[]WholePlan`). Each line of the body is in one chunk at one
    place (`ChunksCover`, `ChunksOnce`) inside the blocks it is inside in the body
    (`ChunksOpen`); the top of the stack is "off" exactly if one of these blocks
    was not entered (`StackedTop`, `SkippedRight`).
  - `RequirementsKept` (`[]RequirementsProtect`). A stub asks what the requirement
    asks, inside copies of the same blocks (`StubsAsk`); it does so wherever it
    stands after nested lines (`StandsAsks`), so the first chunk asks for every
    requirement of the plan (`RequirementAhead`). `RequireInv`: while one is unmet,
    the first chunk is not gone through.

Assumption: bodies are sequences of ops.

**`ProcessesProofs`** proves every safety property of `processes` for the sum:
`GraceIsEnough` (`[]GraceSuffices`), `ChildIsSafe` (`[]ChildRunsOn`),
`KillHitsNoStranger`, `KillLeavesNothing`, `AllBlobsFresh`, `AllSecretsSealed`,
`AllFailuresContained` and `AllReportsTrue`.

- About the elevated apply (any timeout, grace, number of ops): `IInv` relates the
  two countdowns (`Outlives`: what runs in the child ends before the grace does)
  with what the cancel byte has caused (`Informed`, `Heard`, `Requested`) and with
  the result (`Finished`). Assumption: a command exceeds its timeout by less than
  two cancel graces (`OverrunAssumption`).
- About the sum: `SumInv` says that the invariant of `part` holds of its variables.
  `SumStarts` and `SumKeeps` take what each part's own module proves of its initial
  states and steps; a step of the sum is a step of its part or leaves it alone. A
  part is proved about in `ProcTreeProofs` or `ControllerProofs`, where only its own
  variables and definitions are in sight, and read here through an instance
  (`TreeP`, `CrewP`) with the sum's variables; lemmas such as `PushSteps` say that
  the instance and the part of the sum are the same.

**`CrontabLockProofs`** (any number of processes, inodes, kills): `LockExcludes`
(`[]Exclusive`), `UpdatesAtomic` (`Spec => UpdatesAreAtomic`, the refinement of
`AtomicCrontab`) and `NothingWrongLeft` (`[]NoDebris`), under `3 \notin FixFails`:
the mode of a new lock file can be repaired. Without it the properties fail, which
is the run `crontab_lock_rollback`. Exclusion rests on all processes locking one
inode, so `IInv` follows the path: every named object hangs in a chain from the
home directory and is the only one of its name (`Chain`, `Unique`), what a process
has open and what it created fit the level it works at (`Fds`, `Made`), a lock file
is never unlinked where locks work (`Kept`), a process in its transaction holds
the flock (`Held`), and the table a writer read is still the table, which has the
jobs of all who returned (`Table`). The refinement maps the write of a merged
table to `Install`: because of `Table` and `Exclusive` the written table is the
present one with the writer's job, so nothing else disappears; a return is a
`Report`; every other step is a stutter. `Debris` adds that every object with a
wrong mode has a maker who has yet to repair or remove it, or was killed: nothing
is made in a directory that is not exact, so a directory that a rollback has to
leave, because others have used it, is right.

**`HostProofs`** has the theorems about files, links, declarations and services.

- Files (any declarations, entries at the path, applies, kills, power losses and
  planted entries): `InvGivesWhole`, `InvGivesSafe` and `InvGivesOutcome` from
  `FileInv`, which says at each step of the apply what is known there: what was
  decided on the way (`ControlInv`), how complete and how validated the temporary
  is (`TempInv`), what is at the path and on the disk (`PathInv`), that a change by
  name is made without privilege (`AwayInv`), and what an apply finds that nobody
  disturbs (`QuietInv`). Hypothesis: `ConstantsOK`, the shape of a declaration and of
  an entry; a validator cannot be combined with ensure, which `file.go:339` refuses.
- Links (any declarations, trees, applies, kills and entries planted at
  `path.old`): `KeepsData`. `DataKept` is not inductive: after the original is gone,
  a later apply must not lose the link in its turn. `LinkInv` therefore says what
  each step found (`Steps`), that what a hard link leads to is never the entry that
  is moved (`Replaced`), and that once something was given up the link is in place
  in such a way that every further apply finds it so, whatever is at `path.old`
  (`Secure`, with `FoundInPlace`: the target resolves to the same entry). Identities
  are of one kind and an entry is planted once (`Identities`, `PlantsInv`).
  Hypothesis: `Link!ConstantsOK`, the shape of the trees the applies start from.
- What a dry run says of a link: `DryRunForesees` (`DryRunHolds`), from `PreviewInv`
  and `LinkInv`. As long as nobody interferes, `Foresight` says at each step that the
  dry run's word is what it would say of the entries now, or, once the apply decided
  to change something, "would"; a hard link's target is still there because `Replaced`
  says that it is not what is moved aside.
- Declarations (any number of options in any order): `DeclMirrors`. Every option keeps
  the shape of a file (`Shaped`), so what the checks at the constructor allow
  (`Declared`) is one of the cases ensure, absent, lines, content, nothing; for each
  the op that `planDraft` records is applied as the same file or is refused
  (`DestinationMirrors`). That a secret stays one rests on `Probes`: the probe file of
  `PresentSecret` tells which options would replace its content.
- Services and timers (any declarations, units, applies, failing commands and
  changes by others between applies): `ServicesHold`, that is `ServiceAsDeclared` and
  `SecondApplyIdle`. What `Converge` runs is a list that is computed once and may end
  anywhere, so `ServiceInv` says what the rest of it still is: for an absent unit
  `Removing`, for any other `Providing`, lists of an enable, the flags and the verb of
  the policy, of which the leading ones are missing exactly as far as the host shows
  their effect; the last action therefore leaves the unit as declared. That the flags
  stand before the verb is why the daemon runs with them. For the second apply,
  `Converged` is what it sees of a unit as declared, and `Asked` what makes it run
  anything after that. `ListOf` is the lemma that the sequences `actions` and
  `sequence` build are these lists. Hypothesis: `Serve!ConstantsOK`, the shape of a
  declaration and of a unit.

**`ResourcesProofs`** states them for the sum, as `ProcessesProofs` does:
`AllFilesWhole` (`[]WholeFiles`), `AllAttributesSafe` (`[]AttributesSafe`),
`AllDataKept` (`[]DataKept`), `AllPlansMirror` (`[]PlanMirrorsFile`), `AllReportsTrue`
(`[]ReportsTrue`), `ServicesSettle` (the part of `AppliesSettle` that is about
services) and `LinksForeseen` (the part of `PreviewHolds` that is about links).

**`ControllerProofs`** has the theorems about what runs in or for the controller.

- Fleets (any hosts, groups and limits): `ReportsAreTrue` (`[]ReportIsTrue`) and
  `FailureEndsFleet` (`[]FailureStopsFleet`). `FleetInv` follows a cancellation: from
  the fleet to its groups and hosts, and from a failed host to its group
  (`ContextInv`); the tally of a group is about its own hosts (`TallyInv`), a group
  that is over has none running (`GroupInv`), and behind every abort is the caller
  or a group with a failure of its own (`CauseInv`), which the result names
  (`ResultInv`). Hypothesis: `ConstantsOK`, finitely many hosts, each in one group,
  no group empty, as `GroupFleetHostsByCluster` (`inventory.go:427`) makes them.
- Cross builds (any pushes, platforms, directories and outside events):
  `BuiltBinariesHold` (`[]BinariesHold`) and `BuildsLeaveNothing` (`[]NothingLeft`).
  `BuildsInv`: a push holds the lock of its platform alone (`LockHeld`), so a
  directory it found in the cache stays there or is built into no more (`CacheInv`);
  a spoiled binary never becomes good (`SpoiledInv`), what a push builds was not
  spoiled before (`BuildInv`) and nobody builds again what one installs (`UseInv`);
  a directory that is ours is the current one or retired until Close (`CloseInv`).
- Secret lookups (any goroutines, keys, contents and stores, any number of lookups
  and store events): `LookupsTellFacts` (`[]FactsHold`). `LookupsInv`: what a store
  holds during a lookup has been seen in it (`Watched`), each step of a lookup has
  found what was so (`FoundSo`), a leader has the key's entry to itself, a waiter has
  the same entry or a dropped one, and a fact once told stays in the entry
  (`Snapshots`).
- Deliveries (any deliveries, releases, failures and cancellation):
  `ChunksReadFreshBlobs`, `SecretsStaySealed`, `RunnersAreFit` (`[]BinaryFits`),
  `ChunksInOrder` (`[]SuccessMeansApplied`) and `NothingLeftBehind` (`[]CleanedUp`), all
  from `DeliveryInvariant`. The controller waits for one session at a time
  (`AttachedInv`) and each session gets only as far as its step (`SessionInv`); what
  ran a probe is still installed when a chunk runs (`FitInv`); the files in the
  sticky directory are those of the push that emptied it last, or of a session that
  outlived its ssh (`FilesInv`, `BlobsInv`); a chunk is applied after those before it
  (`ChunksInv`); and what was made is removed or the host was out of reach
  (`CleanInv`). Hypothesis: `Push!ConstantsOK`, the shape of a setting (at least one
  delivery of at least one chunk).

**`ProcTreeProofs`** (any number of pids, births, rounds, strangers; any pid may
be reused): `OnlyTreeKilled` (`[]NoStrangerKilled`), `NothingOfTreeLeft`
(`[]TreeDealtWith`), `VerdictHolds` (`[]VerdictIsTrue`), from `TreeInvariant`. A
parent is older than its children, so the generations below the leader are
disjoint and end, and a round that reads the table sees everything that is still
attached to the leader. What was seen stays what it was as long as pid and start
time agree, which `KillStopped` verifies; a pid that is stopped cannot be reused.
Hypothesis: `ConstantsOK`, the leader is a pid, init and gonf are other processes,
and at least one birth is left.

The hypotheses `ConstantsOK` of the parts are ASSUMEs of `Processes` and `Resources`,
which TLC evaluates on the instances of the runs; for the parts whose constants
need no hypothesis there is none.

The library's induction theorems take an operator as a parameter and cannot be
used. Induction over a number is done with a set in place of a predicate (`UpTo`:
a set that holds 0 and, with each number below n, the next one, holds 0..n), and
for what a recursive function computes it is proved first that a function with
these equations exists (`RecursionExists`).

Only model-checked:

- liveness (`CallsReturn`), because fairness and ENABLED are out of the prover's
  reach;
- the properties of `recipes`: `Recording` and `UnitReload` are written with RECURSIVE
  operators, as a body runs bodies and units depend on units, and a module that
  reaches one cannot be proved about;
- `OrderIsBest`, which compares `ApplyOrder` with brute force over all permutations,
  and `Settled` and `OthersUnharmed` of `CrontabMerge`: what a fold over the lines of
  a table computes needs induction over data (the lock's part of `OthersUnharmed` is
  `NothingWrongLeft`);
- `OthersKept`, `PreviewHolds` of trees, and `AppliesSettle` except of services: they are
  about what folds over lines, entries of a tree or statements compute;
- `SecretsHidden` and `PendingBounded`: what a fold over the forms of the secrets
  finds in a text.

## 5. Findings

- `plan_refusal`: the sort, with its cycle check, runs per chunk. A cycle inside
  a later privilege chunk is refused after the earlier chunks were applied,
  although the comment at the sort says a refused plan leaves the destination
  untouched.
- `crontab_lock_rollback`: a lock file is usable by others from the moment it is
  created. If `fstat` or `fchmod` then fails for its creator, the rollback
  unlinks a file another process has locked, and a third process locks a new one.
- `recording_low_level`: a nested Run does not give the enclosing body its
  repository back, so a resource the body registered without a draft before the
  Run is dropped, where the recorder's comment says the record fails.
- `reload_overtaken`: a timer whose join was refused is behind the registered
  reload only by declaration order. A later declaration that merges into the
  reload moves it behind the timer, which starts with its unit not reloaded.
- `link_loop`: the target of a symlink is asked for before the link exists. A
  target that resolves through the link's own path is found, the entry there is
  removed and the link becomes a loop.
- `tree_preview`: the dry run looks a link's target up in the source tree, the
  apply in the destination. A link to a rendered template, or to an entry only
  the destination has, is refused by one and made by the other, where the comment
  says the refusals are identical.

Observations that the properties carry as explicit exceptions:

- `GateFires` counts a covered id in the gate's own chunk only (`SeenChange`). The
  pre-flight compares watched ids with recorded ids, so a gate on a directory whose
  file is applied in a chunk of another privilege is accepted, and stays closed when
  that file changes. Without the restriction TLC shows it on `CoverBodies`, although
  the reference says a watched directory fires on its files and watches across
  privileges are refused (`docs/reference.md:855`, `:1092`).
- `OutcomeTrue` counts a file its apply cannot read as one that is changed.
- `SignalSurvivesPowerLoss` excludes members in `torn`: `createMarker` returns
  without an fsync when a marker exists, and that marker may be one whose own
  fsync never happened. Dropping the exclusion shows a power loss that loses the
  signal `docs/design/config-set.md` promises to keep.
- `NoStrangerKilled` excuses what happens once the leader's pid belongs to another
  process (`proc[Leader].start # 1`): `killTree` reads the children of
  `leader.Pid` from the table, which names the leader only until `Wait` has reaped
  it. Without the excuse TLC shows the window, next to those that the comment of
  `killTree` lists.
- `FreshBlobs` exempts unsealed blobs when sessions outlive their ssh
  (`Linger`): a lingering upload of an interrupted push can mix its files into the
  directory of the next one.
- `CallsReturn` exempts OpenBSD's doas, which cannot be killed while its child
  hangs.
- `NoStaleStart` exempts what `reload_overtaken` shows (`Overtaken`) and units after
  an apply that failed:
  the change note is lost with the process, and a gated reload of the next apply
  does not run.
- `CrossBuild`: a binary that is changed between the end of `go build` and its
  checksum is not noticed (`Edit` touches cached binaries only); and a failing
  build removes its output by name without the check of the directory that the
  other clean-up makes.
- `ServiceConverge`: a gated restart that fails after the flags were set is not
  made up for by the next apply, which sees the flags in place.
- `TreeSync`: plans recorded before schema 6 (`oldplan`) render templates for the
  directory a run unpacked its blob to, so every run changes them; `AppliesSettle`
  leaves them out.
- `SecretsHidden` holds for secrets within a line; of a secret with line breaks,
  short lines may pass.

## 6. Abstractions and assumptions

- Contents, names and messages are model values; wording, logging and formatting
  are left out.
- Config set: dry runs change nothing and are left out; one directory fsync and
  one rename are atomic.
- Validator processes are bounded by the command timeout where `ElevatedApply`
  counts on it.
- Crontab lock: root's lock has one directory less to create, which is a special
  case of the modelled path. Root and the account itself use different locks; the
  source documents that race as accepted.
- Process table reads, `rm -rf` of a staging directory and the unpacking of one
  upload entry are atomic; `install(1)` may leave the old, the new or a broken
  binary.
- Plan engine: the gated ops of `PlanApply` are commands, services and timers; a
  daemon-reload asks for changes since the bus's last reload, which is in
  `UnitReload`, and the restart that a service's own flags cause in spite of its
  gate is in `ServiceConverge`.
- Recording: the lowering of a single draft is one step; errors are classes.
- UnitReload: a privilege boundary counts as a control line, and units are enabled
  already.
- FileWrite: names are one directory; the descriptor walk of `safepath` is one
  step, and an entry planted at the path between two steps is what it defends
  against.
- TreeSync: no two source entries are written under one name, link targets stay
  inside the tree (`SelfContained` where a property needs it), and no directory
  with contents stands where a link goes (the code refuses).
- LinkApply: entries are planted at `path.old`; the source does not defend a link's
  own path against others.
- RcConf: the quoting rules of the lexer are one mark per word; overrides that
  source the defaults again are left out.
- RedactStream: the quoted and JSON forms of a secret are forms like any other;
  secrets longer than the guard and the window of a child that failed to start
  are left out. One secret is added per flush, and a line that is completed is
  redacted with the forms its write began with.
- SecretResolve: errors other than not-found and canceled are one class.

### Not modelled

- Config-set declaration checks, the option checks of other resources, and the
  plan's secret scan: validation of one declaration by tables, without state.
  What they guarantee is an assumption (`VariantAssumption`) or an input set.
- Wire format and blobs: encodings; their effect on a push and an apply is in
  `Delivery`, `FileDecl` and `PlanApply`.
- Sealing and signing: who can open what is in `Delivery`; the cryptography and
  the envelope are a library's.
- Command line: flag parsing and wording; handlers that change state are in
  `Delivery`, `ElevatedApply` and `Recording`.
- Package, user and command resources: one probe and one external command each,
  which the engine sees as changed, unchanged or failed.
- Inventory: constant data; `GroupOf` in `Fleet` is its result.

## 7. Plan

Modelled: all components above that keep state across several steps, and every
safety property of them that the provers can reach without induction over data is
proved. Left, in this order:

1. Proofs: the lemmas about folds, should the prover learn to instantiate the
   library's induction theorems.
2. Abstract specifications: an atomic multi-file register that `ConfigSet`
   implements when nothing is killed; a fleet run as one choice of outcome per
   host.

## 8. Running

    tlc -workers 2 -config ConfigSet.cfg MCConfigSet
    tlapm ConfigSetProofs.tla

and likewise for the other pairs listed under "runs" in `PROJECT.json`.
