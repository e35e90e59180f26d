------------------------------ MODULE ConfigSet ------------------------------
(***************************************************************************)
(* The publication transaction of a config set (resource/configset): lock  *)
(* the member directories, diff, stage and validate, back up, then for     *)
(* every differing member create a pending marker and rename the new file  *)
(* into place, rolling back on the first failure; finally report the       *)
(* members and remove their markers.                                       *)
(*                                                                         *)
(* Several gonf processes apply concurrently.  A process may be killed at  *)
(* any step, the host may lose power at any step, every system call may    *)
(* fail, and an operator may edit a member without taking the locks.       *)
(*                                                                         *)
(* A directory entry has a visible value (live, marker) and the set of     *)
(* values a power loss may leave behind (liveDisk, markerDisk); fsync of   *)
(* the directory shrinks that set to the visible value.                    *)
(***************************************************************************)
EXTENDS Naturals, Sequences, FiniteSets

CONSTANTS
    Proc,       \* gonf processes
    NoProc,     \* "nobody holds this lock"
    Path,       \* member paths; (set, key, path) names a marker, see README
    NoPath,
    Content,    \* file contents
    Missing,    \* no file at the path
    DirOf,      \* path -> (device, inode) rank of its directory
    Variants,   \* the member lists recipes declare, in declaration order
    SyncDirs,   \* directories on a filesystem that supports directory fsync
    MaxKills, MaxPowerLosses, MaxFaults, MaxEdits   \* bounds on the failures

Bytes == Content \cup {Missing}
Dirs  == {DirOf[p] : p \in Path}
MarkState == {"absent", "present"}   \* of a pending marker

ASSUME PathAssumption == NoPath \notin Path
ASSUME ProcAssumption == NoProc \notin Proc
ASSUME FiniteAssumption == IsFiniteSet(Proc)
ASSUME ContentAssumption == Missing \notin Content
ASSUME DirAssumption == DirOf \in [Path -> Nat]
\* spec.validateMembers: at least one member, no path twice.
ASSUME VariantAssumption ==
    /\ Variants \subseteq Seq(Path)
    /\ \A v \in Variants : /\ Len(v) > 0
                           /\ \A i, j \in 1..Len(v) : v[i] = v[j] => i = j
ASSUME BoundAssumption ==
    /\ MaxKills \in Nat /\ MaxPowerLosses \in Nat
    /\ MaxFaults \in Nat /\ MaxEdits \in Nat

VARIABLES
    live, liveDisk,       \* member files: visible bytes, bytes after power loss
    marker, markerDisk,   \* pending markers, likewise
    leftover,             \* backups in staging directories no apply owns
    holder,               \* directory -> process holding its flock
    pc,                   \* the phase of each process
    mem, want,            \* the set it applies: member list, rendered bytes
    changed, pending,     \* what its diff found
    saved, have,          \* backups: bytes, and the paths still in backups/
    todo, done, cur,      \* loop state: members left, replaced, in hand
    problems,             \* members a rollback could not restore
    owed,                 \* ghost: bytes renamed in place, not yet reported
    torn,                 \* ghost: markers left behind without their fsync
    untidy,               \* ghost: members a crash, a failed unlink or restore hit
    kills, losses, faults, edits

disk     == <<live, liveDisk, marker, markerDisk>>
set      == <<mem, want, changed, pending>>
backups  == <<saved, have, leftover>>
loop     == <<todo, done, cur, problems>>
counters == <<kills, losses, faults, edits>>
vars == <<disk, holder, pc, set, backups, loop, owed, torn, untidy, counters>>

Phases == {"idle", "lock", "diff", "stage", "validate", "repair", "backup",
           "mark", "marksync", "rename", "attrs", "undo", "undosync",
           "undomark", "undomarksync", "report", "unmark", "unmarksync"}

-----------------------------------------------------------------------------
(* Vocabulary *)

Members(q) == {mem[q][i] : i \in 1..Len(mem[q])}
MemberDirs(q) == {DirOf[p] : p \in Members(q)}

\* The position of a member in declaration order.
Pos(q, p) == CHOOSE i \in 1..Len(mem[q]) : mem[q][i] = p
IsFirst(q, p, S) == p \in S /\ \A r \in S : Pos(q, p) <= Pos(q, r)
IsLast(q, p, S)  == p \in S /\ \A r \in S : Pos(q, r) <= Pos(q, p)

\* n system calls fail in this step.
Fail(n) == /\ faults + n <= MaxFaults
           /\ faults' = faults + n
           /\ UNCHANGED <<kills, losses, edits>>
Succeed == Fail(0)

\* One directory entry changes; what a power loss leaves is the old or the new.
SetLive(p, b) == /\ live' = [live EXCEPT ![p] = b]
                 /\ liveDisk' = [liveDisk EXCEPT ![p] = @ \cup {b}]
                 /\ UNCHANGED <<marker, markerDisk, torn>>
SetMarker(p, b) == /\ marker' = [marker EXCEPT ![p] = b]
                   /\ markerDisk' = [markerDisk EXCEPT ![p] = @ \cup {b}]
                   /\ UNCHANGED <<live, liveDisk, torn>>

\* fsync of directory d makes every entry in it durable (fsdir.go: on a
\* filesystem without directory fsync the call is best-effort and no error).
Durable(p, d) == DirOf[p] = d /\ d \in SyncDirs
Sync(d) ==
    /\ liveDisk' = [p \in Path |-> IF Durable(p, d) THEN {live[p]} ELSE liveDisk[p]]
    /\ markerDisk' = [p \in Path |-> IF Durable(p, d) THEN {marker[p]} ELSE markerDisk[p]]
    /\ torn' = {p \in torn : ~(Durable(p, d) /\ owed[p] = {})}
    /\ UNCHANGED <<live, marker>>
NoSync == UNCHANGED <<disk, torn>>

Goto(q, phase) == pc' = [pc EXCEPT ![q] = phase]

\* The apply returns: the locks are released and the process state is gone.
Leave(Q) ==
    /\ holder' = [d \in Dirs |-> IF holder[d] \in Q THEN NoProc ELSE holder[d]]
    /\ pc' = [q \in Proc |-> IF q \in Q THEN "idle" ELSE pc[q]]
    /\ mem' = [q \in Proc |-> IF q \in Q THEN <<>> ELSE mem[q]]
    /\ want' = [q \in Proc |-> IF q \in Q THEN [p \in Path |-> Missing] ELSE want[q]]
    /\ saved' = [q \in Proc |-> IF q \in Q THEN [p \in Path |-> Missing] ELSE saved[q]]
    /\ changed' = [q \in Proc |-> IF q \in Q THEN {} ELSE changed[q]]
    /\ pending' = [q \in Proc |-> IF q \in Q THEN {} ELSE pending[q]]
    /\ have' = [q \in Proc |-> IF q \in Q THEN {} ELSE have[q]]
    /\ todo' = [q \in Proc |-> IF q \in Q THEN {} ELSE todo[q]]
    /\ done' = [q \in Proc |-> IF q \in Q THEN {} ELSE done[q]]
    /\ problems' = [q \in Proc |-> IF q \in Q THEN {} ELSE problems[q]]
    /\ cur' = [q \in Proc |-> IF q \in Q THEN NoPath ELSE cur[q]]

\* An error return before anything was published; the stage is removed.
Return(q) == Leave({q}) /\ UNCHANGED <<disk, leftover, owed, torn, untidy>>

Stages(Q) == UNION {{<<p, saved[q][p]>> : p \in have[q]} : q \in Q}

-----------------------------------------------------------------------------
Init ==
    /\ live \in [Path -> Bytes]
    /\ liveDisk = [p \in Path |-> {live[p]}]
    /\ marker = [p \in Path |-> "absent"]
    /\ markerDisk = [p \in Path |-> {"absent"}]
    /\ leftover = {}
    /\ holder = [d \in Dirs |-> NoProc]
    /\ pc = [q \in Proc |-> "idle"]
    /\ mem = [q \in Proc |-> <<>>]
    /\ want = [q \in Proc |-> [p \in Path |-> Missing]]
    /\ saved = want
    /\ changed = [q \in Proc |-> {}]
    /\ pending = changed /\ have = changed /\ todo = changed
    /\ done = changed /\ problems = changed
    /\ cur = [q \in Proc |-> NoPath]
    /\ owed = [p \in Path |-> {}]
    /\ torn = {}
    /\ untidy = {}
    /\ kills = 0 /\ losses = 0 /\ faults = 0 /\ edits = 0

(* apply: render the members; the locks come next *)
Apply(q) ==
    /\ pc[q] = "idle"
    /\ \E v \in Variants, w \in [Path -> Content] :
          /\ mem' = [mem EXCEPT ![q] = v]
          /\ want' = [want EXCEPT ![q] =
                         [p \in Path |-> IF \E i \in 1..Len(v) : v[i] = p
                                         THEN w[p] ELSE Missing]]
    /\ Goto(q, "lock")
    /\ UNCHANGED <<disk, holder, changed, pending, backups, loop, owed, torn, untidy, counters>>

\* Mutant: openLockDirs does not sort, the directories come in member order.
NextLockUnsorted(q, d) ==
    \E i \in 1..Len(mem[q]) :
        /\ d = DirOf[mem[q][i]]
        /\ holder[d] # q
        /\ \A j \in 1..(i-1) : holder[DirOf[mem[q][j]]] = q

\* lockDirs takes the directories in (device, inode) order: d is the next one.
NextLock(q, d) ==
    /\ d \in MemberDirs(q)
    /\ holder[d] # q
    /\ \A e \in MemberDirs(q) : e < d => holder[e] = q

\* Mutant: only the first directory is locked.
LockFirstDir(q) ==
    /\ pc[q] = "lock"
    /\ \E d \in Dirs :
          /\ NextLock(q, d)
          /\ holder[d] = NoProc
          /\ holder' = [holder EXCEPT ![d] = q]
    /\ Goto(q, "diff")
    /\ UNCHANGED <<disk, set, backups, loop, owed, torn, untidy, counters>>

LockDir(q) ==
    /\ pc[q] = "lock"
    /\ \E d \in Dirs :
          /\ NextLock(q, d)
          /\ holder[d] = NoProc
          /\ holder' = [holder EXCEPT ![d] = q]
          /\ Goto(q, IF \A e \in MemberDirs(q) \ {d} : holder[e] = q
                     THEN "diff" ELSE "lock")
    /\ UNCHANGED <<disk, set, backups, loop, owed, torn, untidy, counters>>

\* The deadline passes while another publication holds the lock, or flock(2)
\* is refused: every lock taken so far is released.
LockDirFails(q) ==
    /\ pc[q] = "lock"
    /\ \/ /\ \E d \in Dirs : NextLock(q, d) /\ holder[d] # NoProc
          /\ Succeed
       \/ Fail(1)
    /\ Return(q)

(* applyLocked: diff and pendingMembers *)
Diff(q) ==
    /\ pc[q] = "diff"
    /\ changed' = [changed EXCEPT ![q] = {p \in Members(q) : live[p] # want[q][p]}]
    /\ pending' = [pending EXCEPT ![q] = {p \in Members(q) : marker[p] = "present"}]
    /\ Goto(q, IF \E p \in Members(q) : live[p] # want[q][p] THEN "stage" ELSE "repair")
    /\ UNCHANGED <<disk, holder, mem, want, backups, loop, owed, torn, untidy, counters>>

\* A phase that only reads or writes the private stage.
Private(q, from, to) ==
    /\ pc[q] = from
    /\ Goto(q, to)
    /\ UNCHANGED <<disk, holder, set, backups, loop, owed, torn, untidy, counters>>

NewStage(q) == Private(q, "stage", "validate")
Validate(q) == Private(q, "validate", "repair")
RepairUnchanged(q) == Private(q, "repair", IF changed[q] = {} THEN "report" ELSE "backup")

ValidatorRejects(q) == pc[q] = "validate" /\ Succeed /\ Return(q)

\* An unreadable member or marker, a full disk, a refused chmod, a failed
\* backup: the apply returns with nothing published.
PrepareFails(q) ==
    /\ pc[q] \in {"diff", "stage", "repair", "backup"}
    /\ Fail(1)
    /\ Return(q)

TakeBackups(q) ==
    /\ pc[q] = "backup"
    /\ saved' = [saved EXCEPT ![q] = live]
    /\ have' = [have EXCEPT ![q] = {p \in changed[q] : live[p] # Missing}]
    /\ todo' = [todo EXCEPT ![q] = changed[q]]
    /\ Goto(q, "mark")
    /\ UNCHANGED <<disk, holder, set, leftover, done, cur, problems, owed, torn, untidy, counters>>

-----------------------------------------------------------------------------
(* publication.run: marker, then rename, member by member *)

\* rollback(D): undo the members in D, last one first.
Rollback(q, D) ==
    /\ done' = [done EXCEPT ![q] = D]
    /\ todo' = [todo EXCEPT ![q] = D]
    /\ Goto(q, "undo")

\* createMarker's openat(O_CREAT|O_EXCL): an existing marker is kept as it is.
CreateMarker(q) ==
    /\ pc[q] = "mark"
    /\ \E p \in Path :
          /\ IsFirst(q, p, todo[q])
          /\ cur' = [cur EXCEPT ![q] = p]
          /\ IF marker[p] = "present" THEN Goto(q, "rename") /\ NoSync
             ELSE Goto(q, "marksync") /\ SetMarker(p, "present")
    /\ UNCHANGED <<holder, set, backups, todo, done, problems, owed, untidy, counters>>

CreateMarkerFails(q) ==
    /\ pc[q] = "mark"
    /\ Fail(1)
    /\ Rollback(q, done[q])
    /\ UNCHANGED <<disk, holder, set, backups, cur, problems, owed, torn, untidy>>

\* createMarker's fsync of the new marker and of its directory.
SyncMarker(q) ==
    /\ pc[q] = "marksync"
    /\ Sync(DirOf[cur[q]])
    /\ Goto(q, "rename")
    /\ UNCHANGED <<holder, set, backups, loop, owed, untidy, counters>>

\* The fsync fails: the unused marker is unlinked again, if that succeeds.
SyncMarkerFails(q) ==
    /\ pc[q] = "marksync"
    /\ \/ Fail(1) /\ SetMarker(cur[q], "absent") /\ UNCHANGED untidy
       \/ /\ Fail(2)
          /\ torn' = torn \cup {cur[q]}
          /\ untidy' = untidy \cup {cur[q]}
          /\ UNCHANGED disk
    /\ Rollback(q, done[q])
    /\ UNCHANGED <<holder, set, backups, cur, problems, owed>>

\* writeMember up to and including the rename.
RenameMember(q) ==
    /\ pc[q] = "rename"
    /\ SetLive(cur[q], want[q][cur[q]])
    /\ owed' = [owed EXCEPT ![cur[q]] = @ \cup {want[q][cur[q]]}]
    /\ Goto(q, "attrs")
    /\ UNCHANGED <<holder, set, backups, loop, untidy, counters>>

RenameMemberFails(q) ==
    /\ pc[q] = "rename"
    /\ Fail(1)
    /\ Rollback(q, done[q] \cup {cur[q]})
    /\ UNCHANGED <<disk, holder, set, backups, cur, problems, owed, torn, untidy>>

\* The rest of writeMember: a directory fsync whose error is ignored
\* (atomicfile.syncDir), then owner and mode.
FinishMember(q) ==
    /\ pc[q] = "attrs"
    /\ \/ Succeed /\ Sync(DirOf[cur[q]])
       \/ Fail(1) /\ NoSync
    /\ done' = [done EXCEPT ![q] = @ \cup {cur[q]}]
    /\ todo' = [todo EXCEPT ![q] = @ \ {cur[q]}]
    /\ Goto(q, IF todo[q] = {cur[q]} THEN "report" ELSE "mark")
    /\ UNCHANGED <<holder, set, backups, cur, problems, owed, untidy>>

\* Mutant: the failing member is not rolled back (backups[:n] for [:n+1]).
FinishMemberFailsKeeps(q) ==
    /\ pc[q] = "attrs"
    /\ Fail(1) /\ Sync(DirOf[cur[q]])
    /\ Rollback(q, done[q])
    /\ UNCHANGED <<holder, set, backups, cur, problems, owed, untidy>>

FinishMemberFails(q) ==
    /\ pc[q] = "attrs"
    /\ \/ Fail(1) /\ Sync(DirOf[cur[q]])
       \/ Fail(2) /\ NoSync
    /\ Rollback(q, done[q] \cup {cur[q]})
    /\ UNCHANGED <<holder, set, backups, cur, problems, owed, untidy>>

-----------------------------------------------------------------------------
(* publication.rollback *)

UndoNext(q) == /\ todo' = [todo EXCEPT ![q] = @ \ {cur[q]}]
               /\ Goto(q, "undo")

\* restore: rename the hard link back (which consumes it unless link and live
\* file are still the same inode), write a copy back, or remove the new file.
Restore(q) ==
    /\ pc[q] = "undo"
    /\ \E p \in Path :
          /\ IsLast(q, p, todo[q])
          /\ cur' = [cur EXCEPT ![q] = p]
          /\ SetLive(p, saved[q][p])
          /\ have' \in {have, [have EXCEPT ![q] = @ \ {p}]}
    /\ Goto(q, "undosync")
    /\ UNCHANGED <<holder, set, saved, leftover, todo, done, problems, owed, untidy, counters>>

RestoreFails(q) ==
    /\ pc[q] = "undo"
    /\ Fail(1)
    /\ \E p \in Path :
          /\ IsLast(q, p, todo[q])
          /\ problems' = [problems EXCEPT ![q] = @ \cup {p}]
          /\ todo' = [todo EXCEPT ![q] = @ \ {p}]
          /\ untidy' = untidy \cup {p}
    /\ UNCHANGED <<disk, holder, pc, set, backups, done, cur, owed, torn>>

\* Mutant: the marker goes even when it was pending before this publication.
SyncRestoreForgetsPending(q) ==
    /\ pc[q] = "undosync"
    /\ Sync(DirOf[cur[q]])
    /\ owed' = IF cur[q] \in pending[q] THEN owed ELSE [owed EXCEPT ![cur[q]] = {}]
    /\ Goto(q, "undomark")
    /\ UNCHANGED <<holder, set, backups, loop, untidy, counters>>

\* Mutant: the restore is not made durable before the marker goes.
SyncRestoreSkipsSync(q) ==
    /\ pc[q] = "undosync"
    /\ NoSync
    /\ IF cur[q] \in pending[q] THEN UndoNext(q)
       ELSE Goto(q, "undomark") /\ UNCHANGED todo
    /\ UNCHANGED <<holder, set, backups, done, cur, problems, owed, untidy, counters>>

\* undo: the restore is made durable before the marker goes, and nothing is owed
\* any more; a marker that was pending before this publication stays.
SyncRestore(q) ==
    /\ pc[q] = "undosync"
    /\ Sync(DirOf[cur[q]])
    /\ IF cur[q] \in pending[q] THEN UndoNext(q) /\ UNCHANGED owed
       ELSE Goto(q, "undomark") /\ owed' = [owed EXCEPT ![cur[q]] = {}] /\ UNCHANGED todo
    /\ UNCHANGED <<holder, set, backups, done, cur, problems, untidy, counters>>

SyncRestoreFails(q) ==
    /\ pc[q] = "undosync"
    /\ Fail(1)
    /\ problems' = [problems EXCEPT ![q] = @ \cup {cur[q]}]
    /\ untidy' = untidy \cup {cur[q]}
    /\ UndoNext(q)
    /\ UNCHANGED <<disk, holder, set, backups, done, cur, owed, torn>>

UndoMarker(q) ==
    /\ pc[q] = "undomark"
    /\ IF marker[cur[q]] = "present"
       THEN SetMarker(cur[q], "absent") /\ Goto(q, "undomarksync") /\ UNCHANGED todo
       ELSE NoSync /\ UndoNext(q)
    /\ UNCHANGED <<holder, set, backups, done, cur, problems, owed, untidy, counters>>

\* staleMarkerError: the marker could not be unlinked; the rollback counts as
\* complete.
UndoMarkerFails(q) ==
    /\ pc[q] = "undomark"
    /\ marker[cur[q]] = "present"
    /\ Fail(1)
    /\ untidy' = untidy \cup {cur[q]}
    /\ UndoNext(q)
    /\ UNCHANGED <<disk, holder, set, backups, done, cur, problems, owed, torn>>

SyncUndoMarker(q) ==
    /\ pc[q] = "undomarksync"
    /\ \/ Succeed /\ Sync(DirOf[cur[q]])
       \/ Fail(1) /\ NoSync
    /\ UndoNext(q)
    /\ UNCHANGED <<holder, set, backups, done, cur, problems, owed, untidy>>

\* Mutant: keepStage is never set, an incomplete rollback removes the backups.
EndRollbackRemoves(q) ==
    /\ pc[q] = "undo"
    /\ todo[q] = {}
    /\ Leave({q})
    /\ UNCHANGED <<disk, leftover, owed, torn, untidy, counters>>

\* The error return of a rolled-back apply: with problems the stage is kept.
EndRollback(q) ==
    /\ pc[q] = "undo"
    /\ todo[q] = {}
    /\ leftover' = IF problems[q] = {} THEN leftover ELSE leftover \cup Stages({q})
    /\ Leave({q})
    /\ UNCHANGED <<disk, owed, torn, untidy, counters>>

-----------------------------------------------------------------------------
(* finish and removeMarkers *)

Report(q) ==
    /\ pc[q] = "report"
    /\ LET reported == changed[q] \cup pending[q]
       IN  /\ owed' = [p \in Path |-> IF p \in reported THEN {} ELSE owed[p]]
           /\ todo' = [todo EXCEPT ![q] = reported]
    /\ have' = [have EXCEPT ![q] = {}]
    /\ Goto(q, "unmark")
    /\ UNCHANGED <<disk, holder, set, saved, leftover, done, cur, problems, torn, untidy, counters>>

UnmarkNext(q) == /\ todo' = [todo EXCEPT ![q] = @ \ {cur'[q]}]
                 /\ Goto(q, "unmark")

RemoveMarker(q) ==
    /\ pc[q] = "unmark"
    /\ \E p \in Path :
          /\ IsFirst(q, p, todo[q])
          /\ cur' = [cur EXCEPT ![q] = p]
          /\ IF marker[p] = "present"
             THEN SetMarker(p, "absent") /\ Goto(q, "unmarksync") /\ UNCHANGED todo
             ELSE NoSync /\ UnmarkNext(q)
    /\ UNCHANGED <<holder, set, backups, done, problems, owed, untidy, counters>>

RemoveMarkerFails(q) ==
    /\ pc[q] = "unmark"
    /\ Fail(1)
    /\ \E p \in Path :
          /\ IsFirst(q, p, todo[q])
          /\ marker[p] = "present"
          /\ cur' = [cur EXCEPT ![q] = p]
          /\ untidy' = untidy \cup {p}
    /\ UnmarkNext(q)
    /\ UNCHANGED <<disk, holder, set, backups, done, problems, owed, torn>>

SyncRemoveMarker(q) ==
    /\ pc[q] = "unmarksync"
    /\ \/ Succeed /\ Sync(DirOf[cur[q]])
       \/ Fail(1) /\ NoSync
    /\ UNCHANGED cur
    /\ UnmarkNext(q)
    /\ UNCHANGED <<holder, set, backups, done, problems, owed, untidy>>

ApplyReturns(q) ==
    /\ pc[q] = "unmark"
    /\ todo[q] = {}
    /\ Leave({q})
    /\ UNCHANGED <<disk, leftover, owed, torn, untidy, counters>>

-----------------------------------------------------------------------------
(* The environment *)

\* Kill -9 of one process: its flocks go with its descriptors, its stage stays.
Kill(q) ==
    /\ pc[q] # "idle"
    /\ kills < MaxKills
    /\ kills' = kills + 1
    /\ leftover' = leftover \cup Stages({q})
    /\ torn' = IF pc[q] = "marksync" THEN torn \cup {cur[q]} ELSE torn
    /\ untidy' = untidy \cup Members(q)
    /\ Leave({q})
    /\ UNCHANGED <<disk, owed, losses, faults, edits>>

\* Every entry comes back as one of the values its directory may hold; staging
\* directories were never fsynced, so any part of them may be gone.
PowerLoss ==
    /\ losses < MaxPowerLosses
    /\ losses' = losses + 1
    /\ live' \in {l \in [Path -> Bytes] : \A p \in Path : l[p] \in liveDisk[p]}
    /\ marker' \in {m \in [Path -> MarkState] : \A p \in Path : m[p] \in markerDisk[p]}
    /\ liveDisk' = [p \in Path |-> {live'[p]}]
    /\ markerDisk' = [p \in Path |-> {marker'[p]}]
    /\ leftover' \in SUBSET (leftover \cup Stages(Proc))
    /\ untidy' = Path
    /\ Leave(Proc)
    /\ UNCHANGED <<owed, torn, kills, faults, edits>>

\* An operator or another program replaces a member; the locks are advisory.
Edit(p) ==
    /\ edits < MaxEdits
    /\ edits' = edits + 1
    /\ \E b \in Bytes \ {live[p]} :
          /\ SetLive(p, b)
          /\ owed' = [owed EXCEPT ![p] = @ \ {b}]
    /\ UNCHANGED <<holder, pc, set, backups, loop, untidy, kills, losses, faults>>

-----------------------------------------------------------------------------
Lock(q) == LockDir(q) \/ LockDirFails(q)
Prepare(q) == \/ Diff(q) \/ NewStage(q) \/ Validate(q) \/ ValidatorRejects(q)
              \/ RepairUnchanged(q) \/ TakeBackups(q) \/ PrepareFails(q)
Publish(q) == \/ CreateMarker(q) \/ CreateMarkerFails(q)
              \/ SyncMarker(q) \/ SyncMarkerFails(q)
              \/ RenameMember(q) \/ RenameMemberFails(q)
              \/ FinishMember(q) \/ FinishMemberFails(q)
Undo(q) == \/ Restore(q) \/ RestoreFails(q)
           \/ SyncRestore(q) \/ SyncRestoreFails(q)
           \/ UndoMarker(q) \/ UndoMarkerFails(q) \/ SyncUndoMarker(q)
           \/ EndRollback(q)
Finish(q) == \/ Report(q) \/ RemoveMarker(q) \/ RemoveMarkerFails(q)
             \/ SyncRemoveMarker(q) \/ ApplyReturns(q)
Step(q) == Lock(q) \/ Prepare(q) \/ Publish(q) \/ Undo(q) \/ Finish(q)

Next == \/ \E q \in Proc : Apply(q) \/ Step(q) \/ Kill(q)
        \/ PowerLoss
        \/ \E p \in Path : Edit(p)

Spec == Init /\ [][Next]_vars

-----------------------------------------------------------------------------
(* Properties *)

DiskType ==
    /\ live \in [Path -> Bytes] /\ liveDisk \in [Path -> SUBSET Bytes]
    /\ marker \in [Path -> MarkState] /\ markerDisk \in [Path -> SUBSET MarkState]
SetType ==
    /\ holder \in [Dirs -> Proc \cup {NoProc}]
    /\ pc \in [Proc -> Phases]
    /\ mem \in [Proc -> Seq(Path)] /\ want \in [Proc -> [Path -> Bytes]]
    /\ changed \in [Proc -> SUBSET Path] /\ pending \in [Proc -> SUBSET Path]
LoopType ==
    /\ saved \in [Proc -> [Path -> Bytes]] /\ have \in [Proc -> SUBSET Path]
    /\ todo \in [Proc -> SUBSET Path] /\ done \in [Proc -> SUBSET Path]
    /\ problems \in [Proc -> SUBSET Path] /\ cur \in [Proc -> Path \cup {NoPath}]
GhostType ==
    /\ leftover \subseteq Path \X Bytes
    /\ owed \in [Path -> SUBSET Bytes] /\ torn \subseteq Path /\ untidy \subseteq Path
    /\ kills \in 0..MaxKills /\ losses \in 0..MaxPowerLosses
    /\ faults \in 0..MaxFaults /\ edits \in 0..MaxEdits
\* Every variable keeps its type and every failure counter its bound.
TypeOK == DiskType /\ SetType /\ LoopType /\ GhostType

Critical(q) == pc[q] \notin {"idle", "lock"}

\* lockDirs: two publications that share a directory never both run between
\* their diff and their last marker removal.
Serialization ==
    \A q, r \in Proc : q # r /\ Critical(q) /\ Critical(r)
                         => MemberDirs(q) \cap MemberDirs(r) = {}

\* lockDirs: processes waiting for directory locks never wait in a circle, so
\* no wait can last until every deadline passes.
NoCircularWait ==
    \A S \in SUBSET {q \in Proc : pc[q] = "lock"} :
        S # {} => \E q \in S : \E d \in Dirs : NextLock(q, d) /\ holder[d] \notin S

\* marker.go, run, undo: whatever process is killed and whatever call fails, a
\* member whose published bytes nobody has been told of has a pending marker,
\* so the next apply signals the change.
SignalSurvivesKill ==
    losses = 0 => \A p \in Path : live[p] \in owed[p] => marker[p] = "present"

\* The same across power losses, on directories with fsync: any value that may
\* come back and was not reported comes back with its marker.  A marker that
\* was left behind between its creation and its fsync is the exception.
SignalSurvivesPowerLoss ==
    \A p \in Path :
        /\ DirOf[p] \in SyncDirs /\ p \notin torn
        /\ liveDisk[p] \cap owed[p] # {}
        => markerDisk[p] = {"present"}

\* rollback: an apply that reports a complete rollback has put the bytes of
\* every member back that were live when it took its backups.
RollbackRestores ==
    edits = 0 => \A q \in Proc :
        pc[q] = "undo" /\ todo[q] = {} /\ problems[q] = {}
        => \A p \in Members(q) : live[p] = saved[q][p]

\* One step leaves the previous bytes of every changed member in reach.
KeepsBackups ==
    \A q \in Proc : \A p \in changed[q] :
        /\ edits' = 0 /\ losses' = 0
        /\ pc[q] \in {"mark", "marksync", "rename", "attrs", "undo", "undosync",
                      "undomark", "undomarksync"}
        /\ pc'[q] # "report"
        => \/ saved[q][p] \in {live'[p], Missing}
           \/ p \in have'[q]
           \/ <<p, saved[q][p]>> \in leftover'

\* keepStage, stage.remove: until the whole set is published the previous bytes
\* of a replaced member exist somewhere: live, in the backups of the apply, or in
\* a stage it leaves behind when it is killed or cannot restore the member.
BackupsSurvive == [][KeepsBackups]_vars

\* finish: an apply that reports success leaves every member with the rendered
\* bytes, whatever other applies did meanwhile.
Converged ==
    edits = 0 => \A q \in Proc :
        pc[q] \in {"report", "unmark", "unmarksync"}
        => \A p \in Members(q) : live[p] = want[q][p]

\* createMarker, undo, removeMarkers: unless a crash, a failed restore or a
\* failed unlink left one, no marker outlives the apply that created it, so no
\* later apply signals a change that did not happen.
NoSpuriousMarker ==
    \A p \in Path \ untidy : holder[DirOf[p]] = NoProc => marker[p] = "absent"

\* What an apply reports is true when it reports it: a success means the
\* rendered bytes, a complete rollback the previous ones, and no marker stays
\* to announce a change that did not happen.
OutcomeIsTrue == Converged /\ RollbackRestores /\ NoSpuriousMarker

-----------------------------------------------------------------------------
(* The inductive strengthening of SignalSurvivesKill and Serialization *)

InHand(q) == pc[q] \in {"marksync", "rename", "attrs", "undosync", "undomark",
                        "undomarksync", "unmarksync"}
Publishing(q) == pc[q] \in {"mark", "marksync", "rename", "attrs", "undo",
                            "undosync", "undomark", "undomarksync"}

\* The loops start empty, only ever hold members of the set, and only the
\* changed ones while they publish or roll back.
LoopOK(q) ==
    /\ changed[q] \cup pending[q] \cup todo[q] \cup done[q] \subseteq Members(q)
    /\ pc[q] \in {"idle", "lock"} => changed[q] = {} /\ pending[q] = {}
    /\ pc[q] \in {"idle", "lock", "diff", "stage", "validate", "repair", "backup"}
       => todo[q] = {} /\ done[q] = {}
    /\ Publishing(q) => todo[q] \cup done[q] \subseteq changed[q]
    /\ InHand(q) => cur[q] \in Members(q)
    /\ InHand(q) /\ Publishing(q) => cur[q] \in changed[q]

\* Past lockDirs a process holds the lock of every member directory.
LockOK(q) == Critical(q) => \A d \in MemberDirs(q) : holder[d] = q

\* Where a step is about to remove a marker, nothing is owed at that member;
\* where it is about to replace a file, the marker is there; a backup whose
\* bytes are owed has its marker.
MarkOK(q) ==
    /\ pc[q] \in {"marksync", "rename"} => marker[cur[q]] = "present"
    /\ pc[q] = "undomark" => owed[cur[q]] = {}
    /\ pc[q] \in {"unmark", "unmarksync"} => \A p \in todo[q] : owed[p] = {}
    /\ losses = 0 /\ Publishing(q) =>
          \A p \in changed[q] : saved[q][p] \in owed[p] => marker[p] = "present"
    /\ losses = 0 /\ pc[q] = "marksync" =>
          /\ live[cur[q]] \notin owed[cur[q]]
          /\ saved[q][cur[q]] \notin owed[cur[q]]

LoopInv == \A q \in Proc : LoopOK(q)
LockInv == \A q \in Proc : LockOK(q)
MarkInv == \A q \in Proc : MarkOK(q)
SignalInv == TypeOK /\ LoopInv /\ LockInv /\ MarkInv /\ SignalSurvivesKill

-----------------------------------------------------------------------------
(* The inductive strengthening of NoCircularWait *)

\* A process holds only directories of its set; while it waits for one, those
\* it holds are the ones that come first in (device, inode) order.
OrderOK(q) ==
    /\ \A d \in Dirs : holder[d] = q => pc[q] # "idle" /\ d \in MemberDirs(q)
    /\ pc[q] = "lock" =>
          /\ \E d \in MemberDirs(q) : holder[d] # q
          /\ \A d, e \in MemberDirs(q) : holder[d] = q /\ e < d => holder[e] = q

OrderInv == \A q \in Proc : OrderOK(q)

-----------------------------------------------------------------------------
(* The inductive strengthening of SignalSurvivesPowerLoss *)

Sheltered(p) == DirOf[p] \in SyncDirs /\ p \notin torn
Unsynced(p) == \E q \in Proc : pc[q] = "marksync" /\ cur[q] = p

\* What is visible may be what comes back.  A visible marker is durable, except
\* while the process that created it has not fsynced it yet.
DurableOK(p) ==
    /\ live[p] \in liveDisk[p]
    /\ marker[p] \in markerDisk[p]
    /\ Sheltered(p) /\ marker[p] = "present" /\ ~Unsynced(p)
       => markerDisk[p] = {"present"}

\* A rollback may bring the bytes of a backup back: if they are owed, their
\* marker is durable.  A marker that is not fsynced yet may be unlinked again:
\* nothing that may come back at its member is owed.
BackupOK(q) ==
    /\ Publishing(q) =>
          \A p \in changed[q] :
             Sheltered(p) /\ saved[q][p] \in owed[p] => markerDisk[p] = {"present"}
    /\ pc[q] = "marksync" /\ Sheltered(cur[q]) =>
          /\ liveDisk[cur[q]] \cap owed[cur[q]] = {}
          /\ saved[q][cur[q]] \notin owed[cur[q]]

DurableInv == \A p \in Path : DurableOK(p)
BackupInv == \A q \in Proc : BackupOK(q)
PowerInv == DurableInv /\ BackupInv /\ SignalSurvivesPowerLoss

-----------------------------------------------------------------------------
(* The inductive strengthening of OutcomeIsTrue and BackupsSurvive *)

Forward(q) == pc[q] \in {"mark", "marksync", "rename", "attrs"}
Backward(q) == pc[q] \in {"undo", "undosync", "undomark", "undomarksync"}
Done(q) == pc[q] \in {"report", "unmark", "unmarksync"}

\* Which bytes are live where: a member the diff did not list has the rendered
\* ones; one still to be published the old ones, one already published the
\* rendered ones; a rollback leaves the members it has yet to visit alone.
ContentOK(q) ==
    /\ pc[q] \notin {"idle", "lock", "diff"} =>
          \A p \in Members(q) \ changed[q] : live[p] = want[q][p]
    /\ Publishing(q) => \A p \in Members(q) \ changed[q] : live[p] = saved[q][p]
    /\ Forward(q) => /\ \A p \in todo[q] :
                           live[p] = saved[q][p] \/ (pc[q] = "attrs" /\ p = cur[q])
                     /\ \A p \in changed[q] \ todo[q] : live[p] = want[q][p]
                     /\ changed[q] \ todo[q] \subseteq done[q]
    /\ pc[q] \in {"marksync", "rename", "attrs"} => cur[q] \in todo[q]
    /\ pc[q] = "attrs" => live[cur[q]] = want[q][cur[q]]
    /\ Backward(q) => \A p \in changed[q] \ (todo[q] \cup problems[q]) :
                          live[p] = saved[q][p]
    /\ pc[q] \in {"undosync", "undomark", "undomarksync"} =>
          live[cur[q]] = saved[q][cur[q]]
    /\ Done(q) => \A p \in changed[q] : live[p] = want[q][p]

\* Which bytes are still in the backups of the apply.
KeptOK(q) ==
    /\ Forward(q) => {p \in changed[q] : saved[q][p] # Missing} \subseteq have[q]
    /\ Publishing(q) => \A p \in changed[q] :
          saved[q][p] \in {live[p], Missing} \/ p \in have[q]

\* The members whose marker process q is answerable for.
Marked(q) ==
    {p \in Members(q) :
        \/ Forward(q) /\ p \in done[q]
        \/ pc[q] \in {"marksync", "rename", "attrs"} /\ p = cur[q]
        \/ pc[q] = "report" /\ p \in changed[q]
        \/ (Backward(q) \/ pc[q] \in {"unmark", "unmarksync"}) /\ p \in todo[q]}

\* Every marker has a process that will remove it, unless a crash or a failed
\* call left it; so a marker found by the diff was left that way.
AnswerableOK(p) ==
    marker[p] = "present" /\ p \notin untidy =>
       holder[DirOf[p]] \in Proc /\ p \in Marked(holder[DirOf[p]])
TidyOK(q) ==
    /\ pending[q] \subseteq untidy
    /\ pc[q] \in {"undomarksync", "unmarksync"} => marker[cur[q]] = "absent"

ContentInv == edits = 0 => \A q \in Proc : ContentOK(q)
KeptInv == edits = 0 => \A q \in Proc : KeptOK(q)
AnswerableInv == \A p \in Path : AnswerableOK(p)
TidyInv == \A q \in Proc : TidyOK(q)
OutcomeInv == ContentInv /\ KeptInv /\ AnswerableInv /\ TidyInv
=============================================================================
