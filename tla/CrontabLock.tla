---------------------------- MODULE CrontabLock ----------------------------
(***************************************************************************)
(* The crontab write lock (resource/cron lock.go, lock_setup.go) and the   *)
(* read-merge-write transaction under it.  Processes of one account create *)
(* or open the parent directory, the lock directory and the lock file, one *)
(* system call a step, flock the file, rewrite the crontab, and remove     *)
(* what they created when they fail before the lock file is in use.        *)
(*                                                                         *)
(* The levels of the path are 1 (~/.cache), 2 (gonf-crontab), 3 (the       *)
(* file).  An object is an inode: unlinking its name does not take it from *)
(* the processes that have it open.                                        *)
(***************************************************************************)
EXTENDS Naturals, FiniteSets

CONSTANTS
    Procs,          \* gonf processes, each applying its own job
    MaxInode,       \* bound on objects ever created
    ExactModes,     \* whether the umask leaves a new object its exact mode, of BOOLEAN
    LockSupport,    \* whether the file system implements flock
    SetupFails,     \* levels at which a new object may fail to be made or opened
    FixFails,       \* levels at which a new object may fail to be inspected or chmodded
    MaxCrashes      \* bound on killed processes

ASSUME InodesAssumption == MaxInode \in Nat
ASSUME UmaskAssumption == ExactModes \subseteq BOOLEAN
ASSUME SupportAssumption == LockSupport \subseteq BOOLEAN
ASSUME CrashesAssumption == MaxCrashes \in Nat

Root == 0           \* the home directory

VARIABLES
    supported,  \* of LockSupport
    inode,      \* of [level, under, exact, linked]; unused: level 0
    pc,         \* "start", "make", "open", "fix", "verify", "flock", "read",
                \* "write", "unlock", "rollback", "ok", "failed", "dead"
    level,      \* the level a process works at
    fd,         \* the object a process has open at each level
    created,    \* the levels whose objects it created
    holder,     \* of each inode's flock
    tab,        \* the jobs in the crontab
    seen,       \* the table a process read
    crashes

vars == <<supported, inode, pc, level, fd, created, holder, tab, seen, crashes>>

Inodes == 1..MaxInode

Init ==
    /\ supported \in LockSupport
    /\ inode = [i \in Inodes |-> [level |-> 0, under |-> Root, exact |-> FALSE, linked |-> FALSE]]
    /\ pc = [p \in Procs |-> "start"]
    /\ level = [p \in Procs |-> 1]
    /\ fd = [p \in Procs |-> [l \in 0..3 |-> Root]]
    /\ created = [p \in Procs |-> {}]
    /\ holder = [i \in Inodes |-> {}]
    /\ tab = {} /\ seen = [p \in Procs |-> {}]
    /\ crashes = 0

(***************************************************************************)
(* The path                                                                *)
(***************************************************************************)
Parent(p) == fd[p][level[p] - 1]

\* The objects now named by the path below the directory p has open.
Named(p) == {i \in Inodes : inode[i].linked /\ inode[i].level = level[p] /\ inode[i].under = Parent(p)}

Removed(d) == d # Root /\ ~inode[d].linked
Empty(d) == \A i \in Inodes : ~(inode[i].linked /\ inode[i].under = d)

Goto(p, step) == pc' = [pc EXCEPT ![p] = step]
Transaction == <<holder, tab, seen>>

Start(p) ==
    /\ pc[p] = "start"
    /\ Goto(p, "make")
    /\ UNCHANGED <<inode, level, fd, created, Transaction, crashes, supported>>

\* mkdirat, or openat with O_CREAT|O_EXCL, which also opens the file; the umask
\* of the process may take permissions of the owner itself.
Make(p) ==
    /\ pc[p] = "make"
    /\ \/ /\ Named(p) # {}
          /\ Goto(p, "open")
          /\ UNCHANGED <<inode, fd, created>>
       \/ /\ Named(p) = {}
          /\ \/ Removed(Parent(p)) \/ level[p] \in SetupFails
          /\ Goto(p, "rollback")
          /\ UNCHANGED <<inode, fd, created>>
       \/ /\ Named(p) = {} /\ ~Removed(Parent(p))
          /\ \E i \in Inodes, exact \in ExactModes :
                 /\ inode[i].level = 0 /\ \A k \in 1..(i - 1) : inode[k].level # 0
                 /\ inode' = [inode EXCEPT ![i] = [level |-> level[p], under |-> Parent(p),
                                                  exact |-> exact, linked |-> TRUE]]
                 /\ fd' = IF level[p] = 3 THEN [fd EXCEPT ![p][3] = i] ELSE fd
          /\ created' = [created EXCEPT ![p] = @ \cup {level[p]}]
          /\ Goto(p, IF level[p] = 3 THEN "fix" ELSE "open")
    /\ UNCHANGED <<level, Transaction, crashes, supported>>

\* openat of what is there by now.
Open(p) ==
    /\ pc[p] = "open"
    /\ \/ /\ \E i \in Named(p) : fd' = [fd EXCEPT ![p][level[p]] = i]
          /\ Goto(p, IF level[p] \in created[p] THEN "fix" ELSE "verify")
       \/ /\ Named(p) = {} \/ (level[p] \in SetupFails /\ level[p] \in created[p])
          /\ Goto(p, "rollback")
          /\ UNCHANGED fd
    /\ UNCHANGED <<inode, level, created, Transaction, crashes, supported>>

\* fixNewMode.
Fix(p) ==
    /\ pc[p] = "fix"
    /\ \/ /\ inode' = [inode EXCEPT ![fd[p][level[p]]].exact = TRUE]
          /\ Goto(p, "verify")
       \/ /\ level[p] \in FixFails
          /\ Goto(p, "rollback")
          /\ UNCHANGED inode
    /\ UNCHANGED <<level, fd, created, Transaction, crashes, supported>>

\* verifyLockParent asks only for the owner and no foreign writers,
\* verifyLockObject for the exact mode.
Verify(p) ==
    /\ pc[p] = "verify"
    /\ IF level[p] = 1 \/ inode[fd[p][level[p]]].exact
       THEN /\ Goto(p, IF level[p] = 3 THEN "flock" ELSE "make")
            /\ level' = [level EXCEPT ![p] = IF @ = 3 THEN 3 ELSE @ + 1]
       ELSE /\ Goto(p, "rollback")
            /\ UNCHANGED level
    /\ UNCHANGED <<inode, fd, created, Transaction, crashes, supported>>

(***************************************************************************)
(* The lock                                                                *)
(***************************************************************************)
\* Mutant: a process that gives up waiting removes what it created.
GiveUpRollsBack(p) ==
    /\ pc[p] = "flock" /\ supported
    /\ Goto(p, "rollback")
    /\ UNCHANGED <<inode, level, fd, created, Transaction, crashes, supported>>

\* The timeout, or no locks available: keepCreated.
GiveUp(p) ==
    /\ pc[p] = "flock" /\ supported
    /\ created' = [created EXCEPT ![p] = {}]
    /\ Goto(p, "failed")
    /\ UNCHANGED <<inode, level, fd, Transaction, crashes, supported>>

Unsupported(p) ==
    /\ pc[p] = "flock" /\ ~supported
    /\ Goto(p, "rollback")
    /\ UNCHANGED <<inode, level, fd, created, Transaction, crashes, supported>>

Flock(p) ==
    /\ pc[p] = "flock" /\ supported
    /\ holder[fd[p][3]] = {}
    /\ holder' = [holder EXCEPT ![fd[p][3]] = {p}]
    /\ created' = [created EXCEPT ![p] = {}]
    /\ Goto(p, "read")
    /\ UNCHANGED <<inode, level, fd, tab, seen, crashes, supported>>

\* rollback: the newest object first; a directory only while it is empty.
Rollback(p) ==
    /\ pc[p] = "rollback"
    /\ IF created[p] = {}
       THEN Goto(p, "failed") /\ UNCHANGED <<inode, created>>
       ELSE LET newest == CHOOSE l \in created[p] : \A k \in created[p] : k <= l
                named == {i \in Inodes : /\ inode[i].linked /\ inode[i].level = newest
                                         /\ inode[i].under = fd[p][newest - 1]
                                         /\ newest = 3 \/ Empty(i)}
            IN /\ inode' = [i \in Inodes |->
                               IF i \in named THEN [inode[i] EXCEPT !.linked = FALSE] ELSE inode[i]]
               /\ created' = [created EXCEPT ![p] = @ \ {newest}]
               /\ UNCHANGED pc
    /\ UNCHANGED <<level, fd, Transaction, crashes, supported>>

(***************************************************************************)
(* The transaction                                                         *)
(***************************************************************************)
\* Mutant: the table as it was before the lock was taken is used.
ReadTableEarly(p) ==
    /\ pc[p] = "read"
    /\ Goto(p, "write")
    /\ UNCHANGED <<inode, level, fd, created, Transaction, crashes, supported>>

ReadTable(p) ==
    /\ pc[p] = "read"
    /\ seen' = [seen EXCEPT ![p] = tab]
    /\ Goto(p, "write")
    /\ UNCHANGED <<inode, level, fd, created, holder, tab, crashes, supported>>

\* crontab - replaces the table with what was read and the process's block.
WriteTable(p) ==
    /\ pc[p] = "write"
    /\ tab' = seen[p] \cup {p}
    /\ Goto(p, "unlock")
    /\ UNCHANGED <<inode, level, fd, created, holder, seen, crashes, supported>>

Unlock(p) ==
    /\ pc[p] = "unlock"
    /\ holder' = [holder EXCEPT ![fd[p][3]] = {}]
    /\ Goto(p, "ok")
    /\ UNCHANGED <<inode, level, fd, created, tab, seen, crashes, supported>>

\* A killed process: the kernel releases its lock, its objects stay.
Crash(p) ==
    /\ pc[p] \notin {"start", "ok", "failed", "dead"} /\ crashes < MaxCrashes
    /\ crashes' = crashes + 1
    /\ holder' = [i \in Inodes |-> holder[i] \ {p}]
    /\ Goto(p, "dead")
    /\ UNCHANGED <<inode, level, fd, created, tab, seen, supported>>

Step(p) ==
    \/ Start(p) \/ Make(p) \/ Open(p) \/ Fix(p) \/ Verify(p) \/ GiveUp(p) \/ Unsupported(p)
    \/ Flock(p) \/ Rollback(p) \/ ReadTable(p) \/ WriteTable(p) \/ Unlock(p)

Next == \E p \in Procs : Step(p) \/ Crash(p)

Spec == Init /\ [][Next]_vars

(***************************************************************************)
(* Properties                                                              *)
(***************************************************************************)
InTransaction == {p \in Procs : pc[p] \in {"read", "write", "unlock"}}

\* At most one process of the account is in its read-merge-write.
Exclusive == Cardinality(InTransaction) <= 1

Told == {p \in Procs : pc[p] = "ok"}

Atomic == INSTANCE AtomicCrontab WITH told <- Told

\* The lock, the read, the merge and the write implement one atomic update
\* per process: no transaction discards a job that another one installed, and
\* a process that reports success has its job in the table.
UpdatesAreAtomic == Atomic!Spec

\* A failed attempt leaves nothing behind that makes a later one fail: an
\* object with a wrong mode has a live creator that has yet to fix or remove it.
NoDebris ==
    \A i \in Inodes :
        inode[i].linked /\ ~inode[i].exact /\ inode[i].level > 1 =>
            \E p \in Procs : /\ inode[i].level \in created[p]
                             /\ pc[p] \in {"open", "fix", "rollback", "dead"}
=============================================================================
