------------------------- MODULE CrontabLockProofs -------------------------
(***************************************************************************)
(* Exclusion by the crontab lock for any number of processes and objects,  *)
(* provided that the repair of a new lock file does not fail.              *)
(*                                                                         *)
(* The argument: the named objects form a chain with one object per level  *)
(* (Chain, Unique), a lock file once made stays named while locks work     *)
(* (Kept), so any two processes that hold the lock hold the same file, and *)
(* flock has one holder (Held).  An object with a wrong mode is owed by a  *)
(* maker, as nothing is made in a directory that is not exact (Debris).    *)
(***************************************************************************)
EXTENDS CrontabLock, FiniteSetTheorems, TLAPS

Steps == {"start", "make", "open", "fix", "verify", "flock", "read", "write", "unlock",
          "rollback", "ok", "failed", "dead"}
Locked(p) == pc[p] \in {"read", "write", "unlock"}

InodeType ==
    inode \in [Inodes -> [level : 0..3, under : 0..MaxInode, exact : BOOLEAN, linked : BOOLEAN]]

ProcType ==
    /\ pc \in [Procs -> Steps]
    /\ level \in [Procs -> 1..3]
    /\ fd \in [Procs -> [0..3 -> 0..MaxInode]]
    /\ created \in [Procs -> SUBSET (1..3)]

DataType ==
    /\ holder \in [Inodes -> SUBSET Procs]
    /\ tab \subseteq Procs /\ seen \in [Procs -> SUBSET Procs]

\* A named object is below Root or below a named object of the level before.
Chain ==
    \A i \in Inodes : inode[i].linked =>
        /\ inode[i].level \in 1..3
        /\ inode[i].level = 1 => inode[i].under = Root
        /\ inode[i].level > 1 => /\ inode[i].under \in Inodes
                                 /\ inode[inode[i].under].linked
                                 /\ inode[inode[i].under].level = inode[i].level - 1

Unique ==
    \A i, j \in Inodes : /\ inode[i].linked /\ inode[j].linked
                         /\ inode[i].level = inode[j].level /\ inode[i].under = inode[j].under
                         => i = j

\* What a process has open, below the level it works at and at it.
FdsOf(p) ==
    /\ fd[p][0] = Root
    /\ \A l \in 1..(level[p] - 1) : fd[p][l] \in Inodes /\ inode[fd[p][l]].level = l
    /\ pc[p] \in {"fix", "verify", "flock", "read", "write", "unlock"} =>
           fd[p][level[p]] \in Inodes /\ inode[fd[p][level[p]]].level = level[p]
    /\ pc[p] \in {"flock", "read", "write", "unlock"} => level[p] = 3

\* What a process created; it does not remove a lock file that locks can hold.
MadeOf(p) ==
    /\ \A l \in created[p] : l <= level[p]
    /\ pc[p] \in {"start", "make"} => level[p] \notin created[p]
    /\ pc[p] = "open" => 3 \notin created[p]
    /\ pc[p] = "verify" /\ 3 \in created[p] => inode[fd[p][3]].exact
    /\ pc[p] = "rollback" /\ 3 \in created[p] => ~supported

Fds == \A p \in Procs : FdsOf(p)
Made == \A p \in Procs : MadeOf(p)

Kept == supported => \A i \in Inodes : inode[i].level = 3 => inode[i].linked

Held ==
    /\ \A p \in Procs : Locked(p) => supported /\ p \in holder[fd[p][3]]
    /\ \A i \in Inodes : \A p, q \in holder[i] : p = q

\* The table changes only in the transaction of the one process in it.
Table ==
    \A p \in Procs :
        /\ pc[p] \in {"unlock", "ok"} => p \in tab
        /\ pc[p] = "write" => seen[p] = tab

PathInv == InodeType /\ ProcType /\ Chain /\ Unique /\ Fds /\ Made /\ Kept

IInv == PathInv /\ DataType /\ Held /\ Table

\* Two processes in their transactions are one.
LEMMA OneInside ==
    ASSUME IInv, NEW p \in Procs, NEW q \in Procs, Locked(p), Locked(q)
    PROVE p = q
<1> DEFINE i == fd[p][3]
           j == fd[q][3]
<1> USE DEF IInv, PathInv
<1>1. /\ i \in Inodes /\ inode[i].level = 3 /\ inode[i].linked
      /\ j \in Inodes /\ inode[j].level = 3 /\ inode[j].linked
    BY DEF Fds, FdsOf, Held, Kept, Locked
<1> HIDE DEF i, j
<1>2. /\ inode[i].under \in Inodes /\ inode[inode[i].under].linked /\ inode[inode[i].under].level = 2
      /\ inode[j].under \in Inodes /\ inode[inode[j].under].linked /\ inode[inode[j].under].level = 2
    BY <1>1 DEF Chain
<1> DEFINE d == inode[i].under
           e == inode[j].under
<1>3. d \in Inodes /\ inode[d].linked /\ inode[d].level = 2
    BY <1>2
<1>4. e \in Inodes /\ inode[e].linked /\ inode[e].level = 2
    BY <1>2
<1>5. d = inode[i].under /\ e = inode[j].under
    OBVIOUS
<1> HIDE DEF d, e
<1>6. /\ inode[d].under \in Inodes /\ inode[inode[d].under].linked /\ inode[inode[d].under].level = 1
      /\ inode[e].under \in Inodes /\ inode[inode[e].under].linked /\ inode[inode[e].under].level = 1
    BY <1>3, <1>4 DEF Chain
<1>7. inode[inode[d].under].under = Root /\ inode[inode[e].under].under = Root
    BY <1>6 DEF Chain
<1>8. inode[d].under = inode[e].under
    BY <1>6, <1>7 DEF Unique
<1>9. d = e
    BY <1>3, <1>4, <1>8 DEF Unique
<1>10. i = j
    BY <1>1, <1>5, <1>9 DEF Unique
<1> QED
    BY <1>1, <1>10 DEF Held, i, j

LEMMA InitIInv == Init => IInv
<1> SUFFICES ASSUME Init PROVE IInv
    OBVIOUS
<1>1. InodeType /\ ProcType /\ DataType
    BY InodesAssumption DEF Init, InodeType, ProcType, DataType, Inodes, Root, Steps
<1>2. Chain /\ Unique /\ Kept
    BY DEF Init, Chain, Unique, Kept
<1>3. Fds /\ Made /\ Held /\ Table
    BY DEF Init, Fds, FdsOf, Made, MadeOf, Held, Table, Locked, Root
<1> QED
    BY <1>1, <1>2, <1>3 DEF IInv, PathInv

\* What the path invariants say of the other processes survives a step of p
\* that keeps every object's level and takes no exact mode away.
LEMMA OthersKeep ==
    ASSUME PathInv, NEW p \in Procs, ProcType', supported' = supported,
           \A q \in Procs : q # p => /\ pc'[q] = pc[q] /\ level'[q] = level[q]
                                     /\ fd'[q] = fd[q] /\ created'[q] = created[q],
           \A i \in Inodes : inode[i].level # 0 =>
               inode'[i].level = inode[i].level /\ (inode[i].exact => inode'[i].exact),
           FdsOf(p)', MadeOf(p)'
    PROVE Fds' /\ Made'
<1> USE DEF PathInv
<1>1. ASSUME NEW q \in Procs, q # p PROVE FdsOf(q)'
    <2>1. /\ pc'[q] = pc[q] /\ level'[q] = level[q] /\ fd'[q] = fd[q]
          /\ level[q] \in 1..3 /\ FdsOf(q)
        BY <1>1 DEF Fds, ProcType
    <2> QED
        BY <2>1 DEF FdsOf
<1>2. ASSUME NEW q \in Procs, q # p PROVE MadeOf(q)'
    <2>1. /\ pc'[q] = pc[q] /\ level'[q] = level[q] /\ fd'[q] = fd[q] /\ created'[q] = created[q]
          /\ level[q] \in 1..3 /\ created[q] \subseteq 1..3 /\ FdsOf(q) /\ MadeOf(q)
        BY <1>2 DEF Fds, Made, ProcType
    <2>2. pc[q] = "verify" /\ 3 \in created[q] =>
              fd[q][3] \in Inodes /\ inode[fd[q][3]].level = 3
        BY <2>1 DEF FdsOf, MadeOf
    <2> QED
        BY <2>1, <2>2 DEF MadeOf
<1> QED
    BY <1>1, <1>2 DEF Fds, Made

\* A step of process p that changes objects at most, and no lock, keeps the
\* invariant if it keeps what the path invariants say.
LEMMA ObjectStep ==
    ASSUME IInv, NEW p \in Procs, NEW step \in Steps,
           pc' = [pc EXCEPT ![p] = step],
           UNCHANGED <<supported, holder, tab, seen>>,
           \A q \in Procs : q # p => fd'[q] = fd[q],
           PathInv',
           ~Locked(p), step \notin {"read", "write", "unlock", "ok"}
    PROVE IInv'
<1> USE DEF IInv, PathInv
<1>1. \A q \in Procs : pc'[q] \in {"read", "write", "unlock", "ok"} => pc'[q] = pc[q] /\ q # p
    BY DEF ProcType
<1>2. \A q \in Procs : Locked(q)' => Locked(q) /\ fd'[q][3] = fd[q][3]
    BY <1>1 DEF Locked
<1>3. Held' /\ Table' /\ DataType'
    BY <1>1, <1>2 DEF Held, Table, Locked, DataType
<1> QED
    BY <1>3

\* The same for a step that changes no object.
LEMMA QuietStep ==
    ASSUME IInv, NEW p \in Procs, NEW step \in Steps,
           pc' = [pc EXCEPT ![p] = step],
           UNCHANGED <<supported, inode, holder, tab, seen>>,
           \A q \in Procs : q # p => /\ level'[q] = level[q] /\ fd'[q] = fd[q]
                                     /\ created'[q] = created[q],
           ProcType', FdsOf(p)', MadeOf(p)',
           ~Locked(p), step \notin {"read", "write", "unlock", "ok"}
    PROVE IInv'
<1>1. Fds' /\ Made'
    BY OthersKeep DEF IInv, PathInv, ProcType
<1>2. InodeType' /\ Chain' /\ Unique' /\ Kept'
    BY DEF IInv, PathInv, InodeType, Chain, Unique, Kept
<1>3. PathInv'
    BY <1>1, <1>2 DEF PathInv
<1> QED
    BY <1>3, ObjectStep

LEMMA StartStep == ASSUME IInv, NEW p \in Procs, Start(p) PROVE IInv'
<1> USE DEF Start, Goto, Transaction
<1>1. ProcType'
    BY DEF IInv, PathInv, ProcType, Steps
<1>2. FdsOf(p)' /\ MadeOf(p)'
    BY DEF IInv, PathInv, ProcType, Fds, Made, FdsOf, MadeOf
<1> QED
    BY <1>1, <1>2, QuietStep DEF Steps, Locked

LEMMA MakeStep == ASSUME IInv, NEW p \in Procs, Make(p) PROVE IInv'
<1> USE DEF Transaction
<1>1. /\ pc[p] = "make" /\ ~Locked(p)
      /\ UNCHANGED <<supported, level, holder, tab, seen>>
    BY DEF Make, Locked
<1>2. /\ InodeType /\ ProcType /\ Chain /\ Unique /\ Kept
      /\ FdsOf(p) /\ MadeOf(p) /\ level[p] \in 1..3
    BY DEF IInv, PathInv, Fds, Made, ProcType
<1>3. ASSUME NEW step \in {"open", "rollback"}, Goto(p, step), UNCHANGED <<inode, fd, created>>
      PROVE IInv'
    <2>1. ProcType'
        BY <1>1, <1>2, <1>3 DEF Goto, ProcType, Steps
    <2>2. pc'[p] = step
        BY <1>2, <1>3 DEF Goto, ProcType
    <2>3. FdsOf(p)'
        BY <1>1, <1>2, <1>3, <2>2 DEF FdsOf
    <2>4. MadeOf(p)'
        BY <1>1, <1>2, <1>3, <2>2 DEF MadeOf
    <2> QED
        BY <1>1, <1>3, <2>1, <2>3, <2>4, QuietStep DEF Goto, Steps
<1>4. CASE /\ Named(p) = {} /\ ~Removed(Parent(p))
           /\ \E i \in Inodes, exact \in ExactModes :
                 /\ inode[i].level = 0 /\ \A k \in 1..(i - 1) : inode[k].level # 0
                 /\ inode' = [inode EXCEPT ![i] = [level |-> level[p], under |-> Parent(p),
                                                  exact |-> exact, linked |-> TRUE]]
                 /\ fd' = IF level[p] = 3 THEN [fd EXCEPT ![p][3] = i] ELSE fd
           /\ created' = [created EXCEPT ![p] = @ \cup {level[p]}]
           /\ Goto(p, IF level[p] = 3 THEN "fix" ELSE "open")
    <2>1. PICK i \in Inodes, exact \in ExactModes :
              /\ inode[i].level = 0
              /\ inode' = [inode EXCEPT ![i] = [level |-> level[p], under |-> Parent(p),
                                                exact |-> exact, linked |-> TRUE]]
              /\ fd' = IF level[p] = 3 THEN [fd EXCEPT ![p][3] = i] ELSE fd
        BY <1>4
    <2>2. /\ level[p] \in 1..3 /\ Parent(p) \in 0..MaxInode
          /\ level[p] = 1 => Parent(p) = Root
          /\ level[p] > 1 => /\ Parent(p) \in Inodes /\ inode[Parent(p)].linked
                             /\ inode[Parent(p)].level = level[p] - 1
        BY <1>2, <1>4 DEF Parent, Removed, FdsOf, ProcType, Root, Inodes
    <2>3. ~inode[i].linked
        BY <1>2, <2>1 DEF Chain
    <2>4. /\ \A k \in Inodes : k # i => inode'[k] = inode[k]
          /\ inode'[i].level = level[p] /\ inode'[i].under = Parent(p) /\ inode'[i].linked
        BY <1>2, <2>1 DEF InodeType
    <2>5. InodeType'
        BY <1>2, <2>1, <2>2, UmaskAssumption DEF InodeType
    <2>6. Chain'
        BY <1>2, <2>2, <2>3, <2>4 DEF Chain
    <2>7. Unique'
        BY <1>2, <1>4, <2>3, <2>4 DEF Unique, Named
    <2>8. Kept'
        BY <1>1, <1>2, <2>1, <2>4 DEF Kept
    <2>9. /\ ProcType'
          /\ pc' = [pc EXCEPT ![p] = IF level[p] = 3 THEN "fix" ELSE "open"]
          /\ \A q \in Procs : q # p => fd'[q] = fd[q] /\ pc'[q] = pc[q] /\ created'[q] = created[q]
        BY <1>1, <1>2, <1>4, <2>1 DEF ProcType, Goto, Steps, Inodes
    <2>10. /\ \A l \in 0..2 : fd'[p][l] = fd[p][l]
           /\ level[p] = 3 => fd'[p][3] = i
           /\ pc'[p] = IF level[p] = 3 THEN "fix" ELSE "open"
           /\ created'[p] = created[p] \cup {level[p]}
           /\ level'[p] = level[p]
        BY <1>1, <1>2, <1>4, <2>1, <2>9 DEF ProcType
    <2>11. FdsOf(p)'
        <3>1. fd'[p][0] = Root
            BY <1>2, <2>10 DEF FdsOf
        <3>2. \A l \in 1..(level'[p] - 1) : fd'[p][l] \in Inodes /\ inode'[fd'[p][l]].level = l
            BY <1>2, <2>1, <2>4, <2>10 DEF FdsOf
        <3>3. pc'[p] = "fix" => fd'[p][level'[p]] \in Inodes /\ inode'[fd'[p][level'[p]]].level = level'[p]
            BY <2>4, <2>10
        <3> QED
            BY <2>10, <3>1, <3>2, <3>3 DEF FdsOf
    <2>12. MadeOf(p)'
        BY <1>1, <1>2, <2>10 DEF MadeOf
    <2>13. Fds' /\ Made'
        BY <1>1, <2>1, <2>4, <2>9, <2>11, <2>12, OthersKeep DEF IInv
    <2>14. PathInv'
        BY <2>5, <2>6, <2>7, <2>8, <2>9, <2>13 DEF PathInv
    <2> QED
        BY <1>1, <2>9, <2>14, ObjectStep DEF Steps
<1> QED
    BY <1>3, <1>4 DEF Make

LEMMA OpenStep == ASSUME IInv, NEW p \in Procs, Open(p) PROVE IInv'
<1> USE DEF Transaction
<1>1. /\ pc[p] = "open" /\ ~Locked(p)
      /\ UNCHANGED <<supported, inode, level, created, holder, tab, seen>>
    BY DEF Open, Locked
<1>2. /\ InodeType /\ ProcType /\ FdsOf(p) /\ MadeOf(p) /\ level[p] \in 1..3
    BY DEF IInv, PathInv, Fds, Made, ProcType
<1>3. CASE /\ \E i \in Named(p) : fd' = [fd EXCEPT ![p][level[p]] = i]
           /\ Goto(p, IF level[p] \in created[p] THEN "fix" ELSE "verify")
    <2>1. PICK i \in Named(p) : fd' = [fd EXCEPT ![p][level[p]] = i]
        BY <1>3
    <2>2. i \in Inodes /\ inode[i].level = level[p]
        BY DEF Named
    <2>3. ProcType' /\ \A q \in Procs : q # p => fd'[q] = fd[q]
        BY <1>1, <1>2, <1>3, <2>1, <2>2 DEF ProcType, Goto, Steps, Inodes
    <2>4. /\ \A l \in 0..3 : l # level[p] => fd'[p][l] = fd[p][l]
          /\ fd'[p][level[p]] = i
          /\ pc'[p] = IF level[p] \in created[p] THEN "fix" ELSE "verify"
          /\ level'[p] = level[p] /\ created'[p] = created[p]
        BY <1>1, <1>2, <1>3, <2>1 DEF ProcType, Goto
    <2>5. FdsOf(p)'
        <3>1. fd'[p][0] = Root
            BY <1>2, <2>4 DEF FdsOf
        <3>2. \A l \in 1..(level'[p] - 1) : fd'[p][l] \in Inodes /\ inode'[fd'[p][l]].level = l
            BY <1>1, <1>2, <2>4 DEF FdsOf
        <3> QED
            BY <1>1, <2>2, <2>4, <3>1, <3>2 DEF FdsOf
    <2>6. MadeOf(p)'
        BY <1>1, <1>2, <2>4 DEF MadeOf
    <2> QED
        BY <1>1, <1>3, <2>3, <2>5, <2>6, QuietStep DEF Goto, Steps
<1>4. CASE Goto(p, "rollback") /\ UNCHANGED fd
    <2>1. ProcType' /\ pc'[p] = "rollback"
        BY <1>1, <1>2, <1>4 DEF Goto, ProcType, Steps
    <2>2. FdsOf(p)' /\ MadeOf(p)'
        BY <1>1, <1>2, <1>4, <2>1 DEF FdsOf, MadeOf
    <2> QED
        BY <1>1, <1>4, <2>1, <2>2, QuietStep DEF Goto, Steps
<1> QED
    BY <1>3, <1>4 DEF Open

LEMMA FixStep == ASSUME 3 \notin FixFails, IInv, NEW p \in Procs, Fix(p) PROVE IInv'
<1> USE DEF Transaction
<1>1. /\ pc[p] = "fix" /\ ~Locked(p)
      /\ UNCHANGED <<supported, level, fd, created, holder, tab, seen>>
    BY DEF Fix, Locked
<1>2. /\ InodeType /\ ProcType /\ Chain /\ Unique /\ Kept
      /\ FdsOf(p) /\ MadeOf(p) /\ level[p] \in 1..3
    BY DEF IInv, PathInv, Fds, Made, ProcType
<1>3. CASE inode' = [inode EXCEPT ![fd[p][level[p]]].exact = TRUE] /\ Goto(p, "verify")
    <2>1. /\ fd[p][level[p]] \in Inodes
          /\ \A k \in Inodes : /\ inode'[k].level = inode[k].level /\ inode'[k].under = inode[k].under
                               /\ inode'[k].linked = inode[k].linked
                               /\ inode[k].exact => inode'[k].exact
          /\ inode'[fd[p][level[p]]].exact
        BY <1>1, <1>2, <1>3 DEF FdsOf, InodeType
    <2>2. InodeType'
        BY <1>2, <1>3, <2>1 DEF InodeType
    <2>3. Chain' /\ Unique' /\ Kept'
        BY <1>1, <1>2, <2>1 DEF Chain, Unique, Kept
    <2>4. ProcType' /\ pc'[p] = "verify" /\ \A q \in Procs : q # p => pc'[q] = pc[q]
        BY <1>1, <1>2, <1>3 DEF ProcType, Goto, Steps
    <2>5. FdsOf(p)'
        BY <1>1, <1>2, <2>1, <2>4 DEF FdsOf
    <2>6. MadeOf(p)'
        <3>1. 3 \in created[p] => level[p] = 3
            BY <1>2 DEF MadeOf
        <3> QED
            BY <1>1, <1>2, <2>1, <2>4, <3>1 DEF MadeOf
    <2>7. Fds' /\ Made'
        BY <1>1, <2>1, <2>4, <2>5, <2>6, OthersKeep DEF IInv
    <2>8. PathInv'
        BY <2>2, <2>3, <2>4, <2>7 DEF PathInv
    <2> QED
        BY <1>1, <1>3, <2>8, ObjectStep DEF Goto, Steps
<1>4. CASE level[p] \in FixFails /\ Goto(p, "rollback") /\ UNCHANGED inode
    <2>1. ProcType' /\ pc'[p] = "rollback"
        BY <1>1, <1>2, <1>4 DEF Goto, ProcType, Steps
    <2>2. 3 \notin created[p]
        BY <1>2, <1>4 DEF MadeOf
    <2>3. FdsOf(p)' /\ MadeOf(p)'
        BY <1>1, <1>2, <1>4, <2>1, <2>2 DEF FdsOf, MadeOf
    <2> QED
        BY <1>1, <1>4, <2>1, <2>3, QuietStep DEF Goto, Steps
<1> QED
    BY <1>3, <1>4 DEF Fix

LEMMA VerifyStep == ASSUME IInv, NEW p \in Procs, Verify(p) PROVE IInv'
<1> USE DEF Transaction
<1>1. /\ pc[p] = "verify" /\ ~Locked(p)
      /\ UNCHANGED <<supported, inode, fd, created, holder, tab, seen>>
    BY DEF Verify, Locked
<1>2. /\ InodeType /\ ProcType /\ FdsOf(p) /\ MadeOf(p) /\ level[p] \in 1..3
    BY DEF IInv, PathInv, Fds, Made, ProcType
<1>3. CASE /\ Goto(p, IF level[p] = 3 THEN "flock" ELSE "make")
           /\ level' = [level EXCEPT ![p] = IF @ = 3 THEN 3 ELSE @ + 1]
    <2>1. /\ ProcType' /\ \A q \in Procs : q # p => level'[q] = level[q]
          /\ pc'[p] = IF level[p] = 3 THEN "flock" ELSE "make"
          /\ level'[p] = IF level[p] = 3 THEN 3 ELSE level[p] + 1
        BY <1>1, <1>2, <1>3 DEF ProcType, Goto, Steps
    <2>2. FdsOf(p)'
        BY <1>1, <1>2, <2>1 DEF FdsOf
    <2>3. MadeOf(p)'
        BY <1>1, <1>2, <2>1 DEF MadeOf, ProcType
    <2> QED
        BY <1>1, <1>3, <2>1, <2>2, <2>3, QuietStep DEF Goto, Steps
<1>4. CASE /\ ~(level[p] = 1 \/ inode[fd[p][level[p]]].exact)
           /\ Goto(p, "rollback") /\ UNCHANGED level
    <2>1. ProcType' /\ pc'[p] = "rollback"
        BY <1>1, <1>2, <1>4 DEF Goto, ProcType, Steps
    <2>2. 3 \notin created[p]
        BY <1>1, <1>2, <1>4 DEF MadeOf
    <2>3. FdsOf(p)' /\ MadeOf(p)'
        BY <1>1, <1>2, <1>4, <2>1, <2>2 DEF FdsOf, MadeOf
    <2> QED
        BY <1>1, <1>4, <2>1, <2>3, QuietStep DEF Goto, Steps
<1> QED
    BY <1>3, <1>4 DEF Verify

\* The timeout, an unsupported lock and a kill before the lock is held.
LEMMA StopStep ==
    ASSUME IInv, NEW p \in Procs, GiveUp(p) \/ Unsupported(p)
    PROVE IInv'
<1> USE DEF Transaction
<1>1. /\ InodeType /\ ProcType /\ FdsOf(p) /\ MadeOf(p) /\ level[p] \in 1..3
    BY DEF IInv, PathInv, Fds, Made, ProcType
<1>2. CASE GiveUp(p)
    <2>1. /\ ProcType' /\ pc'[p] = "failed" /\ created'[p] = {}
          /\ \A q \in Procs : q # p => created'[q] = created[q]
        BY <1>1, <1>2 DEF GiveUp, Goto, ProcType, Steps
    <2>2. FdsOf(p)' /\ MadeOf(p)'
        BY <1>1, <1>2, <2>1 DEF GiveUp, FdsOf, MadeOf
    <2> QED
        BY <1>2, <2>1, <2>2, QuietStep DEF GiveUp, Goto, Steps, Locked
<1>3. CASE Unsupported(p)
    <2>1. ProcType' /\ pc'[p] = "rollback"
        BY <1>1, <1>3 DEF Unsupported, Goto, ProcType, Steps
    <2>2. FdsOf(p)' /\ MadeOf(p)'
        BY <1>1, <1>3, <2>1 DEF Unsupported, FdsOf, MadeOf
    <2> QED
        BY <1>3, <2>1, <2>2, QuietStep DEF Unsupported, Goto, Steps, Locked
<1> QED
    BY <1>2, <1>3

\* A directory goes only while nothing is named in it, and a lock file only
\* where no lock works.
LEMMA RollbackStep == ASSUME IInv, NEW p \in Procs, Rollback(p) PROVE IInv'
<1> USE DEF Transaction
<1>1. /\ pc[p] = "rollback" /\ ~Locked(p)
      /\ UNCHANGED <<supported, level, fd, holder, tab, seen>>
    BY DEF Rollback, Locked
<1>2. /\ InodeType /\ ProcType /\ Chain /\ Unique /\ Kept
      /\ FdsOf(p) /\ MadeOf(p) /\ level[p] \in 1..3
    BY DEF IInv, PathInv, Fds, Made, ProcType
<1>3. CASE created[p] = {} /\ Goto(p, "failed") /\ UNCHANGED <<inode, created>>
    <2>1. ProcType' /\ pc'[p] = "failed"
        BY <1>1, <1>2, <1>3 DEF Goto, ProcType, Steps
    <2>2. FdsOf(p)' /\ MadeOf(p)'
        BY <1>1, <1>2, <1>3, <2>1 DEF FdsOf, MadeOf
    <2> QED
        BY <1>1, <1>3, <2>1, <2>2, QuietStep DEF Goto, Steps
<1>4. CASE created[p] # {}
    <2> DEFINE newest == CHOOSE l \in created[p] : \A k \in created[p] : k <= l
               named == {i \in Inodes : /\ inode[i].linked /\ inode[i].level = newest
                                        /\ inode[i].under = fd[p][newest - 1]
                                        /\ newest = 3 \/ Empty(i)}
    <2>1. /\ inode' = [i \in Inodes |->
                          IF i \in named THEN [inode[i] EXCEPT !.linked = FALSE] ELSE inode[i]]
          /\ created' = [created EXCEPT ![p] = @ \ {newest}]
          /\ UNCHANGED pc
        BY <1>4 DEF Rollback
    <2>2. newest \in created[p] /\ newest \in 1..3
        <3>1. created[p] \subseteq 1..3
            BY <1>2 DEF ProcType
        <3>2. \E l \in created[p] : \A k \in created[p] : k <= l
            <4>1. CASE 3 \in created[p]
                BY <3>1, <4>1
            <4>2. CASE 3 \notin created[p] /\ 2 \in created[p]
                BY <3>1, <4>2
            <4>3. CASE 3 \notin created[p] /\ 2 \notin created[p]
                BY <1>4, <3>1, <4>3
            <4> QED
                BY <4>1, <4>2, <4>3
        <3> QED
            BY <3>1, <3>2
    <2>3. \A i \in named : /\ i \in Inodes /\ inode[i].level = newest
                           /\ newest = 3 \/ \A k \in Inodes : ~(inode[k].linked /\ inode[k].under = i)
        BY DEF Empty
    <2> HIDE DEF newest, named
    <2>4. \A i \in Inodes : /\ inode'[i].level = inode[i].level /\ inode'[i].under = inode[i].under
                            /\ inode'[i].exact = inode[i].exact
                            /\ inode'[i].linked <=> inode[i].linked /\ i \notin named
        BY <1>2, <2>1 DEF InodeType
    <2>5. InodeType'
        BY <1>2, <2>1 DEF InodeType
    <2>6. Chain'
        <3> SUFFICES ASSUME NEW i \in Inodes, inode'[i].linked
                     PROVE /\ inode'[i].level \in 1..3
                           /\ inode'[i].level = 1 => inode'[i].under = Root
                           /\ inode'[i].level > 1 => /\ inode'[i].under \in Inodes
                                                     /\ inode'[inode'[i].under].linked
                                                     /\ inode'[inode'[i].under].level = inode'[i].level - 1
            BY DEF Chain
        <3>1. /\ inode[i].linked /\ inode[i].level \in 1..3
              /\ inode[i].level = 1 => inode[i].under = Root
              /\ inode[i].level > 1 => /\ inode[i].under \in Inodes /\ inode[inode[i].under].linked
                                       /\ inode[inode[i].under].level = inode[i].level - 1
            BY <1>2, <2>4 DEF Chain
        <3>2. inode[i].level > 1 => inode[i].under \notin named
            BY <2>2, <2>3, <3>1
        <3> QED
            BY <2>4, <3>1, <3>2
    <2>7. Unique'
        BY <1>2, <2>4 DEF Unique
    <2>8. Kept'
        <3>1. supported => newest # 3
            BY <1>1, <1>2, <2>2 DEF MadeOf
        <3> QED
            BY <1>1, <1>2, <2>3, <2>4, <3>1 DEF Kept
    <2>9. /\ ProcType' /\ created'[p] = created[p] \ {newest}
          /\ \A q \in Procs : q # p => created'[q] = created[q]
        BY <1>1, <1>2, <2>1 DEF ProcType
    <2>10. FdsOf(p)'
        BY <1>1, <1>2, <2>1, <2>4 DEF FdsOf
    <2>11. MadeOf(p)'
        BY <1>1, <1>2, <2>1, <2>9 DEF MadeOf
    <2>12. Fds' /\ Made'
        BY <1>1, <2>1, <2>4, <2>9, <2>10, <2>11, OthersKeep DEF IInv
    <2>13. PathInv'
        BY <2>5, <2>6, <2>7, <2>8, <2>9, <2>12 DEF PathInv
    <2>14. pc' = [pc EXCEPT ![p] = "rollback"]
        BY <1>1, <1>2, <2>1 DEF ProcType
    <2> QED
        BY <1>1, <2>13, <2>14, ObjectStep DEF Steps
<1> QED
    BY <1>3, <1>4 DEF Rollback

\* The path invariants over a step of p that changes no object.
LEMMA PathKept ==
    ASSUME PathInv, NEW p \in Procs, NEW step \in Steps,
           pc' = [pc EXCEPT ![p] = step],
           UNCHANGED <<supported, inode, level, fd>>,
           created' \in {created, [created EXCEPT ![p] = {}]},
           step \in {"read", "write", "unlock"} => pc[p] \in {"flock", "read", "write", "unlock"},
           step \notin {"start", "make", "open", "fix", "verify", "flock", "rollback"}
    PROVE PathInv'
<1>1. /\ InodeType /\ ProcType /\ FdsOf(p) /\ MadeOf(p) /\ level[p] \in 1..3
    BY DEF PathInv, Fds, Made, ProcType
<1>2. /\ ProcType' /\ pc'[p] = step
      /\ \A q \in Procs : q # p => created'[q] = created[q] /\ pc'[q] = pc[q]
      /\ created'[p] \subseteq created[p]
    BY <1>1 DEF ProcType
<1>3. FdsOf(p)'
    BY <1>1, <1>2 DEF FdsOf
<1>4. MadeOf(p)'
    BY <1>1, <1>2 DEF MadeOf
<1>5. Fds' /\ Made'
    BY <1>2, <1>3, <1>4, OthersKeep
<1>6. InodeType' /\ Chain' /\ Unique' /\ Kept'
    BY DEF PathInv, InodeType, Chain, Unique, Kept
<1> QED
    BY <1>2, <1>5, <1>6 DEF PathInv

LEMMA FlockStep == ASSUME IInv, NEW p \in Procs, Flock(p) PROVE IInv'
<1> USE DEF Flock, Goto
<1>1. PathInv'
    BY PathKept DEF IInv, Steps
<1>2. ProcType /\ DataType /\ Held /\ Table /\ fd[p][3] \in Inodes
    <2>1. ProcType /\ DataType /\ Held /\ Table /\ FdsOf(p)
        BY DEF IInv, PathInv, Fds
    <2> QED
        BY <2>1 DEF FdsOf
<1>3. DataType'
    BY <1>2 DEF DataType
<1>4. /\ pc'[p] = "read" /\ \A q \in Procs : q # p => pc'[q] = pc[q]
      /\ holder'[fd[p][3]] = {p}
      /\ \A i \in Inodes : i # fd[p][3] => holder'[i] = holder[i]
    BY <1>2 DEF ProcType, DataType
<1>5. Held'
    <2>1. ASSUME NEW q \in Procs, Locked(q)'
          PROVE supported' /\ q \in holder'[fd'[q][3]]
        <3>1. CASE q = p
            BY <1>4, <3>1
        <3>2. CASE q # p
            <4>1. Locked(q) /\ supported /\ q \in holder[fd[q][3]]
                BY <1>2, <1>4, <2>1, <3>2 DEF Locked, Held
            <4>2. fd[q][3] \in Inodes
                BY <4>1 DEF IInv, PathInv, Fds, FdsOf, Locked
            <4> QED
                BY <1>4, <4>1, <4>2
        <3> QED
            BY <3>1, <3>2
    <2> QED
        BY <1>2, <1>4, <2>1 DEF Held
<1>6. Table'
    BY <1>2, <1>4 DEF Table
<1> QED
    BY <1>1, <1>3, <1>5, <1>6 DEF IInv

LEMMA ReadStep == ASSUME IInv, NEW p \in Procs, ReadTable(p) PROVE IInv'
<1> USE DEF ReadTable, Goto
<1>1. PathInv'
    BY PathKept DEF IInv, Steps
<1>2. ProcType /\ DataType /\ Held /\ Table
    BY DEF IInv, PathInv
<1>3. DataType'
    BY <1>2 DEF DataType
<1>4. pc'[p] = "write" /\ \A q \in Procs : q # p => pc'[q] = pc[q] /\ seen'[q] = seen[q]
    BY <1>2 DEF ProcType, DataType
<1>5. Held'
    BY <1>2, <1>4 DEF Held, Locked
<1>6. Table'
    BY <1>2, <1>4 DEF Table, DataType
<1> QED
    BY <1>1, <1>3, <1>5, <1>6 DEF IInv

\* The table that p read is still the table: nobody else is inside.
LEMMA WriteStep == ASSUME IInv, NEW p \in Procs, WriteTable(p) PROVE IInv'
<1> USE DEF WriteTable, Goto
<1>1. PathInv'
    BY PathKept DEF IInv, Steps
<1>2. ProcType /\ DataType /\ Held /\ Table
    BY DEF IInv, PathInv
<1>3. DataType'
    BY <1>2 DEF DataType
<1>4. pc'[p] = "unlock" /\ \A q \in Procs : q # p => pc'[q] = pc[q]
    BY <1>2 DEF ProcType
<1>5. Held'
    BY <1>2, <1>4 DEF Held, Locked
<1>6. tab' = tab \cup {p}
    BY <1>2 DEF Table
<1>7. \A q \in Procs : q # p => pc[q] # "write"
    BY OneInside DEF Locked
<1>8. Table'
    BY <1>2, <1>4, <1>6, <1>7 DEF Table
<1> QED
    BY <1>1, <1>3, <1>5, <1>8 DEF IInv

LEMMA UnlockStep == ASSUME IInv, NEW p \in Procs, Unlock(p) PROVE IInv'
<1> USE DEF Unlock, Goto
<1>1. PathInv'
    BY PathKept DEF IInv, Steps
<1>2. ProcType /\ DataType /\ Held /\ Table
    BY DEF IInv, PathInv
<1>3. DataType'
    BY <1>2 DEF DataType
<1>4. pc'[p] = "ok" /\ \A q \in Procs : q # p => pc'[q] = pc[q]
    BY <1>2 DEF ProcType
<1>5. \A q \in Procs : ~Locked(q)'
    BY <1>4, OneInside DEF Locked
<1>6. Held'
    BY <1>2, <1>5 DEF Held, DataType
<1>7. Table'
    BY <1>2, <1>4 DEF Table
<1> QED
    BY <1>1, <1>3, <1>6, <1>7 DEF IInv

LEMMA CrashStep == ASSUME IInv, NEW p \in Procs, Crash(p) PROVE IInv'
<1> USE DEF Crash, Goto
<1>1. PathInv'
    BY PathKept DEF IInv, Steps
<1>2. ProcType /\ DataType /\ Held /\ Table
    BY DEF IInv, PathInv
<1>3. DataType'
    BY <1>2 DEF DataType
<1>4. pc'[p] = "dead" /\ \A q \in Procs : q # p => pc'[q] = pc[q]
    BY <1>2 DEF ProcType
<1>5. Held'
    <2>1. \A i \in Inodes : holder'[i] = holder[i] \ {p}
        OBVIOUS
    <2>2. ASSUME NEW q \in Procs, Locked(q)' PROVE supported' /\ q \in holder'[fd'[q][3]]
        <3>1. q # p /\ Locked(q)
            BY <1>4, <2>2 DEF Locked
        <3>2. fd[q][3] \in Inodes
            BY <3>1 DEF IInv, PathInv, Fds, FdsOf, Locked
        <3> QED
            BY <1>2, <2>1, <3>1, <3>2 DEF Held
    <2> QED
        BY <1>2, <2>1, <2>2 DEF Held
<1>6. Table'
    BY <1>2, <1>4 DEF Table
<1> QED
    BY <1>1, <1>3, <1>5, <1>6 DEF IInv

LEMMA NextIInv == ASSUME 3 \notin FixFails PROVE IInv /\ [Next]_vars => IInv'
<1> SUFFICES ASSUME IInv, [Next]_vars PROVE IInv'
    OBVIOUS
<1>1. CASE UNCHANGED vars
    <2>1. InodeType' /\ ProcType' /\ DataType' /\ Chain' /\ Unique' /\ Kept'
        BY <1>1 DEF vars, IInv, PathInv, InodeType, ProcType, DataType, Chain, Unique, Kept
    <2>2. Fds' /\ Made' /\ Held' /\ Table'
        BY <1>1 DEF vars, IInv, PathInv, Fds, FdsOf, Made, MadeOf, Held, Table, Locked
    <2> QED
        BY <2>1, <2>2 DEF IInv, PathInv
<1>2. ASSUME NEW p \in Procs, Step(p) PROVE IInv'
    BY <1>2, StartStep, MakeStep, OpenStep, FixStep, VerifyStep, StopStep, FlockStep, RollbackStep,
       ReadStep, WriteStep, UnlockStep DEF Step
<1>3. ASSUME NEW p \in Procs, Crash(p) PROVE IInv'
    BY <1>3, CrashStep
<1> QED
    BY <1>1, <1>2, <1>3 DEF Next

\* The invariant holds in every reachable state, for any number of processes,
\* objects and kills, when a new lock file's mode can always be repaired.
THEOREM Invariance == ASSUME 3 \notin FixFails PROVE Spec => []IInv
<1> QED
    BY InitIInv, NextIInv, PTL DEF Spec

\* At most one process of the account is between taking the crontab lock and
\* releasing it, whatever was created, removed or killed meanwhile.
THEOREM LockExcludes == ASSUME 3 \notin FixFails PROVE Spec => []Exclusive
<1>1. IInv => Exclusive
    <2> SUFFICES ASSUME IInv PROVE Cardinality(InTransaction) <= 1
        BY DEF Exclusive
    <2>1. CASE InTransaction = {}
        BY <2>1, FS_EmptySet
    <2>2. CASE InTransaction # {}
        <3>1. PICK p : p \in InTransaction
            BY <2>2
        <3>2. InTransaction = {p}
            BY <3>1, OneInside DEF InTransaction, Locked
        <3> QED
            BY <3>2, FS_Singleton
    <2> QED
        BY <2>1, <2>2
<1> QED
    BY <1>1, Invariance, PTL

\* The steps other than the write and the report.
Quiet(p) ==
    \/ Start(p) \/ Make(p) \/ Open(p) \/ Fix(p) \/ Verify(p) \/ GiveUp(p)
    \/ Unsupported(p) \/ Flock(p) \/ Rollback(p) \/ ReadTable(p) \/ Crash(p)

\* They leave the table and the reports as they are.
LEMMA UnreportedStep ==
    ASSUME IInv, NEW p \in Procs, Quiet(p)
    PROVE  /\ tab' = tab
           /\ \A q \in Procs : pc'[q] = "ok" <=> pc[q] = "ok"
<1>1. ProcType
    BY DEF IInv, PathInv
<1>2. tab' = tab
    BY DEF Quiet, Start, Make, Open, Fix, Verify, GiveUp, Unsupported, Flock, Rollback, ReadTable,
           Crash, Transaction
<1>3. \A q \in Procs : pc'[q] = "ok" <=> pc[q] = "ok"
    <2>1. CASE Start(p) \/ GiveUp(p) \/ Unsupported(p) \/ Flock(p) \/ ReadTable(p) \/ Crash(p)
        BY <1>1, <2>1 DEF Start, GiveUp, Unsupported, Flock, ReadTable, Crash, Goto, ProcType
    <2>2. CASE Make(p) \/ Open(p)
        BY <1>1, <2>2 DEF Make, Open, Goto, ProcType
    <2>3. CASE Fix(p) \/ Verify(p)
        BY <1>1, <2>3 DEF Fix, Verify, Goto, ProcType
    <2>4. CASE Rollback(p)
        BY <1>1, <2>4 DEF Rollback, Goto, ProcType
    <2> QED
        BY <2>1, <2>2, <2>3, <2>4 DEF Quiet
<1> QED
    BY <1>2, <1>3

\* The lock and the transaction implement AtomicCrontab.
THEOREM UpdatesAtomic == ASSUME 3 \notin FixFails PROVE Spec => UpdatesAreAtomic
<1>1. Init => Atomic!Init
    BY DEF Init, Atomic!Init, Told
<1>2. ASSUME IInv, [Next]_vars PROVE [Atomic!Next]_Atomic!vars
    <2>1. CASE UNCHANGED vars
        BY <2>1 DEF vars, Atomic!vars, Told
    <2>2. ASSUME NEW p \in Procs, Step(p) \/ Crash(p) PROVE [Atomic!Next]_Atomic!vars
        <3>1. ProcType /\ Table
            BY <1>2 DEF IInv, PathInv
        <3>2. CASE WriteTable(p)
            <4>1. tab' = tab \cup {p}
                BY <3>1, <3>2 DEF Table, WriteTable
            <4>2. Told' = Told
                BY <3>1, <3>2 DEF Told, WriteTable, Goto, ProcType
            <4> QED
                BY <4>1, <4>2 DEF Atomic!Next, Atomic!Install
        <3>3. CASE Unlock(p)
            <4>1. p \in tab /\ tab' = tab
                BY <3>1, <3>3 DEF Table, Unlock
            <4>2. Told' = Told \cup {p}
                BY <3>1, <3>3 DEF Told, Unlock, Goto, ProcType
            <4> QED
                BY <4>1, <4>2 DEF Atomic!Next, Atomic!Report
        <3>4. CASE ~WriteTable(p) /\ ~Unlock(p)
            <4>1. Quiet(p)
                BY <2>2, <3>4 DEF Step, Quiet
            <4>2. tab' = tab /\ \A q \in Procs : pc'[q] = "ok" <=> pc[q] = "ok"
                BY <1>2, <4>1, UnreportedStep
            <4> QED
                BY <4>2 DEF Atomic!vars, Told
        <3> QED
            BY <3>2, <3>3, <3>4
    <2> QED
        BY <1>2, <2>1, <2>2 DEF Next
<1> QED
    BY <1>1, <1>2, Invariance, PTL DEF Spec, UpdatesAreAtomic, Atomic!Spec

(***************************************************************************)
(* What a failed attempt leaves                                            *)
(***************************************************************************)
\* Process p made object i and has yet to repair its mode or to remove it.
OwesOf(i, p) ==
    /\ inode[i].level \in created[p] /\ inode[i].under = fd[p][inode[i].level - 1]
    /\ pc[p] \in {"open", "fix", "rollback", "dead"}
    /\ pc[p] \in {"open", "fix"} => level[p] = inode[i].level
    /\ pc[p] = "fix" => fd[p][level[p]] = i

Wrong(i) == inode[i].linked /\ ~inode[i].exact /\ inode[i].level > 1

\* Every wrong object has somebody who owes its repair, and nothing is ever
\* made in a directory with a wrong mode.
Debris ==
    /\ \A i \in Inodes : Wrong(i) => \E p \in Procs : OwesOf(i, p)
    /\ \A p \in Procs : level[p] = 3 => inode[fd[p][2]].exact
    /\ \A i \in Inodes : inode[i].linked /\ inode[i].level = 3 => inode[inode[i].under].exact

\* A step of p leaves what the others owe.
LEMMA DebrisFrame ==
    ASSUME IInv, Debris, NEW p \in Procs,
           \A q \in Procs : q # p => /\ pc'[q] = pc[q] /\ level'[q] = level[q]
                                     /\ fd'[q] = fd[q] /\ created'[q] = created[q],
           \A i \in Inodes : Wrong(i)' =>
               \/ OwesOf(i, p)'
               \/ /\ Wrong(i) /\ inode'[i].level = inode[i].level /\ inode'[i].under = inode[i].under
                  /\ ~OwesOf(i, p)
    PROVE  \A i \in Inodes : Wrong(i)' => \E q \in Procs : OwesOf(i, q)'
<1> SUFFICES ASSUME NEW i \in Inodes, Wrong(i)', ~OwesOf(i, p)'
             PROVE  \E q \in Procs : OwesOf(i, q)'
  OBVIOUS
<1>1. /\ Wrong(i) /\ inode'[i].level = inode[i].level /\ inode'[i].under = inode[i].under
      /\ ~OwesOf(i, p)
  OBVIOUS
<1>2. PICK q \in Procs : OwesOf(i, q)
  BY <1>1 DEF Debris
<1>3. /\ pc'[q] = pc[q] /\ level'[q] = level[q] /\ fd'[q] = fd[q] /\ created'[q] = created[q]
  BY <1>1, <1>2
<1>4. OwesOf(i, q)'
  BY <1>1, <1>2, <1>3 DEF OwesOf
<1> QED
  BY <1>4

\* A step that makes no object keeps the modes of the directories in use.
LEMMA DirsFrame ==
    ASSUME Debris, Fds, Fds', Chain, Chain',
           \A i \in Inodes : /\ inode'[i].level = inode[i].level /\ inode'[i].under = inode[i].under
                             /\ inode[i].exact => inode'[i].exact
                             /\ inode'[i].linked => inode[i].linked,
           \A q \in Procs : level'[q] = 3 => /\ fd'[q][2] = fd[q][2]
                                             /\ level[q] = 3 \/ inode[fd[q][2]].exact
    PROVE  /\ \A q \in Procs : level'[q] = 3 => inode'[fd'[q][2]].exact
           /\ \A i \in Inodes : inode'[i].linked /\ inode'[i].level = 3 => inode'[inode'[i].under].exact
<1>1. ASSUME NEW q \in Procs, level'[q] = 3
      PROVE  inode'[fd'[q][2]].exact
  <2>1. inode[fd[q][2]].exact /\ fd'[q][2] = fd[q][2]
    BY <1>1 DEF Debris
  <2>2. fd'[q][2] \in Inodes
    BY <1>1 DEF Fds, FdsOf
  <2> QED
    BY <2>1, <2>2
<1>2. ASSUME NEW i \in Inodes, inode'[i].linked, inode'[i].level = 3
      PROVE  inode'[inode'[i].under].exact
  <2>1. inode[i].linked /\ inode[i].level = 3 /\ inode'[i].under = inode[i].under
    BY <1>2
  <2>2. inode[i].under \in Inodes
    BY <2>1 DEF Chain
  <2>3. inode[inode[i].under].exact
    BY <2>1 DEF Debris
  <2> QED
    BY <2>1, <2>2, <2>3
<1> QED
  BY <1>1, <1>2

\* A step that changes no object and gives nobody's debt up.
LEMMA IdleDebris ==
    ASSUME IInv, IInv', Debris, NEW p \in Procs, inode' = inode,
           \A q \in Procs : q # p => /\ pc'[q] = pc[q] /\ level'[q] = level[q]
                                     /\ fd'[q] = fd[q] /\ created'[q] = created[q],
           \A i \in Inodes : Wrong(i) /\ OwesOf(i, p) => OwesOf(i, p)',
           level'[p] = 3 => fd'[p][2] = fd[p][2] /\ (level[p] = 3 \/ inode[fd[p][2]].exact)
    PROVE  Debris'
<1>1. \A i \in Inodes : Wrong(i)' => \E q \in Procs : OwesOf(i, q)'
  <2>1. \A i \in Inodes : Wrong(i)' => Wrong(i)
    BY DEF Wrong
  <2> QED
    BY <2>1, DebrisFrame
<1>2. Fds /\ Fds' /\ Chain /\ Chain'
  BY DEF IInv, PathInv
<1>3. \A q \in Procs : level'[q] = 3 => /\ fd'[q][2] = fd[q][2]
                                        /\ level[q] = 3 \/ inode[fd[q][2]].exact
  OBVIOUS
<1>4. /\ \A q \in Procs : level'[q] = 3 => inode'[fd'[q][2]].exact
      /\ \A i \in Inodes : inode'[i].linked /\ inode'[i].level = 3 => inode'[inode'[i].under].exact
  BY <1>2, <1>3, DirsFrame
<1> QED
  BY <1>1, <1>4 DEF Debris

\* What is made wrong is owed by its maker, and the directory it is made in
\* is right.
LEMMA MakeDebris ==
    ASSUME IInv, IInv', Debris, NEW p \in Procs, Make(p)
    PROVE  Debris'
<1> USE DEF Transaction
<1>1. /\ InodeType /\ ProcType /\ FdsOf(p) /\ level[p] \in 1..3 /\ pc[p] = "make" /\ level' = level
      /\ Fds /\ Chain
  BY DEF IInv, PathInv, Fds, ProcType, Make
<1>2. CASE UNCHANGED <<inode, fd, created>>
  <2>1. \A q \in Procs : q # p => pc'[q] = pc[q]
    BY <1>1 DEF Make, Goto, ProcType
  <2>2. \A i \in Inodes : ~OwesOf(i, p)
    BY <1>1 DEF OwesOf
  <2>3. level'[p] = 3 => fd'[p][2] = fd[p][2] /\ (level[p] = 3 \/ inode[fd[p][2]].exact)
    BY <1>1, <1>2
  <2> QED
    BY <1>1, <1>2, <2>1, <2>2, <2>3, IdleDebris
<1>3. CASE ~UNCHANGED <<inode, fd, created>>
  <2>1. PICK i \in Inodes, exact \in ExactModes :
            /\ inode[i].level = 0
            /\ inode' = [inode EXCEPT ![i] = [level |-> level[p], under |-> Parent(p),
                                              exact |-> exact, linked |-> TRUE]]
            /\ fd' = IF level[p] = 3 THEN [fd EXCEPT ![p][3] = i] ELSE fd
            /\ created' = [created EXCEPT ![p] = @ \cup {level[p]}]
            /\ Goto(p, IF level[p] = 3 THEN "fix" ELSE "open")
    BY <1>3 DEF Make
  <2>2. /\ \A j \in Inodes : j # i => inode'[j] = inode[j]
        /\ inode'[i].level = level[p] /\ inode'[i].under = Parent(p)
    BY <1>1, <2>1 DEF InodeType
  <2>3. /\ \A q \in Procs : q # p => fd'[q] = fd[q] /\ pc'[q] = pc[q] /\ created'[q] = created[q]
        /\ \A l \in 0..2 : fd'[p][l] = fd[p][l]
        /\ level[p] = 3 => fd'[p][3] = i
        /\ pc'[p] = IF level[p] = 3 THEN "fix" ELSE "open"
        /\ level[p] \in created'[p]
    BY <1>1, <2>1 DEF ProcType, Goto
  <2>4. OwesOf(i, p)'
    <3>1. inode'[i].under = fd'[p][inode'[i].level - 1]
      BY <1>1, <2>2, <2>3 DEF Parent
    <3> QED
      BY <1>1, <2>2, <2>3, <3>1 DEF OwesOf
  <2>5. \A j \in Inodes : ~OwesOf(j, p)
    BY <1>1 DEF OwesOf
  <2>6. \A j \in Inodes : j # i /\ Wrong(j)' => Wrong(j)
    BY <2>2 DEF Wrong
  <2>7. \A j \in Inodes : Wrong(j)' => \E q \in Procs : OwesOf(j, q)'
    BY <1>1, <2>2, <2>3, <2>4, <2>5, <2>6, DebrisFrame
  <2>8. ASSUME NEW q \in Procs, level'[q] = 3
        PROVE  inode'[fd'[q][2]].exact
    <3>1. fd'[q][2] = fd[q][2] /\ level[q] = 3
      BY <1>1, <2>3, <2>8
    <3>2. fd[q][2] \in Inodes /\ inode[fd[q][2]].level = 2
      BY <1>1, <3>1 DEF Fds, FdsOf
    <3>3. inode[fd[q][2]].exact
      BY <3>1 DEF Debris
    <3> QED
      BY <2>1, <2>2, <3>1, <3>2, <3>3
  <2>9. ASSUME NEW j \in Inodes, inode'[j].linked, inode'[j].level = 3
        PROVE  inode'[inode'[j].under].exact
    <3>1. CASE j = i
      <4>1. level[p] = 3 /\ inode'[j].under = fd[p][2]
        BY <2>2, <2>9, <3>1 DEF Parent
      <4>2. level'[p] = 3 /\ fd'[p][2] = fd[p][2]
        BY <1>1, <2>3, <4>1
      <4> QED
        BY <2>8, <4>1, <4>2
    <3>2. CASE j # i
      <4>1. inode[j].linked /\ inode[j].level = 3 /\ inode'[j].under = inode[j].under
        BY <2>2, <2>9, <3>2
      <4>2. inode[j].under \in Inodes /\ inode[inode[j].under].level = 2
        BY <1>1, <4>1 DEF Chain
      <4>3. inode[inode[j].under].exact
        BY <4>1 DEF Debris
      <4> QED
        BY <2>1, <2>2, <4>1, <4>2, <4>3
    <3> QED
      BY <3>1, <3>2
  <2> QED
    BY <2>7, <2>8, <2>9 DEF Debris
<1> QED
  BY <1>2, <1>3

\* What was made is what is opened, as the name is unique.
LEMMA OpenDebris ==
    ASSUME IInv, IInv', Debris, NEW p \in Procs, Open(p)
    PROVE  Debris'
<1> USE DEF Transaction
<1>1. /\ ProcType /\ Unique /\ level[p] \in 1..3 /\ pc[p] = "open"
      /\ UNCHANGED <<inode, level, created>>
  BY DEF IInv, PathInv, ProcType, Open
<1>2. \A q \in Procs : q # p => pc'[q] = pc[q] /\ fd'[q] = fd[q]
  BY <1>1 DEF Open, Goto, ProcType
<1>3. \A l \in 0..3 : l # level[p] => fd'[p][l] = fd[p][l]
  BY <1>1 DEF Open, ProcType
<1>4. ASSUME NEW i \in Inodes, Wrong(i), OwesOf(i, p)
      PROVE  OwesOf(i, p)'
  <2>1. /\ inode[i].level = level[p] /\ level[p] \in created[p] /\ inode[i].under = Parent(p)
        /\ inode[i].linked /\ inode[i].under = fd[p][level[p] - 1]
    BY <1>1, <1>4 DEF OwesOf, Wrong, Parent
  <2>2. fd'[p][level[p] - 1] = fd[p][level[p] - 1]
    BY <1>1, <1>3
  <2>3. CASE pc'[p] = "rollback"
    BY <1>1, <2>1, <2>2, <2>3 DEF OwesOf
  <2>4. CASE pc'[p] # "rollback"
    <3>1. PICK j \in Named(p) : fd' = [fd EXCEPT ![p][level[p]] = j] /\ pc' = [pc EXCEPT ![p] = "fix"]
      BY <1>1, <2>1, <2>4 DEF Open, Goto, ProcType
    <3>2. j = i
      BY <1>1, <2>1 DEF Named, Unique
    <3>3. fd'[p][level[p]] = i /\ pc'[p] = "fix"
      BY <1>1, <3>1, <3>2 DEF ProcType
    <3> QED
      BY <1>1, <2>1, <2>2, <3>3 DEF OwesOf
  <2> QED
    BY <2>3, <2>4
<1>5. level'[p] = 3 => fd'[p][2] = fd[p][2] /\ (level[p] = 3 \/ inode[fd[p][2]].exact)
  BY <1>1, <1>3
<1> QED
  BY <1>1, <1>2, <1>4, <1>5, IdleDebris

\* A repair changes the one object it repairs.
LEMMA FixDebris ==
    ASSUME IInv, IInv', Debris, NEW p \in Procs, Fix(p)
    PROVE  Debris'
<1> USE DEF Transaction
<1>1. /\ InodeType /\ ProcType /\ FdsOf(p) /\ pc[p] = "fix" /\ level' = level /\ fd' = fd /\ created' = created
      /\ Fds /\ Fds' /\ Chain /\ Chain'
  BY DEF IInv, PathInv, Fds, Fix
<1>2. \A q \in Procs : q # p => pc'[q] = pc[q]
  BY <1>1 DEF Fix, Goto, ProcType
<1>3. CASE inode' = [inode EXCEPT ![fd[p][level[p]]].exact = TRUE]
  <2>1. fd[p][level[p]] \in Inodes
    BY <1>1 DEF FdsOf
  <2>2. \A i \in Inodes : /\ inode'[i].level = inode[i].level /\ inode'[i].under = inode[i].under
                          /\ inode'[i].linked = inode[i].linked
                          /\ inode[i].exact => inode'[i].exact
                          /\ i = fd[p][level[p]] => inode'[i].exact
    BY <1>1, <1>3, <2>1 DEF InodeType
  <2>3. \A i \in Inodes : Wrong(i)' => Wrong(i) /\ ~OwesOf(i, p)
    BY <1>1, <2>2 DEF Wrong, OwesOf
  <2>4. \A i \in Inodes : Wrong(i)' => \E q \in Procs : OwesOf(i, q)'
    BY <1>1, <1>2, <2>2, <2>3, DebrisFrame
  <2>5. /\ \A q \in Procs : level'[q] = 3 => inode'[fd'[q][2]].exact
        /\ \A i \in Inodes : inode'[i].linked /\ inode'[i].level = 3 => inode'[inode'[i].under].exact
    BY <1>1, <2>2, DirsFrame
  <2> QED
    BY <2>4, <2>5 DEF Debris
<1>4. CASE UNCHANGED inode /\ Goto(p, "rollback")
  <2>1. pc'[p] = "rollback"
    BY <1>1, <1>4 DEF Goto, ProcType
  <2>2. \A i \in Inodes : Wrong(i) /\ OwesOf(i, p) => OwesOf(i, p)'
    BY <1>1, <1>4, <2>1 DEF OwesOf
  <2> QED
    BY <1>1, <1>2, <1>4, <2>2, IdleDebris
<1> QED
  BY <1>3, <1>4 DEF Fix

\* The third level is reached past a lock directory found exact.
LEMMA VerifyDebris ==
    ASSUME IInv, IInv', Debris, NEW p \in Procs, Verify(p)
    PROVE  Debris'
<1> USE DEF Transaction
<1>1. /\ ProcType /\ level[p] \in 1..3 /\ pc[p] = "verify"
      /\ inode' = inode /\ fd' = fd /\ created' = created
  BY DEF IInv, PathInv, ProcType, Verify
<1>2. \A q \in Procs : q # p => pc'[q] = pc[q] /\ level'[q] = level[q]
  BY <1>1 DEF Verify, Goto, ProcType
<1>3. level'[p] = 3 => level[p] = 3 \/ inode[fd[p][2]].exact
  BY <1>1 DEF Verify, ProcType
<1>4. \A i \in Inodes : ~OwesOf(i, p)
  BY <1>1 DEF OwesOf
<1> QED
  BY <1>1, <1>2, <1>3, <1>4, IdleDebris

\* The newest object goes before the older ones; a directory that stays for
\* what is in it is right, as that was made in it.
LEMMA RollbackDebris ==
    ASSUME IInv, IInv', Debris, NEW p \in Procs, Rollback(p)
    PROVE  Debris'
<1> USE DEF Transaction
<1>1. /\ InodeType /\ ProcType /\ pc[p] = "rollback" /\ level' = level /\ fd' = fd
      /\ Fds /\ Fds' /\ Chain /\ Chain' /\ created[p] \subseteq 1..3
  BY DEF IInv, PathInv, ProcType, Rollback
<1>2. \A q \in Procs : q # p => pc'[q] = pc[q] /\ created'[q] = created[q]
  BY <1>1 DEF Rollback, Goto, ProcType
<1>3. CASE created[p] = {}
  <2>1. inode' = inode /\ created' = created
    BY <1>3 DEF Rollback
  <2>2. \A i \in Inodes : ~OwesOf(i, p)
    BY <1>3 DEF OwesOf
  <2> QED
    BY <1>1, <1>2, <2>1, <2>2, IdleDebris
<1>4. CASE created[p] # {}
  <2> DEFINE newest == CHOOSE l \in created[p] : \A k \in created[p] : k <= l
             named == {i \in Inodes : /\ inode[i].linked /\ inode[i].level = newest
                                      /\ inode[i].under = fd[p][newest - 1]
                                      /\ newest = 3 \/ Empty(i)}
  <2>1. /\ inode' = [i \in Inodes |->
                        IF i \in named THEN [inode[i] EXCEPT !.linked = FALSE] ELSE inode[i]]
        /\ created' = [created EXCEPT ![p] = @ \ {newest}]
        /\ pc' = pc
    BY <1>4 DEF Rollback
  <2>2. \A i \in Inodes : i \in named <=> /\ inode[i].linked /\ inode[i].level = newest
                                          /\ inode[i].under = fd[p][newest - 1]
                                          /\ newest = 3 \/ Empty(i)
    OBVIOUS
  <2> HIDE DEF newest, named
  <2>3. \A i \in Inodes : /\ inode'[i].level = inode[i].level /\ inode'[i].under = inode[i].under
                          /\ inode'[i].exact = inode[i].exact
                          /\ inode'[i].linked <=> inode[i].linked /\ i \notin named
    BY <1>1, <2>1 DEF InodeType
  <2>4. created'[p] = created[p] \ {newest}
    BY <1>1, <2>1 DEF ProcType
  <2>5. ASSUME NEW i \in Inodes, Wrong(i)', OwesOf(i, p)
        PROVE  OwesOf(i, p)'
    <3>1. /\ Wrong(i) /\ i \notin named /\ inode[i].level \in created[p]
          /\ inode[i].under = fd[p][inode[i].level - 1] /\ inode[i].level \in 2..3
      BY <1>1, <2>3, <2>5 DEF Wrong, OwesOf
    <3>2. CASE inode[i].level # newest
      <4>1. inode'[i].level \in created'[p] /\ inode'[i].under = fd'[p][inode'[i].level - 1]
        BY <1>1, <2>3, <2>4, <3>1, <3>2
      <4>2. pc'[p] = "rollback"
        BY <1>1, <2>1
      <4> QED
        BY <4>1, <4>2 DEF OwesOf
    <3>3. CASE inode[i].level = newest
      <4>1. newest = 2 /\ ~Empty(i)
        BY <2>2, <3>1, <3>3 DEF Wrong
      <4>2. PICK k \in Inodes : inode[k].linked /\ inode[k].under = i
        BY <4>1 DEF Empty
      <4>3. inode[k].level = 3
        <5>1. inode[k].level \in 1..3
          BY <1>1, <4>2 DEF Chain
        <5>2. inode[k].level # 1
          BY <1>1, <4>2 DEF Chain, Root, Inodes
        <5>3. inode[i].level = inode[k].level - 1
          BY <1>1, <4>2, <5>1, <5>2 DEF Chain
        <5> QED
          BY <3>3, <4>1, <5>1, <5>3
      <4>4. inode[i].exact
        BY <4>2, <4>3 DEF Debris
      <4> QED
        BY <3>1, <4>4 DEF Wrong
    <3> QED
      BY <3>2, <3>3
  <2>6. \A i \in Inodes : Wrong(i)' => Wrong(i)
    BY <2>3 DEF Wrong
  <2>7. \A i \in Inodes : Wrong(i)' => \E q \in Procs : OwesOf(i, q)'
    BY <1>1, <1>2, <2>3, <2>5, <2>6, DebrisFrame
  <2>8. /\ \A q \in Procs : level'[q] = 3 => inode'[fd'[q][2]].exact
        /\ \A i \in Inodes : inode'[i].linked /\ inode'[i].level = 3 => inode'[inode'[i].under].exact
    BY <1>1, <2>3, DirsFrame
  <2> QED
    BY <2>7, <2>8 DEF Debris
<1> QED
  BY <1>3, <1>4

\* The other steps find no debt or, as a kill, leave it with the dead.
LEMMA OtherDebris ==
    ASSUME IInv, IInv', Debris, NEW p \in Procs,
           \/ Start(p) \/ GiveUp(p) \/ Unsupported(p) \/ Flock(p) \/ ReadTable(p)
           \/ WriteTable(p) \/ Unlock(p) \/ Crash(p)
    PROVE  Debris'
<1> USE DEF Transaction
<1>1. ProcType /\ inode' = inode /\ level' = level /\ fd' = fd
  BY DEF IInv, PathInv, Start, GiveUp, Unsupported, Flock, ReadTable, WriteTable, Unlock, Crash
<1>2. \A q \in Procs : q # p => pc'[q] = pc[q] /\ created'[q] = created[q]
  <2>1. CASE Start(p) \/ GiveUp(p) \/ Unsupported(p) \/ Flock(p)
    BY <1>1, <2>1 DEF Start, GiveUp, Unsupported, Flock, Goto, ProcType
  <2>2. CASE ReadTable(p) \/ WriteTable(p) \/ Unlock(p) \/ Crash(p)
    BY <1>1, <2>2 DEF ReadTable, WriteTable, Unlock, Crash, Goto, ProcType
  <2> QED
    BY <2>1, <2>2
<1>3. \A i \in Inodes : Wrong(i) /\ OwesOf(i, p) => OwesOf(i, p)'
  <2>1. CASE Crash(p)
    <3>1. pc'[p] = "dead" /\ created' = created
      BY <1>1, <2>1 DEF Crash, Goto, ProcType
    <3> QED
      BY <1>1, <3>1 DEF OwesOf
  <2>2. CASE ~Crash(p)
    <3>1. pc[p] \in {"start", "flock", "read", "write", "unlock"}
      BY <2>2 DEF Start, GiveUp, Unsupported, Flock, ReadTable, WriteTable, Unlock
    <3> QED
      BY <3>1 DEF OwesOf
  <2> QED
    BY <2>1, <2>2
<1>4. level'[p] = 3 => fd'[p][2] = fd[p][2] /\ (level[p] = 3 \/ inode[fd[p][2]].exact)
  BY <1>1
<1> QED
  BY <1>1, <1>2, <1>3, <1>4, IdleDebris

LEMMA NextDebris == ASSUME 3 \notin FixFails PROVE IInv /\ Debris /\ [Next]_vars => Debris'
<1> SUFFICES ASSUME IInv, Debris, [Next]_vars PROVE Debris'
  OBVIOUS
<1>1. IInv'
  BY NextIInv
<1>2. CASE UNCHANGED vars
  <2>1. pc' = pc /\ level' = level /\ fd' = fd /\ created' = created /\ inode' = inode
    BY <1>2 DEF vars
  <2>2. ASSUME NEW i \in Inodes, Wrong(i)'
        PROVE  \E q \in Procs : OwesOf(i, q)'
    <3>1. Wrong(i)
      BY <2>1, <2>2 DEF Wrong
    <3>2. PICK q \in Procs : OwesOf(i, q)
      BY <3>1 DEF Debris
    <3>3. OwesOf(i, q)'
      BY <2>1, <3>2 DEF OwesOf
    <3> QED
      BY <3>3
  <2>3. /\ \A q \in Procs : level'[q] = 3 => inode'[fd'[q][2]].exact
        /\ \A i \in Inodes : inode'[i].linked /\ inode'[i].level = 3 => inode'[inode'[i].under].exact
    BY <2>1 DEF Debris
  <2> QED
    BY <2>2, <2>3 DEF Debris
<1>3. ASSUME NEW p \in Procs, Step(p) \/ Crash(p) PROVE Debris'
  BY <1>1, <1>3, MakeDebris, OpenDebris, FixDebris, VerifyDebris, RollbackDebris, OtherDebris DEF Step
<1> QED
  BY <1>2, <1>3 DEF Next

\* An object of the lock's path that has a wrong mode has a maker that has yet
\* to repair or to remove it or was killed: an attempt that failed in order
\* leaves nothing that makes the next one fail.
THEOREM NothingWrongLeft == ASSUME 3 \notin FixFails PROVE Spec => []NoDebris
<1>1. Init => Debris
  BY DEF Init, Debris, Wrong
<1>2. Debris => NoDebris
  BY DEF Debris, Wrong, OwesOf, NoDebris
<1> QED
  BY <1>1, <1>2, InitIInv, NextIInv, NextDebris, PTL DEF Spec
=============================================================================
