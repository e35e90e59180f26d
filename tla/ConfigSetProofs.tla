--------------------------- MODULE ConfigSetProofs ---------------------------
(***************************************************************************)
(* Proofs about the config-set publication (ConfigSet), for every set of   *)
(* processes, paths, directories and member lists, and every bound on      *)
(* kills, power losses, failing calls and operator edits.                  *)
(*                                                                         *)
(* The argument: LoopInv says which members the loops hold, LockInv that a *)
(* process past lockDirs owns its directories.  So a step of q touches     *)
(* only members of q (FootprintStep), and what MarkInv says of another     *)
(* process is not disturbed (MarkFrame).  MarkInv is what each phase       *)
(* relies on to create and remove markers without losing a signal.         *)
(*                                                                         *)
(* On top of SignalInv: locks are taken in one order, so nobody waits in a *)
(* circle; what was synced is what a power loss leaves; what an apply      *)
(* reports is so; and until a set is published its previous bytes exist    *)
(* somewhere.                                                              *)
(***************************************************************************)
EXTENDS ConfigSet, FiniteSetTheorems, TLAPS

-----------------------------------------------------------------------------
(* Type correctness *)

\* The backups of running applies are pairs of a path and its bytes.
LEMMA StagesType ==
    ASSUME TypeOK, NEW Q \in SUBSET Proc
    PROVE  Stages(Q) \subseteq Path \X Bytes
BY DEF Stages, TypeOK, LoopType

\* Returning, or being killed, resets the process state to its initial type.
LEMMA LeaveType ==
    ASSUME TypeOK, NEW Q \in SUBSET Proc, Leave(Q)
    PROVE  SetType' /\ LoopType'
BY DEF TypeOK, SetType, LoopType, Leave, Phases, Bytes

\* Member lists are made of paths.
LEMMA MembersType ==
    ASSUME TypeOK, NEW q \in Proc
    PROVE  Members(q) \subseteq Path
BY DEF TypeOK, SetType, Members

\* Replacing a member file keeps the disk well typed.
LEMMA SetLiveType ==
    ASSUME TypeOK, NEW p \in Path, NEW b \in Bytes, SetLive(p, b)
    PROVE  DiskType' /\ torn' = torn
BY DEF TypeOK, DiskType, SetLive

\* Creating or unlinking a marker keeps the disk well typed.
LEMMA SetMarkerType ==
    ASSUME TypeOK, NEW p \in Path, NEW b \in MarkState, SetMarker(p, b)
    PROVE  DiskType' /\ torn' = torn
BY DEF TypeOK, DiskType, SetMarker

\* An fsync keeps the disk well typed and adds no torn marker.
LEMMA SyncType ==
    ASSUME TypeOK, NEW d, Sync(d)
    PROVE  DiskType' /\ torn' \subseteq torn
BY DEF TypeOK, DiskType, Sync

\* A step that leaves the disk alone keeps it well typed.
LEMMA NoSyncType ==
    ASSUME TypeOK, UNCHANGED disk
    PROVE  DiskType'
BY DEF TypeOK, DiskType, disk

\* Every step of one process keeps the types.
LEMMA TypeStep ==
    ASSUME TypeOK, LoopInv, NEW q \in Proc, Apply(q) \/ Step(q) \/ Kill(q)
    PROVE  TypeOK'
<1>m. Members(q) \subseteq Path BY MembersType
<1>c. InHand(q) => cur[q] \in Path BY <1>m DEF LoopInv, LoopOK
<1>l. Leave({q}) => SetType' /\ LoopType' BY LeaveType
<1>s. Stages({q}) \subseteq Path \X Bytes BY StagesType
<1>1. CASE Apply(q)
  <2>1. DiskType' /\ torn' \subseteq torn
    BY <1>1, NoSyncType DEF Apply, disk
  <2>2. SetType'
    BY <1>1, <1>m, VariantAssumption DEF Apply, TypeOK, SetType, Goto, disk,
        backups, loop, counters, Phases, Bytes
  <2>3. LoopType'
    BY <1>1, <1>c DEF Apply, TypeOK, DiskType, SetType, LoopType, InHand, Goto,
        disk, backups, loop, counters
  <2>4. GhostType'
    BY <1>1, <1>c, <2>1, BoundAssumption DEF Apply, TypeOK, SetType, GhostType,
        InHand, Goto, disk, backups, loop, counters
  <2> QED BY <2>1, <2>2, <2>3, <2>4 DEF TypeOK
<1>2. CASE LockDir(q)
  <2>1. DiskType' /\ torn' \subseteq torn
    BY <1>2, NoSyncType DEF LockDir, disk
  <2>2. SetType'
    BY <1>2, <1>m DEF LockDir, TypeOK, SetType, Goto, disk, set, backups, loop,
        counters, Phases, Bytes
  <2>3. LoopType'
    BY <1>2, <1>c DEF LockDir, TypeOK, DiskType, SetType, LoopType, InHand,
        Goto, disk, set, backups, loop, counters
  <2>4. GhostType'
    BY <1>2, <1>c, <2>1, BoundAssumption DEF LockDir, TypeOK, SetType,
        GhostType, InHand, Goto, disk, set, backups, loop, counters
  <2> QED BY <2>1, <2>2, <2>3, <2>4 DEF TypeOK
<1>3. CASE LockDirFails(q)
  <2>1. DiskType' /\ torn' \subseteq torn
    BY <1>3, NoSyncType DEF LockDirFails, Return, disk
  <2>2. SetType' /\ LoopType'
    BY <1>3, <1>l DEF LockDirFails, Return
  <2>4. GhostType'
    BY <1>3, <1>c, <2>1, BoundAssumption DEF LockDirFails, TypeOK, SetType,
        GhostType, InHand, Succeed, Fail, Return, disk
  <2> QED BY <2>1, <2>2, <2>4 DEF TypeOK
<1>4. CASE Diff(q)
  <2>1. DiskType' /\ torn' \subseteq torn
    BY <1>4, NoSyncType DEF Diff, disk
  <2>2. SetType'
    BY <1>4, <1>m DEF Diff, TypeOK, SetType, Members, Goto, disk, backups,
        loop, counters, Phases, Bytes
  <2>3. LoopType'
    BY <1>4, <1>c DEF Diff, TypeOK, DiskType, SetType, LoopType, InHand,
        Members, Goto, disk, backups, loop, counters
  <2>4. GhostType'
    BY <1>4, <1>c, <2>1, BoundAssumption DEF Diff, TypeOK, SetType, GhostType,
        InHand, Members, Goto, disk, backups, loop, counters
  <2> QED BY <2>1, <2>2, <2>3, <2>4 DEF TypeOK
<1>5. CASE NewStage(q)
  <2>1. DiskType' /\ torn' \subseteq torn
    BY <1>5, NoSyncType DEF NewStage, Private, disk
  <2>2. SetType'
    BY <1>5, <1>m DEF NewStage, TypeOK, SetType, Private, Goto, disk, set,
        backups, loop, counters, Phases, Bytes
  <2>3. LoopType'
    BY <1>5, <1>c DEF NewStage, TypeOK, DiskType, SetType, LoopType, InHand,
        Private, Goto, disk, set, backups, loop, counters
  <2>4. GhostType'
    BY <1>5, <1>c, <2>1, BoundAssumption DEF NewStage, TypeOK, SetType,
        GhostType, InHand, Private, Goto, disk, set, backups, loop, counters
  <2> QED BY <2>1, <2>2, <2>3, <2>4 DEF TypeOK
<1>6. CASE Validate(q)
  <2>1. DiskType' /\ torn' \subseteq torn
    BY <1>6, NoSyncType DEF Validate, Private, disk
  <2>2. SetType'
    BY <1>6, <1>m DEF Validate, TypeOK, SetType, Private, Goto, disk, set,
        backups, loop, counters, Phases, Bytes
  <2>3. LoopType'
    BY <1>6, <1>c DEF Validate, TypeOK, DiskType, SetType, LoopType, InHand,
        Private, Goto, disk, set, backups, loop, counters
  <2>4. GhostType'
    BY <1>6, <1>c, <2>1, BoundAssumption DEF Validate, TypeOK, SetType,
        GhostType, InHand, Private, Goto, disk, set, backups, loop, counters
  <2> QED BY <2>1, <2>2, <2>3, <2>4 DEF TypeOK
<1>7. CASE ValidatorRejects(q)
  <2>1. DiskType' /\ torn' \subseteq torn
    BY <1>7, NoSyncType DEF ValidatorRejects, Return, disk
  <2>2. SetType' /\ LoopType'
    BY <1>7, <1>l DEF ValidatorRejects, Return
  <2>4. GhostType'
    BY <1>7, <1>c, <2>1, BoundAssumption DEF ValidatorRejects, TypeOK, SetType,
        GhostType, InHand, Succeed, Fail, Return, disk
  <2> QED BY <2>1, <2>2, <2>4 DEF TypeOK
<1>8. CASE RepairUnchanged(q)
  <2>1. DiskType' /\ torn' \subseteq torn
    BY <1>8, NoSyncType DEF RepairUnchanged, Private, disk
  <2>2. SetType'
    BY <1>8, <1>m DEF RepairUnchanged, TypeOK, SetType, Private, Goto, disk,
        set, backups, loop, counters, Phases, Bytes
  <2>3. LoopType'
    BY <1>8, <1>c DEF RepairUnchanged, TypeOK, DiskType, SetType, LoopType,
        InHand, Private, Goto, disk, set, backups, loop, counters
  <2>4. GhostType'
    BY <1>8, <1>c, <2>1, BoundAssumption DEF RepairUnchanged, TypeOK, SetType,
        GhostType, InHand, Private, Goto, disk, set, backups, loop, counters
  <2> QED BY <2>1, <2>2, <2>3, <2>4 DEF TypeOK
<1>9. CASE TakeBackups(q)
  <2>1. DiskType' /\ torn' \subseteq torn
    BY <1>9, NoSyncType DEF TakeBackups, disk
  <2>2. SetType'
    BY <1>9, <1>m DEF TakeBackups, TypeOK, SetType, Goto, disk, set, counters,
        Phases, Bytes
  <2>3. LoopType'
    BY <1>9, <1>c DEF TakeBackups, TypeOK, DiskType, SetType, LoopType, InHand,
        Goto, disk, set, counters
  <2>4. GhostType'
    BY <1>9, <1>c, <2>1, BoundAssumption DEF TakeBackups, TypeOK, SetType,
        GhostType, InHand, Goto, disk, set, counters
  <2> QED BY <2>1, <2>2, <2>3, <2>4 DEF TypeOK
<1>10. CASE PrepareFails(q)
  <2>1. DiskType' /\ torn' \subseteq torn
    BY <1>10, NoSyncType DEF PrepareFails, Return, disk
  <2>2. SetType' /\ LoopType'
    BY <1>10, <1>l DEF PrepareFails, Return
  <2>4. GhostType'
    BY <1>10, <1>c, <2>1, BoundAssumption DEF PrepareFails, TypeOK, SetType,
        GhostType, InHand, Fail, Return, disk
  <2> QED BY <2>1, <2>2, <2>4 DEF TypeOK
<1>11. CASE CreateMarker(q)
  <2>1. DiskType' /\ torn' \subseteq torn
    <3>1. PICK p \in Path : \/ UNCHANGED <<disk, torn>> \/ SetMarker(p, "present")
      BY <1>11 DEF CreateMarker, NoSync
    <3> QED BY <3>1, NoSyncType, SetMarkerType DEF MarkState
  <2>2. SetType'
    BY <1>11, <1>m DEF CreateMarker, TypeOK, SetType, Goto, set, backups,
        counters, Phases, Bytes
  <2>3. LoopType'
    BY <1>11, <1>c DEF CreateMarker, TypeOK, DiskType, SetType, LoopType,
        InHand, Goto, set, backups, counters
  <2>4. GhostType'
    BY <1>11, <1>c, <2>1, BoundAssumption DEF CreateMarker, TypeOK, SetType,
        GhostType, InHand, Goto, set, backups, counters
  <2> QED BY <2>1, <2>2, <2>3, <2>4 DEF TypeOK
<1>12. CASE CreateMarkerFails(q)
  <2>1. DiskType' /\ torn' \subseteq torn
    BY <1>12, NoSyncType DEF CreateMarkerFails, disk
  <2>2. SetType'
    BY <1>12, <1>m DEF CreateMarkerFails, TypeOK, SetType, Fail, Rollback,
        Goto, disk, set, backups, Phases, Bytes
  <2>3. LoopType'
    BY <1>12, <1>c DEF CreateMarkerFails, TypeOK, DiskType, SetType, LoopType,
        InHand, Fail, Rollback, Goto, disk, set, backups
  <2>4. GhostType'
    BY <1>12, <1>c, <2>1, BoundAssumption DEF CreateMarkerFails, TypeOK,
        SetType, GhostType, InHand, Fail, Rollback, Goto, disk, set, backups
  <2> QED BY <2>1, <2>2, <2>3, <2>4 DEF TypeOK
<1>13. CASE SyncMarker(q)
  <2>1. DiskType' /\ torn' \subseteq torn
    <3>1. \/ UNCHANGED <<disk, torn>> \/ Sync(DirOf[cur[q]])
      BY <1>13 DEF SyncMarker, NoSync
    <3> QED BY <3>1, NoSyncType, SyncType
  <2>2. SetType'
    BY <1>13, <1>m DEF SyncMarker, TypeOK, SetType, Goto, set, backups, loop,
        counters, Phases, Bytes
  <2>3. LoopType'
    BY <1>13, <1>c DEF SyncMarker, TypeOK, DiskType, SetType, LoopType, InHand,
        Goto, set, backups, loop, counters
  <2>4. GhostType'
    BY <1>13, <1>c, <2>1, BoundAssumption DEF SyncMarker, TypeOK, SetType,
        GhostType, InHand, Goto, set, backups, loop, counters
  <2> QED BY <2>1, <2>2, <2>3, <2>4 DEF TypeOK
<1>14. CASE SyncMarkerFails(q)
  <2>1. DiskType' /\ torn' \subseteq Path
    <3>1. CASE SetMarker(cur[q], "absent")
      BY <1>14, <3>1, <1>c, SetMarkerType DEF MarkState, SyncMarkerFails, InHand, TypeOK, GhostType
    <3>2. CASE UNCHANGED disk /\ torn' = torn \cup {cur[q]}
      BY <1>14, <3>2, <1>c, NoSyncType DEF SyncMarkerFails, InHand, TypeOK, GhostType
    <3> QED BY <1>14, <3>1, <3>2 DEF SyncMarkerFails
  <2>2. SetType'
    BY <1>14, <1>m DEF SyncMarkerFails, TypeOK, SetType, Fail, disk, Rollback,
        Goto, set, backups, Phases, Bytes
  <2>3. LoopType'
    BY <1>14, <1>c DEF SyncMarkerFails, TypeOK, DiskType, SetType, LoopType,
        InHand, Fail, disk, Rollback, Goto, set, backups
  <2>4. GhostType'
    BY <1>14, <1>c, <2>1, BoundAssumption DEF SyncMarkerFails, TypeOK, SetType,
        GhostType, InHand, Fail, disk, Rollback, Goto, set, backups
  <2> QED BY <2>1, <2>2, <2>3, <2>4 DEF TypeOK
<1>15. CASE RenameMember(q)
  <2>1. DiskType' /\ torn' \subseteq torn
    BY <1>15, <1>c, SetLiveType DEF RenameMember, InHand, TypeOK, SetType
  <2>2. SetType'
    BY <1>15, <1>m DEF RenameMember, TypeOK, SetType, Goto, set, backups, loop,
        counters, Phases, Bytes
  <2>3. LoopType'
    BY <1>15, <1>c DEF RenameMember, TypeOK, DiskType, SetType, LoopType,
        InHand, Goto, set, backups, loop, counters
  <2>4. GhostType'
    BY <1>15, <1>c, <2>1, BoundAssumption DEF RenameMember, TypeOK, SetType,
        GhostType, InHand, Goto, set, backups, loop, counters
  <2> QED BY <2>1, <2>2, <2>3, <2>4 DEF TypeOK
<1>16. CASE RenameMemberFails(q)
  <2>1. DiskType' /\ torn' \subseteq torn
    BY <1>16, NoSyncType DEF RenameMemberFails, disk
  <2>2. SetType'
    BY <1>16, <1>m DEF RenameMemberFails, TypeOK, SetType, Fail, Rollback,
        Goto, disk, set, backups, Phases, Bytes
  <2>3. LoopType'
    BY <1>16, <1>c DEF RenameMemberFails, TypeOK, DiskType, SetType, LoopType,
        InHand, Fail, Rollback, Goto, disk, set, backups
  <2>4. GhostType'
    BY <1>16, <1>c, <2>1, BoundAssumption DEF RenameMemberFails, TypeOK,
        SetType, GhostType, InHand, Fail, Rollback, Goto, disk, set, backups
  <2> QED BY <2>1, <2>2, <2>3, <2>4 DEF TypeOK
<1>17. CASE FinishMember(q)
  <2>1. DiskType' /\ torn' \subseteq torn
    <3>1. \/ UNCHANGED <<disk, torn>> \/ Sync(DirOf[cur[q]])
      BY <1>17 DEF FinishMember, NoSync
    <3> QED BY <3>1, NoSyncType, SyncType
  <2>2. SetType'
    BY <1>17, <1>m DEF FinishMember, TypeOK, SetType, Succeed, Fail, Goto, set,
        backups, Phases, Bytes
  <2>3. LoopType'
    BY <1>17, <1>c DEF FinishMember, TypeOK, DiskType, SetType, LoopType,
        InHand, Succeed, Fail, Goto, set, backups
  <2>4. GhostType'
    BY <1>17, <1>c, <2>1, BoundAssumption DEF FinishMember, TypeOK, SetType,
        GhostType, InHand, Succeed, Fail, Goto, set, backups
  <2> QED BY <2>1, <2>2, <2>3, <2>4 DEF TypeOK
<1>18. CASE FinishMemberFails(q)
  <2>1. DiskType' /\ torn' \subseteq torn
    <3>1. \/ UNCHANGED <<disk, torn>> \/ Sync(DirOf[cur[q]])
      BY <1>18 DEF FinishMemberFails, NoSync
    <3> QED BY <3>1, NoSyncType, SyncType
  <2>2. SetType'
    BY <1>18, <1>m DEF FinishMemberFails, TypeOK, SetType, Fail, Rollback,
        Goto, set, backups, Phases, Bytes
  <2>3. LoopType'
    BY <1>18, <1>c DEF FinishMemberFails, TypeOK, DiskType, SetType, LoopType,
        InHand, Fail, Rollback, Goto, set, backups
  <2>4. GhostType'
    BY <1>18, <1>c, <2>1, BoundAssumption DEF FinishMemberFails, TypeOK,
        SetType, GhostType, InHand, Fail, Rollback, Goto, set, backups
  <2> QED BY <2>1, <2>2, <2>3, <2>4 DEF TypeOK
<1>19. CASE Restore(q)
  <2>1. DiskType' /\ torn' \subseteq torn
    <3>1. PICK p \in Path : SetLive(p, saved[q][p])
      BY <1>19 DEF Restore
    <3> QED BY <3>1, SetLiveType DEF TypeOK, LoopType
  <2>2. SetType'
    BY <1>19, <1>m DEF Restore, TypeOK, SetType, Goto, set, counters, Phases,
        Bytes
  <2>3. LoopType'
    <3>1. have' \in [Proc -> SUBSET Path]
      BY <1>19 DEF Restore, TypeOK, LoopType
    <3>2. cur' \in [Proc -> Path \cup {NoPath}]
      BY <1>19 DEF Restore, TypeOK, LoopType
    <3> QED
      BY <1>19, <3>1, <3>2 DEF Restore, TypeOK, LoopType, set, counters
  <2>4. GhostType'
    BY <1>19, <1>c, <2>1, BoundAssumption DEF Restore, TypeOK, SetType,
        GhostType, InHand, Goto, set, counters
  <2> QED BY <2>1, <2>2, <2>3, <2>4 DEF TypeOK
<1>20. CASE RestoreFails(q)
  <2>1. DiskType' /\ torn' \subseteq torn
    BY <1>20, NoSyncType DEF RestoreFails, disk
  <2>2. SetType'
    BY <1>20, <1>m DEF RestoreFails, TypeOK, SetType, Fail, disk, set, backups,
        Phases, Bytes
  <2>3. LoopType'
    BY <1>20, <1>c DEF RestoreFails, TypeOK, DiskType, SetType, LoopType,
        InHand, Fail, disk, set, backups
  <2>4. GhostType'
    BY <1>20, <1>c, <2>1, BoundAssumption DEF RestoreFails, TypeOK, SetType,
        GhostType, InHand, Fail, disk, set, backups
  <2> QED BY <2>1, <2>2, <2>3, <2>4 DEF TypeOK
<1>21. CASE SyncRestore(q)
  <2>1. DiskType' /\ torn' \subseteq torn
    <3>1. \/ UNCHANGED <<disk, torn>> \/ Sync(DirOf[cur[q]])
      BY <1>21 DEF SyncRestore, NoSync
    <3> QED BY <3>1, NoSyncType, SyncType
  <2>2. SetType'
    BY <1>21, <1>m DEF SyncRestore, TypeOK, SetType, UndoNext, Goto, set,
        backups, counters, Phases, Bytes
  <2>3. LoopType'
    <3>1. todo' \in [Proc -> SUBSET Path]
      <4>1. CASE UNCHANGED todo
        BY <4>1 DEF TypeOK, LoopType
      <4>2. CASE UndoNext(q)
        BY <4>2 DEF UndoNext, TypeOK, LoopType
      <4> QED BY <1>21, <4>1, <4>2 DEF SyncRestore
    <3>2. cur' \in [Proc -> Path \cup {NoPath}]
      BY <1>21 DEF SyncRestore, TypeOK, LoopType
    <3> QED
      BY <1>21, <3>1, <3>2 DEF SyncRestore, TypeOK, LoopType, set, backups,
          counters
  <2>4. GhostType'
    BY <1>21, <1>c, <2>1, BoundAssumption DEF SyncRestore, TypeOK, SetType,
        GhostType, InHand, UndoNext, Goto, set, backups, counters
  <2> QED BY <2>1, <2>2, <2>3, <2>4 DEF TypeOK
<1>22. CASE SyncRestoreFails(q)
  <2>1. DiskType' /\ torn' \subseteq torn
    BY <1>22, NoSyncType DEF SyncRestoreFails, disk
  <2>2. SetType'
    BY <1>22, <1>m DEF SyncRestoreFails, TypeOK, SetType, Fail, UndoNext, Goto,
        disk, set, backups, Phases, Bytes
  <2>3. LoopType'
    BY <1>22, <1>c DEF SyncRestoreFails, TypeOK, DiskType, SetType, LoopType,
        InHand, Fail, UndoNext, Goto, disk, set, backups
  <2>4. GhostType'
    BY <1>22, <1>c, <2>1, BoundAssumption DEF SyncRestoreFails, TypeOK,
        SetType, GhostType, InHand, Fail, UndoNext, Goto, disk, set, backups
  <2> QED BY <2>1, <2>2, <2>3, <2>4 DEF TypeOK
<1>23. CASE UndoMarker(q)
  <2>1. DiskType' /\ torn' \subseteq torn
    <3>1. \/ UNCHANGED <<disk, torn>> \/ SetMarker(cur[q], "absent")
      BY <1>23 DEF UndoMarker, NoSync
    <3> QED BY <1>23, <3>1, <1>c, NoSyncType, SetMarkerType DEF MarkState, UndoMarker, InHand
  <2>2. SetType'
    BY <1>23, <1>m DEF UndoMarker, TypeOK, SetType, Goto, UndoNext, set,
        backups, counters, Phases, Bytes
  <2>3. LoopType'
    <3>1. todo' \in [Proc -> SUBSET Path]
      <4>1. CASE UNCHANGED todo
        BY <4>1 DEF TypeOK, LoopType
      <4>2. CASE UndoNext(q)
        BY <4>2 DEF UndoNext, TypeOK, LoopType
      <4> QED BY <1>23, <4>1, <4>2 DEF UndoMarker
    <3>2. cur' \in [Proc -> Path \cup {NoPath}]
      BY <1>23 DEF UndoMarker, TypeOK, LoopType
    <3> QED
      BY <1>23, <3>1, <3>2 DEF UndoMarker, TypeOK, LoopType, set, backups,
          counters
  <2>4. GhostType'
    BY <1>23, <1>c, <2>1, BoundAssumption DEF UndoMarker, TypeOK, SetType,
        GhostType, InHand, Goto, UndoNext, set, backups, counters
  <2> QED BY <2>1, <2>2, <2>3, <2>4 DEF TypeOK
<1>24. CASE UndoMarkerFails(q)
  <2>1. DiskType' /\ torn' \subseteq torn
    BY <1>24, NoSyncType DEF UndoMarkerFails, disk
  <2>2. SetType'
    BY <1>24, <1>m DEF UndoMarkerFails, TypeOK, SetType, Fail, UndoNext, Goto,
        disk, set, backups, Phases, Bytes
  <2>3. LoopType'
    BY <1>24, <1>c DEF UndoMarkerFails, TypeOK, DiskType, SetType, LoopType,
        InHand, Fail, UndoNext, Goto, disk, set, backups
  <2>4. GhostType'
    BY <1>24, <1>c, <2>1, BoundAssumption DEF UndoMarkerFails, TypeOK, SetType,
        GhostType, InHand, Fail, UndoNext, Goto, disk, set, backups
  <2> QED BY <2>1, <2>2, <2>3, <2>4 DEF TypeOK
<1>25. CASE SyncUndoMarker(q)
  <2>1. DiskType' /\ torn' \subseteq torn
    <3>1. \/ UNCHANGED <<disk, torn>> \/ Sync(DirOf[cur[q]])
      BY <1>25 DEF SyncUndoMarker, NoSync
    <3> QED BY <3>1, NoSyncType, SyncType
  <2>2. SetType'
    BY <1>25, <1>m DEF SyncUndoMarker, TypeOK, SetType, Succeed, Fail,
        UndoNext, Goto, set, backups, Phases, Bytes
  <2>3. LoopType'
    BY <1>25, <1>c DEF SyncUndoMarker, TypeOK, DiskType, SetType, LoopType,
        InHand, Succeed, Fail, UndoNext, Goto, set, backups
  <2>4. GhostType'
    BY <1>25, <1>c, <2>1, BoundAssumption DEF SyncUndoMarker, TypeOK, SetType,
        GhostType, InHand, Succeed, Fail, UndoNext, Goto, set, backups
  <2> QED BY <2>1, <2>2, <2>3, <2>4 DEF TypeOK
<1>26. CASE EndRollback(q)
  <2>1. DiskType' /\ torn' \subseteq torn
    BY <1>26, NoSyncType DEF EndRollback, disk
  <2>2. SetType' /\ LoopType'
    BY <1>26, <1>l DEF EndRollback
  <2>4. GhostType'
    BY <1>26, <1>c, <2>1, <1>s, <1>m, BoundAssumption DEF EndRollback, TypeOK,
        SetType, GhostType, InHand, disk, counters
  <2> QED BY <2>1, <2>2, <2>4 DEF TypeOK
<1>27. CASE Report(q)
  <2>1. DiskType' /\ torn' \subseteq torn
    BY <1>27, NoSyncType DEF Report, disk
  <2>2. SetType'
    BY <1>27, <1>m DEF Report, TypeOK, SetType, Goto, disk, set, counters,
        Phases, Bytes
  <2>3. LoopType'
    BY <1>27, <1>c DEF Report, TypeOK, DiskType, SetType, LoopType, InHand,
        Goto, disk, set, counters
  <2>4. GhostType'
    BY <1>27, <1>c, <2>1, BoundAssumption DEF Report, TypeOK, SetType,
        GhostType, InHand, Goto, disk, set, counters
  <2> QED BY <2>1, <2>2, <2>3, <2>4 DEF TypeOK
<1>28. CASE RemoveMarker(q)
  <2>1. DiskType' /\ torn' \subseteq torn
    <3>1. PICK p \in Path : \/ UNCHANGED <<disk, torn>> \/ SetMarker(p, "absent")
      BY <1>28 DEF RemoveMarker, NoSync
    <3> QED BY <3>1, NoSyncType, SetMarkerType DEF MarkState
  <2>2. SetType'
    BY <1>28, <1>m DEF RemoveMarker, TypeOK, SetType, Goto, UnmarkNext, set,
        backups, counters, Phases, Bytes
  <2>3. LoopType'
    <3>1. todo' \in [Proc -> SUBSET Path]
      <4>1. CASE UNCHANGED todo
        BY <4>1 DEF TypeOK, LoopType
      <4>2. CASE UnmarkNext(q)
        BY <4>2 DEF UnmarkNext, TypeOK, LoopType
      <4> QED BY <1>28, <4>1, <4>2 DEF RemoveMarker
    <3>2. cur' \in [Proc -> Path \cup {NoPath}]
      BY <1>28 DEF RemoveMarker, TypeOK, LoopType
    <3> QED
      BY <1>28, <3>1, <3>2 DEF RemoveMarker, TypeOK, LoopType, set, backups,
          counters
  <2>4. GhostType'
    BY <1>28, <1>c, <2>1, BoundAssumption DEF RemoveMarker, TypeOK, SetType,
        GhostType, InHand, Goto, UnmarkNext, set, backups, counters
  <2> QED BY <2>1, <2>2, <2>3, <2>4 DEF TypeOK
<1>29. CASE RemoveMarkerFails(q)
  <2>1. DiskType' /\ torn' \subseteq torn
    BY <1>29, NoSyncType DEF RemoveMarkerFails, disk
  <2>2. SetType'
    BY <1>29, <1>m DEF RemoveMarkerFails, TypeOK, SetType, Fail, UnmarkNext,
        Goto, disk, set, backups, Phases, Bytes
  <2>3. LoopType'
    BY <1>29, <1>c DEF RemoveMarkerFails, TypeOK, DiskType, SetType, LoopType,
        InHand, Fail, UnmarkNext, Goto, disk, set, backups
  <2>4. GhostType'
    BY <1>29, <1>c, <2>1, BoundAssumption DEF RemoveMarkerFails, TypeOK,
        SetType, GhostType, InHand, Fail, UnmarkNext, Goto, disk, set, backups
  <2> QED BY <2>1, <2>2, <2>3, <2>4 DEF TypeOK
<1>30. CASE SyncRemoveMarker(q)
  <2>1. DiskType' /\ torn' \subseteq torn
    <3>1. \/ UNCHANGED <<disk, torn>> \/ Sync(DirOf[cur[q]])
      BY <1>30 DEF SyncRemoveMarker, NoSync
    <3> QED BY <3>1, NoSyncType, SyncType
  <2>2. SetType'
    BY <1>30, <1>m DEF SyncRemoveMarker, TypeOK, SetType, Succeed, Fail,
        UnmarkNext, Goto, set, backups, Phases, Bytes
  <2>3. LoopType'
    BY <1>30, <1>c DEF SyncRemoveMarker, TypeOK, DiskType, SetType, LoopType,
        InHand, Succeed, Fail, UnmarkNext, Goto, set, backups
  <2>4. GhostType'
    BY <1>30, <1>c, <2>1, BoundAssumption DEF SyncRemoveMarker, TypeOK,
        SetType, GhostType, InHand, Succeed, Fail, UnmarkNext, Goto, set,
        backups
  <2> QED BY <2>1, <2>2, <2>3, <2>4 DEF TypeOK
<1>31. CASE ApplyReturns(q)
  <2>1. DiskType' /\ torn' \subseteq torn
    BY <1>31, NoSyncType DEF ApplyReturns, disk
  <2>2. SetType' /\ LoopType'
    BY <1>31, <1>l DEF ApplyReturns
  <2>4. GhostType'
    BY <1>31, <1>c, <2>1, BoundAssumption DEF ApplyReturns, TypeOK, SetType,
        GhostType, InHand, disk, counters
  <2> QED BY <2>1, <2>2, <2>4 DEF TypeOK
<1>32. CASE Kill(q)
  <2>1. DiskType' /\ torn' \subseteq Path
    BY <1>32, <1>c, NoSyncType DEF Kill, TypeOK, GhostType, InHand
  <2>2. SetType' /\ LoopType'
    BY <1>32, <1>l DEF Kill
  <2>4. GhostType'
    <3>1. leftover' \subseteq Path \X Bytes
      BY <1>32, <1>s DEF Kill, TypeOK, GhostType
    <3>2. untidy' \subseteq Path
      BY <1>32, <1>m DEF Kill, TypeOK, GhostType
    <3>3. kills' \in 0..MaxKills
      BY <1>32, BoundAssumption DEF Kill, TypeOK, GhostType
    <3> QED BY <1>32, <2>1, <3>1, <3>2, <3>3 DEF Kill, TypeOK, GhostType
  <2> QED BY <2>1, <2>2, <2>4 DEF TypeOK
<1> QED BY <1>1, <1>2, <1>3, <1>4, <1>5, <1>6, <1>7, <1>8, <1>9, <1>10, <1>11,
    <1>12, <1>13, <1>14, <1>15, <1>16, <1>17, <1>18, <1>19, <1>20, <1>21,
    <1>22, <1>23, <1>24, <1>25, <1>26, <1>27, <1>28, <1>29, <1>30, <1>31, <1>32
    DEF Step, Lock, Prepare, Publish, Undo, Finish

-----------------------------------------------------------------------------
(* Frames, loops and locks *)

\* The variables of process q the invariants are about.
Mine(q) ==
    <<pc[q], mem[q], want[q], changed[q], pending[q], saved[q], have[q], todo[q],
      done[q], cur[q], problems[q]>>

\* A step of q leaves the variables of every other process alone.
LEMMA FrameStep ==
    ASSUME TypeOK, NEW q \in Proc, Apply(q) \/ Step(q) \/ Kill(q), NEW r \in Proc \ {q}
    PROVE  UNCHANGED Mine(r)
<1>1. CASE Apply(q)
  BY <1>1 DEF Apply, Goto, backups, loop, TypeOK, SetType, LoopType, Mine
<1>2. CASE LockDir(q)
  BY <1>2 DEF LockDir, Goto, set, backups, loop, TypeOK, SetType, LoopType,
      Mine
<1>3. CASE LockDirFails(q)
  BY <1>3 DEF LockDirFails, Leave, Return, TypeOK, SetType, LoopType, Mine
<1>4. CASE Diff(q)
  BY <1>4 DEF Diff, Goto, backups, loop, TypeOK, SetType, LoopType, Mine
<1>5. CASE NewStage(q)
  BY <1>5 DEF NewStage, Private, Goto, set, backups, loop, TypeOK, SetType,
      LoopType, Mine
<1>6. CASE Validate(q)
  BY <1>6 DEF Validate, Private, Goto, set, backups, loop, TypeOK, SetType,
      LoopType, Mine
<1>7. CASE ValidatorRejects(q)
  BY <1>7 DEF ValidatorRejects, Leave, Return, TypeOK, SetType, LoopType, Mine
<1>8. CASE RepairUnchanged(q)
  BY <1>8 DEF RepairUnchanged, Private, Goto, set, backups, loop, TypeOK,
      SetType, LoopType, Mine
<1>9. CASE TakeBackups(q)
  BY <1>9 DEF TakeBackups, Goto, set, TypeOK, SetType, LoopType, Mine
<1>10. CASE PrepareFails(q)
  BY <1>10 DEF PrepareFails, Leave, Return, TypeOK, SetType, LoopType, Mine
<1>11. CASE CreateMarker(q)
  BY <1>11 DEF CreateMarker, Goto, set, backups, TypeOK, SetType, LoopType,
      Mine
<1>12. CASE CreateMarkerFails(q)
  BY <1>12 DEF CreateMarkerFails, Rollback, Goto, set, backups, TypeOK,
      SetType, LoopType, Mine
<1>13. CASE SyncMarker(q)
  BY <1>13 DEF SyncMarker, Goto, set, backups, loop, TypeOK, SetType, LoopType,
      Mine
<1>14. CASE SyncMarkerFails(q)
  BY <1>14 DEF SyncMarkerFails, Rollback, Goto, set, backups, TypeOK, SetType,
      LoopType, Mine
<1>15. CASE RenameMember(q)
  BY <1>15 DEF RenameMember, Goto, set, backups, loop, TypeOK, SetType,
      LoopType, Mine
<1>16. CASE RenameMemberFails(q)
  BY <1>16 DEF RenameMemberFails, Rollback, Goto, set, backups, TypeOK,
      SetType, LoopType, Mine
<1>17. CASE FinishMember(q)
  BY <1>17 DEF FinishMember, Goto, set, backups, TypeOK, SetType, LoopType,
      Mine
<1>18. CASE FinishMemberFails(q)
  BY <1>18 DEF FinishMemberFails, Rollback, Goto, set, backups, TypeOK,
      SetType, LoopType, Mine
<1>19. CASE Restore(q)
  BY <1>19 DEF Restore, Goto, set, TypeOK, SetType, LoopType, Mine
<1>20. CASE RestoreFails(q)
  BY <1>20 DEF RestoreFails, set, backups, TypeOK, SetType, LoopType, Mine
<1>21. CASE SyncRestore(q)
  BY <1>21 DEF SyncRestore, UndoNext, Goto, set, backups, TypeOK, SetType,
      LoopType, Mine
<1>22. CASE SyncRestoreFails(q)
  BY <1>22 DEF SyncRestoreFails, UndoNext, Goto, set, backups, TypeOK, SetType,
      LoopType, Mine
<1>23. CASE UndoMarker(q)
  BY <1>23 DEF UndoMarker, Goto, UndoNext, set, backups, TypeOK, SetType,
      LoopType, Mine
<1>24. CASE UndoMarkerFails(q)
  BY <1>24 DEF UndoMarkerFails, UndoNext, Goto, set, backups, TypeOK, SetType,
      LoopType, Mine
<1>25. CASE SyncUndoMarker(q)
  BY <1>25 DEF SyncUndoMarker, UndoNext, Goto, set, backups, TypeOK, SetType,
      LoopType, Mine
<1>26. CASE EndRollback(q)
  BY <1>26 DEF EndRollback, Leave, TypeOK, SetType, LoopType, Mine
<1>27. CASE Report(q)
  BY <1>27 DEF Report, Goto, set, TypeOK, SetType, LoopType, Mine
<1>28. CASE RemoveMarker(q)
  BY <1>28 DEF RemoveMarker, Goto, UnmarkNext, set, backups, TypeOK, SetType,
      LoopType, Mine
<1>29. CASE RemoveMarkerFails(q)
  BY <1>29 DEF RemoveMarkerFails, UnmarkNext, Goto, set, backups, TypeOK,
      SetType, LoopType, Mine
<1>30. CASE SyncRemoveMarker(q)
  BY <1>30 DEF SyncRemoveMarker, UnmarkNext, Goto, set, backups, TypeOK,
      SetType, LoopType, Mine
<1>31. CASE ApplyReturns(q)
  BY <1>31 DEF ApplyReturns, Leave, TypeOK, SetType, LoopType, Mine
<1>32. CASE Kill(q)
  BY <1>32 DEF Kill, Leave, TypeOK, SetType, LoopType, Mine
<1> QED BY <1>1, <1>2, <1>3, <1>4, <1>5, <1>6, <1>7, <1>8, <1>9, <1>10, <1>11,
    <1>12, <1>13, <1>14, <1>15, <1>16, <1>17, <1>18, <1>19, <1>20, <1>21,
    <1>22, <1>23, <1>24, <1>25, <1>26, <1>27, <1>28, <1>29, <1>30, <1>31, <1>32
    DEF Step, Lock, Prepare, Publish, Undo, Finish

\* Every step of one process keeps the loops inside the member list.
LEMMA LoopStep ==
    ASSUME TypeOK, LoopInv, NEW q \in Proc, Apply(q) \/ Step(q) \/ Kill(q)
    PROVE  LoopInv'
<1> SUFFICES LoopOK(q)'
  <2>1. ASSUME NEW r \in Proc \ {q} PROVE LoopOK(r)'
    <3>1. LoopOK(r) BY DEF LoopInv
    <3>2. UNCHANGED Mine(r) BY FrameStep
    <3> QED BY <3>1, <3>2 DEF LoopOK, Members, Publishing, InHand, Mine
  <2> QED BY <2>1 DEF LoopInv
<1>i. LoopOK(q) BY DEF LoopInv
<1>l. ASSUME Leave({q}) PROVE LoopOK(q)'
  BY <1>l DEF Leave, LoopOK, Publishing, InHand, TypeOK, SetType, LoopType
<1>1. CASE Apply(q)
  BY <1>1, <1>i DEF Apply, Goto, backups, loop, LoopOK, Members, Publishing,
      InHand, TypeOK, SetType, LoopType
<1>2. CASE LockDir(q)
  BY <1>2, <1>i DEF LockDir, Goto, set, backups, loop, LoopOK, Members,
      Publishing, InHand, TypeOK, SetType, LoopType
<1>3. CASE LockDirFails(q)
  BY <1>3, <1>l DEF LockDirFails, Return
<1>4. CASE Diff(q)
  BY <1>4, <1>i DEF Diff, Goto, backups, loop, LoopOK, Members, Publishing,
      InHand, TypeOK, SetType, LoopType
<1>5. CASE NewStage(q)
  BY <1>5, <1>i DEF NewStage, Private, Goto, set, backups, loop, LoopOK,
      Members, Publishing, InHand, TypeOK, SetType, LoopType
<1>6. CASE Validate(q)
  BY <1>6, <1>i DEF Validate, Private, Goto, set, backups, loop, LoopOK,
      Members, Publishing, InHand, TypeOK, SetType, LoopType
<1>7. CASE ValidatorRejects(q)
  BY <1>7, <1>l DEF ValidatorRejects, Return
<1>8. CASE RepairUnchanged(q)
  BY <1>8, <1>i DEF RepairUnchanged, Private, Goto, set, backups, loop, LoopOK,
      Members, Publishing, InHand, TypeOK, SetType, LoopType
<1>9. CASE TakeBackups(q)
  BY <1>9, <1>i DEF TakeBackups, Goto, set, LoopOK, Members, Publishing,
      InHand, TypeOK, SetType, LoopType
<1>10. CASE PrepareFails(q)
  BY <1>10, <1>l DEF PrepareFails, Return
<1>11. CASE CreateMarker(q)
  BY <1>11, <1>i DEF CreateMarker, Goto, set, backups, IsFirst, LoopOK,
      Members, Publishing, InHand, TypeOK, SetType, LoopType
<1>12. CASE CreateMarkerFails(q)
  <2>1. /\ done'[q] = done[q] /\ todo'[q] = done[q] /\ pc'[q] = "undo"
        /\ UNCHANGED <<mem, changed, pending>> /\ pc[q] = "mark"
    BY <1>12 DEF CreateMarkerFails, Rollback, Goto, set, TypeOK, SetType, LoopType
  <2> QED BY <2>1, <1>i DEF LoopOK, Members, Publishing, InHand
<1>13. CASE SyncMarker(q)
  BY <1>13, <1>i DEF SyncMarker, Goto, set, backups, loop, LoopOK, Members,
      Publishing, InHand, TypeOK, SetType, LoopType
<1>14. CASE SyncMarkerFails(q)
  BY <1>14, <1>i DEF SyncMarkerFails, Rollback, Goto, set, backups, LoopOK,
      Members, Publishing, InHand, TypeOK, SetType, LoopType
<1>15. CASE RenameMember(q)
  BY <1>15, <1>i DEF RenameMember, Goto, set, backups, loop, LoopOK, Members,
      Publishing, InHand, TypeOK, SetType, LoopType
<1>16. CASE RenameMemberFails(q)
  BY <1>16, <1>i DEF RenameMemberFails, Rollback, Goto, set, backups, LoopOK,
      Members, Publishing, InHand, TypeOK, SetType, LoopType
<1>17. CASE FinishMember(q)
  BY <1>17, <1>i DEF FinishMember, Goto, set, backups, LoopOK, Members,
      Publishing, InHand, TypeOK, SetType, LoopType
<1>18. CASE FinishMemberFails(q)
  BY <1>18, <1>i DEF FinishMemberFails, Rollback, Goto, set, backups, LoopOK,
      Members, Publishing, InHand, TypeOK, SetType, LoopType
<1>19. CASE Restore(q)
  BY <1>19, <1>i DEF Restore, Goto, set, IsLast, LoopOK, Members, Publishing,
      InHand, TypeOK, SetType, LoopType
<1>20. CASE RestoreFails(q)
  BY <1>20, <1>i DEF RestoreFails, set, backups, IsLast, LoopOK, Members,
      Publishing, InHand, TypeOK, SetType, LoopType
<1>21. CASE SyncRestore(q)
  BY <1>21, <1>i DEF SyncRestore, UndoNext, Goto, set, backups, LoopOK,
      Members, Publishing, InHand, TypeOK, SetType, LoopType
<1>22. CASE SyncRestoreFails(q)
  BY <1>22, <1>i DEF SyncRestoreFails, UndoNext, Goto, set, backups, LoopOK,
      Members, Publishing, InHand, TypeOK, SetType, LoopType
<1>23. CASE UndoMarker(q)
  BY <1>23, <1>i DEF UndoMarker, Goto, UndoNext, set, backups, LoopOK, Members,
      Publishing, InHand, TypeOK, SetType, LoopType
<1>24. CASE UndoMarkerFails(q)
  BY <1>24, <1>i DEF UndoMarkerFails, UndoNext, Goto, set, backups, LoopOK,
      Members, Publishing, InHand, TypeOK, SetType, LoopType
<1>25. CASE SyncUndoMarker(q)
  BY <1>25, <1>i DEF SyncUndoMarker, UndoNext, Goto, set, backups, LoopOK,
      Members, Publishing, InHand, TypeOK, SetType, LoopType
<1>26. CASE EndRollback(q)
  BY <1>26, <1>l DEF EndRollback
<1>27. CASE Report(q)
  BY <1>27, <1>i DEF Report, Goto, set, LoopOK, Members, Publishing, InHand,
      TypeOK, SetType, LoopType
<1>28. CASE RemoveMarker(q)
  BY <1>28, <1>i DEF RemoveMarker, Goto, UnmarkNext, set, backups, IsFirst,
      LoopOK, Members, Publishing, InHand, TypeOK, SetType, LoopType
<1>29. CASE RemoveMarkerFails(q)
  BY <1>29, <1>i DEF RemoveMarkerFails, UnmarkNext, Goto, set, backups,
      IsFirst, LoopOK, Members, Publishing, InHand, TypeOK, SetType, LoopType
<1>30. CASE SyncRemoveMarker(q)
  BY <1>30, <1>i DEF SyncRemoveMarker, UnmarkNext, Goto, set, backups, LoopOK,
      Members, Publishing, InHand, TypeOK, SetType, LoopType
<1>31. CASE ApplyReturns(q)
  BY <1>31, <1>l DEF ApplyReturns
<1>32. CASE Kill(q)
  BY <1>32, <1>l DEF Kill
<1> QED BY <1>1, <1>2, <1>3, <1>4, <1>5, <1>6, <1>7, <1>8, <1>9, <1>10, <1>11,
    <1>12, <1>13, <1>14, <1>15, <1>16, <1>17, <1>18, <1>19, <1>20, <1>21,
    <1>22, <1>23, <1>24, <1>25, <1>26, <1>27, <1>28, <1>29, <1>30, <1>31, <1>32
    DEF Step, Lock, Prepare, Publish, Undo, Finish

\* Every step of one process keeps the lock discipline: a lock is taken only

\* What a step of q does to the locks: it takes one, returns and releases them
\* all, starts an apply, or leaves them alone past lockDirs.
LEMMA LockCases ==
    ASSUME TypeOK, NEW q \in Proc, Apply(q) \/ Step(q) \/ Kill(q)
    PROVE  \/ LockDir(q) \/ Leave({q}) \/ Apply(q)
           \/ UNCHANGED <<holder, mem>> /\ Critical(q) /\ Critical(q)'
<1> USE DEF Critical, set, Goto, TypeOK, SetType
<1>1. CASE Lock(q) BY <1>1 DEF Lock, LockDirFails, Return
<1>2. CASE Prepare(q)
  BY <1>2 DEF Prepare, Diff, NewStage, Validate, ValidatorRejects,
      RepairUnchanged, TakeBackups, PrepareFails, Private, Return
<1>3. CASE Publish(q)
  BY <1>3 DEF Publish, CreateMarker, CreateMarkerFails, SyncMarker,
      SyncMarkerFails, RenameMember, RenameMemberFails, FinishMember,
      FinishMemberFails, Rollback
<1>4. CASE Undo(q)
  BY <1>4 DEF Undo, Restore, RestoreFails, SyncRestore, SyncRestoreFails,
      UndoMarker, UndoMarkerFails, SyncUndoMarker, EndRollback, UndoNext
<1>5. CASE Finish(q)
  BY <1>5 DEF Finish, Report, RemoveMarker, RemoveMarkerFails,
      SyncRemoveMarker, ApplyReturns, UnmarkNext
<1>6. CASE Kill(q) BY <1>6 DEF Kill
<1> QED BY <1>1, <1>2, <1>3, <1>4, <1>5, <1>6 DEF Step

\* when it is free, and released only by the process that holds it.
LEMMA LockStep ==
    ASSUME TypeOK, LockInv, NEW q \in Proc, Apply(q) \/ Step(q) \/ Kill(q)
    PROVE  LockInv'
<1>i. LockOK(q) BY DEF LockInv
<1>1. CASE LockDir(q)
  <2>1. PICK d \in Dirs :
           /\ holder[d] = NoProc
           /\ holder' = [holder EXCEPT ![d] = q]
           /\ pc' = [pc EXCEPT ![q] = IF \A e \in MemberDirs(q) \ {d} : holder[e] = q
                                     THEN "diff" ELSE "lock"]
           /\ mem' = mem
    BY <1>1 DEF LockDir, Goto, set
  <2>2. ASSUME NEW r \in Proc \ {q} PROVE LockOK(r)'
    <3>1. LockOK(r) /\ pc'[r] = pc[r] BY <2>1 DEF LockInv, TypeOK, SetType
    <3> QED
      BY <3>1, <2>1, ProcAssumption
      DEF LockOK, Critical, MemberDirs, Members, TypeOK, SetType
  <2>3. LockOK(q)'
    <3>1. MemberDirs(q)' = MemberDirs(q) BY <2>1 DEF MemberDirs, Members
    <3>2. MemberDirs(q) \subseteq Dirs BY MembersType DEF MemberDirs, Dirs
    <3>3. Critical(q)' => \A e \in MemberDirs(q) \ {d} : holder[e] = q
      BY <2>1 DEF Critical, TypeOK, SetType
    <3>4. Critical(q)' => \A e \in MemberDirs(q) : holder'[e] = q
      BY <2>1, <3>2, <3>3 DEF TypeOK, SetType
    <3> QED BY <3>1, <3>4 DEF LockOK
  <2> QED BY <2>2, <2>3 DEF LockInv
<1>2. CASE Leave({q})
  <2>1. ASSUME NEW r \in Proc \ {q} PROVE LockOK(r)'
    <3>1. LockOK(r) BY DEF LockInv
    <3>2. MemberDirs(r) \subseteq Dirs BY MembersType DEF MemberDirs, Dirs
    <3> QED BY <1>2, <3>1, <3>2 DEF Leave, LockOK, Critical, MemberDirs, Members
  <2>2. LockOK(q)' BY <1>2 DEF Leave, LockOK, Critical
  <2> QED BY <2>1, <2>2 DEF LockInv
<1>3. CASE Apply(q)
  <2>1. holder' = holder /\ pc'[q] = "lock" BY <1>3 DEF Apply, Goto, TypeOK, SetType
  <2>2. ASSUME NEW r \in Proc \ {q} PROVE LockOK(r)'
    BY <2>1, FrameStep DEF LockInv, LockOK, Critical, MemberDirs, Members, Mine
  <2>3. LockOK(q)' BY <2>1 DEF LockOK, Critical
  <2> QED BY <2>2, <2>3 DEF LockInv
<1>4. CASE UNCHANGED <<holder, mem>> /\ Critical(q)
  <2>1. ASSUME NEW r \in Proc \ {q} PROVE LockOK(r)'
    BY <1>4, FrameStep DEF LockInv, LockOK, Critical, MemberDirs, Members, Mine
  <2>2. LockOK(q)'
    BY <1>4, <1>i DEF LockOK, MemberDirs, Members
  <2> QED BY <2>1, <2>2 DEF LockInv
<1> QED BY <1>1, <1>2, <1>3, <1>4, LockCases

\* Two processes past lockDirs have no directory in common.
LEMMA LockExcludes ==
    ASSUME LockInv, NEW q \in Proc, NEW r \in Proc \ {q}, Critical(q), Critical(r)
    PROVE  MemberDirs(q) \cap MemberDirs(r) = {}
BY DEF LockInv, LockOK

-----------------------------------------------------------------------------
(* Markers and signals *)

\* No process step is a power loss or an operator's edit.
LEMMA LossesStep ==
    ASSUME NEW q \in Proc, Apply(q) \/ Step(q) \/ Kill(q)
    PROVE  losses' = losses /\ edits' = edits
<1>1. CASE Apply(q)
  BY <1>1 DEF Apply, counters
<1>2. CASE LockDir(q)
  BY <1>2 DEF LockDir, counters
<1>3. CASE LockDirFails(q)
  BY <1>3 DEF LockDirFails, Succeed, Fail
<1>4. CASE Diff(q)
  BY <1>4 DEF Diff, counters
<1>5. CASE NewStage(q)
  BY <1>5 DEF NewStage, Private, counters
<1>6. CASE Validate(q)
  BY <1>6 DEF Validate, Private, counters
<1>7. CASE ValidatorRejects(q)
  BY <1>7 DEF ValidatorRejects, Succeed, Fail
<1>8. CASE RepairUnchanged(q)
  BY <1>8 DEF RepairUnchanged, Private, counters
<1>9. CASE TakeBackups(q)
  BY <1>9 DEF TakeBackups, counters
<1>10. CASE PrepareFails(q)
  BY <1>10 DEF PrepareFails, Fail
<1>11. CASE CreateMarker(q)
  BY <1>11 DEF CreateMarker, counters
<1>12. CASE CreateMarkerFails(q)
  BY <1>12 DEF CreateMarkerFails, Fail
<1>13. CASE SyncMarker(q)
  BY <1>13 DEF SyncMarker, counters
<1>14. CASE SyncMarkerFails(q)
  BY <1>14 DEF SyncMarkerFails, Fail
<1>15. CASE RenameMember(q)
  BY <1>15 DEF RenameMember, counters
<1>16. CASE RenameMemberFails(q)
  BY <1>16 DEF RenameMemberFails, Fail
<1>17. CASE FinishMember(q)
  BY <1>17 DEF FinishMember, Succeed, Fail
<1>18. CASE FinishMemberFails(q)
  BY <1>18 DEF FinishMemberFails, Fail
<1>19. CASE Restore(q)
  BY <1>19 DEF Restore, counters
<1>20. CASE RestoreFails(q)
  BY <1>20 DEF RestoreFails, Fail
<1>21. CASE SyncRestore(q)
  BY <1>21 DEF SyncRestore, counters
<1>22. CASE SyncRestoreFails(q)
  BY <1>22 DEF SyncRestoreFails, Fail
<1>23. CASE UndoMarker(q)
  BY <1>23 DEF UndoMarker, counters
<1>24. CASE UndoMarkerFails(q)
  BY <1>24 DEF UndoMarkerFails, Fail
<1>25. CASE SyncUndoMarker(q)
  BY <1>25 DEF SyncUndoMarker, Succeed, Fail
<1>26. CASE EndRollback(q)
  BY <1>26 DEF EndRollback, counters
<1>27. CASE Report(q)
  BY <1>27 DEF Report, counters
<1>28. CASE RemoveMarker(q)
  BY <1>28 DEF RemoveMarker, counters
<1>29. CASE RemoveMarkerFails(q)
  BY <1>29 DEF RemoveMarkerFails, Fail
<1>30. CASE SyncRemoveMarker(q)
  BY <1>30 DEF SyncRemoveMarker, Succeed, Fail
<1>31. CASE ApplyReturns(q)
  BY <1>31 DEF ApplyReturns, counters
<1>32. CASE Kill(q)
  BY <1>32 DEF Kill
<1> QED BY <1>1, <1>2, <1>3, <1>4, <1>5, <1>6, <1>7, <1>8, <1>9, <1>10, <1>11,
    <1>12, <1>13, <1>14, <1>15, <1>16, <1>17, <1>18, <1>19, <1>20, <1>21,
    <1>22, <1>23, <1>24, <1>25, <1>26, <1>27, <1>28, <1>29, <1>30, <1>31, <1>32
    DEF Step, Lock, Prepare, Publish, Undo, Finish

\* A step of q changes the file, the marker or the debt of a member path only

\* if q is past lockDirs and the path is a member of its set.
LEMMA FootprintStep ==
    ASSUME TypeOK, LoopInv, NEW q \in Proc, Apply(q) \/ Step(q) \/ Kill(q),
           NEW p \in Path, p \notin Members(q) \/ ~Critical(q)
    PROVE  live'[p] = live[p] /\ marker'[p] = marker[p] /\ owed'[p] = owed[p]
<1>i. LoopOK(q) BY DEF LoopInv
<1>1. CASE Apply(q)
  BY <1>1 DEF Apply, disk
<1>2. CASE LockDir(q)
  BY <1>2 DEF LockDir, disk
<1>3. CASE LockDirFails(q)
  BY <1>3 DEF LockDirFails, Return, disk
<1>4. CASE Diff(q)
  BY <1>4 DEF Diff, disk
<1>5. CASE NewStage(q)
  BY <1>5 DEF NewStage, Private, disk
<1>6. CASE Validate(q)
  BY <1>6 DEF Validate, Private, disk
<1>7. CASE ValidatorRejects(q)
  BY <1>7 DEF ValidatorRejects, Return, disk
<1>8. CASE RepairUnchanged(q)
  BY <1>8 DEF RepairUnchanged, Private, disk
<1>9. CASE TakeBackups(q)
  BY <1>9 DEF TakeBackups, disk
<1>10. CASE PrepareFails(q)
  BY <1>10 DEF PrepareFails, Return, disk
<1>11. CASE CreateMarker(q)
  BY <1>11, <1>i DEF CreateMarker, NoSync, disk, SetMarker, IsFirst, LoopOK,
      Critical, InHand, TypeOK, DiskType, GhostType
<1>12. CASE CreateMarkerFails(q)
  BY <1>12 DEF CreateMarkerFails, disk
<1>13. CASE SyncMarker(q)
  BY <1>13, <1>i DEF SyncMarker, Sync, LoopOK, Critical, InHand, TypeOK,
      DiskType, GhostType
<1>14. CASE SyncMarkerFails(q)
  BY <1>14, <1>i DEF SyncMarkerFails, SetMarker, disk, LoopOK, Critical,
      InHand, TypeOK, DiskType, GhostType
<1>15. CASE RenameMember(q)
  BY <1>15, <1>i DEF RenameMember, SetLive, LoopOK, Critical, InHand, TypeOK,
      DiskType, GhostType
<1>16. CASE RenameMemberFails(q)
  BY <1>16 DEF RenameMemberFails, disk
<1>17. CASE FinishMember(q)
  BY <1>17, <1>i DEF FinishMember, Sync, NoSync, disk, LoopOK, Critical,
      InHand, TypeOK, DiskType, GhostType
<1>18. CASE FinishMemberFails(q)
  BY <1>18, <1>i DEF FinishMemberFails, Sync, NoSync, disk, LoopOK, Critical,
      InHand, TypeOK, DiskType, GhostType
<1>19. CASE Restore(q)
  BY <1>19, <1>i DEF Restore, SetLive, IsLast, LoopOK, Critical, InHand,
      TypeOK, DiskType, GhostType
<1>20. CASE RestoreFails(q)
  BY <1>20 DEF RestoreFails, disk
<1>21. CASE SyncRestore(q)
  BY <1>21, <1>i DEF SyncRestore, Sync, LoopOK, Critical, InHand, TypeOK,
      DiskType, GhostType
<1>22. CASE SyncRestoreFails(q)
  BY <1>22 DEF SyncRestoreFails, disk
<1>23. CASE UndoMarker(q)
  BY <1>23, <1>i DEF UndoMarker, SetMarker, NoSync, disk, LoopOK, Critical,
      InHand, TypeOK, DiskType, GhostType
<1>24. CASE UndoMarkerFails(q)
  BY <1>24 DEF UndoMarkerFails, disk
<1>25. CASE SyncUndoMarker(q)
  BY <1>25, <1>i DEF SyncUndoMarker, Sync, NoSync, disk, LoopOK, Critical,
      InHand, TypeOK, DiskType, GhostType
<1>26. CASE EndRollback(q)
  BY <1>26 DEF EndRollback, disk
<1>27. CASE Report(q)
  BY <1>27, <1>i DEF Report, disk, LoopOK, Critical, InHand, TypeOK, DiskType,
      GhostType
<1>28. CASE RemoveMarker(q)
  BY <1>28, <1>i DEF RemoveMarker, SetMarker, NoSync, disk, IsFirst, LoopOK,
      Critical, InHand, TypeOK, DiskType, GhostType
<1>29. CASE RemoveMarkerFails(q)
  BY <1>29 DEF RemoveMarkerFails, disk
<1>30. CASE SyncRemoveMarker(q)
  BY <1>30, <1>i DEF SyncRemoveMarker, Sync, NoSync, disk, LoopOK, Critical,
      InHand, TypeOK, DiskType, GhostType
<1>31. CASE ApplyReturns(q)
  BY <1>31 DEF ApplyReturns, disk
<1>32. CASE Kill(q)
  BY <1>32 DEF Kill, disk
<1> QED BY <1>1, <1>2, <1>3, <1>4, <1>5, <1>6, <1>7, <1>8, <1>9, <1>10, <1>11,
    <1>12, <1>13, <1>14, <1>15, <1>16, <1>17, <1>18, <1>19, <1>20, <1>21,
    <1>22, <1>23, <1>24, <1>25, <1>26, <1>27, <1>28, <1>29, <1>30, <1>31, <1>32
    DEF Step, Lock, Prepare, Publish, Undo, Finish

\* What MarkOK says of another process is not disturbed by a step of q.
LEMMA MarkFrame ==
    ASSUME TypeOK, LoopInv, LockInv, MarkInv,
           NEW q \in Proc, Apply(q) \/ Step(q) \/ Kill(q), NEW r \in Proc \ {q}
    PROVE  MarkOK(r)'
<1>1. MarkOK(r) /\ LoopOK(r) BY DEF MarkInv, LoopInv
<1>2. UNCHANGED Mine(r) BY FrameStep
<1>3. losses' = losses BY LossesStep
<1>4. ASSUME Critical(r), NEW p \in Members(r)
      PROVE  live'[p] = live[p] /\ marker'[p] = marker[p] /\ owed'[p] = owed[p]
  <2>1. p \in Path /\ DirOf[p] \in MemberDirs(r) BY MembersType DEF MemberDirs
  <2>2. p \notin Members(q) \/ ~Critical(q)
    BY <1>4, <2>1, LockExcludes DEF MemberDirs
  <2> QED BY <2>1, <2>2, FootprintStep
<1>5. Publishing(r) \/ InHand(r) \/ pc[r] = "unmark" => Critical(r)
  BY DEF Publishing, InHand, Critical
<1>6. /\ pc[r] \in {"marksync", "rename"} => marker'[cur[r]] = "present"
      /\ pc[r] = "undomark" => owed'[cur[r]] = {}
  BY <1>1, <1>4, <1>5 DEF MarkOK, LoopOK, InHand
<1>7. pc[r] \in {"unmark", "unmarksync"} => \A p \in todo[r] : owed'[p] = {}
  BY <1>1, <1>4, <1>5 DEF MarkOK, LoopOK, InHand
<1>8. losses = 0 /\ Publishing(r) =>
          \A p \in changed[r] : saved[r][p] \in owed'[p] => marker'[p] = "present"
  BY <1>1, <1>4, <1>5 DEF MarkOK, LoopOK
<1>9. losses = 0 /\ pc[r] = "marksync" =>
          /\ live'[cur[r]] \notin owed'[cur[r]]
          /\ saved[r][cur[r]] \notin owed'[cur[r]]
  BY <1>1, <1>4, <1>5 DEF MarkOK, LoopOK, InHand
<1> QED BY <1>2, <1>3, <1>6, <1>7, <1>8, <1>9 DEF MarkOK, Publishing, Mine

\* A step of q establishes what its next phase relies on.
LEMMA MarkStep ==
    ASSUME TypeOK, LoopInv, MarkInv, SignalSurvivesKill,
           NEW q \in Proc, Apply(q) \/ Step(q) \/ Kill(q)
    PROVE  MarkOK(q)'
<1>i. LoopOK(q) /\ MarkOK(q) BY DEF LoopInv, MarkInv
<1>l. losses' = losses BY LossesStep
<1>m. Members(q) \subseteq Path BY MembersType
<1>e. Leave({q}) => MarkOK(q)' BY DEF Leave, MarkOK, Publishing
<1>1. CASE Apply(q)
  BY <1>1, <1>i, <1>l, <1>m DEF Apply, Goto, disk, backups, loop, counters,
      MarkOK, LoopOK, SignalSurvivesKill, Publishing, InHand, TypeOK, DiskType,
      SetType, LoopType, GhostType, MarkState
<1>2. CASE LockDir(q)
  BY <1>2, <1>i, <1>l, <1>m DEF LockDir, Goto, disk, set, backups, loop,
      counters, MarkOK, LoopOK, SignalSurvivesKill, Publishing, InHand, TypeOK,
      DiskType, SetType, LoopType, GhostType, MarkState
<1>3. CASE LockDirFails(q)
  BY <1>3, <1>e DEF LockDirFails, Return
<1>4. CASE Diff(q)
  BY <1>4, <1>i, <1>l, <1>m DEF Diff, Goto, disk, backups, loop, counters,
      MarkOK, LoopOK, SignalSurvivesKill, Publishing, InHand, TypeOK, DiskType,
      SetType, LoopType, GhostType, MarkState
<1>5. CASE NewStage(q)
  BY <1>5, <1>i, <1>l, <1>m DEF NewStage, Private, Goto, disk, set, backups,
      loop, counters, MarkOK, LoopOK, SignalSurvivesKill, Publishing, InHand,
      TypeOK, DiskType, SetType, LoopType, GhostType, MarkState
<1>6. CASE Validate(q)
  BY <1>6, <1>i, <1>l, <1>m DEF Validate, Private, Goto, disk, set, backups,
      loop, counters, MarkOK, LoopOK, SignalSurvivesKill, Publishing, InHand,
      TypeOK, DiskType, SetType, LoopType, GhostType, MarkState
<1>7. CASE ValidatorRejects(q)
  BY <1>7, <1>e DEF ValidatorRejects, Return
<1>8. CASE RepairUnchanged(q)
  BY <1>8, <1>i, <1>l, <1>m DEF RepairUnchanged, Private, Goto, disk, set,
      backups, loop, counters, MarkOK, LoopOK, SignalSurvivesKill, Publishing,
      InHand, TypeOK, DiskType, SetType, LoopType, GhostType, MarkState
<1>9. CASE TakeBackups(q)
  BY <1>9, <1>i, <1>l, <1>m DEF TakeBackups, Goto, disk, set, counters, MarkOK,
      LoopOK, SignalSurvivesKill, Publishing, InHand, TypeOK, DiskType,
      SetType, LoopType, GhostType, MarkState
<1>10. CASE PrepareFails(q)
  BY <1>10, <1>e DEF PrepareFails, Return
<1>11. CASE CreateMarker(q)
  BY <1>11, <1>i, <1>l, <1>m DEF CreateMarker, Goto, NoSync, disk, SetMarker,
      set, backups, counters, IsFirst, MarkOK, LoopOK, SignalSurvivesKill,
      Publishing, InHand, TypeOK, DiskType, SetType, LoopType, GhostType,
      MarkState
<1>12. CASE CreateMarkerFails(q)
  BY <1>12, <1>i, <1>l, <1>m DEF CreateMarkerFails, Rollback, Goto, disk, set,
      backups, MarkOK, LoopOK, SignalSurvivesKill, Publishing, InHand, TypeOK,
      DiskType, SetType, LoopType, GhostType, MarkState
<1>13. CASE SyncMarker(q)
  BY <1>13, <1>i, <1>l, <1>m DEF SyncMarker, Sync, Goto, set, backups, loop,
      counters, MarkOK, LoopOK, SignalSurvivesKill, Publishing, InHand, TypeOK,
      DiskType, SetType, LoopType, GhostType, MarkState
<1>14. CASE SyncMarkerFails(q)
  BY <1>14, <1>i, <1>l, <1>m DEF SyncMarkerFails, SetMarker, disk, Rollback,
      Goto, set, backups, MarkOK, LoopOK, SignalSurvivesKill, Publishing,
      InHand, TypeOK, DiskType, SetType, LoopType, GhostType, MarkState
<1>15. CASE RenameMember(q)
  BY <1>15, <1>i, <1>l, <1>m DEF RenameMember, SetLive, Goto, set, backups,
      loop, counters, MarkOK, LoopOK, SignalSurvivesKill, Publishing, InHand,
      TypeOK, DiskType, SetType, LoopType, GhostType, MarkState
<1>16. CASE RenameMemberFails(q)
  BY <1>16, <1>i, <1>l, <1>m DEF RenameMemberFails, Rollback, Goto, disk, set,
      backups, MarkOK, LoopOK, SignalSurvivesKill, Publishing, InHand, TypeOK,
      DiskType, SetType, LoopType, GhostType, MarkState
<1>17. CASE FinishMember(q)
  BY <1>17, <1>i, <1>l, <1>m DEF FinishMember, Sync, NoSync, disk, Goto, set,
      backups, MarkOK, LoopOK, SignalSurvivesKill, Publishing, InHand, TypeOK,
      DiskType, SetType, LoopType, GhostType, MarkState
<1>18. CASE FinishMemberFails(q)
  BY <1>18, <1>i, <1>l, <1>m DEF FinishMemberFails, Sync, NoSync, disk,
      Rollback, Goto, set, backups, MarkOK, LoopOK, SignalSurvivesKill,
      Publishing, InHand, TypeOK, DiskType, SetType, LoopType, GhostType,
      MarkState
<1>19. CASE Restore(q)
  BY <1>19, <1>i, <1>l, <1>m DEF Restore, SetLive, Goto, set, counters, IsLast,
      MarkOK, LoopOK, SignalSurvivesKill, Publishing, InHand, TypeOK, DiskType,
      SetType, LoopType, GhostType, MarkState
<1>20. CASE RestoreFails(q)
  BY <1>20, <1>i, <1>l, <1>m DEF RestoreFails, disk, set, backups, IsLast,
      MarkOK, LoopOK, SignalSurvivesKill, Publishing, InHand, TypeOK, DiskType,
      SetType, LoopType, GhostType, MarkState
<1>21. CASE SyncRestore(q)
  <2>1. pc[q] = "undosync" /\ InHand(q) /\ Publishing(q)
    BY <1>21 DEF SyncRestore, InHand, Publishing
  <2>2. /\ UNCHANGED <<live, marker, saved, changed, cur>>
        /\ pc'[q] \in {"undo", "undomark"}
        /\ pc'[q] = "undomark" => owed'[cur[q]] = {}
        /\ \A p \in Path : owed'[p] \subseteq owed[p]
    BY <1>21, <2>1, <1>i, <1>m DEF SyncRestore, Sync, UndoNext, Goto, set, backups, LoopOK,
        TypeOK, SetType, GhostType
  <2>3. losses = 0 =>
          \A p \in changed[q] : saved[q][p] \in owed'[p] => marker[p] = "present"
    BY <2>1, <2>2, <1>i, <1>m DEF MarkOK, LoopOK
  <2> QED BY <2>2, <2>3, <1>l DEF MarkOK, Publishing
<1>22. CASE SyncRestoreFails(q)
  BY <1>22, <1>i, <1>l, <1>m DEF SyncRestoreFails, UndoNext, Goto, disk, set,
      backups, MarkOK, LoopOK, SignalSurvivesKill, Publishing, InHand, TypeOK,
      DiskType, SetType, LoopType, GhostType, MarkState
<1>23. CASE UndoMarker(q)
  BY <1>23, <1>i, <1>l, <1>m DEF UndoMarker, SetMarker, Goto, NoSync, disk,
      UndoNext, set, backups, counters, MarkOK, LoopOK, SignalSurvivesKill,
      Publishing, InHand, TypeOK, DiskType, SetType, LoopType, GhostType,
      MarkState
<1>24. CASE UndoMarkerFails(q)
  BY <1>24, <1>i, <1>l, <1>m DEF UndoMarkerFails, UndoNext, Goto, disk, set,
      backups, MarkOK, LoopOK, SignalSurvivesKill, Publishing, InHand, TypeOK,
      DiskType, SetType, LoopType, GhostType, MarkState
<1>25. CASE SyncUndoMarker(q)
  BY <1>25, <1>i, <1>l, <1>m DEF SyncUndoMarker, Sync, NoSync, disk, UndoNext,
      Goto, set, backups, MarkOK, LoopOK, SignalSurvivesKill, Publishing,
      InHand, TypeOK, DiskType, SetType, LoopType, GhostType, MarkState
<1>26. CASE EndRollback(q)
  BY <1>26, <1>e DEF EndRollback
<1>27. CASE Report(q)
  BY <1>27, <1>i, <1>l, <1>m DEF Report, Goto, disk, set, counters, MarkOK,
      LoopOK, SignalSurvivesKill, Publishing, InHand, TypeOK, DiskType,
      SetType, LoopType, GhostType, MarkState
<1>28. CASE RemoveMarker(q)
  BY <1>28, <1>i, <1>l, <1>m DEF RemoveMarker, SetMarker, Goto, NoSync, disk,
      UnmarkNext, set, backups, counters, IsFirst, MarkOK, LoopOK,
      SignalSurvivesKill, Publishing, InHand, TypeOK, DiskType, SetType,
      LoopType, GhostType, MarkState
<1>29. CASE RemoveMarkerFails(q)
  BY <1>29, <1>i, <1>l, <1>m DEF RemoveMarkerFails, UnmarkNext, Goto, disk,
      set, backups, IsFirst, MarkOK, LoopOK, SignalSurvivesKill, Publishing,
      InHand, TypeOK, DiskType, SetType, LoopType, GhostType, MarkState
<1>30. CASE SyncRemoveMarker(q)
  BY <1>30, <1>i, <1>l, <1>m DEF SyncRemoveMarker, Sync, NoSync, disk,
      UnmarkNext, Goto, set, backups, MarkOK, LoopOK, SignalSurvivesKill,
      Publishing, InHand, TypeOK, DiskType, SetType, LoopType, GhostType,
      MarkState
<1>31. CASE ApplyReturns(q)
  BY <1>31, <1>e DEF ApplyReturns
<1>32. CASE Kill(q)
  BY <1>32, <1>e DEF Kill
<1> QED BY <1>1, <1>2, <1>3, <1>4, <1>5, <1>6, <1>7, <1>8, <1>9, <1>10, <1>11,
    <1>12, <1>13, <1>14, <1>15, <1>16, <1>17, <1>18, <1>19, <1>20, <1>21,
    <1>22, <1>23, <1>24, <1>25, <1>26, <1>27, <1>28, <1>29, <1>30, <1>31, <1>32
    DEF Step, Lock, Prepare, Publish, Undo, Finish

\* No step of a process leaves unreported bytes without their marker.
LEMMA SignalStep ==
    ASSUME TypeOK, LoopInv, MarkInv, SignalSurvivesKill,
           NEW q \in Proc, Apply(q) \/ Step(q) \/ Kill(q)
    PROVE  SignalSurvivesKill'
<1>i. LoopOK(q) /\ MarkOK(q) BY DEF LoopInv, MarkInv
<1>l. losses' = losses BY LossesStep
<1>m. Members(q) \subseteq Path BY MembersType
<1>1. CASE Apply(q)
  BY <1>1, <1>l DEF Apply, disk, SignalSurvivesKill
<1>2. CASE LockDir(q)
  BY <1>2, <1>l DEF LockDir, disk, SignalSurvivesKill
<1>3. CASE LockDirFails(q)
  BY <1>3, <1>l DEF LockDirFails, Return, disk, SignalSurvivesKill
<1>4. CASE Diff(q)
  BY <1>4, <1>l DEF Diff, disk, SignalSurvivesKill
<1>5. CASE NewStage(q)
  BY <1>5, <1>l DEF NewStage, Private, disk, SignalSurvivesKill
<1>6. CASE Validate(q)
  BY <1>6, <1>l DEF Validate, Private, disk, SignalSurvivesKill
<1>7. CASE ValidatorRejects(q)
  BY <1>7, <1>l DEF ValidatorRejects, Return, disk, SignalSurvivesKill
<1>8. CASE RepairUnchanged(q)
  BY <1>8, <1>l DEF RepairUnchanged, Private, disk, SignalSurvivesKill
<1>9. CASE TakeBackups(q)
  BY <1>9, <1>l DEF TakeBackups, disk, SignalSurvivesKill
<1>10. CASE PrepareFails(q)
  BY <1>10, <1>l DEF PrepareFails, Return, disk, SignalSurvivesKill
<1>11. CASE CreateMarker(q)
  BY <1>11, <1>i, <1>l, <1>m DEF CreateMarker, NoSync, disk, SetMarker,
      IsFirst, MarkOK, LoopOK, SignalSurvivesKill, Publishing, InHand, TypeOK,
      DiskType, LoopType, GhostType
<1>12. CASE CreateMarkerFails(q)
  BY <1>12, <1>l DEF CreateMarkerFails, disk, SignalSurvivesKill
<1>13. CASE SyncMarker(q)
  BY <1>13, <1>l DEF SyncMarker, Sync, SignalSurvivesKill, TypeOK, GhostType
<1>14. CASE SyncMarkerFails(q)
  BY <1>14, <1>i, <1>l, <1>m DEF SyncMarkerFails, SetMarker, disk, MarkOK,
      LoopOK, SignalSurvivesKill, Publishing, InHand, TypeOK, DiskType,
      LoopType, GhostType
<1>15. CASE RenameMember(q)
  BY <1>15, <1>i, <1>l, <1>m DEF RenameMember, SetLive, MarkOK, LoopOK,
      SignalSurvivesKill, Publishing, InHand, TypeOK, DiskType, LoopType,
      GhostType
<1>16. CASE RenameMemberFails(q)
  BY <1>16, <1>l DEF RenameMemberFails, disk, SignalSurvivesKill
<1>17. CASE FinishMember(q)
  BY <1>17, <1>l DEF FinishMember, Sync, NoSync, disk, SignalSurvivesKill,
      TypeOK, GhostType
<1>18. CASE FinishMemberFails(q)
  BY <1>18, <1>l DEF FinishMemberFails, Sync, NoSync, disk, SignalSurvivesKill,
      TypeOK, GhostType
<1>19. CASE Restore(q)
  BY <1>19, <1>i, <1>l, <1>m DEF Restore, SetLive, IsLast, MarkOK, LoopOK,
      SignalSurvivesKill, Publishing, InHand, TypeOK, DiskType, LoopType,
      GhostType
<1>20. CASE RestoreFails(q)
  BY <1>20, <1>l DEF RestoreFails, disk, SignalSurvivesKill
<1>21. CASE SyncRestore(q)
  BY <1>21, <1>l DEF SyncRestore, Sync, SignalSurvivesKill, TypeOK, GhostType
<1>22. CASE SyncRestoreFails(q)
  BY <1>22, <1>l DEF SyncRestoreFails, disk, SignalSurvivesKill
<1>23. CASE UndoMarker(q)
  BY <1>23, <1>i, <1>l, <1>m DEF UndoMarker, SetMarker, NoSync, disk, MarkOK,
      LoopOK, SignalSurvivesKill, Publishing, InHand, TypeOK, DiskType,
      LoopType, GhostType
<1>24. CASE UndoMarkerFails(q)
  BY <1>24, <1>l DEF UndoMarkerFails, disk, SignalSurvivesKill
<1>25. CASE SyncUndoMarker(q)
  BY <1>25, <1>l DEF SyncUndoMarker, Sync, NoSync, disk, SignalSurvivesKill,
      TypeOK, GhostType
<1>26. CASE EndRollback(q)
  BY <1>26, <1>l DEF EndRollback, disk, SignalSurvivesKill
<1>27. CASE Report(q)
  BY <1>27, <1>i, <1>l, <1>m DEF Report, disk, MarkOK, LoopOK,
      SignalSurvivesKill, Publishing, InHand, TypeOK, DiskType, LoopType,
      GhostType
<1>28. CASE RemoveMarker(q)
  BY <1>28, <1>i, <1>l, <1>m DEF RemoveMarker, SetMarker, NoSync, disk,
      IsFirst, MarkOK, LoopOK, SignalSurvivesKill, Publishing, InHand, TypeOK,
      DiskType, LoopType, GhostType
<1>29. CASE RemoveMarkerFails(q)
  BY <1>29, <1>l DEF RemoveMarkerFails, disk, SignalSurvivesKill
<1>30. CASE SyncRemoveMarker(q)
  BY <1>30, <1>l DEF SyncRemoveMarker, Sync, NoSync, disk, SignalSurvivesKill,
      TypeOK, GhostType
<1>31. CASE ApplyReturns(q)
  BY <1>31, <1>l DEF ApplyReturns, disk, SignalSurvivesKill
<1>32. CASE Kill(q)
  BY <1>32, <1>l DEF Kill, disk, SignalSurvivesKill
<1> QED BY <1>1, <1>2, <1>3, <1>4, <1>5, <1>6, <1>7, <1>8, <1>9, <1>10, <1>11,
    <1>12, <1>13, <1>14, <1>15, <1>16, <1>17, <1>18, <1>19, <1>20, <1>21,
    <1>22, <1>23, <1>24, <1>25, <1>26, <1>27, <1>28, <1>29, <1>30, <1>31, <1>32
    DEF Step, Lock, Prepare, Publish, Undo, Finish

-----------------------------------------------------------------------------
(* The environment: operator edits and power losses *)

\* An operator's edit keeps the invariant: the new bytes are nobody's debt.
LEMMA EditStep ==
    ASSUME SignalInv, NEW p \in Path, Edit(p)
    PROVE  SignalInv'
<1>1. PICK b \in Bytes : SetLive(p, b) /\ owed' = [owed EXCEPT ![p] = @ \ {b}]
  BY DEF Edit
<1>2. UNCHANGED <<holder, pc, set, backups, loop, untidy, kills, losses, faults>>
  BY DEF Edit
<1>3. DiskType' /\ torn' = torn BY <1>1, SetLiveType DEF SignalInv
<1>4. edits' \in 0..MaxEdits
  BY BoundAssumption DEF Edit, SignalInv, TypeOK, GhostType
<1>5. TypeOK'
  BY <1>1, <1>2, <1>3, <1>4 DEF SignalInv, TypeOK, SetType, LoopType, GhostType,
      set, backups, loop
<1>6. LoopInv' /\ LockInv'
  BY <1>2 DEF SignalInv, LoopInv, LockInv, LoopOK, LockOK, Members, MemberDirs,
      Critical, Publishing, InHand, set, loop
<1>7. /\ marker' = marker
      /\ \A r \in Path : owed'[r] \subseteq owed[r]
      /\ \A r \in Path : live'[r] = live[r] \/ live'[r] \notin owed'[r]
  BY <1>1 DEF SetLive, SignalInv, TypeOK, DiskType, GhostType
<1>8. SignalSurvivesKill'
  BY <1>2, <1>7 DEF SignalInv, SignalSurvivesKill
<1>9. ASSUME NEW q \in Proc PROVE MarkOK(q)'
  <2>1. MarkOK(q) /\ LoopOK(q) BY DEF SignalInv, MarkInv, LoopInv
  <2>2. Members(q) \subseteq Path BY MembersType DEF SignalInv
  <2>3. UNCHANGED <<pc, changed, saved, todo, cur, losses>>
    BY <1>2 DEF set, backups, loop
  <2> QED BY <1>7, <2>1, <2>2, <2>3 DEF MarkOK, LoopOK, Publishing, InHand
<1> QED BY <1>5, <1>6, <1>8, <1>9 DEF SignalInv, MarkInv

\* A power loss ends every process; the claim is about kills only, so nothing is
\* left to show about markers.
LEMMA PowerLossStep ==
    ASSUME SignalInv, PowerLoss
    PROVE  SignalInv'
<1>1. TypeOK BY DEF SignalInv
<1>2. SetType' /\ LoopType' BY <1>1, LeaveType DEF PowerLoss
<1>3. DiskType'
  BY <1>1 DEF PowerLoss, TypeOK, DiskType
<1>4. leftover' \subseteq Path \X Bytes
  BY <1>1, StagesType DEF PowerLoss, TypeOK, GhostType
<1>5. losses' \in 0..MaxPowerLosses /\ losses' # 0
  BY <1>1, BoundAssumption DEF PowerLoss, TypeOK, GhostType
<1>6. GhostType'
  BY <1>1, <1>4, <1>5 DEF PowerLoss, TypeOK, GhostType
<1>7. \A q \in Proc : /\ pc'[q] = "idle" /\ changed'[q] = {} /\ pending'[q] = {}
                      /\ todo'[q] = {} /\ done'[q] = {}
  BY DEF PowerLoss, Leave
<1>8. LoopInv' /\ LockInv' /\ MarkInv'
  BY <1>7 DEF LoopInv, LockInv, MarkInv, LoopOK, LockOK, MarkOK, Critical,
      Publishing, InHand
<1>9. SignalSurvivesKill' BY <1>5 DEF SignalSurvivesKill
<1> QED BY <1>2, <1>3, <1>6, <1>8, <1>9 DEF SignalInv, TypeOK

-----------------------------------------------------------------------------
(* The theorems *)

\* Before the first apply nothing is locked, marked or owed.
LEMMA InitSignalInv == Init => SignalInv
<1> SUFFICES ASSUME Init PROVE SignalInv OBVIOUS
<1>1. DiskType BY DEF Init, DiskType, MarkState, Bytes
<1>2. SetType BY DEF Init, SetType, Phases, Bytes
<1>3. LoopType BY DEF Init, LoopType, Bytes
<1>4. GhostType BY BoundAssumption DEF Init, GhostType
<1>5. LoopInv /\ LockInv /\ MarkInv
  BY DEF Init, LoopInv, LockInv, MarkInv, LoopOK, LockOK, MarkOK, Critical,
      Publishing, InHand
<1>6. SignalSurvivesKill BY DEF Init, SignalSurvivesKill
<1> QED BY <1>1, <1>2, <1>3, <1>4, <1>5, <1>6 DEF SignalInv, TypeOK

\* SignalInv is inductive.
LEMMA NextSignalInv == SignalInv /\ [Next]_vars => SignalInv'
<1> SUFFICES ASSUME SignalInv, [Next]_vars PROVE SignalInv' OBVIOUS
<1>1. ASSUME NEW q \in Proc, Apply(q) \/ Step(q) \/ Kill(q) PROVE SignalInv'
  <2>1. TypeOK /\ LoopInv /\ LockInv /\ MarkInv /\ SignalSurvivesKill
    BY DEF SignalInv
  <2>2. TypeOK' BY <1>1, <2>1, TypeStep
  <2>3. LoopInv' BY <1>1, <2>1, LoopStep
  <2>4. LockInv' BY <1>1, <2>1, LockStep
  <2>5. MarkOK(q)' BY <1>1, <2>1, MarkStep
  <2>6. ASSUME NEW r \in Proc \ {q} PROVE MarkOK(r)' BY <1>1, <2>1, MarkFrame
  <2>7. MarkInv' BY <2>5, <2>6 DEF MarkInv
  <2>8. SignalSurvivesKill' BY <1>1, <2>1, SignalStep
  <2> QED BY <2>2, <2>3, <2>4, <2>7, <2>8 DEF SignalInv
<1>2. CASE PowerLoss BY <1>2, PowerLossStep
<1>3. ASSUME NEW p \in Path, Edit(p) PROVE SignalInv' BY <1>3, EditStep
<1>4. CASE UNCHANGED vars
  BY <1>4 DEF vars, disk, set, backups, loop, counters, SignalInv, TypeOK, DiskType,
      SetType, LoopType, GhostType, LoopInv, LockInv, MarkInv, LoopOK, LockOK, MarkOK,
      SignalSurvivesKill, Critical, Publishing, InHand, Members, MemberDirs
<1> QED BY <1>1, <1>2, <1>3, <1>4 DEF Next

\* Every variable keeps its type and every failure counter its bound.
THEOREM TypeCorrect == Spec => []TypeOK
<1>1. SignalInv => TypeOK BY DEF SignalInv
<1> QED BY <1>1, InitSignalInv, NextSignalInv, PTL DEF Spec

\* lockDirs serializes publications: no two processes whose sets share a
\* directory are both between their diff and their last marker removal.
THEOREM PublicationsSerialized == Spec => []Serialization
<1>1. SignalInv => Serialization
  BY LockExcludes DEF SignalInv, Serialization
<1> QED BY <1>1, InitSignalInv, NextSignalInv, PTL DEF Spec

\* No kill, failing system call or operator edit loses a change signal: a member
\* whose published bytes were not reported has its pending marker.
THEOREM SignalKept == Spec => []SignalSurvivesKill
<1>1. SignalInv => SignalSurvivesKill BY DEF SignalInv
<1> QED BY <1>1, InitSignalInv, NextSignalInv, PTL DEF Spec

-----------------------------------------------------------------------------
(* Lock order *)

\* A nonempty finite set has an element with the greatest value.
LEMMA GreatestExists ==
    ASSUME NEW S, IsFiniteSet(S), S # {}, NEW f \in [S -> Nat]
    PROVE  \E x \in S : \A y \in S : f[y] <= f[x]
<1> DEFINE Above(x) == {y \in S : f[y] > f[x]}
           R == StrictSubsetOrdering(S)
           T == {Above(x) : x \in S}
<1>1. IsWellFoundedOn(R, FiniteSubsetsOf(S)) BY FS_StrictSubsetOrderingWellFounded
<1>2. FiniteSubsetsOf(S) = SUBSET S BY FS_FiniteSubsetsOfFinite
<1>3. T \subseteq SUBSET S /\ T # {}
  <2>1. \A x \in S : Above(x) \in SUBSET S OBVIOUS
  <2>2. PICK x \in S : TRUE OBVIOUS
  <2>3. Above(x) \in T OBVIOUS
  <2> HIDE DEF Above
  <2> QED BY <2>1, <2>3
<1>4. PICK A \in T : \A B \in T : ~(<<B, A>> \in R)
  <2> HIDE DEF R, T
  <2> QED BY <1>1, <1>2, <1>3, WFMin
<1>5. PICK x \in S : A = Above(x) OBVIOUS
<1>6. ASSUME NEW y \in S, f[y] > f[x] PROVE FALSE
  <2>1. Above(y) \subseteq Above(x) BY <1>6
  <2>2. y \in Above(x) /\ y \notin Above(y) BY <1>6
  <2>3. <<Above(y), Above(x)>> \in R BY <2>1, <2>2 DEF StrictSubsetOrdering
  <2> QED BY <1>4, <1>5, <2>3
<1> QED BY <1>6

\* A nonempty set of naturals has a least element.
LEMMA LeastExists ==
    ASSUME NEW T, T \subseteq Nat, T # {}
    PROVE  \E x \in T : \A y \in T : x <= y
<1>1. PICK x \in T : \A y \in T : ~(<<y, x>> \in OpToRel(<, Nat))
  BY NatLessThanWellFounded, WFMin
<1>2. ASSUME NEW y \in T PROVE x <= y
  <2>1. ~(y < x)
    <3> SUFFICES ASSUME y < x PROVE FALSE OBVIOUS
    <3>1. y \in Nat /\ x \in Nat OBVIOUS
    <3>2. <<y, x>> \in OpToRel(<, Nat) BY <3>1 DEF OpToRel
    <3> QED BY <1>1, <3>2
  <2> QED BY <2>1
<1> QED BY <1>2

\* Directories are ranked by natural numbers.
LEMMA DirsAreNat ==
    ASSUME TypeOK, NEW q \in Proc
    PROVE  MemberDirs(q) \subseteq Dirs /\ Dirs \subseteq Nat
BY MembersType, DirAssumption DEF MemberDirs, Dirs

\* A process that waits for a directory has a next one to lock.
LEMMA NextLockExists ==
    ASSUME TypeOK, NEW q \in Proc, OrderOK(q), pc[q] = "lock"
    PROVE  \E d \in Dirs : NextLock(q, d)
<1> DEFINE Free == {d \in MemberDirs(q) : holder[d] # q}
<1>1. Free # {} /\ Free \subseteq Nat BY DirsAreNat DEF OrderOK
<1>2. PICK d \in Free : \A e \in Free : d <= e BY <1>1, LeastExists
<1> QED BY <1>1, <1>2, DirsAreNat DEF NextLock

\* Every step of one process takes locks in order.
LEMMA OrderStep ==
    ASSUME TypeOK, LockInv, OrderInv, NEW q \in Proc, Apply(q) \/ Step(q) \/ Kill(q)
    PROVE  OrderInv'
<1>i. OrderOK(q) BY DEF OrderInv
<1>d. \A r \in Proc : MemberDirs(r) \subseteq Dirs BY DirsAreNat
<1>1. CASE LockDir(q)
  <2>1. PICK d \in Dirs :
           /\ NextLock(q, d) /\ holder[d] = NoProc
           /\ holder' = [holder EXCEPT ![d] = q]
           /\ pc' = [pc EXCEPT ![q] = IF \A e \in MemberDirs(q) \ {d} : holder[e] = q
                                     THEN "diff" ELSE "lock"]
           /\ mem' = mem
    BY <1>1 DEF LockDir, Goto, set
  <2>2. \A r \in Proc : MemberDirs(r)' = MemberDirs(r) BY <2>1 DEF MemberDirs, Members
  <2>3. ASSUME NEW r \in Proc \ {q} PROVE OrderOK(r)'
    <3>1. OrderOK(r) /\ pc'[r] = pc[r] BY <2>1 DEF OrderInv, TypeOK, SetType
    <3>2. \A e \in Dirs : holder'[e] = r <=> holder[e] = r
      BY <2>1, ProcAssumption DEF TypeOK, SetType
    <3> QED BY <1>d, <2>2, <3>1, <3>2 DEF OrderOK
  <2>4. OrderOK(q)'
    <3>1. pc[q] = "lock" BY <1>1 DEF LockDir
    <3>2. \A e \in Dirs : holder'[e] = q <=> holder[e] = q \/ e = d
      BY <2>1 DEF TypeOK, SetType
    <3>3. d \in MemberDirs(q) /\ \A e \in MemberDirs(q) : e < d => holder[e] = q
      BY <2>1 DEF NextLock
    <3>4. pc'[q] # "idle" BY <2>1 DEF TypeOK, SetType
    <3>5. pc'[q] = "lock" => \E e \in MemberDirs(q) \ {d} : holder[e] # q
      BY <2>1 DEF TypeOK, SetType
    <3> QED BY <1>i, <1>d, <2>2, <3>1, <3>2, <3>3, <3>4, <3>5 DEF OrderOK
  <2> QED BY <2>3, <2>4 DEF OrderInv
<1>2. CASE Leave({q})
  <2>1. /\ \A e \in Dirs : holder'[e] # q
        /\ \A r \in Proc \ {q}, e \in Dirs : holder'[e] = r <=> holder[e] = r
        /\ \A r \in Proc \ {q} : pc'[r] = pc[r] /\ mem'[r] = mem[r]
        /\ pc'[q] = "idle"
    BY <1>2, ProcAssumption DEF Leave
  <2>2. ASSUME NEW r \in Proc \ {q} PROVE OrderOK(r)'
    <3>1. OrderOK(r) /\ MemberDirs(r)' = MemberDirs(r)
      BY <2>1 DEF OrderInv, MemberDirs, Members
    <3> QED BY <1>d, <2>1, <3>1 DEF OrderOK
  <2>3. OrderOK(q)' BY <2>1 DEF OrderOK
  <2> QED BY <2>2, <2>3 DEF OrderInv
<1>3. CASE Apply(q)
  <2>1. holder' = holder /\ pc[q] = "idle" /\ pc'[q] = "lock"
    BY <1>3 DEF Apply, Goto, TypeOK, SetType
  <2>2. ASSUME NEW r \in Proc \ {q} PROVE OrderOK(r)'
    <3>1. OrderOK(r) /\ UNCHANGED Mine(r) BY FrameStep DEF OrderInv
    <3> QED BY <2>1, <3>1 DEF OrderOK, MemberDirs, Members, Mine
  <2>3. OrderOK(q)'
    <3>1. PICK v \in Variants : mem' = [mem EXCEPT ![q] = v] BY <1>3 DEF Apply
    <3>2. mem'[q] = v /\ v \in Seq(Path) /\ Len(v) > 0
      BY <3>1, VariantAssumption DEF TypeOK, SetType
    <3>3. DirOf[v[1]] \in MemberDirs(q)' BY <3>2 DEF MemberDirs, Members
    <3>4. MemberDirs(q)' \subseteq Dirs BY <3>2 DEF MemberDirs, Members, Dirs
    <3>5. \A e \in Dirs : holder[e] # q BY <1>i, <2>1 DEF OrderOK
    <3> QED BY <2>1, <3>3, <3>4, <3>5 DEF OrderOK
  <2> QED BY <2>2, <2>3 DEF OrderInv
<1>4. CASE UNCHANGED <<holder, mem>> /\ Critical(q) /\ Critical(q)'
  <2>1. ASSUME NEW r \in Proc \ {q} PROVE OrderOK(r)'
    <3>1. OrderOK(r) /\ UNCHANGED Mine(r) BY FrameStep DEF OrderInv
    <3> QED BY <1>4, <3>1 DEF OrderOK, MemberDirs, Members, Mine
  <2>2. OrderOK(q)' BY <1>4, <1>i DEF OrderOK, MemberDirs, Members, Critical
  <2> QED BY <2>1, <2>2 DEF OrderInv
<1> QED BY <1>1, <1>2, <1>3, <1>4, LockCases

\* Of the waiting processes, the one that waits for the greatest directory does
\* not wait for another of them.
LEMMA OrderPreventsCircles ==
    ASSUME TypeOK, OrderInv
    PROVE  NoCircularWait
<1> SUFFICES ASSUME NEW S \in SUBSET {q \in Proc : pc[q] = "lock"}, S # {}
             PROVE  \E q \in S : \E d \in Dirs : NextLock(q, d) /\ holder[d] \notin S
  BY DEF NoCircularWait
<1> DEFINE Waits(q) == CHOOSE d \in Dirs : NextLock(q, d)
           f == [q \in S |-> Waits(q)]
<1>1. \A q \in S : Waits(q) \in Dirs /\ NextLock(q, Waits(q))
  BY NextLockExists DEF OrderInv
<1>2. f \in [S -> Nat] BY <1>1, DirsAreNat
<1>3. IsFiniteSet(S) BY FiniteAssumption, FS_Subset
<1>4. PICK q \in S : \A r \in S : f[r] <= f[q]
  <2> HIDE DEF f
  <2> QED BY <1>2, <1>3, GreatestExists
<1>5. ASSUME NEW r \in S, holder[Waits(q)] = r PROVE FALSE
  <2>1. Waits(q) \in MemberDirs(r) BY <1>1, <1>5 DEF OrderInv, OrderOK
  <2>2. Waits(r) \in MemberDirs(r) /\ holder[Waits(r)] # r BY <1>1 DEF NextLock
  <2>3. Waits(q) \in Nat /\ Waits(r) \in Nat BY <1>1, DirsAreNat
  <2>4. Waits(r) <= Waits(q) BY <1>4
  <2>5. Waits(r) # Waits(q) BY <1>5, <2>2
  <2>6. Waits(r) < Waits(q) BY <2>3, <2>4, <2>5
  <2> HIDE DEF Waits
  <2> QED BY <1>5, <2>1, <2>2, <2>6 DEF OrderInv, OrderOK
<1> QED BY <1>1, <1>5

-----------------------------------------------------------------------------
(* What one disk operation does to what a power loss may leave *)

\* Per path, what the invariant says of the disk.
LEMMA PowerAt ==
    ASSUME PowerInv, NEW p \in Path
    PROVE  /\ live[p] \in liveDisk[p] /\ marker[p] \in markerDisk[p]
           /\ Sheltered(p) /\ marker[p] = "present" /\ ~Unsynced(p)
              => markerDisk[p] = {"present"}
           /\ Sheltered(p) /\ liveDisk[p] \cap owed[p] # {}
              => markerDisk[p] = {"present"}
BY DEF PowerInv, DurableInv, DurableOK, SignalSurvivesPowerLoss, Sheltered

\* A step that writes no directory entry and owes nothing new.
LEMMA QuietKeeps ==
    ASSUME TypeOK, PowerInv, UNCHANGED disk, torn \subseteq torn',
           \A p \in Path : owed'[p] \subseteq owed[p],
           \A p \in Path : Unsynced(p) => Unsynced(p)' \/ p \in torn'
    PROVE  DurableInv' /\ SignalSurvivesPowerLoss'
<1> SUFFICES ASSUME NEW p \in Path
             PROVE  /\ DurableOK(p)'
                    /\ (Sheltered(p) /\ liveDisk[p] \cap owed[p] # {}
                        => markerDisk[p] = {"present"})'
  BY DEF DurableInv, SignalSurvivesPowerLoss, Sheltered
<1>1. Sheltered(p)' => Sheltered(p) BY DEF Sheltered
<1>2. UNCHANGED <<live, liveDisk, marker, markerDisk>> BY DEF disk
<1> QED BY <1>1, <1>2, PowerAt DEF DurableOK, Sheltered

\* fsync of a directory: what comes back is what is visible.
LEMMA SyncKeeps ==
    ASSUME TypeOK, PowerInv, NEW d, Sync(d),
           \A p \in Path : owed'[p] \subseteq owed[p],
           \A p \in Path : Unsynced(p) => Unsynced(p)' \/ DirOf[p] = d
    PROVE  DurableInv' /\ SignalSurvivesPowerLoss'
<1> SUFFICES ASSUME NEW p \in Path
             PROVE  /\ DurableOK(p)'
                    /\ (Sheltered(p) /\ liveDisk[p] \cap owed[p] # {}
                        => markerDisk[p] = {"present"})'
  BY DEF DurableInv, SignalSurvivesPowerLoss, Sheltered
<1>1. UNCHANGED <<live, marker>> BY DEF Sync
<1>2. CASE Durable(p, d)
  <2>1. liveDisk'[p] = {live[p]} /\ markerDisk'[p] = {marker[p]}
    BY <1>2 DEF Sync, TypeOK, DiskType
  <2>2. Sheltered(p)' => Sheltered(p) \/ owed[p] = {}
    BY DEF Sheltered, Sync
  <2> QED BY <1>1, <2>1, <2>2, PowerAt DEF DurableOK
<1>3. CASE ~Durable(p, d)
  <2>1. liveDisk'[p] = liveDisk[p] /\ markerDisk'[p] = markerDisk[p]
    BY <1>3 DEF Sync, TypeOK, DiskType
  <2>2. Sheltered(p)' => Sheltered(p) BY <1>3 DEF Sheltered, Sync
  <2>3. Sheltered(p) /\ Unsynced(p) => Unsynced(p)'
    BY <1>3 DEF Sheltered, Durable
  <2> QED BY <1>1, <2>1, <2>2, <2>3, PowerAt DEF DurableOK
<1> QED BY <1>2, <1>3

\* A member is replaced by bytes that are not owed, or whose marker is durable.
LEMMA SetLiveKeeps ==
    ASSUME TypeOK, PowerInv, NEW x \in Path, NEW b, SetLive(x, b),
           \A p \in Path \ {x} : owed'[p] = owed[p],
           owed'[x] \subseteq owed[x] \cup {b},
           Sheltered(x) /\ b \in owed'[x] => markerDisk[x] = {"present"},
           \A p \in Path : Unsynced(p) => Unsynced(p)'
    PROVE  DurableInv' /\ SignalSurvivesPowerLoss'
<1> SUFFICES ASSUME NEW p \in Path
             PROVE  /\ DurableOK(p)'
                    /\ (Sheltered(p) /\ liveDisk[p] \cap owed[p] # {}
                        => markerDisk[p] = {"present"})'
  BY DEF DurableInv, SignalSurvivesPowerLoss, Sheltered
<1>1. UNCHANGED <<marker, markerDisk, torn>> BY DEF SetLive
<1>2. Sheltered(p)' <=> Sheltered(p) BY <1>1 DEF Sheltered
<1>3. CASE p = x
  <2>1. live'[p] = b /\ liveDisk'[p] = liveDisk[p] \cup {b}
    BY <1>3 DEF SetLive, TypeOK, DiskType
  <2> QED BY <1>1, <1>2, <1>3, <2>1, PowerAt DEF DurableOK
<1>4. CASE p # x
  <2>1. live'[p] = live[p] /\ liveDisk'[p] = liveDisk[p]
    BY <1>4 DEF SetLive, TypeOK, DiskType
  <2> QED BY <1>1, <1>2, <1>4, <2>1, PowerAt DEF DurableOK
<1> QED BY <1>3, <1>4

\* A marker is created, and waits for its fsync, or is unlinked where nothing
\* that may come back is owed.
LEMMA SetMarkerKeeps ==
    ASSUME TypeOK, PowerInv, NEW x \in Path, NEW m \in MarkState, SetMarker(x, m),
           UNCHANGED owed,
           \A p \in Path \ {x} : Unsynced(p) => Unsynced(p)',
           m = "present" => marker[x] = "absent" /\ Unsynced(x)',
           m = "absent" /\ Sheltered(x) => liveDisk[x] \cap owed[x] = {}
    PROVE  DurableInv' /\ SignalSurvivesPowerLoss'
<1> SUFFICES ASSUME NEW p \in Path
             PROVE  /\ DurableOK(p)'
                    /\ (Sheltered(p) /\ liveDisk[p] \cap owed[p] # {}
                        => markerDisk[p] = {"present"})'
  BY DEF DurableInv, SignalSurvivesPowerLoss, Sheltered
<1>1. UNCHANGED <<live, liveDisk, torn>> BY DEF SetMarker
<1>2. Sheltered(p)' <=> Sheltered(p) BY <1>1 DEF Sheltered
<1>3. CASE p = x
  <2>1. marker'[p] = m /\ markerDisk'[p] = markerDisk[p] \cup {m}
    BY <1>3 DEF SetMarker, TypeOK, DiskType
  <2>2. m = "present" \/ m = "absent" BY DEF MarkState
  <2>3. CASE m = "present"
    BY <1>1, <1>2, <1>3, <2>1, <2>3, PowerAt DEF DurableOK
  <2>4. CASE m = "absent"
    BY <1>1, <1>2, <1>3, <2>1, <2>4, PowerAt DEF DurableOK
  <2> QED BY <2>2, <2>3, <2>4
<1>4. CASE p # x
  <2>1. marker'[p] = marker[p] /\ markerDisk'[p] = markerDisk[p]
    BY <1>4 DEF SetMarker, TypeOK, DiskType
  <2> QED BY <1>1, <1>2, <1>4, <2>1, PowerAt DEF DurableOK
<1> QED BY <1>3, <1>4

\* A marker that waits for its fsync is that of the process in hand of it.
LEMMA UnsyncedStep ==
    ASSUME TypeOK, NEW q \in Proc, Apply(q) \/ Step(q) \/ Kill(q),
           NEW p \in Path, Unsynced(p)
    PROVE  Unsynced(p)' \/ (pc[q] = "marksync" /\ cur[q] = p)
<1>1. PICK r \in Proc : pc[r] = "marksync" /\ cur[r] = p BY DEF Unsynced
<1>2. CASE r = q BY <1>1, <1>2
<1>3. CASE r # q
  <2>1. UNCHANGED Mine(r) BY <1>3, FrameStep
  <2> QED BY <1>1, <2>1 DEF Mine, Unsynced
<1> QED BY <1>2, <1>3

\* Nobody else waits for the fsync of a marker of a set q has locked.
LEMMA UnsyncedIsOurs ==
    ASSUME TypeOK, LoopInv, LockInv, NEW q \in Proc, Critical(q),
           NEW p \in Members(q), Unsynced(p)
    PROVE  pc[q] = "marksync"
<1>1. PICK r \in Proc : pc[r] = "marksync" /\ cur[r] = p BY DEF Unsynced
<1>2. Critical(r) /\ p \in Members(r)
  BY <1>1 DEF Critical, LoopInv, LoopOK, InHand
<1>3. r = q BY <1>2, LockExcludes DEF MemberDirs
<1> QED BY <1>1, <1>3

\* The steps that write no directory entry.
LEMMA QuietStep ==
    ASSUME TypeOK, NEW q \in Proc,
           \/ Apply(q) \/ Lock(q) \/ Prepare(q) \/ EndRollback(q) \/ Report(q)
           \/ CreateMarkerFails(q) \/ RenameMemberFails(q) \/ RestoreFails(q)
           \/ SyncRestoreFails(q) \/ UndoMarkerFails(q)
           \/ RemoveMarkerFails(q) \/ ApplyReturns(q)
    PROVE  /\ UNCHANGED <<disk, torn>> /\ pc[q] # "marksync"
           /\ \A p \in Path : owed'[p] \subseteq owed[p]
<1> USE DEF TypeOK, GhostType
<1>1. CASE Apply(q) BY <1>1 DEF Apply
<1>2. CASE Lock(q) BY <1>2 DEF Lock, LockDir, LockDirFails, Return
<1>3. CASE Prepare(q)
  BY <1>3 DEF Prepare, Diff, NewStage, Validate, ValidatorRejects, RepairUnchanged,
      TakeBackups, PrepareFails, Private, Return
<1>4. CASE EndRollback(q) BY <1>4 DEF EndRollback
<1>5. CASE Report(q) BY <1>5 DEF Report
<1>6. CASE CreateMarkerFails(q) \/ RenameMemberFails(q) \/ RestoreFails(q)
  BY <1>6 DEF CreateMarkerFails, RenameMemberFails, RestoreFails
<1>7. CASE SyncRestoreFails(q) \/ UndoMarkerFails(q) \/ RemoveMarkerFails(q)
  BY <1>7 DEF SyncRestoreFails, UndoMarkerFails, RemoveMarkerFails
<1>8. CASE ApplyReturns(q) BY <1>8 DEF ApplyReturns
<1> QED BY <1>1, <1>2, <1>3, <1>4, <1>5, <1>6, <1>7, <1>8

\* Every step of one process keeps the visible markers durable and lets no
\* power loss lose a signal.
LEMMA DurableStep ==
    ASSUME SignalInv, PowerInv, NEW q \in Proc, Apply(q) \/ Step(q) \/ Kill(q)
    PROVE  DurableInv' /\ SignalSurvivesPowerLoss'
<1>t. TypeOK /\ LoopInv /\ LockInv /\ MarkInv BY DEF SignalInv
<1>i. LoopOK(q) /\ MarkOK(q) /\ BackupOK(q)
  BY <1>t DEF LoopInv, MarkInv, PowerInv, BackupInv
<1>m. Members(q) \subseteq Path BY <1>t, MembersType
<1>c. InHand(q) => cur[q] \in Members(q) /\ cur[q] \in Path BY <1>i, <1>m DEF LoopOK
<1>u. \A p \in Path : Unsynced(p) =>
         Unsynced(p)' \/ (pc[q] = "marksync" /\ cur[q] = p)
  BY <1>t, UnsyncedStep
<1>a. "absent" \in MarkState /\ "present" \in MarkState /\ "absent" # "present"
  BY DEF MarkState
<1>q. ASSUME UNCHANGED <<disk, torn>>, pc[q] # "marksync",
             \A p \in Path : owed'[p] \subseteq owed[p]
      PROVE  DurableInv' /\ SignalSurvivesPowerLoss'
  BY <1>t, <1>u, <1>q, QuietKeeps
<1>s. ASSUME InHand(q), Sync(DirOf[cur[q]]), \A p \in Path : owed'[p] \subseteq owed[p]
      PROVE  DurableInv' /\ SignalSurvivesPowerLoss'
  BY <1>t, <1>u, <1>s, SyncKeeps
<1>1. CASE \/ Apply(q) \/ Lock(q) \/ Prepare(q) \/ EndRollback(q) \/ Report(q)
           \/ CreateMarkerFails(q) \/ RenameMemberFails(q) \/ RestoreFails(q)
           \/ SyncRestoreFails(q) \/ UndoMarkerFails(q)
           \/ RemoveMarkerFails(q) \/ ApplyReturns(q)
  BY <1>1, <1>t, <1>q, QuietStep
<1>2. CASE CreateMarker(q)
  <2>1. PICK p \in Path :
          /\ p \in todo[q]
          /\ cur' = [cur EXCEPT ![q] = p]
          /\ \/ NoSync
             \/ marker[p] # "present" /\ Goto(q, "marksync") /\ SetMarker(p, "present")
    BY <1>2 DEF CreateMarker, IsFirst
  <2>2. UNCHANGED owed /\ pc[q] = "mark" BY <1>2 DEF CreateMarker
  <2>3. CASE NoSync BY <1>q, <2>2, <2>3 DEF NoSync
  <2>4. CASE marker[p] # "present" /\ Goto(q, "marksync") /\ SetMarker(p, "present")
    <3>1. marker[p] = "absent" BY <1>t, <2>4 DEF TypeOK, DiskType, MarkState
    <3>2. pc'[q] = "marksync" /\ cur'[q] = p
      BY <1>t, <2>1, <2>4 DEF Goto, TypeOK, SetType, LoopType
    <3>3. Unsynced(p)' BY <3>2 DEF Unsynced
    <3> QED BY <1>t, <1>u, <1>a, <2>2, <2>4, <3>1, <3>3, SetMarkerKeeps
  <2> QED BY <2>1, <2>3, <2>4
<1>3. CASE SyncMarker(q)
  BY <1>3, <1>s DEF SyncMarker, InHand
<1>4. CASE SyncMarkerFails(q)
  <2>1. pc[q] = "marksync" /\ UNCHANGED owed /\ cur[q] \in Path
    BY <1>4, <1>c DEF SyncMarkerFails, InHand
  <2>2. CASE SetMarker(cur[q], "absent")
    <3>1. Sheltered(cur[q]) => liveDisk[cur[q]] \cap owed[cur[q]] = {}
      BY <1>i, <2>1 DEF BackupOK
    <3> QED BY <1>t, <1>u, <1>a, <2>1, <2>2, <3>1, SetMarkerKeeps
  <2>3. CASE UNCHANGED disk /\ torn' = torn \cup {cur[q]}
    BY <1>t, <1>u, <2>1, <2>3, QuietKeeps
  <2> QED BY <1>4, <2>2, <2>3 DEF SyncMarkerFails
<1>5. CASE RenameMember(q)
  <2>1. /\ pc[q] = "rename" /\ SetLive(cur[q], want[q][cur[q]])
        /\ owed' = [owed EXCEPT ![cur[q]] = @ \cup {want[q][cur[q]]}]
        /\ cur[q] \in Members(q) /\ cur[q] \in Path
    BY <1>5, <1>c DEF RenameMember, InHand
  <2>2. marker[cur[q]] = "present" BY <1>i, <2>1 DEF MarkOK
  <2>3. ~Unsynced(cur[q]) BY <1>t, <2>1, UnsyncedIsOurs DEF Critical
  <2>4. Sheltered(cur[q]) => markerDisk[cur[q]] = {"present"}
    BY <2>1, <2>2, <2>3, PowerAt
  <2>5. /\ \A p \in Path \ {cur[q]} : owed'[p] = owed[p]
        /\ owed'[cur[q]] = owed[cur[q]] \cup {want[q][cur[q]]}
    BY <1>t, <2>1 DEF TypeOK, GhostType
  <2> QED BY <1>t, <1>u, <2>1, <2>4, <2>5, SetLiveKeeps
<1>6. CASE FinishMember(q) \/ FinishMemberFails(q)
  <2>1. pc[q] = "attrs" /\ UNCHANGED owed /\ (NoSync \/ Sync(DirOf[cur[q]]))
    BY <1>6 DEF FinishMember, FinishMemberFails
  <2> QED BY <1>q, <1>s, <2>1 DEF NoSync, InHand
<1>7. CASE Restore(q)
  <2>1. PICK p \in Path : p \in todo[q] /\ SetLive(p, saved[q][p])
    BY <1>7 DEF Restore, IsLast
  <2>2. pc[q] = "undo" /\ UNCHANGED owed BY <1>7 DEF Restore
  <2>3. Sheltered(p) /\ saved[q][p] \in owed[p] => markerDisk[p] = {"present"}
    BY <1>i, <2>1, <2>2 DEF BackupOK, LoopOK, Publishing
  <2> QED BY <1>t, <1>u, <2>1, <2>2, <2>3, SetLiveKeeps
<1>8. CASE SyncRestore(q)
  <2>1. pc[q] = "undosync" /\ Sync(DirOf[cur[q]])
    BY <1>8 DEF SyncRestore
  <2>2. \A p \in Path : owed'[p] \subseteq owed[p]
    BY <1>8, <1>t DEF SyncRestore, TypeOK, GhostType
  <2> QED BY <1>s, <2>1, <2>2 DEF InHand
<1>9. CASE UndoMarker(q)
  <2>1. pc[q] = "undomark" /\ UNCHANGED owed /\ (NoSync \/ SetMarker(cur[q], "absent"))
    BY <1>9 DEF UndoMarker
  <2>2. owed[cur[q]] = {} /\ cur[q] \in Path BY <1>i, <1>c, <2>1 DEF MarkOK, InHand
  <2>3. CASE NoSync BY <1>q, <2>1, <2>3 DEF NoSync
  <2>4. CASE SetMarker(cur[q], "absent")
    BY <1>t, <1>u, <1>a, <2>1, <2>2, <2>4, SetMarkerKeeps
  <2> QED BY <2>1, <2>3, <2>4
<1>10. CASE SyncUndoMarker(q) \/ SyncRemoveMarker(q)
  <2>1. /\ pc[q] \in {"undomarksync", "unmarksync"} /\ UNCHANGED owed
        /\ NoSync \/ Sync(DirOf[cur[q]])
    BY <1>10 DEF SyncUndoMarker, SyncRemoveMarker
  <2> QED BY <1>q, <1>s, <2>1 DEF NoSync, InHand
<1>11. CASE RemoveMarker(q)
  <2>1. PICK p \in Path : p \in todo[q] /\ (NoSync \/ SetMarker(p, "absent"))
    BY <1>11 DEF RemoveMarker, IsFirst
  <2>2. pc[q] = "unmark" /\ UNCHANGED owed BY <1>11 DEF RemoveMarker
  <2>3. owed[p] = {} BY <1>i, <2>1, <2>2 DEF MarkOK
  <2>4. CASE NoSync BY <1>q, <2>2, <2>4 DEF NoSync
  <2>5. CASE SetMarker(p, "absent")
    BY <1>t, <1>u, <1>a, <2>2, <2>3, <2>5, SetMarkerKeeps
  <2> QED BY <2>1, <2>4, <2>5
<1>12. CASE Kill(q)
  <2>1. /\ UNCHANGED <<disk, owed>> /\ torn \subseteq torn'
        /\ pc[q] = "marksync" => cur[q] \in torn'
    BY <1>12 DEF Kill
  <2> QED BY <1>t, <1>u, <2>1, QuietKeeps
<1> QED BY <1>1, <1>2, <1>3, <1>4, <1>5, <1>6, <1>7, <1>8, <1>9, <1>10, <1>11, <1>12
    DEF Step, Publish, Undo, Finish

\* A step of q leaves what may come back in other directories alone.
LEMMA DiskFootprint ==
    ASSUME TypeOK, LoopInv, NEW q \in Proc, Apply(q) \/ Step(q) \/ Kill(q),
           NEW p \in Path, DirOf[p] \notin MemberDirs(q) \/ ~Critical(q)
    PROVE  /\ liveDisk'[p] = liveDisk[p] /\ markerDisk'[p] = markerDisk[p]
           /\ p \in torn' <=> p \in torn
<1> DEFINE Same == /\ liveDisk'[p] = liveDisk[p] /\ markerDisk'[p] = markerDisk[p]
                   /\ p \in torn' <=> p \in torn
<1>i. LoopOK(q) BY DEF LoopInv
<1>n. ASSUME NEW x \in Members(q), Critical(q)
      PROVE  x # p /\ x \in Path /\ ~Durable(p, DirOf[x])
  BY <1>n, MembersType DEF MemberDirs, Durable
<1>q. ASSUME UNCHANGED <<disk, torn>> PROVE Same
  BY <1>q DEF disk
<1>s. ASSUME Critical(q), InHand(q), Sync(DirOf[cur[q]]) PROVE Same
  BY <1>i, <1>n, <1>s DEF Sync, LoopOK
<1>l. ASSUME Critical(q), NEW x \in Members(q), NEW b, SetLive(x, b) PROVE Same
  BY <1>n, <1>l DEF SetLive, TypeOK, DiskType
<1>m. ASSUME Critical(q), NEW x \in Members(q), NEW b, SetMarker(x, b) PROVE Same
  BY <1>n, <1>m DEF SetMarker, TypeOK, DiskType
<1>1. CASE \/ Apply(q) \/ Lock(q) \/ Prepare(q) \/ EndRollback(q) \/ Report(q)
           \/ CreateMarkerFails(q) \/ RenameMemberFails(q) \/ RestoreFails(q)
           \/ SyncRestoreFails(q) \/ UndoMarkerFails(q)
           \/ RemoveMarkerFails(q) \/ ApplyReturns(q)
  BY <1>1, <1>q, QuietStep
<1>2. CASE CreateMarker(q) \/ RemoveMarker(q)
  <2>1. /\ Critical(q)
        /\ \/ NoSync
           \/ \E x \in todo[q], b \in MarkState : SetMarker(x, b)
    BY <1>2 DEF CreateMarker, RemoveMarker, IsFirst, Critical, MarkState
  <2> QED BY <1>i, <1>q, <1>m, <2>1 DEF NoSync, LoopOK
<1>3. CASE UndoMarker(q)
  <2>1. Critical(q) /\ InHand(q) /\ (NoSync \/ SetMarker(cur[q], "absent"))
    BY <1>3 DEF UndoMarker, Critical, InHand
  <2> QED BY <1>i, <1>q, <1>m, <2>1 DEF NoSync, LoopOK
<1>4. CASE SyncMarkerFails(q) \/ Kill(q)
  <2>1. \/ UNCHANGED <<disk, torn>>
        \/ /\ Critical(q) /\ InHand(q)
           /\ \/ SetMarker(cur[q], "absent")
              \/ UNCHANGED disk /\ torn' = torn \cup {cur[q]}
    BY <1>4 DEF SyncMarkerFails, Kill, Critical, InHand
  <2>2. ASSUME Critical(q), InHand(q), UNCHANGED disk, torn' = torn \cup {cur[q]}
        PROVE  Same
    BY <1>i, <1>n, <2>2 DEF disk, LoopOK
  <2> QED BY <1>i, <1>q, <1>m, <2>1, <2>2 DEF LoopOK
<1>5. CASE RenameMember(q)
  <2>1. Critical(q) /\ InHand(q) /\ SetLive(cur[q], want[q][cur[q]])
    BY <1>5 DEF RenameMember, Critical, InHand
  <2> QED BY <1>i, <1>l, <2>1 DEF LoopOK
<1>6. CASE Restore(q)
  <2>1. Critical(q) /\ \E x \in todo[q] : SetLive(x, saved[q][x])
    BY <1>6 DEF Restore, Critical, IsLast
  <2> QED BY <1>i, <1>l, <2>1 DEF LoopOK
<1>7. CASE \/ SyncMarker(q) \/ FinishMember(q) \/ FinishMemberFails(q)
           \/ SyncRestore(q) \/ SyncUndoMarker(q) \/ SyncRemoveMarker(q)
  <2>1. Critical(q) /\ InHand(q) /\ (NoSync \/ Sync(DirOf[cur[q]]))
    BY <1>7 DEF SyncMarker, FinishMember, FinishMemberFails, SyncRestore,
        SyncUndoMarker, SyncRemoveMarker, Critical, InHand
  <2> QED BY <1>q, <1>s, <2>1 DEF NoSync
<1> QED BY <1>1, <1>2, <1>3, <1>4, <1>5, <1>6, <1>7
    DEF Step, Publish, Undo, Finish

\* A step of q leaves every member of another process past lockDirs alone.
LEMMA MembersUntouched ==
    ASSUME TypeOK, LoopInv, LockInv, NEW q \in Proc, Apply(q) \/ Step(q) \/ Kill(q),
           NEW r \in Proc \ {q}, Critical(r), NEW p \in Members(r)
    PROVE  /\ live'[p] = live[p] /\ marker'[p] = marker[p] /\ owed'[p] = owed[p]
           /\ liveDisk'[p] = liveDisk[p] /\ markerDisk'[p] = markerDisk[p]
           /\ p \in torn' <=> p \in torn
<1>1. p \in Path /\ DirOf[p] \in MemberDirs(r) BY MembersType DEF MemberDirs
<1>2. ~Critical(q) \/ DirOf[p] \notin MemberDirs(q) BY <1>1, LockExcludes
<1>3. ~Critical(q) \/ p \notin Members(q) BY <1>2 DEF MemberDirs
<1> QED BY <1>1, <1>2, <1>3, FootprintStep, DiskFootprint

\* The backups of the other processes keep their durable markers.
LEMMA BackupFrame ==
    ASSUME TypeOK, LoopInv, LockInv, BackupInv,
           NEW q \in Proc, Apply(q) \/ Step(q) \/ Kill(q), NEW r \in Proc \ {q}
    PROVE  BackupOK(r)'
<1>1. BackupOK(r) /\ LoopOK(r) BY DEF BackupInv, LoopInv
<1>2. UNCHANGED Mine(r) BY FrameStep
<1>3. CASE Publishing(r)
  <2>1. Critical(r) BY <1>3 DEF Publishing, Critical
  <2>2. ASSUME NEW p \in Members(r)
        PROVE  /\ owed'[p] = owed[p] /\ liveDisk'[p] = liveDisk[p]
               /\ markerDisk'[p] = markerDisk[p] /\ Sheltered(p)' = Sheltered(p)
    BY <2>1, MembersUntouched DEF Sheltered
  <2>3. changed[r] \subseteq Members(r) /\ (pc[r] = "marksync" => cur[r] \in Members(r))
    BY <1>1 DEF LoopOK, InHand
  <2>4. ASSUME NEW p \in changed[r], Sheltered(p)', saved[r][p] \in owed'[p]
        PROVE  markerDisk'[p] = {"present"}
    BY <1>1, <1>3, <2>2, <2>3, <2>4 DEF BackupOK
  <2>5. ASSUME pc[r] = "marksync", Sheltered(cur[r])'
        PROVE  liveDisk'[cur[r]] \cap owed'[cur[r]] = {} /\ saved[r][cur[r]] \notin owed'[cur[r]]
    <3>1. cur'[r] = cur[r] BY <1>2 DEF Mine
    <3>2. Sheltered(cur[r]) BY <2>2, <2>3, <2>5, <3>1 DEF Sheltered
    <3> QED BY <1>1, <2>2, <2>3, <2>5, <3>2 DEF BackupOK
  <2> QED BY <1>2, <2>4, <2>5 DEF BackupOK, Mine, Sheltered
<1>4. CASE ~Publishing(r)
  BY <1>2, <1>4 DEF BackupOK, Publishing, Mine
<1> QED BY <1>3, <1>4

\* The process that moves keeps its own backups' markers durable.
LEMMA BackupStep ==
    ASSUME SignalInv, PowerInv, NEW q \in Proc, Apply(q) \/ Step(q) \/ Kill(q)
    PROVE  BackupOK(q)'
<1>t. TypeOK /\ LoopInv /\ LockInv /\ MarkInv BY DEF SignalInv
<1>i. LoopOK(q) /\ MarkOK(q) /\ BackupOK(q)
  BY <1>t DEF LoopInv, MarkInv, PowerInv, BackupInv
<1>m. Members(q) \subseteq Path BY <1>t, MembersType
<1>c. /\ changed[q] \subseteq Path
      /\ InHand(q) => cur[q] \in Members(q) /\ cur[q] \in Path
  BY <1>i, <1>m DEF LoopOK
<1>n. ASSUME ~Publishing(q)' PROVE BackupOK(q)'
  BY <1>n DEF BackupOK, Publishing
<1>k. ASSUME Publishing(q), pc'[q] # "marksync", UNCHANGED <<saved, changed>>,
             \A p \in changed[q] : Sheltered(p)' /\ saved[q][p] \in owed'[p] =>
                \/ Sheltered(p) /\ saved[q][p] \in owed[p] /\ markerDisk'[p] = markerDisk[p]
                \/ markerDisk'[p] = {"present"}
      PROVE  BackupOK(q)'
  <2>1. \A p \in changed[q] :
          Sheltered(p)' /\ saved[q][p] \in owed'[p] => markerDisk'[p] = {"present"}
    BY <1>i, <1>k DEF BackupOK
  <2> QED BY <1>k, <2>1 DEF BackupOK
<1>s. ASSUME Publishing(q), pc'[q] # "marksync", UNCHANGED <<saved, changed>>,
             NEW d, Sync(d), \A p \in Path : owed'[p] \subseteq owed[p]
      PROVE  BackupOK(q)'
  <2>1. ASSUME NEW p \in changed[q], Sheltered(p)', saved[q][p] \in owed'[p]
        PROVE  \/ Sheltered(p) /\ saved[q][p] \in owed[p] /\ markerDisk'[p] = markerDisk[p]
               \/ markerDisk'[p] = {"present"}
    <3>1. p \in Path /\ saved[q][p] \in owed[p] BY <1>c, <1>s, <2>1
    <3>2. Sheltered(p) BY <1>s, <2>1, <3>1 DEF Sheltered, Sync
    <3>3. markerDisk[p] = {"present"} BY <1>i, <1>s, <3>1, <3>2 DEF BackupOK
    <3>4. marker[p] = "present" BY <3>1, <3>3, PowerAt
    <3> QED BY <1>s, <1>t, <3>1, <3>3, <3>4 DEF Sync, TypeOK, DiskType
  <2> QED BY <1>k, <1>s, <2>1
<1>u. ASSUME Publishing(q), pc'[q] # "marksync", UNCHANGED <<saved, changed, markerDisk, torn>>,
             \A p \in Path : owed'[p] \subseteq owed[p]
      PROVE  BackupOK(q)'
  BY <1>c, <1>k, <1>u DEF Sheltered
<1>1. CASE Apply(q) \/ Lock(q) \/ Finish(q) \/ Kill(q)
  <2>1. pc'[q] \in {"idle", "lock", "diff", "unmark", "unmarksync"}
    BY <1>1, <1>t DEF Apply, Lock, LockDir, LockDirFails, Finish, Report, RemoveMarker,
        RemoveMarkerFails, SyncRemoveMarker, ApplyReturns, Kill, UnmarkNext, Goto,
        Return, Leave, TypeOK, SetType
  <2> QED BY <1>n, <2>1 DEF Publishing
<1>2. CASE Prepare(q)
  <2>1. CASE TakeBackups(q)
    <3>1. /\ saved'[q] = live /\ changed' = changed /\ pc'[q] = "mark"
          /\ UNCHANGED <<markerDisk, torn, owed>>
      BY <2>1, <1>t DEF TakeBackups, Goto, set, disk, TypeOK, SetType, LoopType
    <3>2. \A p \in changed[q] : Sheltered(p) /\ live[p] \in owed[p]
             => markerDisk[p] = {"present"}
      BY <1>c, PowerAt
    <3> QED BY <3>1, <3>2 DEF BackupOK, Sheltered
  <2>2. CASE ~TakeBackups(q)
    <3>1. ~Publishing(q)'
      BY <1>2, <2>2, <1>t DEF Prepare, Diff, NewStage, Validate, ValidatorRejects,
          RepairUnchanged, PrepareFails, Private, Return, Leave, Goto, Publishing,
          TypeOK, SetType
    <3> QED BY <1>n, <3>1
  <2> QED BY <2>1, <2>2
<1>3. CASE CreateMarker(q)
  <2>1. PICK p \in Path :
          /\ p \in todo[q] /\ cur' = [cur EXCEPT ![q] = p]
          /\ \/ Goto(q, "rename") /\ NoSync
             \/ marker[p] # "present" /\ Goto(q, "marksync") /\ SetMarker(p, "present")
    BY <1>3 DEF CreateMarker, IsFirst
  <2>2. Publishing(q) /\ UNCHANGED <<saved, changed, owed>>
    BY <1>3 DEF CreateMarker, Publishing, set, backups
  <2>3. CASE Goto(q, "rename") /\ NoSync
    BY <1>t, <1>u, <2>2, <2>3 DEF Goto, NoSync, disk, TypeOK, SetType
  <2>4. CASE marker[p] # "present" /\ Goto(q, "marksync") /\ SetMarker(p, "present")
    <3>1. markerDisk[p] # {"present"} BY <2>4, PowerAt
    <3>2. pc'[q] = "marksync" /\ cur'[q] = p
      BY <1>t, <2>1, <2>4 DEF Goto, TypeOK, SetType, LoopType
    <3>3. /\ UNCHANGED <<liveDisk, torn>>
          /\ \A x \in Path \ {p} : markerDisk'[x] = markerDisk[x]
      BY <1>t, <2>4 DEF SetMarker, TypeOK, DiskType
    <3>4. \A x \in Path : Sheltered(x)' = Sheltered(x) BY <3>3 DEF Sheltered
    <3>5. p \in changed[q] BY <1>i, <2>1, <2>2 DEF LoopOK
    <3>6. Sheltered(p) => liveDisk[p] \cap owed[p] = {} /\ saved[q][p] \notin owed[p]
      BY <1>i, <2>2, <3>1, <3>5, PowerAt DEF BackupOK
    <3>7. \A x \in changed[q] :
             Sheltered(x)' /\ saved[q][x] \in owed[x] => markerDisk'[x] = {"present"}
      BY <1>c, <1>i, <2>2, <3>3, <3>4, <3>6 DEF BackupOK
    <3> QED BY <2>2, <3>2, <3>3, <3>4, <3>6, <3>7 DEF BackupOK
  <2> QED BY <2>1, <2>3, <2>4
<1>4. CASE CreateMarkerFails(q) \/ RenameMemberFails(q)
  BY <1>4, <1>t, <1>u DEF CreateMarkerFails, RenameMemberFails, Rollback, Goto, set,
      backups, disk, Publishing, TypeOK, SetType
<1>5. CASE SyncMarker(q)
  <2>1. /\ Publishing(q) /\ pc'[q] = "rename" /\ UNCHANGED <<saved, changed, owed>>
        /\ Sync(DirOf[cur[q]])
    BY <1>5, <1>t DEF SyncMarker, Goto, set, backups, Publishing, TypeOK, SetType
  <2> QED BY <1>s, <2>1
<1>6. CASE SyncMarkerFails(q)
  <2>1. /\ pc[q] = "marksync" /\ Publishing(q) /\ pc'[q] = "undo"
        /\ UNCHANGED <<saved, changed, owed>> /\ cur[q] \in Path
    BY <1>6, <1>t, <1>c DEF SyncMarkerFails, Rollback, Goto, set, backups, Publishing,
        InHand, TypeOK, SetType
  <2>2. CASE SetMarker(cur[q], "absent")
    <3>1. UNCHANGED torn /\ \A x \in Path \ {cur[q]} : markerDisk'[x] = markerDisk[x]
      BY <1>t, <2>2 DEF SetMarker, TypeOK, DiskType
    <3>2. Sheltered(cur[q]) => saved[q][cur[q]] \notin owed[cur[q]]
      BY <1>i, <2>1 DEF BackupOK
    <3> QED BY <1>c, <1>k, <2>1, <3>1, <3>2 DEF Sheltered
  <2>3. CASE UNCHANGED disk /\ torn' = torn \cup {cur[q]}
    BY <1>k, <2>1, <2>3 DEF Sheltered, disk
  <2> QED BY <1>6, <2>2, <2>3 DEF SyncMarkerFails
<1>7. CASE RenameMember(q)
  <2>1. /\ pc[q] = "rename" /\ Publishing(q) /\ pc'[q] = "attrs"
        /\ UNCHANGED <<saved, changed, markerDisk, torn>>
        /\ owed' = [owed EXCEPT ![cur[q]] = @ \cup {want[q][cur[q]]}]
        /\ cur[q] \in Members(q) /\ cur[q] \in Path
    BY <1>7, <1>t, <1>c DEF RenameMember, SetLive, Goto, set, backups, Publishing,
        InHand, TypeOK, SetType
  <2>2. marker[cur[q]] = "present" BY <1>i, <2>1 DEF MarkOK
  <2>3. ~Unsynced(cur[q]) BY <1>t, <2>1, UnsyncedIsOurs DEF Critical
  <2>4. Sheltered(cur[q]) => markerDisk[cur[q]] = {"present"}
    BY <2>1, <2>2, <2>3, PowerAt
  <2>5. \A p \in Path \ {cur[q]} : owed'[p] = owed[p]
    BY <1>t, <2>1 DEF TypeOK, GhostType
  <2> QED BY <1>c, <1>k, <2>1, <2>4, <2>5 DEF Sheltered
<1>8. CASE FinishMember(q) \/ FinishMemberFails(q)
  <2>1. /\ Publishing(q) /\ pc'[q] # "marksync" /\ UNCHANGED <<saved, changed, owed>>
        /\ NoSync \/ Sync(DirOf[cur[q]])
    BY <1>8, <1>t DEF FinishMember, FinishMemberFails, Rollback, Goto, set, backups,
        Publishing, TypeOK, SetType
  <2> QED BY <1>s, <1>u, <2>1 DEF NoSync, disk
<1>9. CASE Restore(q)
  <2>1. /\ Publishing(q) /\ pc'[q] = "undosync"
        /\ UNCHANGED <<saved, changed, owed, markerDisk, torn>>
    BY <1>9, <1>t DEF Restore, SetLive, Goto, set, Publishing, TypeOK, SetType
  <2> QED BY <1>u, <2>1
<1>10. CASE RestoreFails(q) \/ SyncRestoreFails(q) \/ UndoMarkerFails(q)
  BY <1>10, <1>t, <1>u DEF RestoreFails, SyncRestoreFails, UndoMarkerFails, UndoNext,
      Goto, set, backups, disk, Publishing, TypeOK, SetType
<1>11. CASE SyncRestore(q)
  <2>1. /\ Publishing(q) /\ pc'[q] # "marksync" /\ UNCHANGED <<saved, changed>>
        /\ Sync(DirOf[cur[q]])
    BY <1>11, <1>t DEF SyncRestore, UndoNext, Goto, set, backups, Publishing, TypeOK,
        SetType
  <2>2. \A p \in Path : owed'[p] \subseteq owed[p]
    BY <1>11, <1>t DEF SyncRestore, TypeOK, GhostType
  <2> QED BY <1>s, <2>1, <2>2
<1>12. CASE UndoMarker(q)
  <2>1. /\ pc[q] = "undomark" /\ Publishing(q) /\ pc'[q] # "marksync"
        /\ UNCHANGED <<saved, changed, owed, torn>> /\ cur[q] \in Path
        /\ NoSync \/ SetMarker(cur[q], "absent")
    BY <1>12, <1>t, <1>c DEF UndoMarker, UndoNext, Goto, NoSync, SetMarker, set,
        backups, Publishing, InHand, TypeOK, SetType
  <2>2. owed[cur[q]] = {} BY <1>i, <2>1 DEF MarkOK
  <2>3. CASE NoSync BY <1>u, <2>1, <2>3 DEF NoSync, disk
  <2>4. CASE SetMarker(cur[q], "absent")
    <3>1. \A x \in Path \ {cur[q]} : markerDisk'[x] = markerDisk[x]
      BY <1>t, <2>4 DEF SetMarker, TypeOK, DiskType
    <3> QED BY <1>c, <1>k, <2>1, <2>2, <3>1 DEF Sheltered
  <2> QED BY <2>1, <2>3, <2>4
<1>13. CASE SyncUndoMarker(q)
  <2>1. /\ Publishing(q) /\ pc'[q] # "marksync" /\ UNCHANGED <<saved, changed, owed>>
        /\ NoSync \/ Sync(DirOf[cur[q]])
    BY <1>13, <1>t DEF SyncUndoMarker, UndoNext, Goto, set, backups, Publishing,
        TypeOK, SetType
  <2> QED BY <1>s, <1>u, <2>1 DEF NoSync, disk
<1>14. CASE EndRollback(q)
  BY <1>14, <1>n DEF EndRollback, Leave, Publishing
<1> QED BY <1>1, <1>2, <1>3, <1>4, <1>5, <1>6, <1>7, <1>8, <1>9, <1>10, <1>11,
    <1>12, <1>13, <1>14 DEF Step, Publish, Undo

-----------------------------------------------------------------------------
(* The environment *)

\* An operator's edit keeps what a power loss may leave harmless: the new bytes
\* are nobody's debt.
LEMMA EditKeepsPower ==
    ASSUME SignalInv, PowerInv, NEW x \in Path, Edit(x)
    PROVE  PowerInv'
<1>1. PICK b \in Bytes : SetLive(x, b) /\ owed' = [owed EXCEPT ![x] = @ \ {b}]
  BY DEF Edit
<1>2. UNCHANGED <<pc, changed, saved, cur, marker, markerDisk, torn>>
  BY <1>1 DEF Edit, set, backups, loop, SetLive
<1>3. /\ \A p \in Path \ {x} : owed'[p] = owed[p] /\ liveDisk'[p] = liveDisk[p]
      /\ owed'[x] = owed[x] \ {b} /\ liveDisk'[x] = liveDisk[x] \cup {b}
  BY <1>1 DEF SetLive, SignalInv, TypeOK, DiskType, GhostType
<1>4. \A p : (Unsynced(p)' <=> Unsynced(p)) /\ (Sheltered(p)' <=> Sheltered(p))
  BY <1>2 DEF Unsynced, Sheltered
<1>5. DurableInv' /\ SignalSurvivesPowerLoss'
  BY <1>1, <1>3, <1>4, SetLiveKeeps DEF SignalInv
<1>6. ASSUME NEW q \in Proc PROVE BackupOK(q)'
  <2>1. BackupOK(q) /\ LoopOK(q) BY DEF PowerInv, BackupInv, SignalInv, LoopInv
  <2>2. Members(q) \subseteq Path BY MembersType DEF SignalInv
  <2>3. changed[q] \subseteq Path /\ (pc[q] = "marksync" => cur[q] \in Path)
    BY <2>1, <2>2 DEF LoopOK, InHand
  <2>4. ASSUME Publishing(q), NEW p \in changed[q], Sheltered(p), saved[q][p] \in owed'[p]
        PROVE  markerDisk[p] = {"present"}
    BY <1>3, <2>1, <2>3, <2>4 DEF BackupOK
  <2>5. ASSUME pc[q] = "marksync", Sheltered(cur[q])
        PROVE  /\ liveDisk'[cur[q]] \cap owed'[cur[q]] = {}
               /\ saved[q][cur[q]] \notin owed'[cur[q]]
    BY <1>3, <2>1, <2>3, <2>5 DEF BackupOK
  <2> QED BY <1>2, <2>4, <2>5 DEF BackupOK, Publishing, Sheltered
<1> QED BY <1>5, <1>6 DEF PowerInv, BackupInv

\* After a power loss what is visible is what came back, and every sheltered
\* member that came back with unreported bytes came back with its marker.
LEMMA PowerLossKeepsPower ==
    ASSUME SignalInv, PowerInv, PowerLoss
    PROVE  PowerInv'
<1>1. ASSUME NEW q \in Proc PROVE pc'[q] = "idle"
  BY DEF PowerLoss, Leave
<1>2. UNCHANGED <<owed, torn>> BY DEF PowerLoss
<1>3. ASSUME NEW p \in Path
      PROVE  /\ live'[p] \in liveDisk[p] /\ marker'[p] \in markerDisk[p]
             /\ liveDisk'[p] = {live'[p]} /\ markerDisk'[p] = {marker'[p]}
  BY DEF PowerLoss
<1>4. ASSUME NEW p \in Path
      PROVE  /\ DurableOK(p)'
             /\ (Sheltered(p) /\ liveDisk[p] \cap owed[p] # {}
                 => markerDisk[p] = {"present"})'
  <2>1. Sheltered(p)' <=> Sheltered(p) BY <1>2 DEF Sheltered
  <2>2. Sheltered(p) /\ live'[p] \in owed[p] => marker'[p] = "present"
    BY <1>3, PowerAt
  <2> QED BY <1>2, <1>3, <2>1, <2>2 DEF DurableOK
<1>5. \A q \in Proc : BackupOK(q)' BY <1>1 DEF BackupOK, Publishing
<1>6. SignalSurvivesPowerLoss' BY <1>4 DEF SignalSurvivesPowerLoss, Sheltered
<1> QED BY <1>4, <1>5, <1>6 DEF PowerInv, DurableInv, BackupInv

-----------------------------------------------------------------------------
(* The theorems on waiting and on power losses *)

\* Before the first apply nobody holds or waits for a lock, and what is visible
\* is durable.
LEMMA InitOrderPower == Init => OrderInv /\ PowerInv
<1> SUFFICES ASSUME Init PROVE OrderInv /\ PowerInv OBVIOUS
<1>1. OrderInv
  BY ProcAssumption DEF Init, OrderInv, OrderOK
<1>2. DurableInv BY DEF Init, DurableInv, DurableOK
<1>3. BackupInv BY DEF Init, BackupInv, BackupOK, Publishing
<1>4. SignalSurvivesPowerLoss BY DEF Init, SignalSurvivesPowerLoss
<1> QED BY <1>1, <1>2, <1>3, <1>4 DEF PowerInv

\* OrderInv is inductive on top of SignalInv.
LEMMA NextOrderInv == SignalInv /\ OrderInv /\ [Next]_vars => OrderInv'
<1> SUFFICES ASSUME SignalInv, OrderInv, [Next]_vars PROVE OrderInv' OBVIOUS
<1>1. ASSUME NEW q \in Proc, Apply(q) \/ Step(q) \/ Kill(q) PROVE OrderInv'
  BY <1>1, OrderStep DEF SignalInv
<1>2. CASE PowerLoss
  <2>1. /\ \A d \in Dirs : holder'[d] \notin Proc
        /\ \A q \in Proc : pc'[q] = "idle"
    BY <1>2, ProcAssumption DEF PowerLoss, Leave, SignalInv, TypeOK, SetType
  <2> QED BY <2>1 DEF OrderInv, OrderOK
<1>3. CASE (\E p \in Path : Edit(p)) \/ UNCHANGED vars
  <2>1. UNCHANGED <<holder, pc, mem>> BY <1>3 DEF Edit, vars, set
  <2> QED BY <2>1 DEF OrderInv, OrderOK, MemberDirs, Members
<1> QED BY <1>1, <1>2, <1>3 DEF Next

\* PowerInv is inductive on top of SignalInv.
LEMMA NextPowerInv == SignalInv /\ PowerInv /\ [Next]_vars => PowerInv'
<1> SUFFICES ASSUME SignalInv, PowerInv, [Next]_vars PROVE PowerInv' OBVIOUS
<1>1. ASSUME NEW q \in Proc, Apply(q) \/ Step(q) \/ Kill(q) PROVE PowerInv'
  <2>1. DurableInv' /\ SignalSurvivesPowerLoss' BY <1>1, DurableStep
  <2>2. BackupOK(q)' BY <1>1, BackupStep
  <2>3. ASSUME NEW r \in Proc \ {q} PROVE BackupOK(r)'
    BY <1>1, BackupFrame DEF SignalInv, PowerInv
  <2> QED BY <2>1, <2>2, <2>3 DEF PowerInv, BackupInv
<1>2. CASE PowerLoss BY <1>2, PowerLossKeepsPower
<1>3. ASSUME NEW p \in Path, Edit(p) PROVE PowerInv' BY <1>3, EditKeepsPower
<1>4. CASE UNCHANGED vars
  BY <1>4 DEF vars, disk, set, backups, loop, PowerInv, DurableInv, DurableOK, BackupInv,
      BackupOK, SignalSurvivesPowerLoss, Sheltered, Unsynced, Publishing
<1> QED BY <1>1, <1>2, <1>3, <1>4 DEF Next

\* lockDirs sorts the directories: however many processes apply, those waiting
\* for locks never wait in a circle.
THEOREM NobodyWaitsInACircle == Spec => []NoCircularWait
<1>1. SignalInv /\ OrderInv => NoCircularWait
  BY OrderPreventsCircles DEF SignalInv
<1> QED BY <1>1, InitSignalInv, InitOrderPower, NextSignalInv, NextOrderInv, PTL DEF Spec

\* createMarker's fsync before the rename, undo's fsync before the unlink: on
\* directories with fsync no sequence of power losses, kills and failing calls
\* loses a change signal, but for a marker left behind before its fsync.
THEOREM SignalKeptAcrossPowerLoss == Spec => []SignalSurvivesPowerLoss
<1>1. PowerInv => SignalSurvivesPowerLoss BY DEF PowerInv
<1> QED BY <1>1, InitSignalInv, InitOrderPower, NextSignalInv, NextPowerInv, PTL DEF Spec

-----------------------------------------------------------------------------
(* What an apply reports *)

\* An apply that returns or is killed makes no claim about bytes or backups.
LEMMA LeaveClaimsNothing ==
    ASSUME NEW q \in Proc, Leave({q})
    PROVE  ContentOK(q)' /\ KeptOK(q)'
BY DEF Leave, ContentOK, KeptOK, Publishing, Forward, Backward, Done

\* Every step of q keeps track of which bytes are live at its members.
LEMMA ContentStep ==
    ASSUME TypeOK, LoopInv, NEW q \in Proc, ContentOK(q), Apply(q) \/ Step(q) \/ Kill(q)
    PROVE  ContentOK(q)'
<1>i. LoopOK(q) BY DEF LoopInv
<1>m. Members(q) \subseteq Path BY MembersType
<1>e. Leave({q}) => ContentOK(q)' BY LeaveClaimsNothing
<1>1. CASE Apply(q)
  BY <1>1, <1>i, <1>m DEF Apply, Goto, disk, backups, loop, counters,
      ContentOK, LoopOK, Members, Publishing, InHand, Forward, Backward, Done,
      TypeOK, DiskType, SetType, LoopType
<1>2. CASE LockDir(q)
  BY <1>2, <1>i, <1>m DEF LockDir, Goto, disk, set, backups, loop, counters,
      ContentOK, LoopOK, Members, Publishing, InHand, Forward, Backward, Done,
      TypeOK, DiskType, SetType, LoopType
<1>3. CASE LockDirFails(q)
  BY <1>3, <1>e DEF LockDirFails, Return
<1>4. CASE Diff(q)
  BY <1>4, <1>i, <1>m DEF Diff, Goto, disk, backups, loop, counters, ContentOK,
      LoopOK, Members, Publishing, InHand, Forward, Backward, Done, TypeOK,
      DiskType, SetType, LoopType
<1>5. CASE NewStage(q)
  BY <1>5, <1>i, <1>m DEF NewStage, Private, Goto, disk, set, backups, loop,
      counters, ContentOK, LoopOK, Members, Publishing, InHand, Forward,
      Backward, Done, TypeOK, DiskType, SetType, LoopType
<1>6. CASE Validate(q)
  BY <1>6, <1>i, <1>m DEF Validate, Private, Goto, disk, set, backups, loop,
      counters, ContentOK, LoopOK, Members, Publishing, InHand, Forward,
      Backward, Done, TypeOK, DiskType, SetType, LoopType
<1>7. CASE ValidatorRejects(q)
  BY <1>7, <1>e DEF ValidatorRejects, Return
<1>8. CASE RepairUnchanged(q)
  BY <1>8, <1>i, <1>m DEF RepairUnchanged, Private, Goto, disk, set, backups,
      loop, counters, ContentOK, LoopOK, Members, Publishing, InHand, Forward,
      Backward, Done, TypeOK, DiskType, SetType, LoopType
<1>9. CASE TakeBackups(q)
  BY <1>9, <1>i, <1>m DEF TakeBackups, Goto, disk, set, counters, ContentOK,
      LoopOK, Members, Publishing, InHand, Forward, Backward, Done, TypeOK,
      DiskType, SetType, LoopType
<1>10. CASE PrepareFails(q)
  BY <1>10, <1>e DEF PrepareFails, Return
<1>11. CASE CreateMarker(q)
  <2>1. /\ pc[q] = "mark" /\ pc'[q] \in {"marksync", "rename"} /\ cur'[q] \in todo[q]
        /\ UNCHANGED <<live, want, saved, changed, mem, todo, done>>
    BY <1>11 DEF CreateMarker, IsFirst, Goto, NoSync, disk, SetMarker, set, backups, TypeOK,
        SetType, LoopType
  <2>2. Members(q)' = Members(q) BY <2>1 DEF Members
  <2> QED BY <2>1, <2>2, <1>i, <1>m DEF ContentOK, LoopOK, Publishing, InHand,
        Forward, Backward, Done
<1>12. CASE CreateMarkerFails(q)
  BY <1>12, <1>i, <1>m DEF CreateMarkerFails, Rollback, Goto, disk, set,
      backups, ContentOK, LoopOK, Members, Publishing, InHand, Forward,
      Backward, Done, TypeOK, DiskType, SetType, LoopType
<1>13. CASE SyncMarker(q)
  BY <1>13, <1>i, <1>m DEF SyncMarker, Sync, Goto, set, backups, loop,
      counters, ContentOK, LoopOK, Members, Publishing, InHand, Forward,
      Backward, Done, TypeOK, DiskType, SetType, LoopType
<1>14. CASE SyncMarkerFails(q)
  <2>1. /\ pc[q] = "marksync" /\ pc'[q] = "undo" /\ todo'[q] = done[q]
        /\ UNCHANGED <<live, want, saved, changed, mem>>
    BY <1>14 DEF SyncMarkerFails, Rollback, Goto, disk, SetMarker, set, backups, TypeOK,
        SetType, LoopType
  <2>2. Members(q)' = Members(q) BY <2>1 DEF Members
  <2> QED BY <2>1, <2>2, <1>i, <1>m DEF ContentOK, LoopOK, Publishing, InHand,
        Forward, Backward, Done
<1>15. CASE RenameMember(q)
  BY <1>15, <1>i, <1>m DEF RenameMember, SetLive, Goto, set, backups, loop,
      counters, ContentOK, LoopOK, Members, Publishing, InHand, Forward,
      Backward, Done, TypeOK, DiskType, SetType, LoopType
<1>16. CASE RenameMemberFails(q)
  BY <1>16, <1>i, <1>m DEF RenameMemberFails, Rollback, Goto, disk, set,
      backups, ContentOK, LoopOK, Members, Publishing, InHand, Forward,
      Backward, Done, TypeOK, DiskType, SetType, LoopType
<1>17. CASE FinishMember(q)
  <2>1. /\ pc[q] = "attrs" /\ pc'[q] = (IF todo[q] = {cur[q]} THEN "report" ELSE "mark")
        /\ todo'[q] = todo[q] \ {cur[q]} /\ done'[q] = done[q] \cup {cur[q]}
        /\ UNCHANGED <<live, want, saved, changed, mem>>
    BY <1>17 DEF FinishMember, Goto, Sync, NoSync, disk, set, backups, TypeOK, SetType, LoopType
  <2>2. Members(q)' = Members(q) BY <2>1 DEF Members
  <2>3. /\ \A p \in todo[q] \ {cur[q]} : live[p] = saved[q][p]
        /\ \A p \in changed[q] \ (todo[q] \ {cur[q]}) : live[p] = want[q][p]
        /\ changed[q] \ (todo[q] \ {cur[q]}) \subseteq done[q] \cup {cur[q]}
    BY <2>1 DEF ContentOK, Forward
  <2>4. todo[q] = {cur[q]} => \A p \in changed[q] : live[p] = want[q][p] BY <2>3
  <2> QED BY <2>1, <2>2, <2>3, <2>4, <1>i, <1>m DEF ContentOK, LoopOK, Publishing, InHand,
        Forward, Backward, Done
<1>18. CASE FinishMemberFails(q)
  <2>1. /\ pc[q] = "attrs" /\ pc'[q] = "undo" /\ todo'[q] = done[q] \cup {cur[q]}
        /\ UNCHANGED <<live, want, saved, changed, mem>>
    BY <1>18 DEF FinishMemberFails, Rollback, Goto, Sync, NoSync, disk, set, backups, TypeOK,
        SetType, LoopType
  <2>2. Members(q)' = Members(q) BY <2>1 DEF Members
  <2> QED BY <2>1, <2>2, <1>i, <1>m DEF ContentOK, LoopOK, Publishing, InHand,
        Forward, Backward, Done
<1>19. CASE Restore(q)
  <2>1. PICK p \in Path :
          /\ p \in todo[q] /\ cur'[q] = p
          /\ live' = [live EXCEPT ![p] = saved[q][p]]
    BY <1>19 DEF Restore, SetLive, IsLast, TypeOK, LoopType
  <2>2. /\ pc[q] = "undo" /\ pc'[q] = "undosync"
        /\ UNCHANGED <<want, saved, changed, mem, todo, problems>>
    BY <1>19 DEF Restore, Goto, set, TypeOK, SetType
  <2>3. Members(q)' = Members(q) BY <2>2 DEF Members
  <2>4. p \in changed[q] BY <1>i, <2>1, <2>2 DEF LoopOK, Publishing
  <2>5. live'[p] = saved[q][p] /\ \A x \in Path \ {p} : live'[x] = live[x]
    BY <2>1 DEF TypeOK, DiskType
  <2>6. \A x \in Members(q) \ changed[q] : live'[x] = want[q][x] /\ live'[x] = saved[q][x]
    BY <1>m, <2>2, <2>4, <2>5 DEF ContentOK, Publishing
  <2>7. \A x \in changed[q] \ (todo[q] \cup problems[q]) : live'[x] = saved[q][x]
    BY <1>i, <1>m, <2>1, <2>2, <2>5 DEF ContentOK, Backward, LoopOK
  <2> QED BY <2>1, <2>2, <2>3, <2>5, <2>6, <2>7 DEF ContentOK, Publishing, Forward,
      Backward, Done
<1>20. CASE RestoreFails(q)
  BY <1>20, <1>i, <1>m DEF RestoreFails, disk, set, backups, IsLast, ContentOK,
      LoopOK, Members, Publishing, InHand, Forward, Backward, Done, TypeOK,
      DiskType, SetType, LoopType
<1>21. CASE SyncRestore(q)
  BY <1>21, <1>i, <1>m DEF SyncRestore, Sync, UndoNext, Goto, set, backups,
      counters, ContentOK, LoopOK, Members, Publishing, InHand, Forward,
      Backward, Done, TypeOK, DiskType, SetType, LoopType
<1>22. CASE SyncRestoreFails(q)
  BY <1>22, <1>i, <1>m DEF SyncRestoreFails, UndoNext, Goto, disk, set,
      backups, ContentOK, LoopOK, Members, Publishing, InHand, Forward,
      Backward, Done, TypeOK, DiskType, SetType, LoopType
<1>23. CASE UndoMarker(q)
  <2>1. /\ pc[q] = "undomark" /\ UNCHANGED <<live, want, saved, changed, mem, cur, problems>>
        /\ \/ pc'[q] = "undomarksync" /\ todo' = todo
           \/ pc'[q] = "undo" /\ todo'[q] = todo[q] \ {cur[q]}
    BY <1>23 DEF UndoMarker, SetMarker, Goto, NoSync, disk, UndoNext, set, backups, TypeOK,
        SetType, LoopType
  <2>2. Members(q)' = Members(q) BY <2>1 DEF Members
  <2> QED BY <2>1, <2>2, <1>i, <1>m DEF ContentOK, LoopOK, Publishing, InHand,
        Forward, Backward, Done
<1>24. CASE UndoMarkerFails(q)
  BY <1>24, <1>i, <1>m DEF UndoMarkerFails, UndoNext, Goto, disk, set, backups,
      ContentOK, LoopOK, Members, Publishing, InHand, Forward, Backward, Done,
      TypeOK, DiskType, SetType, LoopType
<1>25. CASE SyncUndoMarker(q)
  <2>1. /\ pc[q] = "undomarksync" /\ UNCHANGED <<live, want, saved, changed, mem, problems>>
        /\ pc'[q] = "undo" /\ todo'[q] = todo[q] \ {cur[q]}
    BY <1>25 DEF SyncUndoMarker, Sync, Goto, NoSync, disk, UndoNext, set, backups, TypeOK,
        SetType, LoopType
  <2>2. Members(q)' = Members(q) BY <2>1 DEF Members
  <2> QED BY <2>1, <2>2, <1>i, <1>m DEF ContentOK, LoopOK, Publishing, InHand,
        Forward, Backward, Done
<1>26. CASE EndRollback(q)
  BY <1>26, <1>e DEF EndRollback
<1>27. CASE Report(q)
  <2>1. /\ pc[q] \in {"report", "unmark", "unmarksync"}
        /\ pc'[q] \in {"unmark", "unmarksync"}
        /\ UNCHANGED <<live, want, changed, mem>>
    BY <1>27 DEF Report, Goto, disk, set, TypeOK, SetType
  <2>2. Members(q)' = Members(q) BY <2>1 DEF Members
  <2> QED BY <2>1, <2>2 DEF ContentOK, Publishing, Forward, Backward, Done
<1>28. CASE RemoveMarker(q)
  <2>1. /\ pc[q] \in {"report", "unmark", "unmarksync"}
        /\ pc'[q] \in {"unmark", "unmarksync"}
        /\ UNCHANGED <<live, want, changed, mem>>
    BY <1>28 DEF RemoveMarker, Goto, SetMarker, NoSync, UnmarkNext, disk, set, TypeOK, SetType
  <2>2. Members(q)' = Members(q) BY <2>1 DEF Members
  <2> QED BY <2>1, <2>2 DEF ContentOK, Publishing, Forward, Backward, Done
<1>29. CASE RemoveMarkerFails(q)
  <2>1. /\ pc[q] \in {"report", "unmark", "unmarksync"}
        /\ pc'[q] \in {"unmark", "unmarksync"}
        /\ UNCHANGED <<live, want, changed, mem>>
    BY <1>29 DEF RemoveMarkerFails, Goto, UnmarkNext, disk, set, TypeOK, SetType
  <2>2. Members(q)' = Members(q) BY <2>1 DEF Members
  <2> QED BY <2>1, <2>2 DEF ContentOK, Publishing, Forward, Backward, Done
<1>30. CASE SyncRemoveMarker(q)
  <2>1. /\ pc[q] \in {"report", "unmark", "unmarksync"}
        /\ pc'[q] \in {"unmark", "unmarksync"}
        /\ UNCHANGED <<live, want, changed, mem>>
    BY <1>30 DEF SyncRemoveMarker, Goto, Sync, NoSync, UnmarkNext, disk, set, TypeOK, SetType
  <2>2. Members(q)' = Members(q) BY <2>1 DEF Members
  <2> QED BY <2>1, <2>2 DEF ContentOK, Publishing, Forward, Backward, Done
<1>31. CASE ApplyReturns(q)
  BY <1>31, <1>e DEF ApplyReturns
<1>32. CASE Kill(q)
  BY <1>32, <1>e DEF Kill
<1> QED BY <1>1, <1>2, <1>3, <1>4, <1>5, <1>6, <1>7, <1>8, <1>9, <1>10, <1>11,
    <1>12, <1>13, <1>14, <1>15, <1>16, <1>17, <1>18, <1>19, <1>20, <1>21,
    <1>22, <1>23, <1>24, <1>25, <1>26, <1>27, <1>28, <1>29, <1>30, <1>31, <1>32
    DEF Step, Lock, Prepare, Publish, Undo, Finish

\* Every step of q keeps the previous bytes of its changed members in reach.
LEMMA KeptStep ==
    ASSUME TypeOK, LoopInv, NEW q \in Proc, KeptOK(q), Apply(q) \/ Step(q) \/ Kill(q)
    PROVE  KeptOK(q)'
<1>i. LoopOK(q) BY DEF LoopInv
<1>m. changed[q] \subseteq Path BY DEF TypeOK, SetType
<1>e. Leave({q}) => KeptOK(q)' BY LeaveClaimsNothing
<1>n. ~Publishing(q)' => KeptOK(q)' BY DEF KeptOK, Publishing, Forward
<1>1. CASE Apply(q)
  BY <1>1, <1>n DEF Apply, Goto, Publishing, TypeOK, SetType
<1>2. CASE LockDir(q)
  BY <1>2, <1>n DEF LockDir, Goto, Publishing, TypeOK, SetType
<1>3. CASE LockDirFails(q)
  BY <1>3, <1>e DEF LockDirFails, Return
<1>4. CASE Diff(q)
  BY <1>4, <1>n DEF Diff, Goto, Publishing, TypeOK, SetType
<1>5. CASE NewStage(q)
  BY <1>5, <1>n DEF NewStage, Private, Goto, Publishing, TypeOK, SetType
<1>6. CASE Validate(q)
  BY <1>6, <1>n DEF Validate, Private, Goto, Publishing, TypeOK, SetType
<1>7. CASE ValidatorRejects(q)
  BY <1>7, <1>e DEF ValidatorRejects, Return
<1>8. CASE RepairUnchanged(q)
  BY <1>8, <1>n DEF RepairUnchanged, Private, Goto, Publishing, TypeOK, SetType
<1>9. CASE TakeBackups(q)
  <2>1. /\ saved'[q] = live /\ have'[q] = {p \in changed[q] : live[p] # Missing}
        /\ UNCHANGED <<changed, live>>
    BY <1>9 DEF TakeBackups, disk, set, TypeOK, LoopType
  <2> QED BY <2>1 DEF KeptOK
<1>10. CASE PrepareFails(q)
  BY <1>10, <1>e DEF PrepareFails, Return
<1>11. CASE CreateMarker(q)
  <2>1. /\ pc[q] \in {"mark", "marksync", "rename", "attrs"}
        /\ UNCHANGED <<saved, changed, have>>
    BY <1>11 DEF CreateMarker, set, backups
  <2> QED BY <2>1 DEF KeptOK, Forward
<1>12. CASE CreateMarkerFails(q)
  <2>1. /\ pc[q] \in {"mark", "marksync", "rename", "attrs"}
        /\ UNCHANGED <<saved, changed, have>>
    BY <1>12 DEF CreateMarkerFails, set, backups
  <2> QED BY <2>1 DEF KeptOK, Forward
<1>13. CASE SyncMarker(q)
  <2>1. /\ pc[q] \in {"mark", "marksync", "rename", "attrs"}
        /\ UNCHANGED <<saved, changed, have>>
    BY <1>13 DEF SyncMarker, set, backups
  <2> QED BY <2>1 DEF KeptOK, Forward
<1>14. CASE SyncMarkerFails(q)
  <2>1. /\ pc[q] \in {"mark", "marksync", "rename", "attrs"}
        /\ UNCHANGED <<saved, changed, have>>
    BY <1>14 DEF SyncMarkerFails, set, backups
  <2> QED BY <2>1 DEF KeptOK, Forward
<1>15. CASE RenameMember(q)
  <2>1. /\ pc[q] \in {"mark", "marksync", "rename", "attrs"}
        /\ UNCHANGED <<saved, changed, have>>
    BY <1>15 DEF RenameMember, set, backups
  <2> QED BY <2>1 DEF KeptOK, Forward
<1>16. CASE RenameMemberFails(q)
  <2>1. /\ pc[q] \in {"mark", "marksync", "rename", "attrs"}
        /\ UNCHANGED <<saved, changed, have>>
    BY <1>16 DEF RenameMemberFails, set, backups
  <2> QED BY <2>1 DEF KeptOK, Forward
<1>17. CASE FinishMember(q)
  <2>1. /\ pc[q] \in {"mark", "marksync", "rename", "attrs"}
        /\ UNCHANGED <<saved, changed, have>>
    BY <1>17 DEF FinishMember, set, backups
  <2> QED BY <2>1 DEF KeptOK, Forward
<1>18. CASE FinishMemberFails(q)
  <2>1. /\ pc[q] \in {"mark", "marksync", "rename", "attrs"}
        /\ UNCHANGED <<saved, changed, have>>
    BY <1>18 DEF FinishMemberFails, set, backups
  <2> QED BY <2>1 DEF KeptOK, Forward
<1>19. CASE Restore(q)
  <2>1. PICK p \in Path :
          /\ p \in todo[q]
          /\ live' = [live EXCEPT ![p] = saved[q][p]]
          /\ have[q] \ {p} \subseteq have'[q]
    BY ZenonT(60), <1>19 DEF Restore, SetLive, IsLast, TypeOK, LoopType
  <2>2. /\ pc[q] = "undo" /\ pc'[q] = "undosync" /\ UNCHANGED <<saved, changed>>
    BY <1>19 DEF Restore, Goto, set, TypeOK, SetType
  <2>3. live'[p] = saved[q][p] /\ \A x \in Path \ {p} : live'[x] = live[x]
    BY <2>1 DEF TypeOK, DiskType
  <2>4. \A x \in changed[q] : saved[q][x] \in {live'[x], Missing} \/ x \in have'[q]
    BY <1>m, <2>1, <2>2, <2>3 DEF KeptOK, Publishing
  <2> QED BY <2>2, <2>4 DEF KeptOK, Forward
<1>20. CASE RestoreFails(q)
  <2>1. /\ Publishing(q) /\ ~Forward(q)' /\ UNCHANGED <<live, saved, changed, have>>
    BY <1>20 DEF RestoreFails, Publishing, Forward, disk, set, backups, TypeOK, SetType
  <2> QED BY <2>1 DEF KeptOK
<1>21. CASE SyncRestore(q)
  <2>1. /\ Publishing(q) /\ ~Forward(q)' /\ UNCHANGED <<live, saved, changed, have>>
    BY <1>21 DEF SyncRestore, Sync, UndoNext, Goto, Publishing, Forward, disk, set, backups, TypeOK, SetType
  <2> QED BY <2>1 DEF KeptOK
<1>22. CASE SyncRestoreFails(q)
  <2>1. /\ Publishing(q) /\ ~Forward(q)' /\ UNCHANGED <<live, saved, changed, have>>
    BY <1>22 DEF SyncRestoreFails, UndoNext, Goto, Publishing, Forward, disk, set, backups, TypeOK, SetType
  <2> QED BY <2>1 DEF KeptOK
<1>23. CASE UndoMarker(q)
  <2>1. /\ Publishing(q) /\ ~Forward(q)' /\ UNCHANGED <<live, saved, changed, have>>
    BY <1>23 DEF UndoMarker, SetMarker, NoSync, UndoNext, Goto, Publishing, Forward, disk, set, backups, TypeOK, SetType
  <2> QED BY <2>1 DEF KeptOK
<1>24. CASE UndoMarkerFails(q)
  <2>1. /\ Publishing(q) /\ ~Forward(q)' /\ UNCHANGED <<live, saved, changed, have>>
    BY <1>24 DEF UndoMarkerFails, UndoNext, Goto, Publishing, Forward, disk, set, backups, TypeOK, SetType
  <2> QED BY <2>1 DEF KeptOK
<1>25. CASE SyncUndoMarker(q)
  <2>1. /\ Publishing(q) /\ ~Forward(q)' /\ UNCHANGED <<live, saved, changed, have>>
    BY <1>25 DEF SyncUndoMarker, Sync, NoSync, UndoNext, Goto, Publishing, Forward, disk, set, backups, TypeOK, SetType
  <2> QED BY <2>1 DEF KeptOK
<1>26. CASE EndRollback(q)
  BY <1>26, <1>e DEF EndRollback
<1>27. CASE Report(q)
  BY <1>27, <1>n DEF Report, Goto, Publishing, TypeOK, SetType
<1>28. CASE RemoveMarker(q)
  BY <1>28, <1>n DEF RemoveMarker, Goto, UnmarkNext, Publishing, TypeOK, SetType
<1>29. CASE RemoveMarkerFails(q)
  BY <1>29, <1>n DEF RemoveMarkerFails, UnmarkNext, Goto, Publishing, TypeOK,
      SetType
<1>30. CASE SyncRemoveMarker(q)
  BY <1>30, <1>n DEF SyncRemoveMarker, UnmarkNext, Goto, Publishing, TypeOK,
      SetType
<1>31. CASE ApplyReturns(q)
  BY <1>31, <1>e DEF ApplyReturns
<1>32. CASE Kill(q)
  BY <1>32, <1>e DEF Kill
<1> QED BY <1>1, <1>2, <1>3, <1>4, <1>5, <1>6, <1>7, <1>8, <1>9, <1>10, <1>11,
    <1>12, <1>13, <1>14, <1>15, <1>16, <1>17, <1>18, <1>19, <1>20, <1>21,
    <1>22, <1>23, <1>24, <1>25, <1>26, <1>27, <1>28, <1>29, <1>30, <1>31, <1>32
    DEF Step, Lock, Prepare, Publish, Undo, Finish

\* What the invariants say of another process past lockDirs is not disturbed.
LEMMA OutcomeFrame ==
    ASSUME TypeOK, LoopInv, LockInv, NEW q \in Proc, Apply(q) \/ Step(q) \/ Kill(q),
           NEW r \in Proc \ {q}
    PROVE  /\ ContentOK(r) => ContentOK(r)'
           /\ KeptOK(r) => KeptOK(r)'
<1>1. LoopOK(r) BY DEF LoopInv
<1>2. UNCHANGED Mine(r) BY FrameStep
<1>3. Members(r)' = Members(r) BY <1>2 DEF Mine, Members
<1>4. CASE Critical(r)
  <2>1. \A p \in Members(r) : live'[p] = live[p] BY <1>4, MembersUntouched
  <2>2. changed[r] \cup todo[r] \subseteq Members(r) /\ (InHand(r) => cur[r] \in Members(r))
    BY <1>1 DEF LoopOK
  <2>3. ContentOK(r) => ContentOK(r)'
    BY <1>2, <1>3, <2>1, <2>2 DEF ContentOK, Mine, Publishing, Forward, Backward, Done, InHand
  <2>4. KeptOK(r) => KeptOK(r)'
    BY <1>2, <1>3, <2>1, <2>2 DEF KeptOK, Mine, Publishing, Forward
  <2> QED BY <2>3, <2>4
<1>5. CASE ~Critical(r)
  BY <1>2, <1>5 DEF ContentOK, KeptOK, Mine, Critical, Publishing, Forward, Backward, Done
<1> QED BY <1>4, <1>5

\* What a crash or a failed call hit once stays untidy.
LEMMA UntidyStep ==
    ASSUME NEW q \in Proc, Apply(q) \/ Step(q) \/ Kill(q)
    PROVE  untidy \subseteq untidy'
<1>1. CASE Apply(q) \/ Kill(q) BY <1>1 DEF Apply, Kill
<1>2. CASE Lock(q) BY <1>2 DEF Lock, LockDir, LockDirFails, Return
<1>3. CASE Prepare(q)
  BY <1>3 DEF Prepare, Diff, NewStage, Validate, ValidatorRejects, RepairUnchanged,
      TakeBackups, PrepareFails, Private, Return
<1>4. CASE Publish(q)
  BY <1>4 DEF Publish, CreateMarker, CreateMarkerFails, SyncMarker, SyncMarkerFails,
      RenameMember, RenameMemberFails, FinishMember, FinishMemberFails
<1>5. CASE Undo(q)
  BY <1>5 DEF Undo, Restore, RestoreFails, SyncRestore, SyncRestoreFails, UndoMarker,
      UndoMarkerFails, SyncUndoMarker, EndRollback
<1>6. CASE Finish(q)
  BY <1>6 DEF Finish, Report, RemoveMarker, RemoveMarkerFails, SyncRemoveMarker,
      ApplyReturns
<1> QED BY <1>1, <1>2, <1>3, <1>4, <1>5, <1>6 DEF Step

\* A set that has been locked but not diffed has no marker but untidy ones.
LEMMA NothingMarkedBeforePublication ==
    ASSUME TypeOK, LockInv, AnswerableInv, NEW q \in Proc, pc[q] = "diff",
           NEW p \in Members(q), marker[p] = "present"
    PROVE  p \in untidy
<1>1. p \in Path /\ holder[DirOf[p]] = q
  BY MembersType DEF LockInv, LockOK, Critical, MemberDirs
<1>2. p \notin Marked(q) BY DEF Marked, Forward, Backward
<1> QED BY <1>1, <1>2 DEF AnswerableInv, AnswerableOK

\* Every step of one process finds only untidy markers in its diff, and unlinks
\* a marker before it fsyncs the unlink.
LEMMA TidyStep ==
    ASSUME SignalInv, OutcomeInv, NEW q \in Proc, Apply(q) \/ Step(q) \/ Kill(q)
    PROVE  TidyInv'
<1>t. TypeOK /\ LoopInv /\ LockInv BY DEF SignalInv
<1>i. LoopOK(q) /\ TidyOK(q) BY <1>t DEF LoopInv, OutcomeInv, TidyInv
<1>u. untidy \subseteq untidy' BY UntidyStep
<1>1. ASSUME NEW r \in Proc \ {q} PROVE TidyOK(r)'
  <2>1. UNCHANGED Mine(r) /\ TidyOK(r) /\ LoopOK(r)
    BY <1>t, FrameStep DEF OutcomeInv, TidyInv, LoopInv
  <2>2. pc[r] \in {"undomarksync", "unmarksync"} => marker'[cur[r]] = marker[cur[r]]
    BY <1>t, <2>1, MembersUntouched DEF Critical, LoopOK, InHand
  <2> QED BY <1>u, <2>1, <2>2 DEF TidyOK, Mine
<1>2. pending'[q] \subseteq untidy'
  <2>1. CASE Diff(q)
    <3>1. pc[q] = "diff" /\ untidy' = untidy
          /\ pending'[q] = {p \in Members(q) : marker[p] = "present"}
      BY <2>1, <1>t DEF Diff, TypeOK, SetType
    <3> QED BY <1>t, <3>1, NothingMarkedBeforePublication DEF OutcomeInv
  <2>2. CASE ~Diff(q)
    <3>1. pending'[q] \subseteq pending[q]
      <4>1. CASE Apply(q) \/ Kill(q) BY <4>1 DEF Apply, Kill, Leave
      <4>2. CASE Lock(q) BY <4>2 DEF Lock, LockDir, LockDirFails, Return, Leave, set
      <4>3. CASE Prepare(q)
        BY <2>2, <4>3 DEF Prepare, NewStage, Validate, ValidatorRejects, RepairUnchanged,
            TakeBackups, PrepareFails, Private, Return, Leave, set
      <4>4. CASE Publish(q)
        BY <4>4 DEF Publish, CreateMarker, CreateMarkerFails, SyncMarker, SyncMarkerFails,
            RenameMember, RenameMemberFails, FinishMember, FinishMemberFails, set
      <4>5. CASE Undo(q)
        BY <4>5 DEF Undo, Restore, RestoreFails, SyncRestore, SyncRestoreFails, UndoMarker,
            UndoMarkerFails, SyncUndoMarker, EndRollback, Leave, set
      <4>6. CASE Finish(q)
        BY <4>6 DEF Finish, Report, RemoveMarker, RemoveMarkerFails, SyncRemoveMarker,
            ApplyReturns, Leave, set
      <4> QED BY <4>1, <4>2, <4>3, <4>4, <4>5, <4>6 DEF Step
    <3> QED BY <1>i, <1>u, <3>1 DEF TidyOK
  <2> QED BY <2>1, <2>2
<1>3. ASSUME pc'[q] \in {"undomarksync", "unmarksync"} PROVE marker'[cur'[q]] = "absent"
  <2> USE <1>3 DEF Goto, TypeOK, SetType
  <2>1. CASE Apply(q) \/ Kill(q) BY <1>t, <2>1 DEF Apply, Kill, Leave
  <2>2. CASE Lock(q) BY <1>t, <2>2 DEF Lock, LockDir, LockDirFails, Return, Leave
  <2>3. CASE Prepare(q)
    BY <1>t, <2>3 DEF Prepare, Diff, NewStage, Validate, ValidatorRejects, RepairUnchanged,
        TakeBackups, PrepareFails, Private, Return, Leave
  <2>4. CASE Publish(q)
    BY <1>t, <2>4 DEF Publish, CreateMarker, CreateMarkerFails, SyncMarker, SyncMarkerFails,
        RenameMember, RenameMemberFails, FinishMember, FinishMemberFails, Rollback
  <2>5. CASE UndoMarker(q)
    <3>1. cur' = cur /\ cur[q] \in Path /\ SetMarker(cur[q], "absent")
      BY <1>t, <1>i, <2>5, MembersType DEF UndoMarker, UndoNext, LoopOK, InHand
    <3> QED BY <1>t, <3>1 DEF SetMarker, DiskType
  <2>6. CASE Undo(q) /\ ~UndoMarker(q)
    BY <1>t, <2>6 DEF Undo, Restore, RestoreFails, SyncRestore, SyncRestoreFails,
        UndoMarkerFails, SyncUndoMarker, EndRollback, UndoNext, Leave
  <2>7. CASE RemoveMarker(q)
    <3>1. PICK p \in Path : cur' = [cur EXCEPT ![q] = p] /\ SetMarker(p, "absent")
      BY <1>t, <2>7 DEF RemoveMarker, UnmarkNext
    <3> QED BY <1>t, <3>1 DEF SetMarker, DiskType, LoopType
  <2>8. CASE Finish(q) /\ ~RemoveMarker(q)
    BY <1>t, <2>8 DEF Finish, Report, RemoveMarkerFails, SyncRemoveMarker, ApplyReturns,
        UnmarkNext, Leave
  <2> QED BY <2>1, <2>2, <2>3, <2>4, <2>5, <2>6, <2>7, <2>8 DEF Step
<1>4. TidyOK(q)' BY <1>2, <1>3 DEF TidyOK
<1> QED BY <1>1, <1>4 DEF TidyInv

\* A marked member stays marked until its marker is unlinked, or the member
\* becomes untidy.
LEMMA MarkedStep ==
    ASSUME SignalInv, OutcomeInv, NEW q \in Proc, Apply(q) \/ Step(q) \/ Kill(q),
           NEW p \in Marked(q), p \notin untidy', marker'[p] = "present"
    PROVE  p \in Marked(q)'
<1>t. TypeOK /\ LoopInv BY DEF SignalInv
<1>i. LoopOK(q) /\ TidyOK(q) BY <1>t DEF LoopInv, OutcomeInv, TidyInv
<1>m. p \in Members(q) /\ p \in Path BY <1>t, MembersType DEF Marked
<1>u. p \notin untidy BY UntidyStep
<1>b. Forward(q) \/ Backward(q) \/ Done(q) BY DEF Marked, Forward, Backward, Done
<1>1. CASE Apply(q) \/ Lock(q) \/ Prepare(q)
  BY <1>1, <1>b DEF Apply, Lock, LockDir, LockDirFails, Prepare, Diff, NewStage, Validate,
      ValidatorRejects, RepairUnchanged, TakeBackups, PrepareFails, Private, Forward,
      Backward, Done
<1>2. CASE CreateMarker(q)
  <2>1. /\ pc[q] = "mark" /\ pc'[q] \in {"marksync", "rename"} /\ UNCHANGED <<mem, done>>
    BY <1>2, <1>t DEF CreateMarker, Goto, set, TypeOK, SetType, LoopType
  <2>2. Members(q)' = Members(q) BY <2>1 DEF Members
  <2> QED BY <1>i, <1>m, <2>1, <2>2 DEF Marked, Forward, Backward
<1>3. CASE CreateMarkerFails(q)
  <2>1. /\ pc[q] = "mark" /\ pc'[q] = "undo" /\ todo'[q] = done[q] /\ UNCHANGED mem
    BY <1>3, <1>t DEF CreateMarkerFails, Rollback, Goto, set, TypeOK, SetType, LoopType
  <2>2. Members(q)' = Members(q) BY <2>1 DEF Members
  <2> QED BY <1>i, <1>m, <2>1, <2>2 DEF Marked, Forward, Backward
<1>4. CASE SyncMarker(q) \/ RenameMember(q)
  <2>1. /\ pc[q] \in {"marksync", "rename"} /\ pc'[q] \in {"rename", "attrs"}
        /\ UNCHANGED <<mem, done, cur>>
    BY <1>4, <1>t DEF SyncMarker, RenameMember, Goto, set, loop, TypeOK, SetType, LoopType
  <2>2. Members(q)' = Members(q) BY <2>1 DEF Members
  <2> QED BY <1>i, <1>m, <2>1, <2>2 DEF Marked, Forward, Backward
<1>5. CASE SyncMarkerFails(q)
  <2>1. /\ pc[q] = "marksync" /\ pc'[q] = "undo" /\ todo'[q] = done[q] /\ UNCHANGED mem
        /\ SetMarker(cur[q], "absent") \/ cur[q] \in untidy'
    BY <1>5, <1>t DEF SyncMarkerFails, Rollback, Goto, set, TypeOK, SetType, LoopType
  <2>2. Members(q)' = Members(q) BY <2>1 DEF Members
  <2>3. p # cur[q] BY <1>t, <1>m, <2>1 DEF SetMarker, TypeOK, DiskType
  <2> QED BY <1>i, <1>m, <2>1, <2>2, <2>3 DEF Marked, Forward, Backward
<1>6. CASE RenameMemberFails(q) \/ FinishMemberFails(q)
  <2>1. /\ pc[q] \in {"rename", "attrs"} /\ pc'[q] = "undo" /\ todo'[q] = done[q] \cup {cur[q]}
        /\ UNCHANGED mem
    BY <1>6, <1>t DEF RenameMemberFails, FinishMemberFails, Rollback, Goto, set, TypeOK, SetType, LoopType
  <2>2. Members(q)' = Members(q) BY <2>1 DEF Members
  <2> QED BY <1>i, <1>m, <2>1, <2>2 DEF Marked, Forward, Backward
<1>7. CASE FinishMember(q)
  <2>1. /\ pc[q] = "attrs" /\ pc'[q] \in {"report", "mark"}
        /\ done'[q] = done[q] \cup {cur[q]} /\ UNCHANGED <<mem, changed>>
    BY <1>7, <1>t DEF FinishMember, Goto, set, TypeOK, SetType, LoopType
  <2>2. Members(q)' = Members(q) BY <2>1 DEF Members
  <2>3. done[q] \cup {cur[q]} \subseteq changed[q]
    BY <1>i, <2>1 DEF LoopOK, Publishing, InHand
  <2> QED BY <1>m, <2>1, <2>2, <2>3 DEF Marked, Forward, Backward
<1>8. CASE Restore(q)
  <2>1. /\ pc[q] = "undo" /\ pc'[q] = "undosync" /\ UNCHANGED <<mem, todo>>
    BY <1>8, <1>t DEF Restore, Goto, set, TypeOK, SetType, LoopType
  <2>2. Members(q)' = Members(q) BY <2>1 DEF Members
  <2> QED BY <1>i, <1>m, <2>1, <2>2 DEF Marked, Forward, Backward
<1>9. CASE RestoreFails(q)
  <2>1. PICK x \in Path : todo'[q] = todo[q] \ {x} /\ x \in untidy'
    BY <1>9, <1>t DEF RestoreFails, TypeOK, LoopType
  <2>2. pc[q] = "undo" /\ pc' = pc /\ UNCHANGED mem BY <1>9 DEF RestoreFails, set
  <2>3. Members(q)' = Members(q) BY <2>2 DEF Members
  <2> QED BY <1>m, <2>1, <2>2, <2>3 DEF Marked, Forward, Backward
<1>10. CASE SyncRestore(q)
  <2>1. /\ pc[q] = "undosync" /\ UNCHANGED mem
        /\ \/ cur[q] \in pending[q] /\ todo'[q] = todo[q] \ {cur[q]} /\ pc'[q] = "undo"
           \/ pc'[q] = "undomark" /\ UNCHANGED todo
    BY <1>10, <1>t DEF SyncRestore, UndoNext, Goto, set, TypeOK, SetType, LoopType
  <2>2. Members(q)' = Members(q) BY <2>1 DEF Members
  <2>3. p \notin pending[q] BY <1>i, <1>u DEF TidyOK
  <2> QED BY <1>m, <2>1, <2>2, <2>3 DEF Marked, Forward, Backward
<1>11. CASE SyncRestoreFails(q) \/ UndoMarkerFails(q)
  <2>1. /\ pc[q] \in {"undosync", "undomark"} /\ pc'[q] = "undo" /\ cur[q] \in untidy'
        /\ todo'[q] = todo[q] \ {cur[q]} /\ UNCHANGED mem
    BY <1>11, <1>t DEF SyncRestoreFails, UndoMarkerFails, UndoNext, Goto, set, TypeOK, SetType, LoopType
  <2>2. Members(q)' = Members(q) BY <2>1 DEF Members
  <2> QED BY <1>i, <1>m, <2>1, <2>2 DEF Marked, Forward, Backward
<1>12. CASE UndoMarker(q)
  <2>1. /\ pc[q] = "undomark" /\ UNCHANGED mem
        /\ \/ pc'[q] = "undomarksync" /\ UNCHANGED todo
           \/ /\ marker[cur[q]] # "present" /\ marker' = marker
              /\ todo'[q] = todo[q] \ {cur[q]} /\ pc'[q] = "undo"
    BY <1>12, <1>t DEF UndoMarker, UndoNext, Goto, NoSync, disk, set, TypeOK, SetType, LoopType
  <2>2. Members(q)' = Members(q) BY <2>1 DEF Members
  <2> QED BY <1>m, <2>1, <2>2 DEF Marked, Forward, Backward
<1>13. CASE SyncUndoMarker(q) \/ SyncRemoveMarker(q)
  <2>1. /\ pc[q] \in {"undomarksync", "unmarksync"} /\ pc'[q] \in {"undo", "unmark"}
        /\ todo'[q] = todo[q] \ {cur[q]} /\ UNCHANGED <<mem, marker>>
    BY <1>13, <1>t DEF SyncUndoMarker, SyncRemoveMarker, UndoNext, UnmarkNext, Goto, Sync,
        NoSync, disk, set, TypeOK, SetType, LoopType
  <2>2. Members(q)' = Members(q) BY <2>1 DEF Members
  <2>3. p # cur[q] BY <1>i, <2>1 DEF TidyOK
  <2> QED BY <1>m, <2>1, <2>2, <2>3 DEF Marked, Forward, Backward
<1>14. CASE EndRollback(q) \/ ApplyReturns(q)
  BY <1>14 DEF EndRollback, ApplyReturns, Marked, Forward
<1>15. CASE Report(q)
  <2>1. /\ pc[q] = "report" /\ pc'[q] = "unmark" /\ UNCHANGED mem
        /\ todo'[q] = changed[q] \cup pending[q]
    BY <1>15, <1>t DEF Report, Goto, set, TypeOK, SetType, LoopType
  <2>2. Members(q)' = Members(q) BY <2>1 DEF Members
  <2> QED BY <1>i, <1>m, <2>1, <2>2 DEF Marked, Forward, Backward
<1>16. CASE RemoveMarker(q)
  <2>0. PICK x \in Path :
          /\ cur' = [cur EXCEPT ![q] = x]
          /\ \/ Goto(q, "unmarksync") /\ UNCHANGED todo
             \/ marker[x] # "present" /\ NoSync /\ UnmarkNext(q)
    BY <1>16 DEF RemoveMarker
  <2>1. \/ pc'[q] = "unmarksync" /\ UNCHANGED todo
        \/ /\ marker[x] # "present" /\ marker' = marker
           /\ todo'[q] = todo[q] \ {x} /\ pc'[q] = "unmark"
    BY <1>t, <2>0 DEF UnmarkNext, Goto, NoSync, disk, TypeOK, SetType, LoopType
  <2>2. pc[q] = "unmark" /\ UNCHANGED mem BY <1>16 DEF RemoveMarker, set
  <2>3. Members(q)' = Members(q) BY <2>2 DEF Members
  <2> QED BY <1>m, <2>1, <2>2, <2>3 DEF Marked, Forward, Backward
<1>17. CASE RemoveMarkerFails(q)
  <2>1. PICK x \in Path : todo'[q] = todo[q] \ {x} /\ x \in untidy'
    BY <1>17, <1>t DEF RemoveMarkerFails, UnmarkNext, Goto, TypeOK, LoopType
  <2>2. pc[q] = "unmark" /\ pc'[q] = "unmark" /\ UNCHANGED mem
    BY <1>17, <1>t DEF RemoveMarkerFails, UnmarkNext, Goto, set, TypeOK, SetType
  <2>3. Members(q)' = Members(q) BY <2>2 DEF Members
  <2> QED BY <1>m, <2>1, <2>2, <2>3 DEF Marked, Forward, Backward
<1>18. CASE Kill(q) BY <1>18, <1>m DEF Kill
<1> QED BY <1>1, <1>2, <1>3, <1>4, <1>5, <1>6, <1>7, <1>8, <1>9, <1>10, <1>11, <1>12,
    <1>13, <1>14, <1>15, <1>16, <1>17, <1>18 DEF Step, Publish, Undo, Finish

\* Only createMarker creates a marker.
LEMMA NewMarker ==
    ASSUME SignalInv, NEW q \in Proc, Apply(q) \/ Step(q) \/ Kill(q),
           NEW p \in Path, marker[p] # "present", marker'[p] = "present"
    PROVE  p \in Marked(q)'
<1>t. TypeOK /\ LoopInv BY DEF SignalInv
<1>i. LoopOK(q) BY <1>t DEF LoopInv
<1>1. CASE CreateMarker(q)
  <2>1. PICK x \in Path :
          /\ x \in todo[q] /\ cur' = [cur EXCEPT ![q] = x]
          /\ NoSync \/ (Goto(q, "marksync") /\ SetMarker(x, "present"))
    BY <1>1 DEF CreateMarker, IsFirst
  <2>2. UNCHANGED mem BY <1>1 DEF CreateMarker, set
  <2>3. p = x /\ Goto(q, "marksync")
    BY <1>t, <2>1 DEF NoSync, disk, SetMarker, TypeOK, DiskType
  <2>5. pc'[q] = "marksync" /\ cur'[q] = x
    BY <1>t, <2>1, <2>3 DEF Goto, TypeOK, SetType, LoopType
  <2>4. Members(q)' = Members(q) BY <2>2 DEF Members
  <2> QED BY <1>i, <2>1, <2>3, <2>4, <2>5 DEF Marked, LoopOK
<1>2. CASE ~CreateMarker(q)
  <2>1. ASSUME NEW x \in Path, SetMarker(x, "absent") PROVE FALSE
    BY <1>t, <2>1 DEF SetMarker, TypeOK, DiskType
  <2>2. marker' # marker OBVIOUS
  <2>3. InHand(q) => cur[q] \in Path BY <1>t, <1>i, MembersType DEF LoopOK
  <2>4. CASE \/ Apply(q) \/ Lock(q) \/ Prepare(q) \/ EndRollback(q) \/ Report(q)
             \/ CreateMarkerFails(q) \/ RenameMemberFails(q) \/ RestoreFails(q)
             \/ SyncRestoreFails(q) \/ UndoMarkerFails(q)
             \/ RemoveMarkerFails(q) \/ ApplyReturns(q)
    BY <1>t, <2>2, <2>4, QuietStep DEF disk
  <2>5. CASE Publish(q)
    BY <1>2, <2>1, <2>2, <2>3, <2>4, <2>5 DEF Publish, SyncMarker, SyncMarkerFails,
        RenameMember, FinishMember, FinishMemberFails, Sync, NoSync, SetLive, disk, InHand
  <2>6. CASE Undo(q)
    BY <2>1, <2>2, <2>3, <2>4, <2>6 DEF Undo, Restore, SyncRestore, UndoMarker,
        SyncUndoMarker, Sync, NoSync, SetLive, disk, InHand
  <2>7. CASE Finish(q)
    BY <2>1, <2>2, <2>3, <2>4, <2>7 DEF Finish, RemoveMarker, SyncRemoveMarker, Sync,
        NoSync, disk, InHand
  <2>8. CASE Kill(q) BY <2>2, <2>8 DEF Kill, disk
  <2> QED BY <2>4, <2>5, <2>6, <2>7, <2>8 DEF Step
<1> QED BY <1>1, <1>2

\* Every step of one process leaves each marker with a process that answers for
\* it.
LEMMA AnswerableStep ==
    ASSUME SignalInv, OutcomeInv, NEW q \in Proc, Apply(q) \/ Step(q) \/ Kill(q)
    PROVE  AnswerableInv'
<1>t. TypeOK /\ LoopInv /\ LockInv BY DEF SignalInv
<1>l. TypeOK' /\ LockInv' BY <1>t, TypeStep, LockStep
<1>1. ASSUME NEW r \in Proc, NEW p \in Marked(r)' PROVE holder'[DirOf[p]] = r
  <2>1. Critical(r)' /\ p \in Members(r)'
    BY <1>1 DEF Marked, Critical, Forward, Backward
  <2> QED BY <1>l, <2>1 DEF LockInv, LockOK, MemberDirs
<1>2. ASSUME NEW p \in Path, marker'[p] = "present", p \notin untidy'
      PROVE  \E r \in Proc : p \in Marked(r)'
  <2>1. CASE marker[p] # "present" BY <1>2, <2>1, NewMarker
  <2>2. CASE marker[p] = "present"
    <3>1. p \notin untidy BY <1>2, UntidyStep
    <3>2. PICK r \in Proc : p \in Marked(r)
      BY <2>2, <3>1 DEF OutcomeInv, AnswerableInv, AnswerableOK
    <3>3. CASE r = q BY <1>2, <3>2, <3>3, MarkedStep
    <3>4. CASE r # q
      <4>1. UNCHANGED Mine(r) BY <1>t, <3>4, FrameStep
      <4> QED BY <3>2, <4>1 DEF Mine, Marked, Members, Forward, Backward
    <3> QED BY <3>3, <3>4
  <2> QED BY <2>1, <2>2
<1> QED BY <1>1, <1>2 DEF AnswerableInv, AnswerableOK

-----------------------------------------------------------------------------
(* Where the previous bytes are *)

\* A publication goes on with the same backups, completes, or ends in a rollback
\* or a kill.
LEMMA PublicationGoesOn ==
    ASSUME TypeOK, NEW q \in Proc, Publishing(q), Apply(q) \/ Step(q) \/ Kill(q)
    PROVE  \/ Publishing(q)' /\ UNCHANGED <<saved, changed>>
           \/ pc'[q] = "report" \/ EndRollback(q) \/ Kill(q)
<1> USE DEF Publishing, Goto, set, backups, TypeOK, SetType
<1>1. CASE Apply(q) \/ Lock(q) \/ Prepare(q) \/ Finish(q)
  BY <1>1 DEF Apply, Lock, LockDir, LockDirFails, Prepare, Diff, NewStage, Validate,
      ValidatorRejects, RepairUnchanged, TakeBackups, PrepareFails, Private, Finish,
      Report, RemoveMarker, RemoveMarkerFails, SyncRemoveMarker, ApplyReturns
<1>2. CASE Publish(q)
  BY <1>2 DEF Publish, CreateMarker, CreateMarkerFails, SyncMarker, SyncMarkerFails,
      RenameMember, RenameMemberFails, FinishMember, FinishMemberFails, Rollback
<1>3. CASE Undo(q)
  BY <1>3 DEF Undo, Restore, RestoreFails, SyncRestore, SyncRestoreFails, UndoMarker,
      UndoMarkerFails, SyncUndoMarker, UndoNext
<1> QED BY <1>1, <1>2, <1>3 DEF Step

\* A step of one process leaves the previous bytes of every changed member live,
\* in the backups, or in a stage that stays behind.
LEMMA StepKeepsBackups ==
    ASSUME SignalInv, OutcomeInv, NEW q \in Proc, Apply(q) \/ Step(q) \/ Kill(q)
    PROVE  KeepsBackups
<1>t. TypeOK /\ LoopInv /\ LockInv BY DEF SignalInv
<1> SUFFICES ASSUME NEW r \in Proc, NEW p \in changed[r], edits = 0, Publishing(r),
                    pc'[r] # "report"
             PROVE  \/ saved[r][p] \in {live'[p], Missing}
                    \/ p \in have'[r]
                    \/ <<p, saved[r][p]>> \in leftover'
  BY LossesStep DEF KeepsBackups, Publishing
<1>i. ContentOK(r) /\ KeptOK(r) /\ LoopOK(r)
  BY <1>t DEF OutcomeInv, ContentInv, KeptInv, LoopInv
<1>k. saved[r][p] \in {live[p], Missing} \/ p \in have[r] BY <1>i DEF KeptOK
<1>1. CASE r # q
  <2>1. UNCHANGED Mine(r) BY <1>t, <1>1, FrameStep
  <2>2. Critical(r) /\ p \in Members(r) BY <1>i DEF Publishing, Critical, LoopOK
  <2>3. live'[p] = live[p] BY <1>t, <1>1, <2>2, MembersUntouched
  <2> QED BY <1>k, <2>1, <2>3 DEF Mine
<1>2. CASE r = q /\ Publishing(q)' /\ UNCHANGED <<saved, changed>>
  <2>1. KeptOK(q)' BY <1>t, <1>i, <1>2, KeptStep
  <2> QED BY <1>2, <2>1 DEF KeptOK
<1>3. ASSUME r = q, live' = live, leftover' = leftover \cup Stages({q})
      PROVE  saved[r][p] \in {live'[p], Missing} \/ <<p, saved[r][p]>> \in leftover'
  <2>1. p \in have[q] => <<p, saved[q][p]>> \in Stages({q}) BY DEF Stages
  <2> QED BY <1>k, <1>3, <2>1
<1>4. CASE r = q /\ EndRollback(q)
  <2>1. CASE problems[q] = {}
    <3>1. Backward(q) /\ todo[q] = {} /\ live' = live
      BY <1>4 DEF EndRollback, Backward, disk
    <3>2. live[p] = saved[q][p] BY <1>i, <1>4, <2>1, <3>1 DEF ContentOK
    <3> QED BY <1>4, <3>1, <3>2
  <2>2. CASE problems[q] # {}
    BY <1>3, <1>4, <2>2 DEF EndRollback, disk
  <2> QED BY <2>1, <2>2
<1>5. CASE r = q /\ Kill(q) BY <1>3, <1>5 DEF Kill, disk
<1> QED BY <1>t, <1>1, <1>2, <1>4, <1>5, PublicationGoesOn

-----------------------------------------------------------------------------
(* The theorems on outcomes *)

\* Before the first apply there is no marker and nothing is published.
LEMMA InitOutcomeInv == Init => OutcomeInv
<1> SUFFICES ASSUME Init PROVE OutcomeInv OBVIOUS
<1>1. \A q \in Proc : ContentOK(q) /\ KeptOK(q)
  BY DEF Init, ContentOK, KeptOK, Publishing, Forward, Backward, Done
<1>2. AnswerableInv BY DEF Init, AnswerableInv, AnswerableOK
<1>3. TidyInv BY DEF Init, TidyInv, TidyOK
<1> QED BY <1>1, <1>2, <1>3 DEF OutcomeInv, ContentInv, KeptInv

\* OutcomeInv is inductive on top of SignalInv, and a step that starts in it
\* keeps the backups.
LEMMA NextOutcomeInv ==
    SignalInv /\ OutcomeInv /\ [Next]_vars => OutcomeInv' /\ [KeepsBackups]_vars
<1> SUFFICES ASSUME SignalInv, OutcomeInv, [Next]_vars
             PROVE  OutcomeInv' /\ [KeepsBackups]_vars
  OBVIOUS
<1>t. TypeOK /\ LoopInv /\ LockInv BY DEF SignalInv
<1>n. edits \in Nat /\ losses \in Nat BY <1>t, BoundAssumption DEF TypeOK, GhostType
<1>1. ASSUME NEW q \in Proc, Apply(q) \/ Step(q) \/ Kill(q)
      PROVE  OutcomeInv' /\ [KeepsBackups]_vars
  <2>1. edits' = edits BY <1>1, LossesStep
  <2>2. ASSUME edits = 0, NEW r \in Proc PROVE ContentOK(r)' /\ KeptOK(r)'
    <3>1. ContentOK(r) /\ KeptOK(r) BY <2>2 DEF OutcomeInv, ContentInv, KeptInv
    <3>2. CASE r = q BY <1>1, <1>t, <3>1, <3>2, ContentStep, KeptStep
    <3>3. CASE r # q BY <1>1, <1>t, <3>1, <3>3, OutcomeFrame
    <3> QED BY <3>2, <3>3
  <2>3. AnswerableInv' BY <1>1, AnswerableStep
  <2>4. TidyInv' BY <1>1, TidyStep
  <2>5. KeepsBackups BY <1>1, StepKeepsBackups
  <2> QED BY <2>1, <2>2, <2>3, <2>4, <2>5 DEF OutcomeInv, ContentInv, KeptInv
<1>2. CASE PowerLoss
  <2>1. /\ untidy' = Path /\ losses' # 0
        /\ \A q \in Proc : pc'[q] = "idle" /\ pending'[q] = {}
    BY <1>2, <1>n DEF PowerLoss, Leave
  <2>2. \A q \in Proc : ContentOK(q)' /\ KeptOK(q)'
    BY <2>1 DEF ContentOK, KeptOK, Publishing, Forward, Backward, Done
  <2>3. AnswerableInv' BY <2>1 DEF AnswerableInv, AnswerableOK
  <2>4. TidyInv' BY <2>1 DEF TidyInv, TidyOK
  <2>5. KeepsBackups BY <2>1 DEF KeepsBackups
  <2> QED BY <2>2, <2>3, <2>4, <2>5 DEF OutcomeInv, ContentInv, KeptInv
<1>3. ASSUME NEW x \in Path, Edit(x) PROVE OutcomeInv' /\ [KeepsBackups]_vars
  <2>1. /\ edits' # 0
        /\ UNCHANGED <<holder, pc, mem, changed, pending, todo, done, cur, untidy, marker>>
    BY <1>3, <1>n DEF Edit, SetLive, set, loop
  <2>2. AnswerableInv' /\ TidyInv'
    BY <2>1 DEF OutcomeInv, AnswerableInv, AnswerableOK, TidyInv, TidyOK, Marked, Members,
        Forward, Backward
  <2>3. KeepsBackups BY <2>1 DEF KeepsBackups
  <2> QED BY <2>1, <2>2, <2>3 DEF OutcomeInv, ContentInv, KeptInv
<1>4. CASE UNCHANGED vars
  <2>1. OutcomeInv'
    BY <1>4 DEF vars, disk, set, backups, loop, counters, OutcomeInv, ContentInv, KeptInv,
        AnswerableInv, AnswerableOK, TidyInv, TidyOK, ContentOK, KeptOK, Marked, Members,
        Publishing, Forward, Backward, Done
  <2> QED BY <1>4, <2>1
<1> QED BY <1>1, <1>2, <1>3, <1>4 DEF Next

\* The invariants say what an apply may report.
LEMMA InvariantsGiveOutcome ==
    ASSUME SignalInv, OutcomeInv
    PROVE  OutcomeIsTrue
<1>1. Converged
  <2> SUFFICES ASSUME edits = 0, NEW q \in Proc, Done(q), NEW p \in Members(q)
               PROVE  live[p] = want[q][p]
    BY DEF Converged, Done
  <2>1. ContentOK(q) BY DEF OutcomeInv, ContentInv
  <2> QED BY <2>1 DEF ContentOK, Done
<1>2. RollbackRestores
  <2> SUFFICES ASSUME edits = 0, NEW q \in Proc, pc[q] = "undo", todo[q] = {},
                      problems[q] = {}, NEW p \in Members(q)
               PROVE  live[p] = saved[q][p]
    BY DEF RollbackRestores
  <2>1. ContentOK(q) BY DEF OutcomeInv, ContentInv
  <2> QED BY <2>1 DEF ContentOK, Publishing, Backward
<1>3. NoSpuriousMarker
  <2> SUFFICES ASSUME NEW p \in Path \ untidy, holder[DirOf[p]] = NoProc
               PROVE  marker[p] = "absent"
    BY DEF NoSpuriousMarker
  <2>1. marker[p] \in MarkState BY DEF SignalInv, TypeOK, DiskType
  <2> QED
    BY <2>1, ProcAssumption DEF OutcomeInv, AnswerableInv, AnswerableOK, MarkState
<1> QED BY <1>1, <1>2, <1>3 DEF OutcomeIsTrue

\* What an apply reports is true when it reports it, whatever other applies do,
\* whatever is killed and whichever call fails: a success means the rendered
\* bytes, a complete rollback the previous ones, and no marker stays behind.
THEOREM ReportedOutcomeIsTrue == Spec => []OutcomeIsTrue
<1>1. SignalInv /\ OutcomeInv => OutcomeIsTrue BY InvariantsGiveOutcome
<1> QED BY <1>1, InitSignalInv, InitOutcomeInv, NextSignalInv, NextOutcomeInv, PTL DEF Spec

\* keepStage: no step of any process loses the previous bytes of a member before
\* the whole set is published.
THEOREM PreviousBytesSurvive == Spec => BackupsSurvive
BY InitSignalInv, InitOutcomeInv, NextSignalInv, NextOutcomeInv, PTL
   DEF Spec, BackupsSurvive
=============================================================================
