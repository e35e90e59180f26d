-------------------------- MODULE ResourcesProofs ---------------------------
(***************************************************************************)
(* The safety of the resources, for all constants: what HostProofs proves  *)
(* of the files, links, declarations and services holds of the sum of all  *)
(* parts, whose other parts leave their variables alone.                   *)
(***************************************************************************)
EXTENDS Resources, TLAPS

(***************************************************************************)
(* The parts: a part here is the part that was proved about                *)
(***************************************************************************)
HostP == INSTANCE HostProofs WITH
    link <- x1, fs <- x2, doomed <- x3, foreign <- x4, foreseen <- x5, calm <- x6, real <- x7,
    linkNote <- x8, linkAt <- x9, linkRuns <- x10,
    ctor <- x1, declPath <- x2, calls <- x3, file <- x4, probe <- x5, planOp <- x6, applied <- x7,
    at <- x8,
    unit <- x1, host <- x2, asked <- x3, todo <- x4, unitNote <- x5, unitAt <- x6, applies <- x7,
    fails <- x8, prior <- x9, acted <- x10, intact <- x11

LEMMA WriteAssumed == HostP!ConstantsOK
BY WriteConstants DEF ConstantsOK, IsDecl, IsEntry, HostP!ConstantsOK, HostP!IsDecl, HostP!IsEntry

LEMMA WriteStarts == ASSUME Init PROVE HostP!Init
BY DEF Init, FirstStep, NoEntry, Regular, HostP!Init, HostP!FirstStep, HostP!NoEntry,
   HostP!Regular

LEMMA WriteSteps == ASSUME Next PROVE HostP!Next
BY DEF Next, Again, FirstStep, NoEntry, Running, world, Kill, Plant, PowerLoss,
   applyAttributesViaPath, Fail, Goto, chmod, AttrMode, Preserves, Done, Inode, Target, MayChange,
   Writer, SetOn, chmodTemp, dropTemp, chown, AttrUid, WantUid, chownTemp, createTemp, Regular,
   createValidationCandidate, ensureAbsent, ensureFile, changed, Readable, ensurePresent,
   explicitMetadataChanged, openNoFollow, remove, removeValidationCandidate, renameTemp, resolve,
   readForLineEdit, runValidation, syncDir, syncTemp, verifyValidationParent, writeTemp,
   writeValidationCandidate, HostP!Next, HostP!Again, HostP!FirstStep, HostP!NoEntry,
   HostP!Running, HostP!world, HostP!Kill, HostP!Plant, HostP!PowerLoss,
   HostP!applyAttributesViaPath, HostP!Fail, HostP!Goto, HostP!chmod, HostP!AttrMode,
   HostP!Preserves, HostP!Done, HostP!Inode, HostP!Target, HostP!MayChange, HostP!Writer,
   HostP!SetOn, HostP!chmodTemp, HostP!dropTemp, HostP!chown, HostP!AttrUid, HostP!WantUid,
   HostP!chownTemp, HostP!createTemp, HostP!Regular, HostP!createValidationCandidate,
   HostP!ensureAbsent, HostP!ensureFile, HostP!changed, HostP!Readable, HostP!ensurePresent,
   HostP!explicitMetadataChanged, HostP!openNoFollow, HostP!remove,
   HostP!removeValidationCandidate, HostP!renameTemp, HostP!resolve, HostP!readForLineEdit,
   HostP!runValidation, HostP!syncDir, HostP!syncTemp, HostP!verifyValidationParent,
   HostP!writeTemp, HostP!writeValidationCandidate

LEMMA WriteMeans ==
    /\ HostP!WholeFiles => WholeFiles
    /\ HostP!AttributesSafe => AttributesSafe
    /\ HostP!OutcomeTrue => OutcomeTrue
BY DEF WholeFiles, NoEntry, Removes, AttributesSafe, Regular, WantUid, Writer, OutcomeTrue,
   Owed, changed, Readable, HostP!WholeFiles, HostP!NoEntry, HostP!Removes,
   HostP!AttributesSafe, HostP!Regular, HostP!WantUid, HostP!Writer, HostP!OutcomeTrue,
   HostP!Owed, HostP!changed, HostP!Readable

LEMMA LinkAssumed == HostP!Link!ConstantsOK
BY LinkConstants DEF Link!ConstantsOK, Link!IsEntry, Link!Names, Link!NoEntry, Link!IsWorld,
   HostP!Link!ConstantsOK, HostP!Link!IsEntry, HostP!Link!Names, HostP!Link!NoEntry,
   HostP!Link!IsWorld

LEMMA LinkStarts == ASSUME Link!Init PROVE HostP!Link!Init
BY DEF Link!Init, HostP!Link!Init

LEMMA LinkSteps == ASSUME Link!Next PROVE HostP!Link!Next
<1>1. ASSUME NEW f, NEW n PROVE Link!Follow(f, n) = HostP!Link!Follow(f, n)
  BY Zenon DEF Link!Follow, Link!Names, HostP!Link!Follow, HostP!Link!Names
<1>2. \A f, n : Link!Stat(f, n) = HostP!Link!Stat(f, n)
  BY <1>1 DEF Link!Stat, Link!Exists, HostP!Link!Stat, HostP!Link!Exists
<1>3. \A f, l : Link!Resolved(f, l) = HostP!Link!Resolved(f, l)
  BY <1>2 DEF Link!Resolved, HostP!Link!Resolved
<1>4. \A f, t : Link!PreviewSymlink(f, t) = HostP!Link!PreviewSymlink(f, t)
  BY <1>2 DEF Link!PreviewSymlink, Link!PreviewReplace, Link!Exists, HostP!Link!PreviewSymlink,
     HostP!Link!PreviewReplace, HostP!Link!Exists
<1>5. \A f, t : Link!PreviewHardlink(f, t) = HostP!Link!PreviewHardlink(f, t)
  BY <1>1, <1>2 DEF Link!PreviewHardlink, Link!PreviewReplace, Link!Exists,
     HostP!Link!PreviewHardlink, HostP!Link!PreviewReplace, HostP!Link!Exists
<1>6. \A f, l : Link!DryRun(f, l) = HostP!Link!DryRun(f, l)
  BY <1>3, <1>4, <1>5 DEF Link!DryRun, Link!PreviewAbsent, Link!Exists, HostP!Link!DryRun,
     HostP!Link!PreviewAbsent, HostP!Link!Exists
<1>7. \A o : Link!FirstStep(o) = HostP!Link!FirstStep(o)
  BY DEF Link!FirstStep, HostP!Link!FirstStep
<1>8. Link!Start => HostP!Link!Start
  BY <1>3, <1>6, <1>7 DEF Link!Start, HostP!Link!Start
<1>9. Link!refuse => HostP!Link!refuse
  BY DEF Link!refuse, Link!Fail, HostP!Link!refuse, HostP!Link!Fail
<1>10. Link!assertSymlinkTargetExists => HostP!Link!assertSymlinkTargetExists
  BY <1>2 DEF Link!assertSymlinkTargetExists, Link!Goto, Link!Fail,
     HostP!Link!assertSymlinkTargetExists, HostP!Link!Goto, HostP!Link!Fail
<1>11. Link!ensureSymlink => HostP!Link!ensureSymlink
  BY DEF Link!ensureSymlink, Link!Done, Link!Goto, HostP!Link!ensureSymlink, HostP!Link!Done,
     HostP!Link!Goto
<1>12. Link!ensureHardlink => HostP!Link!ensureHardlink
  BY <1>1, <1>2 DEF Link!ensureHardlink, Link!Done, Link!Goto, Link!Fail,
     HostP!Link!ensureHardlink, HostP!Link!Done, HostP!Link!Goto, HostP!Link!Fail
<1>13. Link!repointSymlink => HostP!Link!repointSymlink
  BY DEF Link!repointSymlink, Link!NoEntry, Link!Goto, HostP!Link!repointSymlink,
     HostP!Link!NoEntry, HostP!Link!Goto
<1>14. Link!assertNoAsideBackup => HostP!Link!assertNoAsideBackup
  BY DEF Link!assertNoAsideBackup, Link!Exists, Link!Fail, Link!Goto,
     HostP!Link!assertNoAsideBackup, HostP!Link!Exists, HostP!Link!Fail, HostP!Link!Goto
<1>15. Link!moveAsideNoReplace => HostP!Link!moveAsideNoReplace
  BY DEF Link!moveAsideNoReplace, Link!ByRename, Link!CanRename, Link!NoEntry, Link!Exists,
     Link!Goto, Link!Fail, HostP!Link!moveAsideNoReplace, HostP!Link!ByRename,
     HostP!Link!CanRename, HostP!Link!NoEntry, HostP!Link!Exists, HostP!Link!Goto,
     HostP!Link!Fail
<1>16. Link!moveAsideHardlink => HostP!Link!moveAsideHardlink
  BY DEF Link!moveAsideHardlink, Link!NoEntry, Link!Goto, Link!Fail,
     HostP!Link!moveAsideHardlink, HostP!Link!NoEntry, HostP!Link!Goto, HostP!Link!Fail
<1>17. Link!createLink => HostP!Link!createLink
  BY DEF Link!createLink, Link!CreateFails, Link!NewEntry, Link!Exists, Link!Done, Link!Fail,
     HostP!Link!createLink, HostP!Link!CreateFails, HostP!Link!NewEntry, HostP!Link!Exists,
     HostP!Link!Done, HostP!Link!Fail
<1>18. Link!replaceWithLink => HostP!Link!replaceWithLink
  BY DEF Link!replaceWithLink, Link!CreateFails, Link!NewEntry, Link!Exists, Link!Goto,
     HostP!Link!replaceWithLink, HostP!Link!CreateFails, HostP!Link!NewEntry,
     HostP!Link!Exists, HostP!Link!Goto
<1>19. Link!restoreAside => HostP!Link!restoreAside
  BY DEF Link!restoreAside, Link!CanRename, Link!NoEntry, Link!Exists, Link!Fail,
     HostP!Link!restoreAside, HostP!Link!CanRename, HostP!Link!NoEntry, HostP!Link!Exists,
     HostP!Link!Fail
<1>20. Link!removeAside => HostP!Link!removeAside
  BY DEF Link!removeAside, Link!NoEntry, Link!Done, Link!Fail, HostP!Link!removeAside,
     HostP!Link!NoEntry, HostP!Link!Done, HostP!Link!Fail
<1>21. Link!ensureAbsent => HostP!Link!ensureAbsent
  BY DEF Link!ensureAbsent, Link!NoEntry, Link!Exists, Link!Done, Link!Fail,
     HostP!Link!ensureAbsent, HostP!Link!NoEntry, HostP!Link!Exists, HostP!Link!Done,
     HostP!Link!Fail
<1>22. (\E e \in Plants : Link!Plant(e)) => (\E e \in Plants : HostP!Link!Plant(e))
  BY DEF Link!Plant, Link!Running, Link!Exists, HostP!Link!Plant, HostP!Link!Running,
     HostP!Link!Exists
<1>23. Link!Kill => HostP!Link!Kill
  BY DEF Link!Kill, Link!Running, HostP!Link!Kill, HostP!Link!Running
<1>24. Link!Again => HostP!Link!Again
  BY DEF Link!Again, HostP!Link!Again
<1> QED
  BY <1>8, <1>9, <1>10, <1>11, <1>12, <1>13, <1>14, <1>15, <1>16, <1>17, <1>18, <1>19, <1>20,
     <1>21, <1>22, <1>23, <1>24 DEF Link!Next, HostP!Link!Next

LEMMA LinkMeans ==
    /\ HostP!Link!DataKept => Link!DataKept
    /\ HostP!Link!DryRunHolds => Link!DryRunHolds
BY DEF Link!DataKept, Link!InPlace, Link!Kept, Link!Names, Link!DryRunHolds, Link!Stat, Link!Follow,
   Link!Exists, HostP!Link!DataKept, HostP!Link!InPlace, HostP!Link!Kept, HostP!Link!Names,
   HostP!Link!DryRunHolds, HostP!Link!Stat, HostP!Link!Follow, HostP!Link!Exists

LEMMA DeclStarts == ASSUME Decl!Init PROVE HostP!Decl!Init
BY DEF Decl!Init, Decl!Bare, Decl!First, Decl!SetContent, Decl!Nothing, HostP!Decl!Init,
   HostP!Decl!Bare, HostP!Decl!First, HostP!Decl!SetContent, HostP!Decl!Nothing

LEMMA DeclSteps == ASSUME Decl!Next PROVE HostP!Decl!Next
BY DEF Decl!Next, Decl!Call, Decl!Option, Decl!SetContent, Decl!SetSource, Decl!SetTemplateData,
   Decl!SetValidation, Decl!Declare, Decl!Accepted, Decl!Construct, Decl!buildSecret,
   Decl!PreserveAllowed, Decl!SecretAllowed, Decl!shouldRenderTemplate, Decl!TargetAllowed,
   Decl!Valid, Decl!validateConfiguration, Decl!targetPath, Decl!Handle, Decl!Apply, Decl!Bare,
   Decl!contentOptions, Decl!ensureOptions, Decl!lineOptions, Decl!Refuses, Decl!fileContent,
   Decl!validatePlanValidation, Decl!ToOp, Decl!Lowers, Decl!planDraft, Decl!Bytes,
   Decl!templateDraft, Decl!templateParam, HostP!Decl!Next, HostP!Decl!Call, HostP!Decl!Option,
   HostP!Decl!SetContent, HostP!Decl!SetSource, HostP!Decl!SetTemplateData,
   HostP!Decl!SetValidation, HostP!Decl!Declare, HostP!Decl!Accepted, HostP!Decl!Construct,
   HostP!Decl!buildSecret, HostP!Decl!PreserveAllowed, HostP!Decl!SecretAllowed,
   HostP!Decl!shouldRenderTemplate, HostP!Decl!TargetAllowed, HostP!Decl!Valid,
   HostP!Decl!validateConfiguration, HostP!Decl!targetPath, HostP!Decl!Handle, HostP!Decl!Apply,
   HostP!Decl!Bare, HostP!Decl!contentOptions, HostP!Decl!ensureOptions, HostP!Decl!lineOptions,
   HostP!Decl!Refuses, HostP!Decl!fileContent, HostP!Decl!validatePlanValidation, HostP!Decl!ToOp,
   HostP!Decl!Lowers, HostP!Decl!planDraft, HostP!Decl!Bytes, HostP!Decl!templateDraft,
   HostP!Decl!templateParam

LEMMA DeclMeans ==
    /\ HostP!Decl!PlanMirrorsFile => Decl!PlanMirrorsFile
BY DEF Decl!PlanMirrorsFile, Decl!Bytes, Decl!Effect, Decl!shouldRenderTemplate, Decl!targetPath,
   Decl!templateParam, HostP!Decl!PlanMirrorsFile, HostP!Decl!Bytes, HostP!Decl!Effect,
   HostP!Decl!shouldRenderTemplate, HostP!Decl!targetPath, HostP!Decl!templateParam

LEMMA ServiceAssumed == HostP!Serve!ConstantsOK
BY ServiceConstants DEF Service!ConstantsOK, Service!IsHost, HostP!Serve!ConstantsOK,
   HostP!Serve!IsHost

LEMMA ServiceStarts == ASSUME Service!Init PROVE HostP!Serve!Init
BY DEF Service!Init, Service!BSD, HostP!Serve!Init, HostP!Serve!BSD

LEMMA ServiceSteps == ASSUME Service!Next PROVE HostP!Serve!Next
BY DEF Service!Next, Service!Apply, Service!Refused, Service!Unsupported, Service!BSD,
   Service!End, Service!sequence, Service!actions, Service!DisableOp, Service!Enabled,
   Service!Runtime, Service!Holds, Service!flagsUpdate, Service!hasFlags, Service!held,
   Service!Act, Service!CanDo, Service!Run, Service!ActFails, Service!Broken, Service!Rest,
   HostP!Serve!Next, HostP!Serve!Apply, HostP!Serve!Refused, HostP!Serve!Unsupported,
   HostP!Serve!BSD, HostP!Serve!End, HostP!Serve!sequence, HostP!Serve!actions,
   HostP!Serve!DisableOp, HostP!Serve!Enabled, HostP!Serve!Runtime, HostP!Serve!Holds,
   HostP!Serve!flagsUpdate, HostP!Serve!hasFlags, HostP!Serve!held, HostP!Serve!Act,
   HostP!Serve!CanDo, HostP!Serve!Run, HostP!Serve!ActFails, HostP!Serve!Broken, HostP!Serve!Rest

LEMMA ServiceMeans ==
    /\ HostP!Serve!ServiceAsDeclared => Service!ServiceAsDeclared
    /\ HostP!Serve!SecondApplyIdle => Service!SecondApplyIdle
BY DEF Service!ServiceAsDeclared, Service!SecondApplyIdle, Service!hasFlags,
   HostP!Serve!ServiceAsDeclared, HostP!Serve!SecondApplyIdle, HostP!Serve!hasFlags

(***************************************************************************)
(* The sum: every behaviour starts as one of FileWrite, whose variables    *)
(* rest while another part runs; the others' are theirs alone.             *)
(***************************************************************************)
SumInv ==
    /\ HostP!FileInv
    /\ part = "link" => HostP!LinkInv /\ HostP!PreviewInv
    /\ part = "decl" => HostP!DeclInv
    /\ part = "service" => HostP!ServiceInv

LEMMA SumStarts == SumInit => SumInv
<1> SUFFICES ASSUME SumInit PROVE SumInv
  OBVIOUS
<1>1. Init
  BY DEF SumInit, Rests
<1>2. HostP!FileInv
  BY <1>1, WriteAssumed, WriteStarts, HostP!FileInit
<1>3. part = "link" => HostP!LinkInv /\ HostP!PreviewInv
  <2>1. part = "link" => Link!Init
    BY DEF SumInit
  <2> QED
    BY <2>1, LinkAssumed, LinkStarts, HostP!LinkStarts, HostP!PreviewStarts
<1>4. part = "decl" => HostP!DeclInv
  <2>1. part = "decl" => Decl!Init
    BY DEF SumInit
  <2> QED
    BY <2>1, DeclStarts, HostP!DeclStarts
<1>5. part = "service" => HostP!ServiceInv
  <2>1. part = "service" => Service!Init
    BY DEF SumInit
  <2> QED
    BY <2>1, ServiceAssumed, ServiceStarts, HostP!ServiceStarts
<1> QED
  BY <1>2, <1>3, <1>4, <1>5 DEF SumInv

\* A step of FileWrite, or of none.
LEMMA WriteKeeps == ASSUME HostP!FileInv, Next \/ UNCHANGED vars PROVE HostP!FileInv'
<1>1. [HostP!Next]_(HostP!vars)
  BY WriteSteps DEF vars, world, run, HostP!vars, HostP!world, HostP!run
<1> QED
  BY <1>1, WriteAssumed, HostP!FileStep

LEMMA LinkKeeps ==
    ASSUME HostP!LinkInv, HostP!PreviewInv, Link!Next \/ UNCHANGED xs
    PROVE  HostP!LinkInv' /\ HostP!PreviewInv'
<1>1. HostP!Link!Next \/ UNCHANGED HostP!Link!vars
  BY LinkSteps DEF xs, HostP!Link!vars
<1> QED
  BY <1>1, LinkAssumed, HostP!LinkKeeps, HostP!LinkRests, HostP!PreviewKeeps, HostP!PreviewRests

LEMMA DeclKeeps == ASSUME HostP!DeclInv, Decl!Next \/ UNCHANGED xs PROVE HostP!DeclInv'
<1>1. HostP!Decl!Next \/ UNCHANGED HostP!Decl!vars
  BY DeclSteps DEF xs, HostP!Decl!vars
<1> QED
  BY <1>1, HostP!DeclKeeps, HostP!DeclRests

LEMMA ServiceKeeps ==
    ASSUME HostP!ServiceInv, Service!Next \/ UNCHANGED xs
    PROVE  HostP!ServiceInv'
<1>1. HostP!Serve!Next \/ UNCHANGED HostP!Serve!vars
  BY ServiceSteps DEF xs, HostP!Serve!vars
<1> QED
  BY <1>1, ServiceAssumed, HostP!ServiceKeeps, HostP!ServiceRests

LEMMA SumKeeps == SumInv /\ [SumNext]_<<part, vars, xs>> => SumInv'
<1> SUFFICES ASSUME SumInv, [SumNext]_<<part, vars, xs>> PROVE SumInv'
  OBVIOUS
<1>1. part' = part /\ (Next \/ UNCHANGED vars)
  BY DEF SumNext
<1>2. part = "link" => Link!Next \/ UNCHANGED xs
  BY DEF SumNext
<1>3. part = "decl" => Decl!Next \/ UNCHANGED xs
  BY DEF SumNext
<1>4. part = "service" => Service!Next \/ UNCHANGED xs
  BY DEF SumNext
<1> QED
  BY <1>1, <1>2, <1>3, <1>4, WriteKeeps, LinkKeeps, DeclKeeps, ServiceKeeps DEF SumInv

LEMMA SumInvariant == SumSpec => []SumInv
BY SumStarts, SumKeeps, PTL DEF SumSpec

\* Whatever is killed and whenever the power goes, the path of a file holds
\* what was there, what somebody put there or the complete content, validated
\* when the file declares a validator, and an apply that ends leaves no
\* temporary file (atomicfile.Write, ensureValidatedFile).
THEOREM AllFilesWhole == SumSpec => []WholeFiles
<1>1. SumInv => WholeFiles
  BY HostP!InvGivesWhole, WriteMeans DEF SumInv
<1> QED
  BY <1>1, SumInvariant, PTL

\* No apply changes owner or mode of a file behind a symlink at its path, and
\* no file it wrote has set-id bits under an owner other than the declared one
\* (applyAttributesTo, atomicfile.Write).
THEOREM AllAttributesSafe == SumSpec => []AttributesSafe
<1>1. SumInv => AttributesSafe
  BY HostP!InvGivesSafe, WriteMeans DEF SumInv
<1> QED
  BY <1>1, SumInvariant, PTL

\* A file's apply that ends well reports a change exactly when what it found
\* was not as declared or could not be read, and so does a dry run, which
\* touches nothing (ensureFile, ensurePresent, ensureAbsent);
\* a service or timer whose apply reports ok is as declared, with the daemon
\* on the declared flags, whatever it was and whatever failed before
\* (converge.go).
THEOREM AllReportsTrue == SumSpec => []ReportsTrue
<1>1. SumInv => OutcomeTrue
  BY HostP!InvGivesOutcome, WriteMeans DEF SumInv
<1>2. SumInv /\ part = "service" => Service!ServiceAsDeclared
  BY HostP!ServicesHold, ServiceMeans DEF SumInv
<1>3. SumInv => ReportsTrue
  BY <1>1, <1>2 DEF ReportsTrue
<1> QED
  BY <1>3, SumInvariant, PTL

\* A second apply of a service, on the host as the first left it, runs
\* nothing but a restart or reload that is not gated or whose input changed
\* (converge.go): the part of AppliesSettle that is about services.
THEOREM ServicesSettle == SumSpec => [](part = "service" => Service!SecondApplyIdle)
<1>1. SumInv => (part = "service" => Service!SecondApplyIdle)
  BY HostP!ServicesHold, ServiceMeans DEF SumInv
<1> QED
  BY <1>1, SumInvariant, PTL

\* An entry a link takes the place of is given up only once the link is in
\* its place, whatever step the apply is killed at, and an entry somebody put
\* at path.old meanwhile survives (replaceWithLink, moveAsideNoReplace).
THEOREM AllDataKept == SumSpec => []DataKept
<1>1. SumInv => DataKept
  BY HostP!KeepsData, LinkMeans DEF SumInv, DataKept
<1> QED
  BY <1>1, SumInvariant, PTL

\* An apply of a link that nothing interferes with does what a dry run just
\* before it said; it fails otherwise only for a missing target, a backup or a
\* directory with entries that stays, or a hard link to a directory
\* (symlink.go, hardlink.go, aside.go): the part of PreviewHolds that is about
\* links.
THEOREM LinksForeseen == SumSpec => [](part = "link" => Link!DryRunHolds)
<1>1. SumInv => (part = "link" => Link!DryRunHolds)
  BY HostP!DryRunForesees, LinkMeans DEF SumInv
<1> QED
  BY <1>1, SumInvariant, PTL

\* Whatever options a file is declared with and in whatever order, the
\* destination builds from the recorded op a file that does the same, or
\* refuses it for want of content or of an encoding (planDraft, planwire.go).
THEOREM AllPlansMirror == SumSpec => []PlanMirrorsFile
<1>1. SumInv => PlanMirrorsFile
  BY HostP!DeclMirrors, DeclMeans DEF SumInv, PlanMirrorsFile
<1> QED
  BY <1>1, SumInvariant, PTL
=============================================================================
