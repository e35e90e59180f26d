--------------------------- MODULE ProcessesProofs ---------------------------
(***************************************************************************)
(* The safety of the processes, for all constants: first the elevated      *)
(* apply, then the sum of all parts.                                       *)
(*                                                                         *)
(* The grace of an elevated apply is long enough because of two facts      *)
(* about the running timers: a command or validator always ends before the *)
(* wrapper is killed (Outlives), and once time has passed since the cancel *)
(* the child knows of it and starts nothing new (Informed).  The latter    *)
(* rests on the cancel byte: it is read before the clock moves on (Heard). *)
(*                                                                         *)
(* The sum's invariant is that of its part: what ProcTreeProofs and        *)
(* ControllerProofs prove of a part's initial states and steps holds of    *)
(* the sum's.                                                              *)
(***************************************************************************)
EXTENDS Processes, TLAPS

(***************************************************************************)
(* The elevated apply                                                      *)
(***************************************************************************)

Working == child \in {"command", "validator"}

\* The types of the variables the argument reads.
Types ==
    /\ grace \in Int /\ grace >= Off /\ grace <= elevatedCancelGrace
    /\ left \in Int /\ ops \in Nat
    /\ watching \in BOOLEAN

Outlives ==
    /\ Working => left >= 0 /\ left < elevatedCancelGrace
    /\ Working /\ grace # Off => left < grace

Informed ==
    grace # Off /\ grace < elevatedCancelGrace => childCtx = "canceled" \/ ~ChildRuns

Heard ==
    /\ pipe = "open" => watching
    /\ pipe = "byte" /\ ~watching => childCtx = "canceled"

Requested ==
    /\ pipe \in {"open", "byte", "eof"}
    /\ grace # Off <=> pipe = "byte"
    /\ pipe = "byte" => ctx # "live"
    /\ wrapper = "killed" => grace = 0

Finished ==
    /\ child \in {"command", "validator", "slow"} => ops > 0
    /\ child = "done" => ops = 0
    /\ result = "ok" => child = "done"

IInv ==
    /\ Types /\ Outlives /\ Informed /\ Heard /\ Requested /\ Finished
    /\ StopOnlyOnRequest /\ ChildNeverKilled

\* The grace exceeds what any command or validator may take.
LEMMA GraceBounds ==
    /\ elevatedCancelGrace \in Nat
    /\ childTimeout + CancelGrace \in Nat /\ childTimeout + CancelGrace < elevatedCancelGrace
    /\ childTimeout + Overrun \in Nat /\ childTimeout + Overrun < elevatedCancelGrace
BY TimeoutAssumption, GraceAssumption, OverrunAssumption DEF elevatedCancelGrace, childTimeout

LEMMA InitIInv == Init => IInv
BY GraceBounds, OpsAssumption
DEF Init, IInv, Types, Outlives, Informed, Heard, Requested, Finished, StopOnlyOnRequest,
    ChildNeverKilled, Working, ChildRuns, Off

\* Canceling the child's context shortens the timer of a command at most.
LEMMA CancelShortens ==
    ASSUME Types, Outlives, CancelChildCtx
    PROVE /\ childCtx' = "canceled"
          /\ left' \in Int
          /\ Working => left' >= 0 /\ left' <= left
BY GraceAssumption DEF Types, Outlives, CancelChildCtx, Working

LEMMA NextIInv == IInv /\ [Next]_vars => IInv'
<1> SUFFICES ASSUME IInv, [Next]_vars PROVE IInv'
    OBVIOUS
<1> USE DEF IInv, pipes, childVars
<1>1. CASE Interrupt
    <2>1. /\ ctx' = "canceled" /\ childCtx' \in {childCtx, "canceled"}
          /\ left' \in Int
          /\ Working => left' >= 0 /\ left' <= left
          /\ UNCHANGED <<pipe, grace, wrapper, child, watching, ops, result>>
        BY <1>1, CancelShortens DEF Interrupt, Types, Outlives
    <2>2. Types' /\ Outlives'
        BY <2>1, TimeoutAssumption, GraceAssumption DEF Types, Outlives, Working,
           elevatedCancelGrace
    <2>3. Informed' /\ Heard' /\ Requested'
        BY <2>1 DEF Informed, Heard, Requested, ChildRuns, elevatedCancelGrace
    <2>4. Finished' /\ StopOnlyOnRequest' /\ ChildNeverKilled'
        BY <2>1 DEF Finished, StopOnlyOnRequest, ChildNeverKilled, Requested
    <2> QED
        BY <2>2, <2>3, <2>4
<1>2. CASE ChunkTimeout
    BY <1>2 DEF ChunkTimeout, Types, Outlives, Informed, Heard, Requested, Finished,
        StopOnlyOnRequest, ChildNeverKilled, Working, ChildRuns, elevatedCancelGrace
<1>3. CASE CancelElevated
    <2>1. /\ pipe' = "byte" /\ pipe = "open" /\ grace' = elevatedCancelGrace
          /\ ctx # "live" /\ ctx' = ctx
          /\ childCtx' \in {childCtx, "canceled"}
          /\ left' \in Int
          /\ Working => left' >= 0 /\ left' <= left
          /\ UNCHANGED <<wrapper, child, watching, ops, result>>
        BY <1>3, CancelShortens DEF CancelElevated, CancelDue, Types, Outlives
    <2> QED
        BY <2>1, GraceBounds
        DEF Types, Outlives, Informed, Heard, Requested, Finished, StopOnlyOnRequest,
            ChildNeverKilled, Working, ChildRuns, Off, elevatedCancelGrace
<1>4. CASE KillWrapper
    <2>1. /\ grace = 0 /\ grace' = 0 /\ wrapper' = "killed"
          /\ childCtx' \in {childCtx, "canceled"}
          /\ left' \in Int
          /\ Working => left' >= 0 /\ left' <= left
          /\ UNCHANGED <<ctx, pipe, child, watching, ops, result>>
        BY <1>4, CancelShortens DEF KillWrapper, KillDue, Types, Outlives
    <2> QED
        BY <2>1
        DEF Types, Outlives, Informed, Heard, Requested, Finished, StopOnlyOnRequest,
            ChildNeverKilled, Working, ChildRuns, Off, elevatedCancelGrace
<1>5. CASE WaitReturns
    BY <1>5 DEF WaitReturns, Types, Outlives, Informed, Heard, Requested, Finished,
        StopOnlyOnRequest, ChildNeverKilled, Working, ChildRuns, elevatedCancelGrace
<1>6. CASE RelayEnds \/ ControllerExits \/ ControllerDies
    <2>1. /\ pipe' \in {pipe, "eof"} /\ (pipe = "byte" => pipe' = "byte")
          /\ UNCHANGED <<ctx, grace, wrapper, child, childCtx, watching, left, ops, result>>
          /\ pipe = "open" => pipe' \in {"open", "eof"}
        BY <1>6 DEF RelayEnds, ControllerExits, ControllerDies
    <2> QED
        BY <2>1
        DEF Types, Outlives, Informed, Heard, Requested, Finished, StopOnlyOnRequest,
            ChildNeverKilled, Working, ChildRuns, elevatedCancelGrace
<1>7. CASE WrapperExits
    BY <1>7 DEF WrapperExits, Types, Outlives, Informed, Heard, Requested, Finished,
        StopOnlyOnRequest, ChildNeverKilled, Working, ChildRuns, elevatedCancelGrace
<1>8. CASE watchCancelPipe
    <2>1. /\ pipe # "open" /\ watching' = FALSE
          /\ childCtx' \in {childCtx, "canceled"}
          /\ pipe = "byte" => childCtx' = "canceled"
          /\ pipe = "eof" => childCtx' = childCtx
          /\ left' \in Int
          /\ Working => left' >= 0 /\ left' <= left
          /\ UNCHANGED <<ctx, pipe, grace, wrapper, child, ops, result>>
        BY <1>8, CancelShortens DEF watchCancelPipe, Types, Outlives
    <2>2. Types'
        BY <2>1, TimeoutAssumption, GraceAssumption DEF Types, elevatedCancelGrace
    <2>3. Outlives'
        BY <2>1, TimeoutAssumption, GraceAssumption DEF Types, Outlives, Working,
           elevatedCancelGrace
    <2>4. Informed' /\ Heard' /\ Requested'
        BY <2>1 DEF Informed, Heard, Requested, ChildRuns, elevatedCancelGrace
    <2>5. Finished' /\ StopOnlyOnRequest' /\ ChildNeverKilled'
        BY <2>1 DEF Finished, StopOnlyOnRequest, ChildNeverKilled, Requested
    <2> QED
        BY <2>2, <2>3, <2>4, <2>5
<1>9. CASE StartWork
    <2>1. /\ childCtx = "live" /\ child = "idle"
          /\ child' \in {"command", "validator", "slow"}
          /\ left' \in Int
          /\ child' # "slow" => left' >= 0 /\ left' < elevatedCancelGrace
          /\ UNCHANGED <<ctx, pipe, grace, wrapper, childCtx, watching, ops, result>>
          /\ ops > 0
        BY <1>9, GraceBounds DEF StartWork, NextOp, Types
    <2>2. grace # Off => grace = elevatedCancelGrace
        BY <2>1, GraceBounds DEF Informed, Types, ChildRuns
    <2> QED
        BY <2>1, <2>2, GraceBounds
        DEF Types, Outlives, Informed, Heard, Requested, Finished, StopOnlyOnRequest,
            ChildNeverKilled, Working, ChildRuns, elevatedCancelGrace
<1>10. CASE EndWork \/ EndSlow
    <2>1. /\ child \in {"command", "validator", "slow"}
          /\ child' \in {"idle", "stopped", "failed"}
          /\ left' = Off
          /\ UNCHANGED <<ctx, pipe, grace, wrapper, childCtx, watching, result>>
        BY <1>10 DEF EndWork, EndSlow, EndOp
    <2>2. ops' \in Nat
        BY <1>10, <2>1 DEF EndWork, EndSlow, EndOp, Types, Finished
    <2> QED
        BY <2>1, <2>2
        DEF Types, Outlives, Informed, Heard, Requested, Finished, StopOnlyOnRequest,
            ChildNeverKilled, Working, ChildRuns, Off, elevatedCancelGrace
<1>11. CASE ChildExits
    BY <1>11 DEF ChildExits, Types, Outlives, Informed, Heard, Requested, Finished,
        StopOnlyOnRequest, ChildNeverKilled, Working, ChildRuns, elevatedCancelGrace
<1>12. CASE WriteUnread
    BY <1>12 DEF WriteUnread, sigpipeIgnored, Types, Outlives, Informed, Heard, Requested,
        Finished, StopOnlyOnRequest, ChildNeverKilled, Working, ChildRuns, elevatedCancelGrace
<1>13. CASE Tick
    <2>1. /\ left # 0 /\ child # "idle"
          /\ ~(watching /\ pipe = "byte" /\ ChildRuns)
          /\ grace' = Down(grace) /\ left' = Down(left)
          /\ UNCHANGED <<ctx, pipe, wrapper, child, childCtx, watching, ops, result>>
        BY <1>13 DEF Tick, Quiet
    <2>2. /\ grace' \in Int /\ left' \in Int
          /\ grace' <= grace /\ grace' >= Off
          /\ grace' = Off <=> grace = Off
          /\ Working => left' = left - 1 /\ left' >= 0
          /\ Working /\ grace # Off => grace' = grace - 1
          /\ grace = 0 => grace' = 0
        BY <2>1 DEF Types, Outlives, Down, Off
    <2>3. grace # Off => childCtx = "canceled" \/ ~ChildRuns
        BY <2>1 DEF Requested, Heard
    <2>4. Types' /\ Outlives'
        BY <2>1, <2>2, GraceBounds DEF Types, Outlives, Working, elevatedCancelGrace
    <2>5. Informed' /\ Heard' /\ Finished' /\ StopOnlyOnRequest' /\ ChildNeverKilled'
        BY <2>1, <2>2, <2>3
        DEF Informed, Heard, Finished, StopOnlyOnRequest, ChildNeverKilled, ChildRuns
    <2>6. Requested'
        BY <2>1, <2>2 DEF Requested
    <2> QED
        BY <2>4, <2>5, <2>6
<1>14. CASE UNCHANGED vars
    BY <1>14 DEF vars, Types, Outlives, Informed, Heard, Requested, Finished,
        StopOnlyOnRequest, ChildNeverKilled, Working, ChildRuns, elevatedCancelGrace
<1> QED
    BY <1>1, <1>2, <1>3, <1>4, <1>5, <1>6, <1>7, <1>8, <1>9, <1>10, <1>11, <1>12, <1>13, <1>14
    DEF Next, Program, Environment

\* The inductive invariant holds in every reachable state.
THEOREM Invariance == Spec => []IInv
BY InitIInv, NextIInv, PTL DEF Spec

LEMMA ElevatedFollows ==
    ASSUME IInv
    PROVE  GraceSuffices /\ ChildRunsOn /\ OkMeansApplied
<1>1. GraceSuffices
    BY DEF IInv, GraceSuffices, Requested, Outlives, Types, Working, Off
<1>2. QED  BY <1>1 DEF IInv, Finished, ChildRunsOn, OkMeansApplied

\* Whatever the command timeout and the cancel grace: when the wrapper is
\* killed (runElevatedCmd's WaitDelay), no command or validator of the root
\* child is cut off, and none starts later.
THEOREM GraceIsEnough == Spec => []GraceSuffices
<1>1. IInv => GraceSuffices
    BY ElevatedFollows
<1> QED
    BY <1>1, Invariance, PTL

\* The child is canceled only after the controller was (watchCancelPipe
\* ignores an end of file), is never killed by a write nobody reads, and a
\* success of the elevated apply means that every op was applied.
THEOREM ChildIsSafe == Spec => [](ChildRunsOn /\ OkMeansApplied)
<1>1. IInv => ChildRunsOn /\ OkMeansApplied
    BY ElevatedFollows
<1> QED
    BY <1>1, Invariance, PTL

(***************************************************************************)
(* The parts: a part here is the part that was proved about                *)
(***************************************************************************)
TreeP == INSTANCE ProcTreeProofs WITH
    suid <- x1, proc <- x2, births <- x3, strangers <- x4, resumes <- x5, pc <- x6, round <- x7,
    seen <- x8, queue <- x9, stopped <- x10, current <- x11, clean <- x12, killed <- x13,
    bound <- x14, exit <- x15, outcome <- x16, victims <- x17

CrewP == INSTANCE ControllerProofs WITH
    cancelled <- x1, fleetCtx <- x2, groupCtx <- x3, group <- x4, host <- x5, hostCtx <- x6,
    err <- x7, okCount <- x8, failed <- x9, firstErr <- x10, errs <- x11, result <- x12,
    at <- x1, private <- x2, bin <- x3, buildDir <- x4, retired <- x5, cache <- x6, holder <- x7,
    pc <- x8, dir <- x9, spoiled <- x10, known <- x11, changes <- x12, closed <- x13,
    provider <- x1, used <- x2, entries <- x3, heap <- x4, probed <- x5, probes <- x6,
    world <- x7, events <- x8, caller <- x9, lookups <- x10, seen <- x11, answers <- x12,
    lies <- x13,
    setting <- x1, pushNo <- x2, pushPc <- x3, chunkNo <- x4, ctx <- x5, gonfPath <- x6,
    failing <- x7, results <- x8, hostBin <- x9, staging <- x10, sticky <- x11, files <- x12,
    sessions <- x13, lost <- x14, applied <- x15, reads <- x16, ran <- x17

LEMMA TreeAssumed == TreeP!ConstantsOK
BY TreeConstants DEF Tree!ConstantsOK, Tree!Gonf, Tree!InitProc, TreeP!ConstantsOK, TreeP!Gonf,
   TreeP!InitProc

LEMMA TreeStarts == ASSUME Tree!Init PROVE TreeP!Init
BY DEF Tree!Init, Tree!Free, Tree!InitProc, Tree!Gonf, Tree!NoTable, TreeP!Init, TreeP!Free,
   TreeP!InitProc, TreeP!Gonf, TreeP!NoTable

LEMMA TreeSteps == ASSUME Tree!Next PROVE TreeP!Next
BY DEF Tree!Next, Tree!ReapLeader, Tree!Free, Tree!InitProc, Tree!Gonf, Tree!search, Tree!Return,
   Tree!LeaderReaped, Tree!Exists, Tree!kernel, Tree!runError, Tree!World, Tree!Exit, Tree!Dies,
   Tree!Generation, Tree!Fork, Tree!Born, Tree!Vacant, Tree!Reap, Tree!Resume, Tree!StopApply,
   Tree!Stranger, Tree!Live, Tree!killTree, Tree!Freeze, Tree!descendants, Tree!Id,
   Tree!KillLeader, Tree!AfterKill, Tree!Signallable, Tree!KillStopped, Tree!Sigstop,
   Tree!Stopped, Tree!StopLeader, Tree!Verify, Tree!NoTable, Tree!Front, Tree!Last, TreeP!Next,
   TreeP!ReapLeader, TreeP!Free, TreeP!InitProc, TreeP!Gonf, TreeP!search, TreeP!Return,
   TreeP!LeaderReaped, TreeP!Exists, TreeP!kernel, TreeP!runError, TreeP!World, TreeP!Exit,
   TreeP!Dies, TreeP!Generation, TreeP!Fork, TreeP!Born, TreeP!Vacant, TreeP!Reap, TreeP!Resume,
   TreeP!StopApply, TreeP!Stranger, TreeP!Live, TreeP!killTree, TreeP!Freeze, TreeP!descendants,
   TreeP!Id, TreeP!KillLeader, TreeP!AfterKill, TreeP!Signallable, TreeP!KillStopped,
   TreeP!Sigstop, TreeP!Stopped, TreeP!StopLeader, TreeP!Verify, TreeP!NoTable, TreeP!Front,
   TreeP!Last

LEMMA CrewAssumed == CrewP!ConstantsOK
BY FleetConstants DEF Crew!ConstantsOK, Crew!Members, Crew!IsFiniteSet, CrewP!ConstantsOK,
   CrewP!Members, CrewP!IsFiniteSet

LEMMA CrewStarts == ASSUME Crew!Init PROVE CrewP!Init
BY DEF Crew!Init, Crew!Pending, CrewP!Init, CrewP!Pending

LEMMA CrewSteps == ASSUME Crew!Next PROVE CrewP!Next
BY DEF Crew!Next, Crew!Deadline, Crew!tally, Crew!GroupStep, Crew!Collect, Crew!Cancelled,
   Crew!Members, Crew!Tallied, Crew!Deliver, Crew!HostStep, Crew!Finish, Crew!record, Crew!Leave,
   Crew!Start, Crew!Interrupt, Crew!Return, Crew!Joined, Crew!Cardinality, CrewP!Next,
   CrewP!Deadline, CrewP!tally, CrewP!GroupStep, CrewP!Collect, CrewP!Cancelled, CrewP!Members,
   CrewP!Tallied, CrewP!Deliver, CrewP!HostStep, CrewP!Finish, CrewP!record, CrewP!Leave,
   CrewP!Start, CrewP!Interrupt, CrewP!Return, CrewP!Joined, CrewP!Cardinality

LEMMA PushAssumed == CrewP!Push!ConstantsOK
BY DeliveryConstants DEF Push!ConstantsOK, Push!Controller, CrewP!Push!ConstantsOK,
   CrewP!Push!Controller

LEMMA PushStarts == ASSUME Push!Init PROVE CrewP!Push!Init
BY DEF Push!Init, Push!Deliveries, Push!Empty, CrewP!Push!Init, CrewP!Push!Deliveries,
   CrewP!Push!Empty

LEMMA PushSteps == ASSUME Push!Next PROVE CrewP!Push!Next
BY DEF Push!Next, Push!Cancel, Push!history, Push!host, Push!Controls, Push!BuildTarget, Push!Fail,
   Push!End, Push!Go, Push!Gate, Push!DecryptsSealed, Push!Release, Push!Path, Push!SealedRefs,
   Push!Deliveries, Push!SealedReads, Push!Seals, Push!Sticky, Push!HasBlobs, Push!Reads,
   Push!Install, Push!Controller, Push!InstallPath, Push!None, Push!Unstage, Push!Mktemp,
   Push!NextDelivery, Push!Probe, Push!HasSchema, Push!ProbeRelease, Push!RemoveStaging,
   Push!RemoveSticky, Push!Open, Push!TakesRelayed, Push!Uploaded, Push!Require, Push!NeedsContext,
   Push!D, Push!Returned, Push!AfterFailure, Push!AfterLast, Push!Attached, Push!LastChunk,
   Push!Scp, Push!Start, Push!Preview, Push!SealedReadElsewhere, Push!StreamChunk, Push!Keyed,
   Push!Upload, Push!Verify, Push!Drop, Push!Linger, Push!RemoteStep, Push!Apply, Push!Becomes,
   Push!Found, Push!PlainReads, Push!control, Push!Extract, Push!Prepare, Push!Empty,
   Push!RemoveDir, Push!Stage, Push!Decrypts, Push!NoneSealed, CrewP!Push!Next, CrewP!Push!Cancel,
   CrewP!Push!history, CrewP!Push!host, CrewP!Push!Controls, CrewP!Push!BuildTarget,
   CrewP!Push!Fail, CrewP!Push!End, CrewP!Push!Go, CrewP!Push!Gate, CrewP!Push!DecryptsSealed,
   CrewP!Push!Release, CrewP!Push!Path, CrewP!Push!SealedRefs, CrewP!Push!Deliveries,
   CrewP!Push!SealedReads, CrewP!Push!Seals, CrewP!Push!Sticky, CrewP!Push!HasBlobs,
   CrewP!Push!Reads, CrewP!Push!Install, CrewP!Push!Controller, CrewP!Push!InstallPath,
   CrewP!Push!None, CrewP!Push!Unstage, CrewP!Push!Mktemp, CrewP!Push!NextDelivery,
   CrewP!Push!Probe, CrewP!Push!HasSchema, CrewP!Push!ProbeRelease, CrewP!Push!RemoveStaging,
   CrewP!Push!RemoveSticky, CrewP!Push!Open, CrewP!Push!TakesRelayed, CrewP!Push!Uploaded,
   CrewP!Push!Require, CrewP!Push!NeedsContext, CrewP!Push!D, CrewP!Push!Returned,
   CrewP!Push!AfterFailure, CrewP!Push!AfterLast, CrewP!Push!Attached, CrewP!Push!LastChunk,
   CrewP!Push!Scp, CrewP!Push!Start, CrewP!Push!Preview, CrewP!Push!SealedReadElsewhere,
   CrewP!Push!StreamChunk, CrewP!Push!Keyed, CrewP!Push!Upload, CrewP!Push!Verify, CrewP!Push!Drop,
   CrewP!Push!Linger, CrewP!Push!RemoteStep, CrewP!Push!Apply, CrewP!Push!Becomes,
   CrewP!Push!Found, CrewP!Push!PlainReads, CrewP!Push!control, CrewP!Push!Extract,
   CrewP!Push!Prepare, CrewP!Push!Empty, CrewP!Push!RemoveDir, CrewP!Push!Stage,
   CrewP!Push!Decrypts, CrewP!Push!NoneSealed

LEMMA BuildStarts == ASSUME Build!Init PROVE CrewP!Build!Init
BY DEF Build!Init, Build!Dirs, Build!Platforms, CrewP!Build!Init, CrewP!Build!Dirs,
   CrewP!Build!Platforms

LEMMA BuildSteps == ASSUME Build!Next PROVE CrewP!Build!Next
BY DEF Build!Next, Build!Close, Build!Ended, Build!Platforms, Build!removeBuildDir, Build!Dirs,
   Build!isOurDir, Build!Others, Build!Chmod, Build!Event, Build!shared, Build!Edit, Build!Made,
   Build!Plant, Build!Sweep, Build!Step, Build!Discard, Build!At, Build!Out, Build!Return,
   Build!Go, Build!disk, Build!history, Build!retireLocked, Build!Forget, Build!GoBuild,
   Build!GoBuilt, Build!Installed, Build!ReuseBinary, Build!verifyBinary, Build!ReuseDir,
   Build!verifyBuildDir, Build!SumBinary, Build!checkOwnRegularFile, Build!VerifyBuilt,
   Build!buildCacheGet, Build!buildCacheSet, Build!buildKeyLock, Build!privateBuildDir,
   Build!newBuildDir, Build!retireBuildDir, CrewP!Build!Next, CrewP!Build!Close,
   CrewP!Build!Ended, CrewP!Build!Platforms, CrewP!Build!removeBuildDir, CrewP!Build!Dirs,
   CrewP!Build!isOurDir, CrewP!Build!Others, CrewP!Build!Chmod, CrewP!Build!Event,
   CrewP!Build!shared, CrewP!Build!Edit, CrewP!Build!Made, CrewP!Build!Plant, CrewP!Build!Sweep,
   CrewP!Build!Step, CrewP!Build!Discard, CrewP!Build!At, CrewP!Build!Out, CrewP!Build!Return,
   CrewP!Build!Go, CrewP!Build!disk, CrewP!Build!history, CrewP!Build!retireLocked,
   CrewP!Build!Forget, CrewP!Build!GoBuild, CrewP!Build!GoBuilt, CrewP!Build!Installed,
   CrewP!Build!ReuseBinary, CrewP!Build!verifyBinary, CrewP!Build!ReuseDir,
   CrewP!Build!verifyBuildDir, CrewP!Build!SumBinary, CrewP!Build!checkOwnRegularFile,
   CrewP!Build!VerifyBuilt, CrewP!Build!buildCacheGet, CrewP!Build!buildCacheSet,
   CrewP!Build!buildKeyLock, CrewP!Build!privateBuildDir, CrewP!Build!newBuildDir,
   CrewP!Build!retireBuildDir

LEMMA SecretAssumed == CrewP!Secret!ConstantsOK
BY SecretConstants DEF Secret!ConstantsOK, Secret!Worlds, Secret!Contents, Secret!Absent,
   Secret!Keys, CrewP!Secret!ConstantsOK, CrewP!Secret!Worlds, CrewP!Secret!Contents,
   CrewP!Secret!Absent, CrewP!Secret!Keys

LEMMA SecretStarts == ASSUME Secret!Init PROVE CrewP!Secret!Init
BY DEF Secret!Init, Secret!Idle, Secret!Err, Secret!Keys, CrewP!Secret!Init, CrewP!Secret!Idle,
   CrewP!Secret!Err, CrewP!Secret!Keys

LEMMA SecretSteps == ASSUME Secret!Next PROVE CrewP!Secret!Next
BY DEF Secret!Next, Secret!Cancel, Secret!At, Secret!History, Secret!Shared, Secret!World,
   Secret!Lock, Secret!Changed, Secret!Key, Secret!Now, Secret!FileNow, Secret!ItemNow,
   Secret!Absent, Secret!NewDir, Secret!Empty, Secret!Keys, Secret!RemoveDir, Secret!Rotate,
   Secret!RunProbe, Secret!SetSecretProvider, Secret!Start, Secret!Failed, Secret!Err,
   Secret!Idle, Secret!Step, Secret!Enter, Secret!EntryOf, Secret!Lead, Secret!Fact, Secret!Go,
   Secret!WasSo, Secret!Lookup, Secret!FromPrimary, Secret!Checked, Secret!NotFound,
   Secret!Provided, Secret!Leave, Secret!Missing, Secret!rootVanished, Secret!OpenRoot,
   Secret!OpenWalk, Secret!Ok, Secret!Read, Secret!Outcomes, Secret!Return, Secret!Wait,
   Secret!checkContract, CrewP!Secret!Next, CrewP!Secret!Cancel, CrewP!Secret!At,
   CrewP!Secret!History, CrewP!Secret!Shared, CrewP!Secret!World, CrewP!Secret!Lock,
   CrewP!Secret!Changed, CrewP!Secret!Key, CrewP!Secret!Now, CrewP!Secret!FileNow,
   CrewP!Secret!ItemNow, CrewP!Secret!Absent, CrewP!Secret!NewDir, CrewP!Secret!Empty,
   CrewP!Secret!Keys, CrewP!Secret!RemoveDir, CrewP!Secret!Rotate, CrewP!Secret!RunProbe,
   CrewP!Secret!SetSecretProvider, CrewP!Secret!Start, CrewP!Secret!Failed, CrewP!Secret!Err,
   CrewP!Secret!Idle, CrewP!Secret!Step, CrewP!Secret!Enter, CrewP!Secret!EntryOf,
   CrewP!Secret!Lead, CrewP!Secret!Fact, CrewP!Secret!Go, CrewP!Secret!WasSo, CrewP!Secret!Lookup,
   CrewP!Secret!FromPrimary, CrewP!Secret!Checked, CrewP!Secret!NotFound, CrewP!Secret!Provided,
   CrewP!Secret!Leave, CrewP!Secret!Missing, CrewP!Secret!rootVanished, CrewP!Secret!OpenRoot,
   CrewP!Secret!OpenWalk, CrewP!Secret!Ok, CrewP!Secret!Read, CrewP!Secret!Outcomes,
   CrewP!Secret!Return, CrewP!Secret!Wait, CrewP!Secret!checkContract

LEMMA TreeMeans ==
    /\ TreeP!VerdictIsTrue => Tree!VerdictIsTrue
    /\ TreeP!NoStrangerKilled => Tree!NoStrangerKilled
    /\ TreeP!TreeDealtWith => Tree!TreeDealtWith
BY DEF Tree!VerdictIsTrue, Tree!NoStrangerKilled, Tree!TreeDealtWith, Tree!NoneLeftStopped,
   Tree!TreeKilled, Tree!Live, TreeP!VerdictIsTrue, TreeP!NoStrangerKilled, TreeP!TreeDealtWith,
   TreeP!NoneLeftStopped, TreeP!TreeKilled, TreeP!Live

LEMMA CrewMeans ==
    /\ CrewP!ReportIsTrue => Crew!ReportIsTrue
    /\ CrewP!FailureStopsFleet => Crew!FailureStopsFleet
BY DEF Crew!ReportIsTrue, Crew!CanceledMeansInterrupt, Crew!FailuresReported,
   Crew!SuccessIsComplete, Crew!Members, Crew!FailureStopsFleet, Crew!Cardinality,
   CrewP!ReportIsTrue, CrewP!CanceledMeansInterrupt, CrewP!FailuresReported,
   CrewP!SuccessIsComplete, CrewP!Members, CrewP!FailureStopsFleet, CrewP!Cardinality

LEMMA PushMeans ==
    /\ CrewP!Push!SuccessMeansApplied => Push!SuccessMeansApplied
    /\ CrewP!Push!FreshBlobs => Push!FreshBlobs
    /\ CrewP!Push!SecretsSealed => Push!SecretsSealed
    /\ CrewP!Push!BinaryFits => Push!BinaryFits
    /\ CrewP!Push!CleanedUp => Push!CleanedUp
BY DEF Push!SuccessMeansApplied, Push!Deliveries, Push!FreshBlobs, Push!Linger, Push!SecretsSealed,
   Push!BinaryFits, Push!Controller, Push!DecryptsSealed, Push!HasSchema, Push!CleanedUp,
   CrewP!Push!SuccessMeansApplied, CrewP!Push!Deliveries, CrewP!Push!FreshBlobs, CrewP!Push!Linger,
   CrewP!Push!SecretsSealed, CrewP!Push!BinaryFits, CrewP!Push!Controller,
   CrewP!Push!DecryptsSealed, CrewP!Push!HasSchema, CrewP!Push!CleanedUp

LEMMA BuildMeans ==
    /\ CrewP!Build!BinariesHold => Build!BinariesHold
    /\ CrewP!Build!NothingLeft => Build!NothingLeft
BY DEF Build!BinariesHold, Build!At, Build!Out, Build!isOurDir, Build!NothingLeft, Build!Made,
   Build!Dirs, CrewP!Build!BinariesHold, CrewP!Build!At, CrewP!Build!Out, CrewP!Build!isOurDir,
   CrewP!Build!NothingLeft, CrewP!Build!Made, CrewP!Build!Dirs

LEMMA SecretMeans ==
    /\ CrewP!Secret!FactsHold => Secret!FactsHold
BY DEF Secret!FactsHold, Secret!Keys, Secret!Cardinality, CrewP!Secret!FactsHold,
   CrewP!Secret!Keys, CrewP!Secret!Cardinality

(***************************************************************************)
(* The sum                                                                 *)
(***************************************************************************)

SumInv ==
    /\ IInv
    /\ part = "tree" => TreeP!TreeInv
    /\ part = "fleet" => CrewP!FleetInv
    /\ part = "delivery" => CrewP!Push!DeliveryInv
    /\ part = "build" => CrewP!BuildsInv
    /\ part = "secret" => CrewP!LookupsInv /\ CrewP!Attempts

LEMMA SumStarts ==
    ASSUME SumInit
    PROVE  SumInv
<1>1. IInv
    BY InitIInv DEF SumInit
<1>2. CASE part = "elevated"
    BY <1>1, <1>2 DEF SumInv
<1>3. CASE part = "tree" /\ Tree!Init
    BY <1>1, <1>3, TreeAssumed, TreeStarts, TreeP!InitOK DEF SumInv
<1>4. CASE part = "fleet" /\ Crew!Init
    BY <1>1, <1>4, CrewAssumed, CrewStarts, CrewP!FleetInit DEF SumInv
<1>5. CASE part = "delivery" /\ Push!Init
    BY <1>1, <1>5, PushAssumed, PushStarts, CrewP!InitInv DEF SumInv
<1>6. CASE part = "build" /\ Build!Init
    BY <1>1, <1>6, BuildStarts, CrewP!BuildsStart DEF SumInv
<1>7. CASE part = "secret" /\ Secret!Init
    BY <1>1, <1>7, SecretAssumed, SecretStarts, CrewP!LookupsStart DEF SumInv
<1>8. QED  BY <1>2, <1>3, <1>4, <1>5, <1>6, <1>7 DEF SumInit

\* A step of a part, or of none, keeps the part's invariant.
LEMMA TreeKeeps ==
    ASSUME TreeP!TreeInv, Tree!Next \/ UNCHANGED xs
    PROVE  TreeP!TreeInv'
<1>1. CASE Tree!Next
    BY <1>1, TreeAssumed, TreeSteps, TreeP!StepKeeps
<1>2. CASE UNCHANGED xs
    <2>1. UNCHANGED TreeP!vars
        BY <1>2 DEF xs, TreeP!vars, TreeP!kernel, TreeP!search
    <2>2. QED  BY <2>1, TreeP!StutterOK
<1>3. QED  BY <1>1, <1>2

LEMMA FleetKeeps ==
    ASSUME CrewP!FleetInv, Crew!Next \/ UNCHANGED xs
    PROVE  CrewP!FleetInv'
<1>1. [CrewP!Next]_(CrewP!vars)
    BY CrewSteps DEF xs, CrewP!vars, CrewP!tally
<1>2. QED  BY <1>1, CrewAssumed, CrewP!FleetStep

LEMMA DeliveryKeeps ==
    ASSUME CrewP!Push!DeliveryInv, Push!Next \/ UNCHANGED xs
    PROVE  CrewP!Push!DeliveryInv'
<1>1. CASE Push!Next
    BY <1>1, PushAssumed, PushSteps, CrewP!NextInv
<1>2. CASE UNCHANGED xs
    <2>1. UNCHANGED CrewP!Push!vars
        BY <1>2 DEF xs, CrewP!Push!vars, CrewP!Push!control, CrewP!Push!host, CrewP!Push!history
    <2>2. QED  BY <2>1, CrewP!StutterInv
<1>3. QED  BY <1>1, <1>2

LEMMA BuildKeeps ==
    ASSUME CrewP!BuildsInv, Build!Next \/ UNCHANGED xs
    PROVE  CrewP!BuildsInv'
<1>1. [CrewP!Build!Next]_(CrewP!Build!vars)
    BY BuildSteps DEF xs, CrewP!Build!vars, CrewP!Build!disk, CrewP!Build!shared,
       CrewP!Build!history
<1>2. QED  BY <1>1, CrewP!BuildsStep

LEMMA SecretKeeps ==
    ASSUME CrewP!LookupsInv, CrewP!Attempts, Secret!Next \/ UNCHANGED xs
    PROVE  (CrewP!LookupsInv /\ CrewP!Attempts)'
<1>1. [CrewP!Secret!Next]_(CrewP!Secret!vars)
    BY SecretSteps DEF xs, CrewP!Secret!vars
<1>2. QED  BY <1>1, CrewP!LookupsStep, CrewP!AttemptsHold

LEMMA SumKeeps ==
    ASSUME SumInv, [SumNext]_<<part, vars, xs>>
    PROVE  SumInv'
<1>1. part' = part /\ IInv'
    BY NextIInv DEF SumInv, SumNext
<1>2. part = "tree" => Tree!Next \/ UNCHANGED xs
    BY DEF SumNext
<1>3. part = "fleet" => Crew!Next \/ UNCHANGED xs
    BY DEF SumNext
<1>4. part = "delivery" => Push!Next \/ UNCHANGED xs
    BY DEF SumNext
<1>5. part = "build" => Build!Next \/ UNCHANGED xs
    BY DEF SumNext
<1>6. part = "secret" => Secret!Next \/ UNCHANGED xs
    BY DEF SumNext
<1>7. part = "tree" => TreeP!TreeInv'
    BY <1>2, TreeKeeps DEF SumInv
<1>8. part = "fleet" => CrewP!FleetInv'
    BY <1>3, FleetKeeps DEF SumInv
<1>9. part = "delivery" => CrewP!Push!DeliveryInv'
    BY <1>4, DeliveryKeeps DEF SumInv
<1>10. part = "build" => CrewP!BuildsInv'
    BY <1>5, BuildKeeps DEF SumInv
<1>11. part = "secret" => (CrewP!LookupsInv /\ CrewP!Attempts)'
    BY <1>6, SecretKeeps DEF SumInv
<1>12. QED  BY <1>1, <1>7, <1>8, <1>9, <1>10, <1>11 DEF SumInv

\* The invariant of its part holds in every state of every behaviour.
THEOREM SumInvariance == SumSpec => []SumInv
BY SumStarts, SumKeeps, PTL DEF SumSpec

\* What gonf reports of an elevated apply, a validator, a fleet run, a
\* delivery and a secret lookup is so, for all constants.
THEOREM AllReportsTrue == SumSpec => []ReportsTrue
<1>1. SumInv => ReportsTrue
    <2> SUFFICES ASSUME SumInv PROVE ReportsTrue
        OBVIOUS
    <2>1. OkMeansApplied
        BY ElevatedFollows DEF SumInv
    <2>2. part = "tree" => Tree!VerdictIsTrue
        BY TreeP!VerdictFollows, TreeMeans DEF SumInv
    <2>3. part = "fleet" => Crew!ReportIsTrue
        BY CrewAssumed, CrewP!ReportFollows, CrewMeans DEF SumInv
    <2>4. part = "delivery" => Push!SuccessMeansApplied
        BY PushAssumed, CrewP!DeliveryFollows, PushMeans DEF SumInv
    <2>5. part = "secret" => Secret!FactsHold
        BY CrewP!FactsFollow, SecretMeans DEF SumInv
    <2>6. QED  BY <2>1, <2>2, <2>3, <2>4, <2>5 DEF ReportsTrue
<1>2. QED  BY <1>1, SumInvariance, PTL

\* The timeout kill hits no process outside the validator's tree, however
\* pids are reused, if nothing was resumed from outside and no process
\* changed its user.
THEOREM KillHitsNoStranger == SumSpec => []NoStrangerKilled
<1>1. SumInv => NoStrangerKilled
    <2> SUFFICES ASSUME SumInv PROVE NoStrangerKilled
        OBVIOUS
    <2>1. part = "tree" => Tree!NoStrangerKilled
        BY TreeP!VictimsOfTree, TreeMeans DEF SumInv
    <2>2. QED  BY <2>1 DEF NoStrangerKilled
<1>2. QED  BY <1>1, SumInvariance, PTL

\* The timeout kill leaves nothing of the validator's tree, running or
\* stopped.
THEOREM KillLeavesNothing == SumSpec => []TreeDealtWith
<1>1. SumInv => TreeDealtWith
    <2> SUFFICES ASSUME SumInv PROVE TreeDealtWith
        OBVIOUS
    <2>1. part = "tree" => Tree!TreeDealtWith
        BY TreeAssumed, TreeP!DealtWith, TreeMeans DEF SumInv
    <2>2. QED  BY <2>1 DEF TreeDealtWith
<1>2. QED  BY <1>1, SumInvariance, PTL

\* A chunk reads the blobs of its own push, and a push installs the binary
\* that was built for it.
THEOREM AllBlobsFresh == SumSpec => []FreshBlobs
<1>1. SumInv => FreshBlobs
    <2> SUFFICES ASSUME SumInv PROVE FreshBlobs
        OBVIOUS
    <2>1. part = "delivery" => Push!FreshBlobs
        BY PushAssumed, CrewP!DeliveryFollows, PushMeans DEF SumInv
    <2>2. part = "build" => Build!BinariesHold
        BY CrewP!BuildsFollow, BuildMeans DEF SumInv
    <2>3. QED  BY <2>1, <2>2 DEF FreshBlobs
<1>2. QED  BY <1>1, SumInvariance, PTL

\* A secret blob is on the host sealed only, and only a gonf fit for a chunk
\* runs it.
THEOREM AllSecretsSealed == SumSpec => []SecretsSealed
<1>1. SumInv => SecretsSealed
    <2> SUFFICES ASSUME SumInv PROVE SecretsSealed
        OBVIOUS
    <2>1. part = "delivery" => Push!SecretsSealed /\ Push!BinaryFits
        BY PushAssumed, CrewP!DeliveryFollows, PushMeans DEF SumInv
    <2>2. QED  BY <2>1 DEF SecretsSealed
<1>2. QED  BY <1>1, SumInvariance, PTL

\* A failing host ends its cluster and the fleet, and neither a delivery nor
\* a build leaves a directory behind.
THEOREM AllFailuresContained == SumSpec => []FailuresContained
<1>1. SumInv => FailuresContained
    <2> SUFFICES ASSUME SumInv PROVE FailuresContained
        OBVIOUS
    <2>1. part = "fleet" => Crew!FailureStopsFleet
        BY CrewAssumed, CrewP!StopFollows, CrewMeans DEF SumInv
    <2>2. part = "delivery" => Push!CleanedUp
        BY PushAssumed, CrewP!DeliveryFollows, PushMeans DEF SumInv
    <2>3. part = "build" => Build!NothingLeft
        BY CrewP!BuildsFollow, BuildMeans DEF SumInv
    <2>4. QED  BY <2>1, <2>2, <2>3 DEF FailuresContained
<1>2. QED  BY <1>1, SumInvariance, PTL
=============================================================================
