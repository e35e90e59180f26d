----------------------------- MODULE Processes ------------------------------
(***************************************************************************)
(* The modules about goroutines, child processes and hosts as one: a       *)
(* behaviour is one of ElevatedApply, ProcTree, Fleet, Delivery,           *)
(* CrossBuild or SecretResolve, as part says.  The variables of the last   *)
(* five are the first of x; ElevatedApply has its own, which stay as they  *)
(* are in the others.                                                      *)
(***************************************************************************)
EXTENDS ElevatedApply, Sequences

CONSTANTS
    \* ProcTree
    Pids, Leader, Reused, MaxRounds, MaxBirths, MaxStrangers, MaxResumes, TableFails, Suid,
    \* Fleet
    Hosts, Groups, GroupOf, Limit, HasTimeout,
    \* Delivery
    Settings, Refs, Entries, Locations, Dest, TargetPath, NoPath,
    \* CrossBuild
    Pushes, Platform, MaxDirs, MaxChanges,
    \* SecretResolve
    Callers, Spellings, Canon, NoKey, Mapped, Values, Stores, MaxLookups, MaxEvents

VARIABLES part, x1, x2, x3, x4, x5, x6, x7, x8, x9, x10, x11, x12, x13, x14, x15, x16, x17

Tree == INSTANCE ProcTree WITH
    suid <- x1, proc <- x2, births <- x3, strangers <- x4, resumes <- x5, pc <- x6, round <- x7,
    seen <- x8, queue <- x9, stopped <- x10, current <- x11, clean <- x12, killed <- x13,
    bound <- x14, exit <- x15, outcome <- x16, victims <- x17

Crew == INSTANCE Fleet WITH
    cancelled <- x1, fleetCtx <- x2, groupCtx <- x3, group <- x4, host <- x5, hostCtx <- x6,
    err <- x7, okCount <- x8, failed <- x9, firstErr <- x10, errs <- x11, result <- x12

Push == INSTANCE Delivery WITH
    setting <- x1, k <- x2, pc <- x3, i <- x4, ctx <- x5, gonfPath <- x6, failing <- x7,
    results <- x8, bin <- x9, staging <- x10, dir <- x11, files <- x12, sessions <- x13,
    lost <- x14, applied <- x15, used <- x16, ran <- x17

Build == INSTANCE CrossBuild WITH
    MaxEvents <- MaxChanges,
    at <- x1, private <- x2, bin <- x3, buildDir <- x4, retired <- x5, cache <- x6, holder <- x7,
    pc <- x8, dir <- x9, spoiled <- x10, known <- x11, events <- x12, closed <- x13

Secret == INSTANCE SecretResolve WITH
    provider <- x1, used <- x2, entries <- x3, heap <- x4, probed <- x5, probes <- x6,
    world <- x7, events <- x8, caller <- x9, lookups <- x10, seen <- x11, answers <- x12,
    lies <- x13

\* What the proofs assume of the constants.
ASSUME TreeConstants == Tree!ConstantsOK
ASSUME FleetConstants == Crew!ConstantsOK
ASSUME DeliveryConstants == Push!ConstantsOK
ASSUME SecretConstants == Secret!ConstantsOK

(***************************************************************************)
(* The sum                                                                 *)
(***************************************************************************)
Unused(x) == x = "unused"
Unused14 == Unused(x14) /\ Unused(x15) /\ Unused(x16) /\ Unused(x17)
Unused13 == Unused(x13) /\ Unused14
Unused1 ==
    /\ Unused(x1) /\ Unused(x2) /\ Unused(x3) /\ Unused(x4) /\ Unused(x5) /\ Unused(x6)
    /\ Unused(x7) /\ Unused(x8) /\ Unused(x9) /\ Unused(x10) /\ Unused(x11) /\ Unused(x12)
    /\ Unused13

SumInit ==
    \/ part = "elevated" /\ Init /\ Unused1
    \/ /\ Init /\ wrapperKind = "sudo"
       /\ \/ part = "tree" /\ Tree!Init
          \/ part = "fleet" /\ Crew!Init /\ Unused13
          \/ part = "delivery" /\ Push!Init
          \/ part = "build" /\ Build!Init /\ Unused14
          \/ part = "secret" /\ Secret!Init /\ Unused14

xs == <<x1, x2, x3, x4, x5, x6, x7, x8, x9, x10, x11, x12, x13, x14, x15, x16, x17>>

From14 == <<x14, x15, x16, x17>>
From13 == <<x13, From14>>

SumNext ==
    \/ part = "elevated" /\ Next /\ UNCHANGED <<part, xs>>
    \/ part = "tree" /\ Tree!Next /\ UNCHANGED <<part, vars>>
    \/ part = "fleet" /\ Crew!Next /\ UNCHANGED <<part, vars, From13>>
    \/ part = "delivery" /\ Push!Next /\ UNCHANGED <<part, vars>>
    \/ part = "build" /\ Build!Next /\ UNCHANGED <<part, vars, From14>>
    \/ part = "secret" /\ Secret!Next /\ UNCHANGED <<part, vars, From14>>

\* The fairness of each part.
SumFairness ==
    /\ WF_vars(part = "elevated" /\ Program)
    /\ WF_xs(part = "tree" /\ Tree!killTree) /\ WF_xs(part = "tree" /\ Tree!ReapLeader)
    /\ WF_xs(part = "tree" /\ Tree!Return)
    /\ \A h \in Hosts : WF_xs(part = "fleet" /\ Crew!HostStep(h) /\ UNCHANGED From13)
    /\ \A g \in Groups : WF_xs(part = "fleet" /\ Crew!GroupStep(g) /\ UNCHANGED From13)
    /\ WF_xs(part = "fleet" /\ Crew!Return /\ UNCHANGED From13)
    /\ WF_xs(part = "delivery" /\ Push!Controls) /\ WF_xs(part = "delivery" /\ Push!Cancel)
    /\ WF_xs(part = "delivery" /\ Push!Drop /\ (x5 \/ x3 = "cleaning"))
    /\ \A p \in Pushes : WF_xs(part = "build" /\ Build!Step(p) /\ UNCHANGED From14)
    /\ WF_xs(part = "secret" /\ Secret!RunProbe /\ UNCHANGED From14)
    /\ \A c \in Callers : WF_xs(part = "secret" /\ Secret!Step(c) /\ UNCHANGED From14)

SumSpec == SumInit /\ [][SumNext]_<<part, vars, xs>> /\ SumFairness

-----------------------------------------------------------------------------
\* What gonf reports is so: an elevated apply that succeeds applied every op,
\* a validator's verdict is its own, a fleet's result is that of its hosts, a
\* delivery that succeeds applied every chunk, in order, and a secret that is
\* told, or told missing, was so.
ReportsTrue ==
    /\ part = "elevated" => OkMeansApplied
    /\ part = "tree" => Tree!VerdictIsTrue
    /\ part = "fleet" => Crew!ReportIsTrue
    /\ part = "delivery" => Push!SuccessMeansApplied
    /\ part = "secret" => Secret!FactsHold

\* The timeout kill of a validator hits no process outside its tree
\* (ProcTree).
NoStrangerKilled == part = "tree" => Tree!NoStrangerKilled

\* The timeout kill leaves nothing of the tree behind, running or stopped
\* (ProcTree).
TreeDealtWith == part = "tree" => Tree!TreeDealtWith

\* A chunk reads the blobs of its own push (Delivery), and a push installs a
\* binary that no other push and nobody else has touched (CrossBuild).
FreshBlobs ==
    /\ part = "delivery" => Push!FreshBlobs
    /\ part = "build" => Build!BinariesHold

\* A secret blob is on the host sealed only, and no gonf runs a chunk that it
\* is not fit for (Delivery).
SecretsSealed == part = "delivery" => Push!SecretsSealed /\ Push!BinaryFits

\* A failure is contained: it ends the other deliveries of its cluster and
\* of the fleet (Fleet), and leaves no directory behind on the host
\* (Delivery) or here (CrossBuild).
FailuresContained ==
    /\ part = "fleet" => Crew!FailureStopsFleet
    /\ part = "delivery" => Push!CleanedUp
    /\ part = "build" => Build!NothingLeft

\* Who waits: a canceled elevated apply, a validation, a fleet run, a
\* delivery, a build and a secret lookup; and what ends the wait.
Waits ==
    \/ part = "elevated" /\ ctx # "live"
    \/ part \in {"tree", "fleet", "delivery", "build"}
    \/ part = "secret" /\ Secret!Busy
Returned ==
    \/ part = "elevated" /\ CancelIsOver
    \/ part = "tree" /\ Tree!ValidationIsOver
    \/ part = "fleet" /\ x12.returned
    \/ part = "delivery" /\ Push!AllEnded
    \/ part = "build" /\ Build!Ended
    \/ part = "secret" /\ ~Secret!Busy

\* Every call returns: a canceled or timed-out elevated apply, although the
\* child hangs in an op, unless the wrapper is OpenBSD's doas; a validation,
\* unless the validator may not be signalled; a fleet run, whatever fails; a
\* delivery, although a session on the host hangs; a build that waits for
\* another of its platform; a secret lookup, whoever leads it and whatever
\* happens to the leader.
CallsReturn == Waits ~> Returned
=============================================================================
