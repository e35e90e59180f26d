----------------------------- MODULE MCRecipes ------------------------------
(***************************************************************************)
(* The modules about recipes, checked in one run: a behaviour is one of    *)
(* Recording or UnitReload, as part says, and its module's variables are   *)
(* the first of x.                                                         *)
(***************************************************************************)
EXTENDS Naturals, Sequences

VARIABLES part, x1, x2, x3, x4, x5, x6, x7, x8, x9, x10, x11, x12

Rec == INSTANCE MCRecording WITH LowLevel <- FALSE,
    tasks <- x1, first <- x2, repo <- x3, failed <- x4, version <- x5, planDir <- x6,
    planFile <- x7, last <- x8, applied <- x9, declared <- x10, owed <- x11, torn <- x12

Unit == INSTANCE MCUnitReload WITH MaxDecls <- 4,
    phase <- x1, ops <- x2, scope <- x3, joiners <- x4, unwritten <- x5, unloaded <- x6,
    outdated <- x7, running <- x8, notes <- x9, todo <- x10, fails <- x11, applies <- x12

Init ==
    \/ part = "recording" /\ Rec!Init
    \/ part = "reload" /\ Unit!Init

Next ==
    \/ part = "recording" /\ Rec!Next /\ UNCHANGED part
    \/ part = "reload" /\ Unit!Next /\ UNCHANGED part

Spec == Init /\ [][Next]_<<part, x1, x2, x3, x4, x5, x6, x7, x8, x9, x10, x11, x12>>

\* A task's needs stand before it, in its envelope, once (Recording).
NeedsRecordedFirst == part = "recording" => Rec!NeedsRecordedFirst

\* A recording that returns a plan dropped nothing (Recording).
NothingDropped == part = "recording" => Rec!NothingDropped

\* Conditions and privilege travel with what they guard (Recording).
GuardsTravel == part = "recording" => Rec!GuardsTravel

\* A recording leaves no trace but its outcome (Recording).
RecordingsLeaveNoTrace == part = "recording" => Rec!RecordingsLeaveNoTrace

\* No unit starts from a stale definition (UnitReload).
NoStaleStart == part = "reload" => Unit!NoStaleStart

\* An apply that ends well leaves nothing unloaded or outdated (UnitReload).
AllLoaded == part = "reload" => Unit!AllLoaded
=============================================================================
