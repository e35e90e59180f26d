------------------------------- MODULE MCPlan -------------------------------
(***************************************************************************)
(* The plan engine and the order api.Apply chooses, checked in one run: a  *)
(* behaviour is one of PlanApply or of ApplyOrder, as part says.  The      *)
(* variables of ApplyOrder are y; those of PlanApply are PlanApply's own   *)
(* and stay as after the apply of an empty plan in the other part.         *)
(***************************************************************************)
EXTENDS MCPlanApply

VARIABLES part, y1, y2, y3, y4, y5, y6, y7, y8

Ord == INSTANCE MCApplyOrder WITH
    body <- y1, phase <- y2, edges <- y3, left <- y4, kept <- y5, dropped <- y6, conflicts <- y7,
    out <- y8

ys == <<y1, y2, y3, y4, y5, y6, y7, y8>>

SumInit ==
    \/ /\ part = "plan" /\ Init
       /\ y1 = <<>> /\ y2 = "done" /\ y3 = {} /\ y4 = {} /\ y5 = {} /\ y6 = {} /\ y7 = {}
       /\ y8 = <<>>
    \/ /\ part = "order" /\ Ord!Init
       /\ body = <<>> /\ entry = "chunks" /\ priv = Invoker("sudo", FALSE, TRUE) /\ host = {}
       /\ exists = {} /\ phase = "done" /\ chunks = <<>> /\ k = 1 /\ preds = <<>> /\ order = <<>>
       /\ at = 1 /\ stack = <<>> /\ notes = {} /\ ctx = "live" /\ outcome = "ok" /\ log = <<>>
       /\ faults = 0

SumNext ==
    \/ part = "plan" /\ Next /\ UNCHANGED <<part, ys>>
    \/ part = "order" /\ Ord!Next /\ UNCHANGED <<part, vars>>

SumSpec == SumInit /\ [][SumNext]_<<part, vars, ys>>

\* api.Apply refuses a recipe only if no order of its resources is
\* acceptable, needs the fewest privilege chunks, and keeps a largest choice
\* of watches, explaining each one it drops (ApplyOrder).
OrderIsBest ==
    part = "order" => Ord!NeverRefusesValid /\ Ord!FewestChunks /\ Ord!WatchChoice
=============================================================================
