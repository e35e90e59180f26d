------------------------------ MODULE MCCrontab ------------------------------
(***************************************************************************)
(* The lock around the crontab and the merge under it, checked in one run: *)
(* a behaviour is one of CrontabLock or of CrontabMerge, as part says.  The*)
(* variables of CrontabMerge are y; those of CrontabLock are its own.      *)
(***************************************************************************)
EXTENDS MCCrontabLock

VARIABLES part, y1, y2, y3, y4, y5

Merge == INSTANCE MCCrontabMerge WITH
    tab <- y1, before <- y2, job <- y3, applied <- y4, applies <- y5

ys == <<y1, y2, y3, y4, y5>>
Unused(y) == y = "unused"

SumInit ==
    \/ part = "lock" /\ Init /\ Unused(y1) /\ Unused(y2) /\ Unused(y3) /\ Unused(y4) /\ Unused(y5)
    \/ part = "merge" /\ Init /\ supported = TRUE /\ Merge!Init

SumNext ==
    \/ part = "lock" /\ Next /\ UNCHANGED <<part, ys>>
    \/ part = "merge" /\ Merge!Next /\ UNCHANGED <<part, vars>>

SumSpec == SumInit /\ [][SumNext]_<<part, vars, ys>>

\* After an apply the table holds the job's declared block, once, or none,
\* and another apply changes nothing (CrontabMerge).
Settled == part = "merge" => Merge!Settled

\* An apply harms no one else's: lines outside the job's blocks and the
\* environment they run in stay (CrontabMerge), and a failed attempt to take
\* the lock leaves nothing behind that makes a later one fail (CrontabLock).
OthersUnharmed ==
    /\ part = "merge" => Merge!ForeignKept /\ Merge!EnvKept
    /\ part = "lock" => NoDebris
==============================================================================
