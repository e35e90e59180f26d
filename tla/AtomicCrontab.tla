---------------------------- MODULE AtomicCrontab ----------------------------
(***************************************************************************)
(* What the crontab transactions of several gonf processes promise: each   *)
(* adds its own job in one step and takes no other's away, and a process   *)
(* reports success only when its job is in the table.                      *)
(***************************************************************************)
CONSTANT Procs

VARIABLES
    tab,    \* the jobs in the crontab
    told    \* the processes that reported success

vars == <<tab, told>>

Init == tab = {} /\ told = {}

\* A process may be killed after it, and never report.
Install(p) == tab' = tab \cup {p} /\ UNCHANGED told

Report(p) == p \in tab /\ told' = told \cup {p} /\ UNCHANGED tab

Next == \E p \in Procs : Install(p) \/ Report(p)

Spec == Init /\ [][Next]_vars
==============================================================================
