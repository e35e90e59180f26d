--------------------------- MODULE MCCrontabMerge ---------------------------
(* Two jobs, one of them in five forms, on all short tables. *)
EXTENDS Naturals, Sequences

VARIABLES tab, before, job, applied, applies

Mark(kind, name) == [kind |-> kind, name |-> name, value |-> ""]
Env(v) == [kind |-> "env", name |-> "PATH", value |-> v]
Line(command, schedule) == [kind |-> "entry", name |-> command, value |-> schedule]
Bad == [kind |-> "bad", name |-> "", value |-> ""]
Blank == [kind |-> "blank", name |-> "", value |-> ""]

Job(name, schedule, command, env, legacy) ==
    [name |-> name, absent |-> FALSE, legacy |-> legacy, schedule |-> schedule,
     command |-> command, env |-> env]

MCJobs ==
    {Job("a", "daily", "run", <<>>, "none"),
     Job("a", "hourly", "run", <<>>, "old"),
     Job("a", "daily", "run", <<Env("/a")>>, "none"),
     Job("b", "daily", "other", <<Env("/b")>>, "none"),
     [Job("a", "daily", "run", <<>>, "none") EXCEPT !.absent = TRUE]}

MCEdits ==
    {Line("run", "daily"), Line("old", "daily"), Env("/x"), Mark("begin", "a"), Mark("end", "a"), Mark("begin", "b"), Bad}

MCTables ==
    UNION {[1..n -> MCEdits \cup {Blank}] : n \in 0..4}

INSTANCE CrontabMerge WITH
    Jobs <- MCJobs, Edits <- MCEdits, Tables <- MCTables, MaxLen <- 6, MaxApplies <- 2
=============================================================================
