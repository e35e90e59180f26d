---------------------------- MODULE CrontabMerge ----------------------------
(***************************************************************************)
(* The crontab rewriting of the cron resource (resource/cron): an apply    *)
(* reads the table, takes over unmanaged entries, replaces or removes the  *)
(* job's block and writes the result.  Between applies the table is edited *)
(* by hand.                                                                *)
(*                                                                         *)
(* A line is [kind, name, value]: a "begin" or "end" marker of job name, a *)
(* "bad" line that only looks like a marker, an "entry" with its command   *)
(* as name and its schedule as value, an "env" assignment, a "blank"       *)
(* line.  Comments, white space, CRLF and field syntax are left out.       *)
(***************************************************************************)
EXTENDS Naturals, Sequences, FiniteSets, SequencesExt

CONSTANTS
    Jobs,       \* of [name, absent, legacy, schedule, command, env]
    Edits,      \* lines a hand edit may insert
    Tables,     \* tables to start from
    MaxLen,     \* bound on the length of a table
    MaxApplies  \* bound on applies

None == "none"

VARIABLES
    tab,        \* the crontab
    before,     \* the table the last apply read
    job,        \* the job of the last apply
    applied,    \* the last step was that apply
    applies

vars == <<tab, before, job, applied, applies>>

Begin(name) == [kind |-> "begin", name |-> name, value |-> ""]
End(name) == [kind |-> "end", name |-> name, value |-> ""]
IsMarker(line) == line.kind \in {"begin", "end"}

Entry(j) == [kind |-> "entry", name |-> j.command, value |-> j.schedule]

\* The lines of the job's block: markers, environment, entry.
block(j) == <<Begin(j.name)>> \o j.env \o <<Entry(j), End(j.name)>>

\* The indexes in keep, and the lines at them, in order.
InOrder(lines, keep) == SelectSeq([i \in DOMAIN lines |-> i], LAMBDA i: i \in keep)
Pick(lines, keep) == LET at == InOrder(lines, keep) IN [k \in DOMAIN at |-> lines[at[k]]]

\* Blank lines at the end go.
joinCrontabLines(lines) == Pick(lines, {i \in DOMAIN lines :
    \E k \in i..Len(lines) : lines[k].kind # "blank"})

(***************************************************************************)
(* Markers                                                                 *)
(***************************************************************************)
\* Every marker that looks like one is valid, and they alternate in pairs.
WellFormed(lines) ==
    LET marks == SelectSeq(lines, IsMarker)
    IN /\ \A i \in DOMAIN lines : lines[i].kind # "bad"
       /\ Len(marks) % 2 = 0
       /\ \A k \in 1..(Len(marks) \div 2) :
              /\ marks[2 * k - 1].kind = "begin"
              /\ marks[2 * k] = End(marks[2 * k - 1].name)

\* In a well-formed table: the markers and what is between a pair of them.
Protected(lines) ==
    {i \in DOMAIN lines :
        \/ IsMarker(lines[i])
        \/ \E b \in 1..(i - 1) : /\ lines[b].kind = "begin"
                                 /\ \A k \in (b + 1)..i : ~IsMarker(lines[k])}

(***************************************************************************)
(* Adoption of unmanaged entries                                           *)
(***************************************************************************)
AdoptsIdentical(j) == ~j.absent /\ j.env = <<>>

Identical(lines, j) ==
    IF AdoptsIdentical(j) THEN {i \in DOMAIN lines \ Protected(lines) : lines[i] = Entry(j)} ELSE {}

Legacy(lines, j) ==
    {i \in DOMAIN lines \ Protected(lines) :
        j.legacy # None /\ lines[i].kind = "entry" /\ lines[i].name = j.legacy}

hasGonfBlock(lines, name) == \E i \in DOMAIN lines : lines[i] = Begin(name)

\* The first identical entry becomes the block, unless there is one.
adoptUnmanaged(lines, j) ==
    IF ~WellFormed(lines) \/ Identical(lines, j) \cup Legacy(lines, j) = {}
    THEN lines
    ELSE LET same == Identical(lines, j)
             first == IF same = {} THEN 0 ELSE CHOOSE i \in same : \A k \in same : i <= k
         IN joinCrontabLines(FlattenSeq([i \in DOMAIN lines |->
                CASE i = first /\ ~hasGonfBlock(lines, j.name) -> block(j)
                  [] i \in same \cup Legacy(lines, j)
                     /\ ~(i = first /\ ~hasGonfBlock(lines, j.name)) -> <<>>
                  [] OTHER -> <<lines[i]>>]))

(***************************************************************************)
(* Replacing the named blocks                                              *)
(***************************************************************************)
\* Mutant: another begin does not end the search.
findBlockEndGreedy(lines, i, name) ==
    LET ends == {k \in (i + 1)..Len(lines) : lines[k] = End(name)}
    IN IF ends = {} THEN 0 ELSE CHOOSE k \in ends : \A l \in ends : k <= l

\* The end of the block that begins at i, or 0: the next marker of the
\* name must be an end.
findBlockEnd(lines, i, name) ==
    LET marks == {k \in (i + 1)..Len(lines) : lines[k] \in {Begin(name), End(name)}}
        next == CHOOSE k \in marks : \A l \in marks : k <= l
    IN IF marks # {} /\ lines[next] = End(name) THEN next ELSE 0

Begins(lines, name) == {i \in DOMAIN lines : lines[i] = Begin(name)}
Closed(lines, name) == {i \in Begins(lines, name) : findBlockEnd(lines, i, name) # 0}
InBlocks(lines, name) == UNION {i..findBlockEnd(lines, i, name) : i \in Closed(lines, name)}

\* stripNamedBlocks: the closed blocks and the unclosed begin markers go.
Stripped(lines, name) == DOMAIN lines \ (InBlocks(lines, name) \cup Begins(lines, name))

blockEnvLines(lines) == SelectSeq(lines, LAMBDA line: line.kind = "env")

\* Mutant: the block always goes to the end.
mergeCrontabAppend(lines, j) ==
    LET rest == Pick(lines, Stripped(lines, j.name))
    IN joinCrontabLines(rest) \o (IF j.absent THEN <<>> ELSE block(j))

\* A changed block stays where the first one was, unless its environment
\* changes, which would reach the lines below.
mergeCrontab(lines, j) ==
    LET name == j.name
        closed == Closed(lines, name)
        rest == Pick(lines, Stripped(lines, name))
        first == CHOOSE i \in closed : \A k \in closed : i <= k
        firstBlock == SubSeq(lines, first, findBlockEnd(lines, first, name))
        at == Cardinality({i \in Stripped(lines, name) : i < first})
    IN IF j.absent THEN (IF Begins(lines, name) = {} THEN lines ELSE joinCrontabLines(rest))
       ELSE IF Begins(lines, name) = closed /\ Cardinality(closed) = 1 /\ firstBlock = block(j)
       THEN lines
       ELSE IF closed = {} \/ blockEnvLines(firstBlock) # j.env
       THEN joinCrontabLines(rest) \o block(j)
       ELSE joinCrontabLines(SubSeq(rest, 1, at) \o block(j) \o SubSeq(rest, at + 1, Len(rest)))

(***************************************************************************)
(* Applies and edits                                                       *)
(***************************************************************************)
reconcile(lines, j) == mergeCrontab(adoptUnmanaged(lines, j), j)

Init ==
    /\ tab \in Tables /\ before = tab
    /\ job = (CHOOSE j \in Jobs : TRUE) /\ applied = FALSE /\ applies = 0

Apply(j) ==
    /\ applies < MaxApplies
    /\ before' = tab
    /\ tab' = reconcile(tab, j)
    /\ job' = j /\ applied' = TRUE
    /\ applies' = applies + 1

\* crontab -e between applies.
Edit ==
    /\ applied /\ applies < MaxApplies
    /\ Len(tab) < MaxLen
    /\ \E line \in Edits, at \in 0..Len(tab) :
           tab' = SubSeq(tab, 1, at) \o <<line>> \o SubSeq(tab, at + 1, Len(tab))
    /\ before' = tab' /\ applied' = FALSE
    /\ UNCHANGED <<job, applies>>

Next == (\E j \in Jobs : Apply(j)) \/ Edit

Spec == Init /\ [][Next]_vars

(***************************************************************************)
(* Properties                                                              *)
(***************************************************************************)
\* The lines of the job: its begin markers, and whatever lies between one
\* and an end with no other marker of the job in between.
Owned(lines) ==
    {i \in DOMAIN lines :
        \/ lines[i] = Begin(job.name)
        \/ \E b \in 1..(i - 1), e \in i..Len(lines) :
               /\ lines[b] = Begin(job.name) /\ lines[e] = End(job.name)
               /\ \A k \in (b + 1)..(e - 1) : lines[k] \notin {Begin(job.name), End(job.name)}}

\* The lines that neither belong to the job nor are taken over.
Foreign(lines) ==
    LET taken == IF WellFormed(lines) THEN Identical(lines, job) \cup Legacy(lines, job) ELSE {}
    IN DOMAIN lines \ (Owned(lines) \cup taken)

\* The lines that assign the environment seen by line p.
EnvAt(lines, p) ==
    {i \in 1..(p - 1) : /\ lines[i].kind = "env"
                        /\ \A k \in (i + 1)..(p - 1) :
                               lines[k].kind = "env" => lines[k].name # lines[i].name}

\* An apply keeps every line it does not own or take over, in order (only
\* comments at the end may go): a damaged marker or an unclosed block of its
\* own never costs a foreign line (stripNamedBlocks, adoptUnmanaged).
ForeignKept ==
    applied => joinCrontabLines(Pick(tab, DOMAIN tab \ Owned(tab)))
               = joinCrontabLines(Pick(before, Foreign(before)))

\* A present job has exactly one block, the desired one, and in a
\* well-formed table no unmanaged copy of it runs besides; an absent one has
\* none.
RunsOnce ==
    applied =>
        IF job.absent THEN Begins(tab, job.name) = {}
        ELSE /\ \E i \in Begins(tab, job.name) :
                    /\ Begins(tab, job.name) = {i}
                    /\ SubSeq(tab, i, i + Len(block(job)) - 1) = block(job)
             /\ WellFormed(before) => Identical(tab, job) \cup Legacy(tab, job) = {}

\* Applying again changes nothing, not even after another job was applied:
\* jobs do not fight over a table.  If markers were damaged, adoption may
\* follow once, and then nothing changes.
Converges ==
    applied =>
        LET again == reconcile(tab, job)
        IN /\ reconcile(again, job) = again
           /\ WellFormed(before) =>
                  /\ again = tab
                  /\ \A other \in Jobs : other.name # job.name =>
                         reconcile(reconcile(tab, other), job) = reconcile(tab, other)

\* An entry outside the job never sees an assignment of the job's block that
\* it did not see before: a new environment does not leak below.
NoEnvLeak ==
    applied =>
        LET old == InOrder(before, Foreign(before))
            new == InOrder(tab, DOMAIN tab \ Owned(tab))
            Own(lines, p) == {lines[i] : i \in EnvAt(lines, p) \cap Owned(lines)}
        IN \A k \in DOMAIN new : k \in DOMAIN old => Own(tab, new[k]) \subseteq Own(before, old[k])

\* A job whose own assignments stay the same keeps the environment its entry
\* ran with, whether that was in its block or in an unmanaged identical line.
JobKeepsEnv ==
    applied /\ ~job.absent =>
        LET closed == Closed(before, job.name)
            first == CHOOSE i \in closed : \A k \in closed : i <= k
            same == Identical(before, job)
            line == CHOOSE i \in same : \A k \in same : i <= k
            now == CHOOSE i \in Begins(tab, job.name) : TRUE
            EnvOf(lines, p) == {lines[i] : i \in EnvAt(lines, p)}
        IN /\ closed # {} /\ blockEnvLines(SubSeq(before, first, findBlockEnd(before, first, job.name))) = job.env
              => EnvOf(tab, now) = EnvOf(before, first)
           /\ Begins(before, job.name) = {} /\ same # {} /\ WellFormed(before)
              => EnvOf(tab, now) = EnvOf(before, line)

\* An apply leaves a settled table: one block, nothing that runs besides it,
\* and nothing left to do for this job or because of another one.
Settled == RunsOnce /\ Converges

\* Where the block ends up changes the environment of no entry.
EnvKept == NoEnvLeak /\ JobKeepsEnv
=============================================================================
