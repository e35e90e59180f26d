------------------------------- MODULE Fleet -------------------------------
(***************************************************************************)
(* The fan-out of one recorded plan to the hosts of a fleet (api           *)
(* delivery.go, internal/orchestrate, internal/remote fleet.go): one       *)
(* errgroup per cluster group with a limit on running hosts, all below one *)
(* fleet context; a failing host cancels its group, a failing group the    *)
(* fleet; results are tallied per group and joined into one error.         *)
(*                                                                         *)
(* The delivery to a host is one running period here; Delivery looks into  *)
(* it.                                                                     *)
(***************************************************************************)
EXTENDS Naturals, FiniteSets

CONSTANTS
    Hosts,
    Groups,
    GroupOf,        \* of each host
    Limit,          \* ClusterParallelism or the override
    HasTimeout      \* whether -host-timeout is positive

VARIABLES
    cancelled,  \* the caller's context fired
    fleetCtx,   \* fleetCtx is cancelled
    groupCtx,   \* per group: egCtx is cancelled
    group,      \* "new", "running", and Deliver's result: "ok", "failed", "aborted", "unresolved"
    host,       \* "queued", "running", "recorded", "done"
    hostCtx,    \* hostCtx.Err(): "none", "canceled", "deadline"
    err,        \* what ToHost returned: "none", "ok", "own", "deadline", "canceled"
    okCount, failed, firstErr,  \* fanoutTally, per group
    errs,       \* groups that returned an error
    result      \* of the fleet run

tally == <<okCount, failed, firstErr>>
vars == <<cancelled, fleetCtx, groupCtx, group, host, hostCtx, err, tally, errs, result>>

Pending == [returned |-> FALSE, nil |-> FALSE, causes |-> {}, canceled |-> FALSE]

Init ==
    /\ cancelled = FALSE /\ fleetCtx = FALSE
    /\ groupCtx = [g \in Groups |-> FALSE]
    /\ group = [g \in Groups |-> "new"]
    /\ host = [h \in Hosts |-> "queued"]
    /\ hostCtx = [h \in Hosts |-> "none"]
    /\ err = [h \in Hosts |-> "none"]
    /\ okCount = [g \in Groups |-> 0]
    /\ failed = [g \in Groups |-> {}]
    /\ firstErr = [g \in Groups |-> FALSE]
    /\ errs = {} /\ result = Pending

Members(g) == {h \in Hosts : GroupOf[h] = g}

\* The contexts of the running hosts of gs after a cancellation reached them.
Cancelled(gs) ==
    [h \in Hosts |-> IF GroupOf[h] \in gs /\ host[h] = "running" /\ hostCtx[h] = "none"
                     THEN "canceled" ELSE hostCtx[h]]

\* The caller's context: SIGINT or SIGTERM.
Interrupt ==
    /\ ~cancelled /\ ~result.returned
    /\ cancelled' = TRUE /\ fleetCtx' = TRUE
    /\ groupCtx' = [g \in Groups |-> TRUE]
    /\ hostCtx' = Cancelled(Groups)
    /\ UNCHANGED <<group, host, err, tally, errs, result>>

\* orchestrate.Deliver: every host name must resolve before anything starts.
Deliver(g) ==
    /\ group[g] = "new"
    /\ \/ /\ group' = [group EXCEPT ![g] = "running"]
          /\ groupCtx' = [groupCtx EXCEPT ![g] = @ \/ fleetCtx]
       \/ /\ group' = [group EXCEPT ![g] = "unresolved"]
          /\ UNCHANGED groupCtx
    /\ UNCHANGED <<cancelled, fleetCtx, host, hostCtx, err, tally, errs, result>>

\* errgroup's Go: waits for a slot, also after a cancellation. The order of the
\* hosts is left open.
Start(h) ==
    LET g == GroupOf[h]
    IN /\ group[g] = "running" /\ host[h] = "queued"
       /\ Cardinality({k \in Members(g) : host[k] \in {"running", "recorded"}}) < Limit
       /\ host' = [host EXCEPT ![h] = "running"]
       /\ hostCtx' = [hostCtx EXCEPT ![h] = IF groupCtx[g] THEN "canceled" ELSE "none"]
       /\ UNCHANGED <<cancelled, fleetCtx, groupCtx, group, err, tally, errs, result>>

\* -host-timeout.
Deadline(h) ==
    /\ HasTimeout /\ host[h] = "running" /\ hostCtx[h] = "none"
    /\ hostCtx' = [hostCtx EXCEPT ![h] = "deadline"]
    /\ UNCHANGED <<cancelled, fleetCtx, groupCtx, group, host, err, tally, errs, result>>

record(h, e) ==
    LET g == GroupOf[h]
    IN CASE e = "ok" -> okCount' = [okCount EXCEPT ![g] = @ + 1] /\ UNCHANGED <<failed, firstErr>>
         [] e = "canceled" -> firstErr' = [firstErr EXCEPT ![g] = TRUE] /\ UNCHANGED <<okCount, failed>>
         [] OTHER -> failed' = [failed EXCEPT ![g] = @ \cup {h}] /\ UNCHANGED <<okCount, firstErr>>

\* ToHost returns: its own outcome, or its context's error once that is done;
\* a delivery whose last command already succeeded may still win.
Finish(h) ==
    /\ host[h] = "running"
    /\ \E e \in {"ok", "own"} \cup ({hostCtx[h]} \ {"none"}) :
          /\ err' = [err EXCEPT ![h] = e]
          /\ record(h, e)
    /\ host' = [host EXCEPT ![h] = "recorded"]
    /\ UNCHANGED <<cancelled, fleetCtx, groupCtx, group, hostCtx, errs, result>>

\* The goroutine returns: an error cancels the group.
Leave(h) ==
    LET g == GroupOf[h]
    IN /\ host[h] = "recorded"
       /\ host' = [host EXCEPT ![h] = "done"]
       /\ IF err[h] = "ok" THEN UNCHANGED <<groupCtx, hostCtx>>
          ELSE groupCtx' = [groupCtx EXCEPT ![g] = TRUE] /\ hostCtx' = Cancelled({g})
       /\ UNCHANGED <<cancelled, fleetCtx, group, err, tally, errs, result>>

\* fanoutTally.err: host failures win over an abort.
Tallied(g) == IF failed[g] # {} THEN "failed" ELSE IF firstErr[g] THEN "aborted" ELSE "ok"

\* Fanout returns once every host did; the group's error is collected and
\* cancels the fleet.
Collect(g) ==
    /\ g \notin errs
    /\ \/ /\ group[g] = "running" /\ \A h \in Members(g) : host[h] = "done"
          /\ group' = [group EXCEPT ![g] = Tallied(g)]
       \/ group[g] = "unresolved" /\ UNCHANGED group
    /\ IF group'[g] = "ok" THEN UNCHANGED <<errs, fleetCtx, groupCtx, hostCtx>>
       ELSE /\ errs' = errs \cup {g} /\ fleetCtx' = TRUE
            /\ groupCtx' = [k \in Groups |-> TRUE] /\ hostCtx' = Cancelled(Groups)
    /\ UNCHANGED <<cancelled, host, err, tally, result>>

\* Mutant: aborts stay in the error chain.
JoinedAll ==
    [returned |-> TRUE, nil |-> errs = {},
     causes |-> {g \in errs : group[g] = "unresolved"} \cup UNION {failed[g] : g \in errs},
     canceled |-> \E g \in errs : group[g] = "aborted"]

\* JoinGroupErrors: next to a real failure, aborts are flattened to text.
Joined ==
    LET real == {g \in errs : group[g] # "aborted"}
    IN [returned |-> TRUE, nil |-> errs = {},
        causes |-> {g \in errs : group[g] = "unresolved"} \cup UNION {failed[g] : g \in real},
        canceled |-> real = {} /\ errs # {}]

Return ==
    /\ ~result.returned
    /\ \A g \in Groups : group[g] \notin {"new", "running"} /\ (group[g] # "ok" => g \in errs)
    /\ result' = Joined
    /\ UNCHANGED <<cancelled, fleetCtx, groupCtx, group, host, hostCtx, err, tally, errs>>

HostStep(h) == Start(h) \/ Finish(h) \/ Leave(h)
GroupStep(g) == Deliver(g) \/ Collect(g)

Next ==
    \/ Interrupt \/ Return
    \/ \E h \in Hosts : HostStep(h) \/ Deadline(h)
    \/ \E g \in Groups : GroupStep(g)

\* Every delivery ends (Delivery shows it) and goroutines are scheduled.
Fairness ==
    /\ \A h \in Hosts : WF_vars(HostStep(h))
    /\ \A g \in Groups : WF_vars(GroupStep(g))
    /\ WF_vars(Return)

Spec == Init /\ [][Next]_vars /\ Fairness

(***************************************************************************)
(* Properties                                                              *)
(***************************************************************************)
\* The run succeeds exactly when the plan reached every host, and the summary
\* lines count the hosts it reached.
SuccessIsComplete ==
    result.returned =>
        /\ result.nil <=> \A h \in Hosts : err[h] = "ok"
        /\ \A g \in Groups : okCount[g] = Cardinality({h \in Members(g) : err[h] = "ok"})

\* A caller that finds context.Canceled in the error did cancel: the aborts
\* that a failing host or group causes never look like an interrupt.
CanceledMeansInterrupt == result.returned /\ result.canceled => cancelled

\* Every failure of a host itself, a timeout included, is in the error, and an
\* error always has a cause: a failed host, an unresolved group or an interrupt.
FailuresReported ==
    result.returned =>
        /\ {h \in Hosts : err[h] \in {"own", "deadline"}} \subseteq result.causes
        /\ \A h \in Hosts : h \in result.causes => err[h] \in {"own", "deadline"}
        /\ ~result.nil => result.causes # {} \/ cancelled

\* What the caller of the run is told is what happened to the hosts.
ReportIsTrue == SuccessIsComplete /\ CanceledMeansInterrupt /\ FailuresReported

\* Fail fast: a host that did not get the plan ends the other deliveries of its
\* cluster, the end of the cluster those of the fleet, and what starts later
\* starts with a dead context.
FailureStopsFleet ==
    \A h, k \in Hosts :
        /\ host[h] = "running" /\ hostCtx[h] = "none"
        /\ host[k] = "done" /\ err[k] # "ok"
        => GroupOf[k] # GroupOf[h] /\ group[GroupOf[k]] = "running"

(***************************************************************************)
(* The inductive invariant behind them.                                    *)
(***************************************************************************)
\* Every group has a host, every host is in one group (GroupFleetHostsByCluster
\* of the deduplicated hosts), and a group is no host.
ConstantsOK ==
    /\ IsFiniteSet(Hosts) /\ GroupOf \in [Hosts -> Groups] /\ Hosts \cap Groups = {}
    /\ \A g \in Groups : Members(g) # {}

TypeInv ==
    /\ cancelled \in BOOLEAN /\ fleetCtx \in BOOLEAN /\ groupCtx \in [Groups -> BOOLEAN]
    /\ group \in [Groups -> {"new", "running", "ok", "failed", "aborted", "unresolved"}]
    /\ host \in [Hosts -> {"queued", "running", "recorded", "done"}]
    /\ hostCtx \in [Hosts -> {"none", "canceled", "deadline"}]
    /\ err \in [Hosts -> {"none", "ok", "own", "deadline", "canceled"}]
    /\ okCount \in [Groups -> Nat] /\ failed \in [Groups -> SUBSET Hosts]
    /\ firstErr \in [Groups -> BOOLEAN] /\ errs \subseteq Groups

\* How far a host is, and its group.
HostInv ==
    \A h \in Hosts :
        /\ err[h] = "none" <=> host[h] \in {"queued", "running"}
        /\ host[h] # "queued" => group[GroupOf[h]] \notin {"new", "unresolved"}
        /\ group[GroupOf[h]] \in {"ok", "failed", "aborted"} => host[h] = "done"

\* Cancellation: from the fleet to its groups, from a group to its hosts, and
\* from a host that failed to its group.
ContextInv ==
    /\ errs # {} => fleetCtx
    /\ fleetCtx => \A g \in Groups : groupCtx[g]
    /\ \A h \in Hosts :
          /\ hostCtx[h] = "canceled" \/ err[h] = "canceled" => groupCtx[GroupOf[h]]
          /\ host[h] = "running" /\ groupCtx[GroupOf[h]] => hostCtx[h] # "none"
          /\ host[h] = "done" /\ err[h] # "ok" => groupCtx[GroupOf[h]]

\* The tally of a group is that of its hosts' outcomes.
TallyInv ==
    \A g \in Groups :
        /\ failed[g] = {h \in Members(g) : err[h] \in {"own", "deadline"}}
        /\ firstErr[g] <=> \E h \in Members(g) : err[h] = "canceled"
        /\ okCount[g] = Cardinality({h \in Members(g) : err[h] = "ok"})

\* What a group's result says of its hosts, and which results are collected.
GroupInv ==
    \A g \in Groups :
        /\ group[g] = "ok" => \A h \in Members(g) : err[h] = "ok"
        /\ group[g] = "failed" => failed[g] # {}
        /\ group[g] = "aborted" => failed[g] = {} /\ firstErr[g]
        /\ group[g] \in {"failed", "aborted"} => g \in errs
        /\ g \in errs => group[g] \in {"failed", "aborted", "unresolved"}

\* A group is only cancelled by the caller, one of its hosts or another group
\* that is at fault itself.
AtFault(g) == group[g] \in {"failed", "unresolved"}
CauseInv ==
    \A g \in Groups : groupCtx[g] => cancelled \/ failed[g] # {} \/ \E e \in errs : AtFault(e)

\* The result is given once everything is settled.
ResultInv ==
    \/ ~result.returned
    \/ /\ result = Joined
       /\ \A g \in Groups : group[g] \in {"ok", "failed", "aborted"} \/ g \in errs

FleetInv ==
    /\ TypeInv /\ HostInv /\ ContextInv /\ TallyInv /\ GroupInv /\ CauseInv /\ ResultInv
=============================================================================
