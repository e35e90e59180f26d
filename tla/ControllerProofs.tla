-------------------------- MODULE ControllerProofs --------------------------
(***************************************************************************)
(* What the controller does, for any hosts, groups, pushes, callers and    *)
(* bounds: the fleet fan-out (module Fleet), the shared cross builds       *)
(* (CrossBuild), the secret lookups (SecretResolve) and the deliveries to  *)
(* a host (Delivery).  Each part below has its own variables and its own   *)
(* invariant.                                                              *)
(*                                                                         *)
(* Fleet: FleetInv.  A running host with a live context means that its     *)
(* group's context is live, so the fleet's is, so no group has been        *)
(* collected with an error; a failed host's group therefore still runs.    *)
(* An aborted group has no failed host of its own, so whatever cancelled   *)
(* it was the caller or a group at fault: follow the first cancellation,   *)
(* and it is never an abort.  Once the result is given every group is      *)
(* settled, and no later step touches what it was made of.                 *)
(*                                                                         *)
(* CrossBuild: BuildsInv.  The lock of a platform admits one builder; a    *)
(* directory that loses a binary from the cache is retired, so nobody      *)
(* builds again what another push installs.                                *)
(*                                                                         *)
(* SecretResolve: LookupsInv.  What the stores hold while a lookup runs    *)
(* has been seen by it; an entry of the Snapshot has one leader, its       *)
(* result is the leader's, and a fact once told stays in the entry.        *)
(*                                                                         *)
(* Delivery: DeliveryInv, for a host with any releases of gonf on it, any  *)
(* failures and any cancellation.  ControlInv says what the controller     *)
(* decided on its way; SessionInv and AttachedInv how far each session     *)
(* gets and that the controller waits for one at most; FitInv what the     *)
(* probes vouch for; FilesInv and BlobsInv whose the files in the sticky   *)
(* directory are; ChunksInv and CleanInv what was applied and what must    *)
(* still be removed.  The files of two pushes may have one name.  What     *)
(* keeps them apart is that the session of the upload empties the          *)
(* directory first, and that the controller starts no session before the   *)
(* last one ended.  When a session outlives its ssh the second fails, and  *)
(* only sealed blobs, which carry the key of their push, are certain to be *)
(* fresh.                                                                  *)
(***************************************************************************)
EXTENDS Fleet, Sequences, FiniteSetTheorems, TLAPS

CONSTANTS
    Pushes, Platform, MaxDirs, MaxChanges,      \* of CrossBuild
    Callers, Spellings, Canon, NoKey, Mapped, Values, Stores, MaxLookups,
    MaxEvents,                                  \* of SecretResolve
    Settings, Refs, Entries, Locations, Dest, TargetPath, NoPath    \* of Delivery

VARIABLES
    at, private, bin, buildDir, retired, cache, holder, pc, dir, spoiled, known, changes, closed,
    provider, used, entries, heap, probed, probes, world, events, caller, lookups, seen, answers,
    lies,                                                           \* of SecretResolve
    setting, pushNo, pushPc, chunkNo, ctx, gonfPath, failing, results, hostBin, staging, sticky,
    files, sessions, lost, applied, reads, ran                      \* of Delivery

Build == INSTANCE CrossBuild WITH MaxEvents <- MaxChanges, events <- changes
Secret == INSTANCE SecretResolve
Push == INSTANCE Delivery WITH
    pc <- pushPc, bin <- hostBin, dir <- sticky, used <- reads, k <- pushNo, i <- chunkNo


(***************************************************************************)
(* Facts about single actions                                              *)
(***************************************************************************)
\* Setting one entry of a function.
LEMMA SetOne ==
    ASSUME NEW S, NEW T, NEW f \in [S -> T], NEW x \in S, NEW v \in T
    PROVE  LET n == [f EXCEPT ![x] = v]
           IN  n \in [S -> T] /\ n[x] = v /\ \A y \in S : y # x => n[y] = f[y]
OBVIOUS

\* A cancellation reaches the running hosts of the groups whose context is not
\* done yet, and no other.
LEMMA CancelledHosts ==
    ASSUME TypeInv, NEW gs
    PROVE  /\ Cancelled(gs) \in [Hosts -> {"none", "canceled", "deadline"}]
           /\ \A h \in Hosts :
                 /\ Cancelled(gs)[h] = hostCtx[h] \/
                        (Cancelled(gs)[h] = "canceled" /\ GroupOf[h] \in gs)
                 /\ host[h] = "running" /\ GroupOf[h] \in gs => Cancelled(gs)[h] # "none"
                 /\ hostCtx[h] # "none" => Cancelled(gs)[h] # "none"
BY DEF TypeInv, Cancelled

\* The end of the whole fleet, after an interrupt or a failing group.
CancelAll ==
    fleetCtx' = TRUE /\ groupCtx' = [k \in Groups |-> TRUE] /\ hostCtx' = Cancelled(Groups)

LEMMA CancelAllStep ==
    ASSUME ConstantsOK, TypeInv, CancelAll
    PROVE  /\ fleetCtx' = TRUE /\ groupCtx' \in [Groups -> BOOLEAN]
           /\ hostCtx' \in [Hosts -> {"none", "canceled", "deadline"}]
           /\ \A g \in Groups : groupCtx'[g]
           /\ \A h \in Hosts : host[h] = "running" => hostCtx'[h] # "none"
<1>1. \A h \in Hosts : GroupOf[h] \in Groups
  BY DEF ConstantsOK
<1>2. fleetCtx' = TRUE /\ groupCtx' = [k \in Groups |-> TRUE] /\ hostCtx' = Cancelled(Groups)
  BY DEF CancelAll
<1>3. groupCtx' \in [Groups -> BOOLEAN] /\ \A g \in Groups : groupCtx'[g]
  BY <1>2
<1> QED
  BY <1>1, <1>2, <1>3, CancelledHosts

\* What a finished host adds to the tally.
LEMMA RecordStep ==
    ASSUME ConstantsOK, TypeInv, NEW h \in Hosts, NEW e \in {"ok", "own", "deadline", "canceled"},
           record(h, e)
    PROVE  LET g == GroupOf[h]
           IN  /\ okCount' \in [Groups -> Nat] /\ failed' \in [Groups -> SUBSET Hosts]
               /\ firstErr' \in [Groups -> BOOLEAN]
               /\ \A k \in Groups \ {g} :
                     okCount'[k] = okCount[k] /\ failed'[k] = failed[k] /\ firstErr'[k] = firstErr[k]
               /\ okCount'[g] = (IF e = "ok" THEN okCount[g] + 1 ELSE okCount[g])
               /\ failed'[g] = (IF e \in {"own", "deadline"} THEN failed[g] \cup {h} ELSE failed[g])
               /\ firstErr'[g] = (IF e = "canceled" THEN TRUE ELSE firstErr[g])
<1> DEFINE g == GroupOf[h]
<1>1. g \in Groups
  BY DEF ConstantsOK
<1>2. /\ okCount \in [Groups -> Nat] /\ failed \in [Groups -> SUBSET Hosts]
      /\ firstErr \in [Groups -> BOOLEAN]
  BY DEF TypeInv
<1>3. CASE e = "ok"
  <2>1. okCount' = [okCount EXCEPT ![g] = okCount[g] + 1] /\ UNCHANGED <<failed, firstErr>>
    BY <1>3 DEF record
  <2>2. okCount[g] + 1 \in Nat
    BY <1>1, <1>2
  <2> HIDE DEF g
  <2>3. okCount' \in [Groups -> Nat] /\ okCount'[g] = okCount[g] + 1
        /\ \A k \in Groups : k # g => okCount'[k] = okCount[k]
    BY <1>1, <1>2, <2>1, <2>2, SetOne
  <2> QED
    BY <1>2, <1>3, <2>1, <2>3 DEF g
<1>4. CASE e = "canceled"
  <2> DEFINE b == TRUE
  <2>1. firstErr' = [firstErr EXCEPT ![g] = b] /\ UNCHANGED <<failed, okCount>>
    BY <1>4 DEF record
  <2>2. b \in BOOLEAN /\ b = TRUE
    OBVIOUS
  <2> HIDE DEF g, b
  <2>3. firstErr' \in [Groups -> BOOLEAN] /\ firstErr'[g] = b
        /\ \A k \in Groups : k # g => firstErr'[k] = firstErr[k]
    BY <1>1, <1>2, <2>1, <2>2, SetOne
  <2> QED
    BY <1>2, <1>4, <2>1, <2>2, <2>3 DEF g
<1>5. CASE e \in {"own", "deadline"}
  <2>1. failed' = [failed EXCEPT ![g] = failed[g] \cup {h}] /\ UNCHANGED <<okCount, firstErr>>
    BY <1>5 DEF record
  <2>2. failed[g] \cup {h} \in SUBSET Hosts
    BY <1>1, <1>2
  <2> HIDE DEF g
  <2>3. failed' \in [Groups -> SUBSET Hosts] /\ failed'[g] = failed[g] \cup {h}
        /\ \A k \in Groups : k # g => failed'[k] = failed[k]
    BY <1>1, <1>2, <2>1, <2>2, SetOne
  <2> QED
    BY <1>2, <1>5, <2>1, <2>3 DEF g
<1> QED
  BY <1>3, <1>4, <1>5

\* A host that finishes: what it returns, and what changes.
LEMMA FinishStep ==
    ASSUME TypeInv, NEW h \in Hosts, Finish(h)
    PROVE  \E e \in {"ok", "own", "deadline", "canceled"} :
              /\ host[h] = "running" /\ (e = "canceled" => hostCtx[h] = "canceled")
              /\ err' \in [Hosts -> {"none", "ok", "own", "deadline", "canceled"}]
              /\ err'[h] = e /\ \A k \in Hosts : k # h => err'[k] = err[k]
              /\ host' \in [Hosts -> {"queued", "running", "recorded", "done"}]
              /\ host'[h] = "recorded" /\ \A k \in Hosts : k # h => host'[k] = host[k]
              /\ record(h, e)
              /\ UNCHANGED <<cancelled, fleetCtx, groupCtx, group, hostCtx, errs, result>>
<1>1. PICK e \in {"ok", "own"} \cup ({hostCtx[h]} \ {"none"}) :
         err' = [err EXCEPT ![h] = e] /\ record(h, e)
  BY DEF Finish
<1>2. e \in {"ok", "own", "deadline", "canceled"} /\ (e = "canceled" => hostCtx[h] = "canceled")
  BY DEF TypeInv
<1>3. /\ host' = [host EXCEPT ![h] = "recorded"] /\ host[h] = "running"
      /\ UNCHANGED <<cancelled, fleetCtx, groupCtx, group, hostCtx, errs, result>>
  BY DEF Finish
<1>4. err' \in [Hosts -> {"none", "ok", "own", "deadline", "canceled"}]
      /\ err'[h] = e /\ \A k \in Hosts : k # h => err'[k] = err[k]
  BY <1>1, <1>2 DEF TypeInv
<1>5. host' \in [Hosts -> {"queued", "running", "recorded", "done"}]
      /\ host'[h] = "recorded" /\ \A k \in Hosts : k # h => host'[k] = host[k]
  BY <1>3 DEF TypeInv
<1> QED
  BY <1>1, <1>2, <1>3, <1>4, <1>5

\* A group that collects its result, good or bad.
LEMMA CollectStep ==
    ASSUME TypeInv, NEW g \in Groups, Collect(g)
    PROVE  /\ g \notin errs
           /\ UNCHANGED <<cancelled, host, err, tally, result>>
           /\ group' \in [Groups -> {"new", "running", "ok", "failed", "aborted", "unresolved"}]
           /\ \A k \in Groups : k # g => group'[k] = group[k]
           /\ \/ group[g] = "running" /\ group'[g] = Tallied(g) /\
                     \A h \in Members(g) : host[h] = "done"
              \/ group[g] = "unresolved" /\ group'[g] = "unresolved"
           /\ \/ group'[g] = "ok" /\ UNCHANGED <<errs, fleetCtx, groupCtx, hostCtx>>
              \/ /\ group'[g] # "ok" /\ errs' = errs \cup {g} /\ fleetCtx' = TRUE
                 /\ groupCtx' = [k \in Groups |-> TRUE] /\ hostCtx' = Cancelled(Groups)
<1>1. Tallied(g) \in {"ok", "failed", "aborted"}
  BY DEF Tallied
<1>2. \/ group' = [group EXCEPT ![g] = Tallied(g)] /\ group[g] = "running"
            /\ \A h \in Members(g) : host[h] = "done"
      \/ group' = group /\ group[g] = "unresolved"
  BY DEF Collect
<1>3. /\ group' \in [Groups -> {"new", "running", "ok", "failed", "aborted", "unresolved"}]
      /\ \A k \in Groups : k # g => group'[k] = group[k]
      /\ \/ group[g] = "running" /\ group'[g] = Tallied(g) /\ \A h \in Members(g) : host[h] = "done"
         \/ group[g] = "unresolved" /\ group'[g] = "unresolved"
  BY <1>1, <1>2 DEF TypeInv
<1> QED
  BY <1>3 DEF Collect

\* The steps of a fleet run, one by one.
LEMMA StepCases ==
    ASSUME Next
    PROVE  \/ Interrupt \/ Return
           \/ \E h \in Hosts : Start(h) \/ Finish(h) \/ Leave(h) \/ Deadline(h)
           \/ \E g \in Groups : Deliver(g) \/ Collect(g)
BY DEF Next, HostStep, GroupStep

\* Types are kept.
LEMMA TypeStep ==
    ASSUME ConstantsOK, TypeInv, Next
    PROVE  TypeInv'
<1>1. CASE Interrupt
  BY <1>1, CancelledHosts DEF TypeInv, Interrupt, tally
<1>2. CASE Return
  BY <1>2 DEF TypeInv, Return, tally
<1>3. ASSUME NEW h \in Hosts, Start(h)
      PROVE  TypeInv'
  BY <1>3 DEF TypeInv, Start, tally
<1>4. ASSUME NEW h \in Hosts, Deadline(h)
      PROVE  TypeInv'
  BY <1>4 DEF TypeInv, Deadline, tally
<1>5. ASSUME NEW h \in Hosts, Finish(h)
      PROVE  TypeInv'
  <2>1. PICK e \in {"ok", "own", "deadline", "canceled"} :
          /\ err' \in [Hosts -> {"none", "ok", "own", "deadline", "canceled"}]
          /\ host' \in [Hosts -> {"queued", "running", "recorded", "done"}]
          /\ record(h, e)
          /\ UNCHANGED <<cancelled, fleetCtx, groupCtx, group, hostCtx, errs, result>>
    BY <1>5, FinishStep
  <2>2. /\ okCount' \in [Groups -> Nat] /\ failed' \in [Groups -> SUBSET Hosts]
        /\ firstErr' \in [Groups -> BOOLEAN]
    BY <2>1, RecordStep
  <2> QED
    BY <2>1, <2>2 DEF TypeInv
<1>6. ASSUME NEW h \in Hosts, Leave(h)
      PROVE  TypeInv'
  <2>1. groupCtx' \in [Groups -> BOOLEAN]
    BY <1>6 DEF TypeInv, Leave, ConstantsOK
  <2>2. hostCtx' \in [Hosts -> {"none", "canceled", "deadline"}]
    BY <1>6, CancelledHosts DEF TypeInv, Leave
  <2> QED
    BY <1>6, <2>1, <2>2 DEF TypeInv, Leave, tally
<1>7. ASSUME NEW g \in Groups, Deliver(g)
      PROVE  TypeInv'
  <2>1. groupCtx' \in [Groups -> BOOLEAN]
    BY <1>7 DEF TypeInv, Deliver
  <2> QED
    BY <1>7, <2>1 DEF TypeInv, Deliver, tally
<1>8. ASSUME NEW g \in Groups, Collect(g)
      PROVE  TypeInv'
  <2>1. /\ UNCHANGED <<cancelled, host, err, okCount, failed, firstErr>>
        /\ group' \in [Groups -> {"new", "running", "ok", "failed", "aborted", "unresolved"}]
    BY <1>8, CollectStep DEF tally
  <2>2. \/ UNCHANGED <<errs, fleetCtx, groupCtx, hostCtx>>
        \/ errs' = errs \cup {g} /\ CancelAll
    BY <1>8, CollectStep DEF CancelAll
  <2>3. errs' \subseteq Groups
    BY <2>2 DEF TypeInv
  <2>4. /\ fleetCtx' \in BOOLEAN /\ groupCtx' \in [Groups -> BOOLEAN]
        /\ hostCtx' \in [Hosts -> {"none", "canceled", "deadline"}]
    BY <2>2, CancelAllStep DEF TypeInv
  <2> QED
    BY <2>1, <2>3, <2>4 DEF TypeInv
<1> QED
  BY <1>1, <1>2, <1>3, <1>4, <1>5, <1>6, <1>7, <1>8, StepCases

\* A host starts only in a running group, and a group's result waits for its hosts.
LEMMA HostsStep ==
    ASSUME ConstantsOK, TypeInv, HostInv, Next
    PROVE  HostInv'
<1>0. \A h \in Hosts : GroupOf[h] \in Groups
  BY DEF ConstantsOK
<1>1. CASE Interrupt \/ Return
  BY <1>1 DEF HostInv, Interrupt, Return
<1>2. ASSUME NEW h \in Hosts, Start(h) \/ Deadline(h) \/ Leave(h)
      PROVE  HostInv'
  BY <1>2 DEF HostInv, TypeInv, Start, Deadline, Leave
<1>3. ASSUME NEW h \in Hosts, Finish(h)
      PROVE  HostInv'
  BY <1>3, FinishStep DEF HostInv, TypeInv
<1>4. ASSUME NEW g \in Groups, Deliver(g)
      PROVE  HostInv'
  <2>1. /\ group[g] = "new" /\ UNCHANGED <<host, err>>
        /\ \A k \in Groups : k # g => group'[k] = group[k]
        /\ group'[g] \in {"running", "unresolved"}
    BY <1>4 DEF Deliver, TypeInv
  <2> QED
    BY <1>0, <2>1 DEF HostInv
<1>5. ASSUME NEW g \in Groups, Collect(g)
      PROVE  HostInv'
  <2>1. /\ UNCHANGED <<host, err>>
        /\ \A k \in Groups : k # g => group'[k] = group[k]
        /\ \/ group[g] = "running" /\ group'[g] = Tallied(g) /\ \A h \in Members(g) : host[h] = "done"
           \/ group[g] = "unresolved" /\ group'[g] = "unresolved"
    BY <1>5, CollectStep
  <2>2. Tallied(g) \in {"ok", "failed", "aborted"}
    BY DEF Tallied
  <2> QED
    BY <1>0, <2>1, <2>2 DEF HostInv, Members
<1> QED
  BY <1>1, <1>2, <1>3, <1>4, <1>5, StepCases

\* The contexts after a step: only an end of the fleet, of a group or of a host
\* sets one, and nothing resets one.
LEMMA ContextsStep ==
    ASSUME ConstantsOK, TypeInv, HostInv, ContextInv, Next
    PROVE  ContextInv'
<1>0. \A h \in Hosts : GroupOf[h] \in Groups
  BY DEF ConstantsOK
<1>1. ASSUME CancelAll, UNCHANGED <<host, err>>
      PROVE  ContextInv'
  BY <1>0, <1>1, CancelAllStep DEF ContextInv
<1>2. CASE Interrupt
  BY <1>1, <1>2 DEF Interrupt, CancelAll
<1>3. CASE Return
  BY <1>3 DEF ContextInv, Return
<1>4. ASSUME NEW h \in Hosts, Start(h)
      PROVE  ContextInv'
  BY <1>0, <1>4 DEF ContextInv, Start, TypeInv
<1>5. ASSUME NEW h \in Hosts, Deadline(h)
      PROVE  ContextInv'
  BY <1>5 DEF ContextInv, Deadline, TypeInv
<1>6. ASSUME NEW h \in Hosts, Finish(h)
      PROVE  ContextInv'
  BY <1>6, FinishStep DEF ContextInv
<1>7. ASSUME NEW h \in Hosts, Leave(h)
      PROVE  ContextInv'
  <2>1. /\ host[h] = "recorded" /\ host'[h] = "done" /\ \A k \in Hosts : k # h => host'[k] = host[k]
        /\ UNCHANGED <<fleetCtx, err, errs>>
    BY <1>7 DEF Leave, TypeInv
  <2>2. CASE err[h] = "ok"
    <3>1. UNCHANGED <<groupCtx, hostCtx>>
      BY <1>7, <2>2 DEF Leave
    <3> QED
      BY <2>1, <2>2, <3>1 DEF ContextInv
  <2>3. CASE err[h] # "ok"
    <3> DEFINE g == GroupOf[h]
    <3>1. groupCtx' = [groupCtx EXCEPT ![g] = TRUE] /\ hostCtx' = Cancelled({g})
      BY <1>7, <2>3 DEF Leave
    <3>2. groupCtx'[g] /\ \A k \in Groups : k # g => groupCtx'[k] = groupCtx[k]
      BY <1>0, <3>1 DEF TypeInv
    <3>3. \A k \in Hosts :
             /\ hostCtx'[k] = hostCtx[k] \/ (hostCtx'[k] = "canceled" /\ GroupOf[k] = g)
             /\ host[k] = "running" /\ GroupOf[k] = g => hostCtx'[k] # "none"
             /\ hostCtx[k] # "none" => hostCtx'[k] # "none"
      BY <3>1, CancelledHosts
    <3> HIDE DEF g
    <3>4. g \in Groups /\ g = GroupOf[h]
      BY <1>0 DEF g
    <3>5. \A k \in Groups : groupCtx[k] => groupCtx'[k]
      BY <3>2
    <3>6. (errs' # {} => fleetCtx') /\ (fleetCtx' => \A k \in Groups : groupCtx'[k])
      BY <2>1, <3>5 DEF ContextInv
    <3>7. ASSUME NEW k \in Hosts
          PROVE  /\ hostCtx'[k] = "canceled" \/ err'[k] = "canceled" => groupCtx'[GroupOf[k]]
                 /\ host'[k] = "running" /\ groupCtx'[GroupOf[k]] => hostCtx'[k] # "none"
                 /\ host'[k] = "done" /\ err'[k] # "ok" => groupCtx'[GroupOf[k]]
      BY <1>0, <2>1, <3>2, <3>3, <3>4, <3>5 DEF ContextInv
    <3> QED
      BY <3>6, <3>7 DEF ContextInv
  <2> QED
    BY <2>2, <2>3
<1>8. ASSUME NEW g \in Groups, Deliver(g)
      PROVE  ContextInv'
  <2>1. /\ UNCHANGED <<fleetCtx, host, hostCtx, err, errs>> /\ group[g] = "new"
        /\ \A k \in Groups : k # g => groupCtx'[k] = groupCtx[k]
        /\ groupCtx'[g] = groupCtx[g] \/ groupCtx'[g] = (groupCtx[g] \/ fleetCtx)
    BY <1>8 DEF Deliver, TypeInv
  <2>2. fleetCtx => groupCtx[g]
    BY DEF ContextInv
  <2>3. \A k \in Groups : groupCtx'[k] <=> groupCtx[k]
    BY <2>1, <2>2
  <2> QED
    BY <1>0, <2>1, <2>3 DEF ContextInv
<1>9. ASSUME NEW g \in Groups, Collect(g)
      PROVE  ContextInv'
  <2>1. UNCHANGED <<host, err>>
    BY <1>9, CollectStep
  <2>2. UNCHANGED <<errs, fleetCtx, groupCtx, hostCtx>> \/ CancelAll
    BY <1>9, CollectStep DEF CancelAll
  <2> QED
    BY <1>1, <2>1, <2>2 DEF ContextInv
<1> QED
  BY <1>2, <1>3, <1>4, <1>5, <1>6, <1>7, <1>8, <1>9, StepCases

\* The members of a group can be counted, and one more of them counts one more.
LEMMA CountOne ==
    ASSUME ConstantsOK, NEW g, NEW S \in SUBSET Members(g), NEW h \in Members(g) \ S
    PROVE  Cardinality(S \cup {h}) = Cardinality(S) + 1
<1>1. Members(g) \in SUBSET Hosts /\ IsFiniteSet(Hosts)
  BY DEF Members, ConstantsOK
<1>2. IsFiniteSet(S)
  BY <1>1, FS_Subset
<1> QED
  BY <1>2, FS_AddElement

\* Only Finish touches the tally, and it counts the outcome it sets.
LEMMA TallyStep ==
    ASSUME ConstantsOK, TypeInv, HostInv, TallyInv, Next
    PROVE  TallyInv'
<1>1. CASE UNCHANGED <<err, okCount, failed, firstErr>>
  BY <1>1 DEF TallyInv, Members
<1>2. ASSUME NEW h \in Hosts, Finish(h)
      PROVE  TallyInv'
  <2>1. PICK e \in {"ok", "own", "deadline", "canceled"} :
           /\ host[h] = "running" /\ err'[h] = e /\ record(h, e)
           /\ \A k \in Hosts : k # h => err'[k] = err[k]
    BY <1>2, FinishStep
  <2>2. err[h] = "none" /\ GroupOf[h] \in Groups
    BY <2>1 DEF HostInv, ConstantsOK
  <2> DEFINE own == GroupOf[h]
  <2>3. /\ \A k \in Groups \ {own} :
              okCount'[k] = okCount[k] /\ failed'[k] = failed[k] /\ firstErr'[k] = firstErr[k]
        /\ okCount'[own] = (IF e = "ok" THEN okCount[own] + 1 ELSE okCount[own])
        /\ failed'[own] = (IF e \in {"own", "deadline"} THEN failed[own] \cup {h} ELSE failed[own])
        /\ firstErr'[own] = (IF e = "canceled" THEN TRUE ELSE firstErr[own])
    BY <2>1, RecordStep
  <2>4. ASSUME NEW g \in Groups, g # own
        PROVE  /\ failed'[g] = {k \in Members(g) : err'[k] \in {"own", "deadline"}}
               /\ firstErr'[g] <=> \E k \in Members(g) : err'[k] = "canceled"
               /\ okCount'[g] = Cardinality({k \in Members(g) : err'[k] = "ok"})
    <3>1. \A k \in Members(g) : err'[k] = err[k]
      BY <2>1, <2>4 DEF Members
    <3>2. /\ failed[g] = {k \in Members(g) : err[k] \in {"own", "deadline"}}
          /\ firstErr[g] <=> \E k \in Members(g) : err[k] = "canceled"
          /\ okCount[g] = Cardinality({k \in Members(g) : err[k] = "ok"})
      BY DEF TallyInv
    <3>3. okCount'[g] = okCount[g] /\ failed'[g] = failed[g] /\ firstErr'[g] = firstErr[g]
      BY <2>3, <2>4
    <3>4. {k \in Members(g) : err'[k] = "ok"} = {k \in Members(g) : err[k] = "ok"}
      BY <3>1
    <3>5. {k \in Members(g) : err'[k] \in {"own", "deadline"}}
             = {k \in Members(g) : err[k] \in {"own", "deadline"}}
      BY <3>1
    <3> QED
      BY <3>1, <3>2, <3>3, <3>4, <3>5
  <2>5. h \in Members(own) /\ \A k \in Members(own) : k # h => err'[k] = err[k]
    BY <2>1 DEF Members
  <2>6. /\ failed[own] = {k \in Members(own) : err[k] \in {"own", "deadline"}}
        /\ firstErr[own] <=> \E k \in Members(own) : err[k] = "canceled"
        /\ okCount[own] = Cardinality({k \in Members(own) : err[k] = "ok"})
    BY <2>2 DEF TallyInv
  <2> HIDE DEF own
  <2>7. failed'[own] = {k \in Members(own) : err'[k] \in {"own", "deadline"}}
    BY <2>1, <2>2, <2>3, <2>5, <2>6
  <2>8. firstErr'[own] <=> \E k \in Members(own) : err'[k] = "canceled"
    BY <2>1, <2>2, <2>3, <2>5, <2>6
  <2>9. okCount'[own] = Cardinality({k \in Members(own) : err'[k] = "ok"})
    <3> DEFINE S == {k \in Members(own) : err[k] = "ok"}
    <3>1. CASE e = "ok"
      <4>1. {k \in Members(own) : err'[k] = "ok"} = S \cup {h} /\ h \notin S /\
                S \in SUBSET Members(own)
        BY <2>1, <2>2, <2>5, <3>1
      <4>2. Cardinality(S \cup {h}) = Cardinality(S) + 1
        BY <2>5, <4>1, CountOne
      <4> QED
        BY <2>3, <2>6, <3>1, <4>1, <4>2
    <3>2. CASE e # "ok"
      <4>1. {k \in Members(own) : err'[k] = "ok"} = S
        BY <2>1, <2>2, <2>5, <3>2
      <4> QED
        BY <2>3, <2>6, <3>2, <4>1
    <3> QED
      BY <3>1, <3>2
  <2>10. \A g : Members(g)' = Members(g)
    BY DEF Members
  <2> QED
    BY <2>4, <2>7, <2>8, <2>9, <2>10 DEF TallyInv
<1>3. Interrupt \/ Return => UNCHANGED <<err, okCount, failed, firstErr>>
  BY DEF Interrupt, Return, tally
<1>4. ASSUME NEW h \in Hosts
      PROVE  Start(h) \/ Deadline(h) \/ Leave(h) => UNCHANGED <<err, okCount, failed, firstErr>>
  BY DEF Start, Deadline, Leave, tally
<1>5. ASSUME NEW g \in Groups
      PROVE  Deliver(g) \/ Collect(g) => UNCHANGED <<err, okCount, failed, firstErr>>
  BY DEF Deliver, Collect, tally
<1> QED
  BY <1>1, <1>2, <1>3, <1>4, <1>5, StepCases

\* A group's result follows from its tally once all of its hosts are done, and
\* the tally of a group with a result does not change any more.
LEMMA GroupsStep ==
    ASSUME ConstantsOK, TypeInv, HostInv, TallyInv, GroupInv, Next
    PROVE  GroupInv'
<1>0. \A h \in Hosts : GroupOf[h] \in Groups
  BY DEF ConstantsOK
<1>1. CASE UNCHANGED <<group, err, failed, firstErr, errs>>
  BY <1>1 DEF GroupInv, Members
<1>2. Interrupt \/ Return => UNCHANGED <<group, err, failed, firstErr, errs>>
  BY DEF Interrupt, Return, tally
<1>3. ASSUME NEW h \in Hosts
      PROVE  Start(h) \/ Deadline(h) \/ Leave(h) => UNCHANGED <<group, err, failed, firstErr, errs>>
  BY DEF Start, Deadline, Leave, tally
<1>4. ASSUME NEW h \in Hosts, Finish(h)
      PROVE  GroupInv'
  <2> DEFINE own == GroupOf[h]
  <2>1. PICK e \in {"ok", "own", "deadline", "canceled"} :
           /\ host[h] = "running" /\ record(h, e) /\ UNCHANGED <<group, errs>>
           /\ \A k \in Hosts : k # h => err'[k] = err[k]
    BY <1>4, FinishStep
  <2>2. \A k \in Groups \ {own} : failed'[k] = failed[k] /\ firstErr'[k] = firstErr[k]
    BY <2>1, RecordStep
  <2>3. own \in Groups /\ group[own] \notin {"ok", "failed", "aborted", "unresolved"}
    BY <1>0, <2>1 DEF HostInv
  <2>4. \A g \in Groups \ {own} : \A k \in Members(g) : err'[k] = err[k]
    BY <2>1 DEF Members
  <2>5. \A g : Members(g)' = Members(g)
    BY DEF Members
  <2> HIDE DEF own
  <2> QED
    BY <2>1, <2>2, <2>3, <2>4, <2>5 DEF GroupInv
<1>5. ASSUME NEW g \in Groups, Deliver(g)
      PROVE  GroupInv'
  <2>1. /\ group[g] = "new" /\ UNCHANGED <<err, failed, firstErr, errs>>
        /\ \A k \in Groups : k # g => group'[k] = group[k]
        /\ group'[g] \in {"running", "unresolved"}
    BY <1>5 DEF Deliver, TypeInv, tally
  <2> QED
    BY <2>1 DEF GroupInv, Members
<1>6. ASSUME NEW g \in Groups, Collect(g)
      PROVE  GroupInv'
  <2>1. /\ g \notin errs /\ UNCHANGED <<host, err, failed, firstErr>>
        /\ \A k \in Groups : k # g => group'[k] = group[k]
        /\ \/ group[g] = "running" /\ group'[g] = Tallied(g) /\ \A h \in Members(g) : host[h] = "done"
           \/ group[g] = "unresolved" /\ group'[g] = "unresolved"
        /\ \/ group'[g] = "ok" /\ errs' = errs
           \/ group'[g] # "ok" /\ errs' = errs \cup {g}
    BY <1>6, CollectStep DEF tally
  <2>2. \A k : Members(k)' = Members(k)
    BY DEF Members
  <2>3. ASSUME NEW k \in Groups, k # g
        PROVE  /\ group'[k] = "ok" => \A h \in Members(k) : err'[h] = "ok"
               /\ group'[k] = "failed" => failed'[k] # {}
               /\ group'[k] = "aborted" => failed'[k] = {} /\ firstErr'[k]
               /\ group'[k] \in {"failed", "aborted"} => k \in errs'
               /\ k \in errs' => group'[k] \in {"failed", "aborted", "unresolved"}
    BY <2>1, <2>3 DEF GroupInv
  <2>4. ASSUME group[g] = "running", group'[g] = Tallied(g), \A h \in Members(g) : host[h] = "done"
        PROVE  group'[g] = "ok" => \A h \in Members(g) : err'[h] = "ok"
    <3>1. group'[g] = "ok" => failed[g] = {} /\ ~firstErr[g]
      BY <2>4 DEF Tallied
    <3>2. \A h \in Members(g) : err[h] # "none" /\ h \in Hosts
      BY <2>4 DEF HostInv, Members
    <3>3. \A h \in Members(g) : err[h] \in {"own", "deadline"} => h \in failed[g]
      BY DEF TallyInv
    <3>4. \A h \in Members(g) : err[h] = "canceled" => firstErr[g]
      BY DEF TallyInv
    <3> QED
      BY <2>1, <3>1, <3>2, <3>3, <3>4 DEF TypeInv
  <2>5. /\ group'[g] = "failed" => failed[g] # {}
        /\ group'[g] = "aborted" => failed[g] = {} /\ firstErr[g]
        /\ group'[g] \in {"ok", "failed", "aborted", "unresolved"}
    BY <2>1 DEF Tallied
  <2>6. g \in errs' => group'[g] # "ok"
    BY <2>1
  <2>7. group'[g] # "ok" => g \in errs'
    BY <2>1
  <2>8. group'[g] = "ok" => \A h \in Members(g) : err'[h] = "ok"
    BY <2>1, <2>4
  <2> QED
    BY <2>1, <2>2, <2>3, <2>5, <2>6, <2>7, <2>8 DEF GroupInv
<1> QED
  BY <1>1, <1>2, <1>3, <1>4, <1>5, <1>6, StepCases

\* A step that takes no cause away.
LEMMA CausesKept ==
    ASSUME CauseInv, cancelled => cancelled', errs \subseteq errs', errs \subseteq Groups,
           \A g \in Groups : groupCtx'[g] => groupCtx[g],
           \A g \in Groups : failed[g] \subseteq failed'[g],
           \A g \in errs : AtFault(g) => AtFault(g)'
    PROVE  CauseInv'
<1>1. ASSUME NEW g \in Groups, groupCtx'[g]
      PROVE  cancelled' \/ failed'[g] # {} \/ \E e \in errs' : AtFault(e)'
  <2>1. cancelled \/ failed[g] # {} \/ \E e \in errs : AtFault(e)
    BY <1>1 DEF CauseInv
  <2>2. failed[g] \subseteq failed'[g]
    OBVIOUS
  <2> QED
    BY <2>1, <2>2
<1> QED
  BY <1>1 DEF CauseInv

\* A cancelled group was cancelled by the caller, by one of its own hosts or by
\* a group that is itself at fault: an abort is never the first cause.
LEMMA CausesStep ==
    ASSUME ConstantsOK, FleetInv, Next
    PROVE  CauseInv'
<1>0. /\ TypeInv /\ HostInv /\ ContextInv /\ TallyInv /\ GroupInv /\ CauseInv
      /\ \A h \in Hosts : GroupOf[h] \in Groups
  BY DEF FleetInv, ConstantsOK
<1>1. errs \subseteq Groups
  BY <1>0 DEF TypeInv
<1>2. CASE Interrupt
  <2>1. cancelled'
    BY <1>2 DEF Interrupt
  <2> QED
    BY <2>1 DEF CauseInv
<1>3. CASE Return
  <2>1. UNCHANGED <<cancelled, groupCtx, group, failed, errs>>
    BY <1>3 DEF Return, tally
  <2> QED
    BY <1>0, <2>1 DEF CauseInv, AtFault
<1>4. ASSUME NEW h \in Hosts, Start(h) \/ Deadline(h)
      PROVE  CauseInv'
  <2>1. UNCHANGED <<cancelled, groupCtx, group, failed, errs>>
    BY <1>4 DEF Start, Deadline, tally
  <2> QED
    BY <1>0, <2>1 DEF CauseInv, AtFault
<1>5. ASSUME NEW h \in Hosts, Finish(h)
      PROVE  CauseInv'
  <2>1. PICK e \in {"ok", "own", "deadline", "canceled"} :
           record(h, e) /\ UNCHANGED <<cancelled, groupCtx, group, errs>>
    BY <1>0, <1>5, FinishStep
  <2>2. \A k \in Groups : failed[k] \subseteq failed'[k]
    BY <1>0, <2>1, RecordStep
  <2> QED
    BY <1>0, <1>1, <2>1, <2>2, CausesKept DEF AtFault
<1>6. ASSUME NEW h \in Hosts, Leave(h)
      PROVE  CauseInv'
  <2> DEFINE own == GroupOf[h]
  <2>1. /\ UNCHANGED <<cancelled, group, failed, errs>> /\ host[h] = "recorded"
        /\ \A k \in Groups : k # own => groupCtx'[k] = groupCtx[k]
        /\ err[h] = "ok" => groupCtx' = groupCtx
    BY <1>0, <1>6 DEF Leave, tally, TypeInv
  <2>2. own \in Groups /\ h \in Members(own) /\ err[h] # "none"
    BY <1>0, <2>1 DEF Members, HostInv
  <2>3. err[h] \in {"own", "deadline"} => failed[own] # {}
    BY <1>0, <2>2 DEF TallyInv
  <2>4. err[h] = "canceled" => groupCtx[own]
    BY <1>0 DEF ContextInv
  <2>5. groupCtx'[own] => groupCtx[own] \/ failed[own] # {}
    BY <1>0, <2>1, <2>2, <2>3, <2>4 DEF TypeInv
  <2> HIDE DEF own
  <2> QED
    BY <1>0, <2>1, <2>2, <2>5 DEF CauseInv, AtFault
<1>7. ASSUME NEW g \in Groups, Deliver(g)
      PROVE  CauseInv'
  <2>1. /\ UNCHANGED <<cancelled, fleetCtx, failed, errs>> /\ group[g] = "new"
        /\ \A k \in Groups : k # g => (groupCtx'[k] = groupCtx[k] /\ group'[k] = group[k])
        /\ groupCtx'[g] = groupCtx[g] \/ groupCtx'[g] = (groupCtx[g] \/ fleetCtx)
    BY <1>0, <1>7 DEF Deliver, tally, TypeInv
  <2>2. fleetCtx => groupCtx[g]
    BY <1>0 DEF ContextInv
  <2>3. \A k \in Groups : groupCtx'[k] => groupCtx[k]
    BY <2>1, <2>2
  <2>4. \A k \in errs : AtFault(k) => AtFault(k)'
    BY <1>1, <2>1 DEF AtFault
  <2> QED
    BY <1>0, <1>1, <2>1, <2>3, <2>4, CausesKept
<1>8. ASSUME NEW g \in Groups, Collect(g)
      PROVE  CauseInv'
  <2>1. /\ g \notin errs /\ UNCHANGED <<cancelled, err, failed, firstErr>>
        /\ \A k \in Groups : k # g => group'[k] = group[k]
        /\ \/ group[g] = "running" /\ group'[g] = Tallied(g)
           \/ group[g] = "unresolved" /\ group'[g] = "unresolved"
    BY <1>0, <1>8, CollectStep DEF tally
  <2>2. \A k \in errs : AtFault(k) => AtFault(k)'
    BY <1>1, <2>1 DEF AtFault
  <2>3. CASE group'[g] = "ok"
    <3>1. UNCHANGED <<errs, groupCtx>>
      BY <1>0, <1>8, <2>3, CollectStep
    <3> QED
      BY <1>0, <1>1, <2>1, <2>2, <3>1, CausesKept
  <2>4. CASE group'[g] # "ok"
    <3>1. errs' = errs \cup {g}
      BY <1>0, <1>8, <2>4, CollectStep
    <3>2. CASE group'[g] \in {"failed", "unresolved"}
      <4>1. g \in errs' /\ AtFault(g)'
        BY <3>1, <3>2 DEF AtFault
      <4> QED
        BY <4>1 DEF CauseInv
    <3>3. CASE group'[g] \notin {"failed", "unresolved"}
      <4>1. failed[g] = {} /\ firstErr[g]
        BY <2>1, <2>4, <3>3 DEF Tallied
      <4>2. PICK h \in Members(g) : err[h] = "canceled"
        BY <1>0, <4>1 DEF TallyInv
      <4>3. groupCtx[g]
        BY <1>0, <4>2 DEF ContextInv, Members
      <4>4. cancelled \/ \E e \in errs : AtFault(e)
        BY <1>0, <4>1, <4>3 DEF CauseInv
      <4>5. cancelled' \/ \E e \in errs' : AtFault(e)'
        BY <2>1, <2>2, <3>1, <4>4
      <4> QED
        BY <4>5 DEF CauseInv
    <3> QED
      BY <3>2, <3>3
  <2> QED
    BY <2>3, <2>4
<1> QED
  BY <1>2, <1>3, <1>4, <1>5, <1>6, <1>7, <1>8, StepCases

\* Once the result is given only contexts change: every host is done, and every
\* group is collected.
LEMMA ResultsStep ==
    ASSUME ConstantsOK, FleetInv, Next
    PROVE  ResultInv'
<1>0. /\ TypeInv /\ HostInv /\ GroupInv /\ ResultInv
      /\ \A h \in Hosts : GroupOf[h] \in Groups
      /\ errs \subseteq Groups
  BY DEF FleetInv, ConstantsOK, TypeInv
<1>1. ASSUME UNCHANGED <<result, group, failed, errs>>
      PROVE  ResultInv'
  BY <1>0, <1>1 DEF ResultInv, Joined
<1>2. ASSUME ~result.returned, result' = result
      PROVE  ResultInv'
  BY <1>2 DEF ResultInv
<1>3. CASE Interrupt
  BY <1>1, <1>3 DEF Interrupt, tally
<1>4. CASE Return
  <2>1. /\ \A g \in Groups : group[g] \notin {"new", "running"} /\ (group[g] # "ok" => g \in errs)
        /\ result' = Joined /\ UNCHANGED <<group, failed, errs>>
    BY <1>4 DEF Return, tally
  <2>2. Joined' = Joined
    BY <2>1 DEF Joined
  <2>3. \A g \in Groups : group'[g] \in {"ok", "failed", "aborted"} \/ g \in errs'
    BY <2>1
  <2> QED
    BY <2>1, <2>2, <2>3 DEF ResultInv
<1>5. ASSUME NEW h \in Hosts, Start(h) \/ Deadline(h) \/ Leave(h)
      PROVE  ResultInv'
  BY <1>1, <1>5 DEF Start, Deadline, Leave, tally
<1>6. ASSUME NEW h \in Hosts, Finish(h)
      PROVE  ResultInv'
  <2>1. host[h] = "running" /\ result' = result
    BY <1>0, <1>6, FinishStep
  <2>2. group[GroupOf[h]] \notin {"ok", "failed", "aborted", "new", "unresolved"}
    BY <1>0, <2>1 DEF HostInv
  <2>3. GroupOf[h] \notin errs
    BY <1>0, <2>2 DEF GroupInv
  <2>4. ~result.returned
    BY <1>0, <2>2, <2>3 DEF ResultInv
  <2> QED
    BY <1>2, <2>1, <2>4
<1>7. ASSUME NEW g \in Groups, Deliver(g)
      PROVE  ResultInv'
  <2>1. group[g] = "new" /\ result' = result
    BY <1>7 DEF Deliver
  <2>2. g \notin errs
    BY <1>0, <2>1 DEF GroupInv
  <2> QED
    BY <1>0, <1>2, <2>1, <2>2 DEF ResultInv
<1>8. ASSUME NEW g \in Groups, Collect(g)
      PROVE  ResultInv'
  <2>1. group[g] \in {"running", "unresolved"} /\ g \notin errs /\ result' = result
    BY <1>0, <1>8, CollectStep
  <2> QED
    BY <1>0, <1>2, <2>1 DEF ResultInv
<1> QED
  BY <1>3, <1>4, <1>5, <1>6, <1>7, <1>8, StepCases

(***************************************************************************)
(* The invariant                                                           *)
(***************************************************************************)
\* Nothing has started, and nothing is cancelled.
LEMMA FleetInit ==
    ASSUME ConstantsOK, Init
    PROVE  FleetInv
<1>1. /\ err = [h \in Hosts |-> "none"] /\ host = [h \in Hosts |-> "queued"]
      /\ hostCtx = [h \in Hosts |-> "none"] /\ errs = {} /\ fleetCtx = FALSE /\ cancelled = FALSE
      /\ group = [g \in Groups |-> "new"]
  BY DEF Init
<1>2. /\ groupCtx = [g \in Groups |-> FALSE] /\ failed = [g \in Groups |-> {}]
      /\ firstErr = [g \in Groups |-> FALSE] /\ okCount = [g \in Groups |-> 0]
  BY DEF Init
<1>3. TypeInv
  BY <1>1, <1>2 DEF TypeInv
<1>4. HostInv
  BY <1>1 DEF HostInv, ConstantsOK
<1>5. ContextInv
  BY <1>1, <1>2 DEF ContextInv
<1>6. TallyInv
  <2>1. ASSUME NEW g \in Groups
        PROVE  \A h \in Members(g) : err[h] = "none"
    BY <1>1 DEF Members
  <2>2. ASSUME NEW g \in Groups
        PROVE  Cardinality({h \in Members(g) : err[h] = "ok"}) = 0
    <3>1. {h \in Members(g) : err[h] = "ok"} = {}
      BY <2>1
    <3> QED
      BY <3>1, FS_EmptySet
  <2> QED
    BY <1>2, <2>1, <2>2 DEF TallyInv
<1>7. GroupInv
  BY <1>1 DEF GroupInv
<1>8. CauseInv
  BY <1>2 DEF CauseInv
<1>9. ResultInv
  BY DEF Init, Pending, ResultInv
<1> QED
  BY <1>3, <1>4, <1>5, <1>6, <1>7, <1>8, <1>9 DEF FleetInv

\* Every step keeps every part of the invariant.
LEMMA FleetStep ==
    ASSUME ConstantsOK, FleetInv, [Next]_vars
    PROVE  FleetInv'
<1>1. CASE Next
  <2>1. TypeInv /\ HostInv /\ ContextInv /\ TallyInv /\ GroupInv
    BY DEF FleetInv
  <2>2. TypeInv' /\ HostInv' /\ ContextInv' /\ TallyInv' /\ GroupInv'
    BY <1>1, <2>1, TypeStep, HostsStep, ContextsStep, TallyStep, GroupsStep
  <2>3. CauseInv' /\ ResultInv'
    BY <1>1, CausesStep, ResultsStep
  <2> QED
    BY <2>2, <2>3 DEF FleetInv
<1>2. CASE UNCHANGED vars
  <2>1. /\ cancelled' = cancelled /\ fleetCtx' = fleetCtx /\ groupCtx' = groupCtx /\ group' = group
        /\ host' = host /\ hostCtx' = hostCtx /\ err' = err /\ okCount' = okCount
        /\ failed' = failed /\ firstErr' = firstErr /\ errs' = errs /\ result' = result
    BY <1>2 DEF vars, tally
  <2>2. TypeInv' /\ HostInv' /\ ContextInv' /\ GroupInv'
    BY <2>1 DEF FleetInv, TypeInv, HostInv, ContextInv, GroupInv, Members
  <2>3. TallyInv'
    BY <2>1 DEF FleetInv, TallyInv, Members
  <2>4. CauseInv'
    BY <2>1 DEF FleetInv, CauseInv, AtFault
  <2>5. ResultInv'
    BY <2>1 DEF FleetInv, ResultInv, Joined
  <2> QED
    BY <2>2, <2>3, <2>4, <2>5 DEF FleetInv
<1> QED
  BY <1>1, <1>2

\* FleetInv holds in every reachable state, whatever the hosts, groups and limit.
THEOREM FleetInvariant == ASSUME ConstantsOK PROVE Spec => []FleetInv
<1>1. Init => FleetInv
  BY FleetInit
<1>2. FleetInv /\ [Next]_vars => FleetInv'
  BY FleetStep
<1> QED
  BY <1>1, <1>2, PTL DEF Spec

(***************************************************************************)
(* What it implies                                                         *)
(***************************************************************************)
\* A run returned: every group has its result, and an error unless it is "ok".
LEMMA SettledGroups ==
    ASSUME FleetInv, result.returned
    PROVE  /\ result = Joined
           /\ \A g \in Groups :
                 \/ group[g] = "ok" /\ g \notin errs
                 \/ group[g] \in {"failed", "aborted", "unresolved"} /\ g \in errs
BY DEF FleetInv, ResultInv, GroupInv

\* A group that was never resolved, or that is not "ok", misses a host.
LEMMA ErrorMeansMissed ==
    ASSUME ConstantsOK, FleetInv, NEW g \in errs
    PROVE  \E h \in Members(g) : err[h] # "ok"
<1>1. g \in Groups /\ group[g] \in {"failed", "aborted", "unresolved"}
  BY DEF FleetInv, TypeInv, GroupInv
<1>2. CASE group[g] = "unresolved"
  <2>1. PICK h \in Members(g) : TRUE
    BY <1>1 DEF ConstantsOK
  <2>2. host[h] = "queued"
    BY <1>2, <2>1 DEF FleetInv, HostInv, Members
  <2> QED
    BY <2>1, <2>2 DEF FleetInv, HostInv, Members
<1>3. CASE group[g] = "failed"
  <2>1. failed[g] # {} /\ failed[g] = {h \in Members(g) : err[h] \in {"own", "deadline"}}
    BY <1>1, <1>3 DEF FleetInv, GroupInv, TallyInv
  <2> QED
    BY <2>1
<1>4. CASE group[g] = "aborted"
  <2>1. firstErr[g] /\ (firstErr[g] <=> \E h \in Members(g) : err[h] = "canceled")
    BY <1>1, <1>4 DEF FleetInv, GroupInv, TallyInv
  <2> QED
    BY <2>1
<1> QED
  BY <1>1, <1>2, <1>3, <1>4

\* The fields of what JoinGroupErrors and the caller make of the results.
LEMMA JoinedFields ==
    LET real == {g \in errs : group[g] # "aborted"}
    IN  /\ Joined.returned /\ (Joined.nil <=> errs = {})
        /\ Joined.causes = {g \in errs : group[g] = "unresolved"} \cup UNION {failed[g] : g \in real}
        /\ (Joined.canceled <=> real = {} /\ errs # {})
BY DEF Joined

\* No error means no host missed, and the counts are the tally's.
LEMMA SuccessFollows ==
    ASSUME ConstantsOK, FleetInv
    PROVE  SuccessIsComplete
<1> SUFFICES ASSUME result.returned
             PROVE  /\ result.nil <=> \A h \in Hosts : err[h] = "ok"
                    /\ \A g \in Groups : okCount[g] = Cardinality({h \in Members(g) : err[h] = "ok"})
  BY DEF SuccessIsComplete
<1>1. result.nil <=> errs = {}
  BY SettledGroups, JoinedFields
<1>2. ASSUME errs = {}, NEW h \in Hosts
      PROVE  err[h] = "ok"
  <2>1. GroupOf[h] \in Groups /\ h \in Members(GroupOf[h])
    BY DEF ConstantsOK, Members
  <2>2. group[GroupOf[h]] = "ok"
    BY <1>2, <2>1, SettledGroups
  <2> QED
    BY <2>1, <2>2 DEF FleetInv, GroupInv
<1>3. ASSUME errs # {}
      PROVE  \E h \in Hosts : err[h] # "ok"
  <2>1. PICK g \in errs : TRUE
    BY <1>3
  <2> QED
    BY <2>1, ErrorMeansMissed DEF Members
<1>4. \A g \in Groups : okCount[g] = Cardinality({h \in Members(g) : err[h] = "ok"})
  BY DEF FleetInv, TallyInv
<1> QED
  BY <1>1, <1>2, <1>3, <1>4

\* A result that is only cancelled: every error is an abort, so nobody is at fault.
LEMMA CanceledFollows ==
    ASSUME ConstantsOK, FleetInv
    PROVE  CanceledMeansInterrupt
<1> SUFFICES ASSUME result.returned, result.canceled
             PROVE  cancelled
  BY DEF CanceledMeansInterrupt
<1>1. errs # {} /\ \A g \in errs : group[g] = "aborted"
  BY SettledGroups, JoinedFields
<1>2. PICK g \in errs : group[g] = "aborted"
  BY <1>1
<1>3. g \in Groups /\ failed[g] = {} /\ firstErr[g]
  BY <1>2 DEF FleetInv, GroupInv, TypeInv
<1>4. PICK h \in Members(g) : err[h] = "canceled"
  BY <1>3 DEF FleetInv, TallyInv
<1>5. groupCtx[g]
  BY <1>4 DEF FleetInv, ContextInv, Members
<1>6. cancelled \/ \E e \in errs : AtFault(e)
  BY <1>3, <1>5 DEF FleetInv, CauseInv
<1> QED
  BY <1>1, <1>6 DEF AtFault

\* Host failures and the causes of the error are the same hosts.
LEMMA FailuresFollow ==
    ASSUME ConstantsOK, FleetInv
    PROVE  FailuresReported
<1> SUFFICES ASSUME result.returned
             PROVE  /\ {h \in Hosts : err[h] \in {"own", "deadline"}} \subseteq result.causes
                    /\ \A h \in Hosts : h \in result.causes => err[h] \in {"own", "deadline"}
                    /\ ~result.nil => result.causes # {} \/ cancelled
  BY DEF FailuresReported
<1> DEFINE real == {g \in errs : group[g] # "aborted"}
<1>1. /\ result.causes = {g \in errs : group[g] = "unresolved"} \cup UNION {failed[g] : g \in real}
      /\ (result.nil <=> errs = {})
  BY SettledGroups, JoinedFields
<1>2. \A g \in Groups : failed[g] = {h \in Members(g) : err[h] \in {"own", "deadline"}}
  BY DEF FleetInv, TallyInv
<1>3. errs \subseteq Groups
  BY DEF FleetInv, TypeInv
<1>4. ASSUME NEW h \in Hosts, err[h] \in {"own", "deadline"}
      PROVE  h \in result.causes
  <2> DEFINE g == GroupOf[h]
  <2>1. g \in Groups /\ h \in Members(g)
    BY DEF ConstantsOK, Members
  <2>2. h \in failed[g]
    BY <1>2, <1>4, <2>1
  <2>3. group[g] # "ok"
    BY <1>4, <2>1 DEF FleetInv, GroupInv
  <2>4. group[g] # "aborted"
    BY <2>1, <2>2 DEF FleetInv, GroupInv
  <2>5. g \in real
    BY <2>1, <2>3, <2>4, SettledGroups
  <2> QED
    BY <1>1, <2>2, <2>5
<1>5. ASSUME NEW h \in Hosts, h \in result.causes
      PROVE  err[h] \in {"own", "deadline"}
  <2>1. h \notin errs
    BY <1>3 DEF ConstantsOK
  <2>2. PICK g \in real : h \in failed[g]
    BY <1>1, <1>5, <2>1
  <2> QED
    BY <1>2, <1>3, <2>2
<1>6. ASSUME ~result.nil
      PROVE  result.causes # {} \/ cancelled
  <2>1. PICK g \in errs : TRUE
    BY <1>1, <1>6
  <2>2. CASE \E e \in errs : AtFault(e)
    <3>1. PICK e \in errs : group[e] \in {"failed", "unresolved"}
      BY <2>2 DEF AtFault
    <3>2. e \in real /\ e \in Groups
      BY <1>3, <3>1
    <3>3. group[e] = "failed" => failed[e] # {}
      BY <3>2 DEF FleetInv, GroupInv
    <3> QED
      BY <1>1, <3>1, <3>2, <3>3
  <2>3. CASE ~ \E e \in errs : AtFault(e)
    <3>1. \A e \in errs : group[e] = "aborted"
      BY <1>3, <2>3, SettledGroups DEF AtFault
    <3>2. g \in Groups /\ failed[g] = {} /\ firstErr[g]
      BY <1>3, <2>1, <3>1 DEF FleetInv, GroupInv
    <3>3. PICK h \in Members(g) : err[h] = "canceled"
      BY <3>2 DEF FleetInv, TallyInv
    <3>4. groupCtx[g]
      BY <3>3 DEF FleetInv, ContextInv, Members
    <3> QED
      BY <2>3, <3>2, <3>4 DEF FleetInv, CauseInv
  <2> QED
    BY <2>2, <2>3
<1> QED
  BY <1>4, <1>5, <1>6

LEMMA ReportFollows ==
    ASSUME ConstantsOK, FleetInv
    PROVE  ReportIsTrue
BY SuccessFollows, CanceledFollows, FailuresFollow DEF ReportIsTrue

\* What the caller of a fleet run is told is what happened to the hosts: no error
\* exactly when every host got the plan, the right counts, every host failure
\* among the causes and nothing else, and context.Canceled only for an interrupt.
THEOREM ReportsAreTrue == ASSUME ConstantsOK PROVE Spec => []ReportIsTrue
<1>1. FleetInv => ReportIsTrue
  BY ReportFollows
<1> QED
  BY <1>1, FleetInvariant, PTL

\* A live context means no collected error, and a group left uncancelled.
LEMMA StopFollows ==
    ASSUME ConstantsOK, FleetInv
    PROVE  FailureStopsFleet
<1> SUFFICES ASSUME NEW h \in Hosts, NEW k \in Hosts, host[h] = "running", hostCtx[h] = "none",
                    host[k] = "done", err[k] # "ok"
             PROVE  GroupOf[k] # GroupOf[h] /\ group[GroupOf[k]] = "running"
  BY DEF FailureStopsFleet
<1>1. GroupOf[h] \in Groups /\ GroupOf[k] \in Groups /\ k \in Members(GroupOf[k])
  BY DEF ConstantsOK, Members
<1>2. ~groupCtx[GroupOf[h]] /\ groupCtx[GroupOf[k]]
  BY DEF FleetInv, ContextInv
<1>3. errs = {}
  BY <1>1, <1>2 DEF FleetInv, ContextInv
<1>4. group[GroupOf[k]] \notin {"new", "unresolved", "failed", "aborted"}
  BY <1>1, <1>3 DEF FleetInv, HostInv, GroupInv
<1>5. group[GroupOf[k]] # "ok"
  BY <1>1 DEF FleetInv, GroupInv
<1>6. group[GroupOf[k]] = "running"
  BY <1>1, <1>4, <1>5 DEF FleetInv, TypeInv
<1> QED
  BY <1>2, <1>6

\* Fail fast: while a host still runs with a live context, a host that did not
\* get the plan is in another cluster, and that cluster has not ended yet.
THEOREM FailureEndsFleet == ASSUME ConstantsOK PROVE Spec => []FailureStopsFleet
<1>1. FleetInv => FailureStopsFleet
  BY StopFollows
<1> QED
  BY <1>1, FleetInvariant, PTL

(***************************************************************************)
(* Cross builds: the invariant, action by action                           *)
(***************************************************************************)
\* Where a push works on its directory, and where it builds into it.
Reusing(p) == pc[p] \in {"reuseDir", "reuseBinary", "retire"}
Building(p) == pc[p] \in {"build", "built", "sum", "verify", "set", "discard"}
Locking(p) == pc[p] \in {"get", "dir"} \/ Reusing(p) \/ Building(p)
Using(p) == pc[p] = "using"

BuildTypes ==
    /\ at \in [Build!Dirs -> {"unused", "ours", "none", "foreign"}]
    /\ bin \in [Build!Dirs \X Build!Platforms -> {"none", "partial", "good", "edited", "foreign"}]
    /\ buildDir \in Build!Dirs \cup {0} /\ retired \subseteq Build!Dirs
    /\ cache \in [Build!Platforms -> Build!Dirs \cup {0}]
    /\ holder \in [Build!Platforms -> SUBSET Pushes]
    /\ pc \in [Pushes -> {"start", "get", "reuseDir", "reuseBinary", "retire", "dir", "build",
                          "built", "sum", "verify", "set", "discard", "using", "done", "failed"}]
    /\ dir \in [Pushes -> Build!Dirs \cup {0}]
    /\ spoiled \subseteq Build!Dirs \X Build!Platforms
    /\ known \in [Pushes -> SUBSET (Build!Dirs \X Build!Platforms)]
    /\ \A p \in Pushes : known[p] \subseteq spoiled

\* A push between the lock and the return holds the lock of its platform alone.
LockHeld == \A p \in Pushes : Locking(p) => holder[Platform[p]] = {p}

\* What is referred to was made.
MadeInv ==
    /\ \A p \in Pushes : Reusing(p) \/ Building(p) \/ Using(p) => dir[p] \in Build!Made
    /\ buildDir # 0 => buildDir \in Build!Made
    /\ \A k \in Build!Platforms : cache[k] # 0 => cache[k] \in Build!Made
    /\ \A x \in spoiled : x[1] \in Build!Made

\* A directory that is found in the cache stays there or is built into no more;
\* while a push looks for a directory or builds, its platform has none cached.
CacheInv == \A p \in Pushes :
    /\ Reusing(p) => \/ cache[Platform[p]] = dir[p]
                     \/ cache[Platform[p]] = 0 /\ buildDir # dir[p]
    /\ pc[p] = "dir" \/ Building(p) => cache[Platform[p]] = 0

\* A spoiled binary is never good again: only a cached one is edited, and a
\* directory that loses one from the cache is no longer built into.
SpoiledInv == \A x \in spoiled :
    /\ bin[x] # "good"
    /\ Build!isOurDir(x[1]) /\ buildDir = x[1] => cache[x[2]] = x[1]

\* What a push builds was not spoiled before; if it is spoiled meanwhile, the
\* directory is gone.
BuildInv == \A p \in Pushes :
    /\ Building(p) \/ Using(p) => Build!Out(p) \notin known[p]
    /\ Building(p) /\ Build!isOurDir(dir[p]) => Build!Out(p) \notin spoiled
    /\ pc[p] \in {"sum", "verify", "set"} /\ Build!Out(p) \notin spoiled =>
          Build!isOurDir(dir[p]) /\ bin[Build!Out(p)] = "good"

\* The binary a push installs is whole, and nobody builds it again.
UseInv == \A p \in Pushes : Using(p) /\ Build!Out(p) \notin spoiled =>
    /\ Build!isOurDir(dir[p]) /\ bin[Build!Out(p)] = "good"
    /\ cache[Platform[p]] = dir[p] \/ buildDir # dir[p]
    /\ \A q \in Pushes : Building(q) => Build!Out(q) # Build!Out(p)

\* A directory that is ours is the current one or waits for Close, which comes
\* when all have returned.
CloseInv ==
    /\ \A d \in Build!Dirs : Build!isOurDir(d) => d = buildDir \/ d \in retired
    /\ closed => Build!Ended /\ \A d \in Build!Dirs : ~Build!isOurDir(d)
    /\ ~closed => \A x \in Build!Dirs \X Build!Platforms : bin[x] = "good" => Build!isOurDir(x[1])

BuildsInv ==
    BuildTypes /\ LockHeld /\ MadeInv /\ CacheInv /\ SpoiledInv /\ BuildInv /\ UseInv /\ CloseInv

\* Two pushes of one platform are not between lock and return at once.
LEMMA OneOfPlatform ==
    ASSUME LockHeld, NEW p \in Pushes, NEW q \in Pushes, Locking(p), Locking(q),
           Platform[p] = Platform[q]
    PROVE  p = q
BY DEF LockHeld

\* A step that leaves files and the shared state alone leaves what is used alone.
LEMMA QuietUse ==
    ASSUME BuildTypes, UseInv, NEW p \in Pushes, NEW l, pc' = [pc EXCEPT ![p] = l],
           l # "using", Building(p)' => Building(p),
           UNCHANGED <<Build!disk, bin, Build!shared, dir, spoiled>>
    PROVE  UseInv'
<1>1. \A q \in Pushes : (Using(q)' => Using(q)) /\ (Building(q)' => Building(q)) /\
         Build!Out(q)' = Build!Out(q)
    BY DEF BuildTypes, Using, Building, Build!Out
<1>2. /\ dir' = dir /\ spoiled' = spoiled /\ bin' = bin /\ cache' = cache /\ buildDir' = buildDir
      /\ \A d : Build!isOurDir(d)' <=> Build!isOurDir(d)
    BY DEF Build!shared, Build!disk, Build!isOurDir
<1>3. QED  BY <1>1, <1>2 DEF UseInv

\* What a push works on is a binary in a directory that was made.
LEMMA OutType ==
    ASSUME BuildsInv, NEW p \in Pushes, Reusing(p) \/ Building(p) \/ Using(p)
    PROVE  Build!Out(p) \in Build!Dirs \X Build!Platforms /\ Build!Out(p)[1] = dir[p] /\
              dir[p] \in Build!Dirs
BY DEF BuildsInv, MadeInv, Build!Made, Build!Platforms, Build!Out

\* Nobody else builds or installs what a push builds.
LEMMA BuildsElsewhere ==
    ASSUME BuildsInv, NEW p \in Pushes, Building(p)
    PROVE  \A q \in Pushes : /\ Building(q) /\ q # p => Build!Out(q) # Build!Out(p)
                             /\ Using(q) /\ Build!Out(q) \notin spoiled =>
                                   Build!Out(q) # Build!Out(p)
<1>1. \A q \in Pushes : Building(q) /\ q # p => Platform[q] # Platform[p]
    BY OneOfPlatform DEF BuildsInv, Locking
<1>2. \A q \in Pushes : Building(q) /\ q # p => Build!Out(q) # Build!Out(p)
    BY <1>1 DEF Build!Out
<1>3. QED  BY <1>2 DEF BuildsInv, UseInv

\* A step that changes the file a push builds, and forgets directories that are
\* built into no more, leaves what others build and use alone.
LEMMA BuildStep ==
    ASSUME BuildsInv, NEW p \in Pushes, Building(p),
           pc'[p] \in {"built", "sum", "failed"}, \A q \in Pushes \ {p} : pc'[q] = pc[q],
           \A x \in (Build!Dirs \X Build!Platforms) \ {Build!Out(p)} : bin'[x] = bin[x],
           \A k \in Build!Platforms : cache'[k] = cache[k] \/
              (cache'[k] = 0 /\ buildDir' # cache[k]),
           buildDir' = buildDir \/ buildDir' = 0,
           UNCHANGED <<at, dir, spoiled>>
    PROVE  UseInv'
<1>1. \A q \in Pushes : /\ Using(q)' => Using(q) /\ q # p
                        /\ Building(q)' => Building(q)
                        /\ Build!Out(q)' = Build!Out(q)
                        /\ Build!isOurDir(dir[q])' <=> Build!isOurDir(dir[q])
    BY DEF BuildsInv, BuildTypes, Using, Building, Build!Out, Build!isOurDir
<1>2. ASSUME NEW q \in Pushes, Using(q), Build!Out(q) \notin spoiled
      PROVE  /\ bin'[Build!Out(q)] = bin[Build!Out(q)]
             /\ cache[Platform[q]] = dir[q] \/ buildDir # dir[q] =>
                   cache'[Platform[q]] = dir[q] \/ buildDir' # dir[q]
    <2>1. Build!Out(q) # Build!Out(p) /\ Build!Out(q) \in Build!Dirs \X Build!Platforms /\
             dir[q] \in Build!Dirs /\ Platform[q] \in Build!Platforms
        BY <1>2, BuildsElsewhere, OutType DEF Build!Platforms
    <2>2. bin'[Build!Out(q)] = bin[Build!Out(q)]
        BY <2>1
    <2>3. cache[Platform[q]] # 0 => cache[Platform[q]] \in Build!Dirs
        BY <2>1 DEF BuildsInv, BuildTypes
    <2>4. QED  BY <2>1, <2>2, <2>3 DEF Build!Dirs
<1>3. QED  BY <1>1, <1>2 DEF BuildsInv, UseInv

LEMMA buildKeyLockKeeps ==
    ASSUME BuildsInv, NEW p \in Pushes, Build!buildKeyLock(p)
    PROVE  BuildsInv'
<1>1. BuildTypes'
    BY DEF BuildsInv, BuildTypes, LockHeld, Build!buildKeyLock, Build!At, Build!Go, Build!disk,
       Build!shared, Build!history
<1>2. LockHeld'
    BY ZenonT(60) DEF BuildsInv, BuildTypes, LockHeld, MadeInv, CacheInv, SpoiledInv, BuildInv, UseInv,
       CloseInv, Build!buildKeyLock, Build!At, Build!Go, Locking, Reusing, Building, Using,
       Build!Out, Build!isOurDir, Build!Made, Build!Dirs, Build!Platforms, Build!disk,
       Build!shared, Build!history, Build!Ended
<1>3. MadeInv'
    BY DEF BuildsInv, BuildTypes, LockHeld, MadeInv, CacheInv, SpoiledInv, BuildInv, UseInv,
       CloseInv, Build!buildKeyLock, Build!At, Build!Go, Locking, Reusing, Building, Using,
       Build!Out, Build!isOurDir, Build!Made, Build!Dirs, Build!Platforms, Build!disk,
       Build!shared, Build!history, Build!Ended
<1>4. CacheInv'
    BY DEF BuildsInv, BuildTypes, LockHeld, MadeInv, CacheInv, SpoiledInv, Build!buildKeyLock,
       Build!At, Build!Go, Locking, Reusing, Building, Build!disk, Build!shared, Build!history
<1>5. SpoiledInv'
    BY DEF BuildsInv, BuildTypes, LockHeld, MadeInv, CacheInv, SpoiledInv, Build!buildKeyLock,
       Build!At, Build!Go, Using, Build!Out, Build!isOurDir, Build!disk, Build!shared,
       Build!history
<1>6. BuildInv'
    BY DEF BuildsInv, BuildTypes, LockHeld, BuildInv, UseInv, CloseInv, Build!buildKeyLock,
       Build!At, Build!Go, Locking, Reusing, Building, Using, Build!Out, Build!isOurDir,
       Build!disk, Build!shared, Build!history
<1>7. UseInv'
    BY QuietUse DEF BuildsInv, BuildTypes, Build!buildKeyLock, Building, Build!Go, Build!At
<1>8. CloseInv'
    BY DEF BuildsInv, BuildTypes, LockHeld, BuildInv, UseInv, CloseInv, Build!buildKeyLock,
       Build!At, Build!Go, Using, Build!Out, Build!isOurDir, Build!disk, Build!shared,
       Build!history, Build!Ended
<1> QED  BY <1>1, <1>2, <1>3, <1>4, <1>5, <1>6, <1>7, <1>8 DEF BuildsInv

LEMMA buildCacheGetKeeps ==
    ASSUME BuildsInv, NEW p \in Pushes, Build!buildCacheGet(p)
    PROVE  BuildsInv'
<1>1. BuildTypes'
    BY DEF BuildsInv, BuildTypes, LockHeld, Build!buildCacheGet, Build!At, Build!Go, Build!Made,
       Build!Dirs, Build!Platforms, Build!disk, Build!shared, Build!history
<1>2. LockHeld'
    BY DEF BuildsInv, BuildTypes, LockHeld, Build!buildCacheGet, Build!At, Build!Go, Locking,
       Reusing, Building
<1>3. MadeInv'
    BY SMTT(30) DEF BuildsInv, BuildTypes, LockHeld, MadeInv, CacheInv, SpoiledInv, BuildInv, UseInv,
       CloseInv, Build!buildCacheGet, Build!At, Build!Go, Locking, Reusing, Building, Using,
       Build!Out, Build!isOurDir, Build!Made, Build!Dirs, Build!Platforms, Build!disk,
       Build!shared, Build!history, Build!Ended
<1>4. CacheInv'
    BY DEF BuildsInv, BuildTypes, LockHeld, MadeInv, CacheInv, SpoiledInv, Build!buildCacheGet,
       Build!At, Build!Go, Locking, Reusing, Building, Build!disk, Build!shared, Build!history
<1>5. SpoiledInv'
    BY DEF BuildsInv, BuildTypes, LockHeld, MadeInv, CacheInv, SpoiledInv, Build!buildCacheGet,
       Build!At, Build!Go, Using, Build!Out, Build!isOurDir, Build!disk, Build!shared,
       Build!history
<1>6. BuildInv'
    BY DEF BuildsInv, BuildTypes, LockHeld, BuildInv, UseInv, CloseInv, Build!buildCacheGet,
       Build!At, Build!Go, Locking, Reusing, Building, Using, Build!Out, Build!isOurDir,
       Build!disk, Build!shared, Build!history, Build!Ended
<1>7. UseInv'
    BY DEF BuildsInv, BuildTypes, LockHeld, BuildInv, UseInv, CloseInv, Build!buildCacheGet,
       Build!At, Build!Go, Locking, Reusing, Building, Using, Build!Out, Build!isOurDir,
       Build!disk, Build!shared, Build!history
<1>8. CloseInv'
    BY DEF BuildsInv, BuildTypes, LockHeld, BuildInv, UseInv, CloseInv, Build!buildCacheGet,
       Build!At, Build!Go, Using, Build!Out, Build!isOurDir, Build!disk, Build!shared,
       Build!history, Build!Ended
<1> QED  BY <1>1, <1>2, <1>3, <1>4, <1>5, <1>6, <1>7, <1>8 DEF BuildsInv

LEMMA ReuseDirKeeps ==
    ASSUME BuildsInv, NEW p \in Pushes, Build!ReuseDir(p)
    PROVE  BuildsInv'
<1>1. BuildTypes'
    BY DEF BuildsInv, BuildTypes, LockHeld, Build!ReuseDir, Build!verifyBuildDir, Build!At,
       Build!Go, Locking, Reusing, Build!Platforms, Build!disk, Build!shared, Build!history,
       Build!Ended
<1>2. LockHeld'
    BY DEF BuildsInv, BuildTypes, LockHeld, Build!ReuseDir, Build!verifyBuildDir, Build!At,
       Build!Go, Locking, Reusing, Building, Using, Build!Out
<1>3. MadeInv'
    BY DEF BuildsInv, BuildTypes, LockHeld, MadeInv, CacheInv, SpoiledInv, BuildInv, UseInv,
       CloseInv, Build!ReuseDir, Build!verifyBuildDir, Build!At, Build!Go, Locking, Reusing,
       Building, Using, Build!Out, Build!isOurDir, Build!Made, Build!Dirs, Build!Platforms,
       Build!disk, Build!shared, Build!history, Build!Ended
<1>4. CacheInv'
    BY DEF BuildsInv, BuildTypes, LockHeld, MadeInv, CacheInv, SpoiledInv, Build!ReuseDir,
       Build!verifyBuildDir, Build!At, Build!Go, Locking, Reusing, Building, Using, Build!Out,
       Build!Platforms, Build!disk, Build!shared
<1>5. SpoiledInv'
    BY DEF BuildsInv, BuildTypes, LockHeld, MadeInv, CacheInv, SpoiledInv, BuildInv, UseInv,
       CloseInv, Build!ReuseDir, Build!verifyBuildDir, Build!At, Build!Go, Locking, Reusing,
       Building, Using, Build!Out, Build!isOurDir, Build!Made, Build!Dirs, Build!Platforms,
       Build!disk, Build!shared, Build!history, Build!Ended
<1>6. BuildInv'
    BY DEF BuildsInv, BuildTypes, LockHeld, MadeInv, CacheInv, SpoiledInv, BuildInv, UseInv,
       CloseInv, Build!ReuseDir, Build!verifyBuildDir, Build!At, Build!Go, Locking, Reusing,
       Building, Using, Build!Out, Build!isOurDir, Build!Made, Build!Dirs, Build!Platforms,
       Build!disk, Build!shared, Build!history, Build!Ended
<1>7. UseInv'
    BY QuietUse DEF BuildsInv, BuildTypes, Build!ReuseDir, Build!verifyBuildDir, Building,
       Build!Go, Build!history
<1>8. CloseInv'
    BY DEF BuildsInv, BuildTypes, LockHeld, MadeInv, CacheInv, SpoiledInv, BuildInv, UseInv,
       CloseInv, Build!ReuseDir, Build!verifyBuildDir, Build!At, Build!Go, Locking, Reusing,
       Building, Using, Build!Out, Build!isOurDir, Build!Made, Build!Dirs, Build!Platforms,
       Build!disk, Build!shared, Build!history, Build!Ended
<1> QED  BY <1>1, <1>2, <1>3, <1>4, <1>5, <1>6, <1>7, <1>8 DEF BuildsInv

LEMMA ReuseBinaryKeeps ==
    ASSUME BuildsInv, NEW p \in Pushes, Build!ReuseBinary(p)
    PROVE  BuildsInv'
<1>1. BuildTypes'
    BY DEF BuildsInv, BuildTypes, LockHeld, Build!ReuseBinary, Build!verifyBinary, Build!Return,
       Build!At, Build!Go, Locking, Build!Dirs, Build!Platforms, Build!disk, Build!shared,
       Build!history, Build!Ended
<1>2. LockHeld'
    <2>1. CASE Build!verifyBinary(Build!Out(p))
        <3>1. pc' = [pc EXCEPT ![p] = "using"] /\ holder' = [holder EXCEPT ![Platform[p]] = {}]
            BY <2>1 DEF Build!ReuseBinary, Build!Return, Build!Go
        <3>2. \A q \in Pushes : Locking(q)' => q # p /\ Locking(q)
            BY <3>1 DEF BuildsInv, BuildTypes, Locking, Reusing, Building
        <3>3. \A q \in Pushes : Locking(q)' =>
                 Platform[q] # Platform[p] /\ holder[Platform[q]] = {q}
            BY <3>2, OneOfPlatform DEF BuildsInv, LockHeld, Build!ReuseBinary, Locking, Reusing,
               Build!At
        <3>4. QED  BY <3>1, <3>3 DEF BuildsInv, BuildTypes, LockHeld, Build!Platforms
    <2>2. CASE ~Build!verifyBinary(Build!Out(p))
        BY <2>2 DEF BuildsInv, BuildTypes, LockHeld, Build!ReuseBinary, Build!Go, Build!At,
           Locking, Reusing, Building
    <2>3. QED  BY <2>1, <2>2
<1>3. MadeInv'
    BY DEF BuildsInv, BuildTypes, LockHeld, MadeInv, CacheInv, SpoiledInv, BuildInv, UseInv,
       CloseInv, Build!ReuseBinary, Build!verifyBinary, Build!Return, Build!At, Build!Go, Locking,
       Reusing, Building, Using, Build!Out, Build!isOurDir, Build!Made, Build!Dirs,
       Build!Platforms, Build!disk, Build!shared, Build!history, Build!Ended
<1>4. CacheInv'
    BY DEF BuildsInv, BuildTypes, LockHeld, MadeInv, CacheInv, SpoiledInv, BuildInv, UseInv,
       CloseInv, Build!ReuseBinary, Build!verifyBinary, Build!Return, Build!At, Build!Go, Locking,
       Reusing, Building, Using, Build!Out, Build!isOurDir, Build!Made, Build!Dirs,
       Build!Platforms, Build!disk, Build!shared, Build!history, Build!Ended
<1>5. SpoiledInv'
    BY DEF BuildsInv, BuildTypes, LockHeld, MadeInv, CacheInv, SpoiledInv, BuildInv, UseInv,
       CloseInv, Build!ReuseBinary, Build!verifyBinary, Build!Return, Build!At, Build!Go, Locking,
       Reusing, Building, Using, Build!Out, Build!isOurDir, Build!Made, Build!Dirs,
       Build!Platforms, Build!disk, Build!shared, Build!history, Build!Ended
<1>6. BuildInv'
    <2>1. /\ UNCHANGED <<at, bin, dir, spoiled, known>>
          /\ \A q \in Pushes : q # p => pc'[q] = pc[q]
          /\ pc'[p] \in {"using", "retire"} /\ (pc'[p] = "using" => bin[Build!Out(p)] = "good")
        BY DEF BuildsInv, BuildTypes, Build!ReuseBinary, Build!verifyBinary, Build!Return,
           Build!Go, Build!At, Build!disk, Build!history
    <2>2. \A q \in Pushes : Build!Out(q)' = Build!Out(q) /\
             (Build!isOurDir(dir[q])' <=> Build!isOurDir(dir[q]))
        BY <2>1 DEF Build!Out, Build!isOurDir
    <2>3. Using(p)' => Build!Out(p) \notin known[p]
        BY <2>1 DEF BuildsInv, BuildTypes, SpoiledInv, Using
    <2>4. QED  BY <2>1, <2>2, <2>3 DEF BuildsInv, BuildInv, Building, Using, Build!isOurDir
<1>7. UseInv'
    <2>1. /\ UNCHANGED <<at, bin, dir, spoiled, cache, buildDir>>
          /\ \A q \in Pushes : q # p => pc'[q] = pc[q]
          /\ pc'[p] \in {"using", "retire"} /\ (pc'[p] = "using" => bin[Build!Out(p)] = "good")
          /\ Reusing(p) /\ Locking(p) /\ ~closed
        BY DEF BuildsInv, BuildTypes, CloseInv, Build!ReuseBinary, Build!verifyBinary,
           Build!Return, Build!Go, Build!At, Build!disk, Build!shared, Build!history, Build!Ended,
           Reusing, Locking
    <2>2. \A q \in Pushes : /\ Build!Out(q)' = Build!Out(q)
                            /\ (Build!isOurDir(dir[q])' <=> Build!isOurDir(dir[q]))
                            /\ (Building(q)' => Building(q) /\ q # p)
                            /\ (Using(q)' => Using(q) \/ q = p)
        BY <2>1 DEF Build!Out, Build!isOurDir, Building, Using
    <2>3. ASSUME Using(p)'
          PROVE  /\ Build!isOurDir(dir[p]) /\ bin[Build!Out(p)] = "good"
                 /\ cache[Platform[p]] = dir[p] \/ buildDir # dir[p]
                 /\ \A q \in Pushes : Building(q) /\ q # p => Build!Out(q) # Build!Out(p)
        <3>1. bin[Build!Out(p)] = "good"
            BY <2>1, <2>3 DEF Using
        <3>2. dir[p] \in Build!Dirs /\ Build!Out(p) \in Build!Dirs \X Build!Platforms /\
                 Build!Out(p)[1] = dir[p]
            BY <2>1 DEF BuildsInv, MadeInv, Build!Made, Build!Platforms, Build!Out
        <3>3. Build!isOurDir(dir[p])
            BY <2>1, <3>1, <3>2 DEF BuildsInv, CloseInv
        <3>4. cache[Platform[p]] = dir[p] \/ buildDir # dir[p]
            BY <2>1 DEF BuildsInv, CacheInv
        <3>5. \A q \in Pushes : Building(q) /\ q # p => Platform[q] # Platform[p]
            BY <2>1, OneOfPlatform DEF BuildsInv, Locking
        <3>6. \A q \in Pushes : Building(q) /\ q # p => Build!Out(q) # Build!Out(p)
            BY <3>5 DEF Build!Out
        <3>7. QED  BY <3>1, <3>3, <3>4, <3>6
    <2>4. QED  BY <2>1, <2>2, <2>3 DEF BuildsInv, UseInv, Using
<1>8. CloseInv'
    BY DEF BuildsInv, BuildTypes, LockHeld, MadeInv, CacheInv, SpoiledInv, BuildInv, UseInv,
       CloseInv, Build!ReuseBinary, Build!verifyBinary, Build!Return, Build!At, Build!Go, Locking,
       Reusing, Building, Using, Build!Out, Build!isOurDir, Build!Made, Build!Dirs,
       Build!Platforms, Build!disk, Build!shared, Build!history, Build!Ended
<1> QED  BY <1>1, <1>2, <1>3, <1>4, <1>5, <1>6, <1>7, <1>8 DEF BuildsInv

LEMMA retireBuildDirKeeps ==
    ASSUME BuildsInv, NEW p \in Pushes, Build!retireBuildDir(p)
    PROVE  BuildsInv'
<1>1. BuildTypes'
    BY DEF BuildsInv, BuildTypes, LockHeld, Build!retireBuildDir, Build!retireLocked, Build!Forget,
       Build!At, Build!Go, Locking, Build!Dirs, Build!Platforms, Build!disk, Build!shared,
       Build!history, Build!Ended
<1>2. LockHeld'
    BY DEF BuildsInv, BuildTypes, LockHeld, Build!retireBuildDir, Build!retireLocked, Build!Forget,
       Build!At, Build!Go, Locking, Reusing, Building, Using
<1>3. MadeInv'
    BY DEF BuildsInv, BuildTypes, LockHeld, MadeInv, CacheInv, SpoiledInv, BuildInv, UseInv,
       CloseInv, Build!retireBuildDir, Build!retireLocked, Build!Forget, Build!At, Build!Go,
       Locking, Reusing, Building, Using, Build!Out, Build!isOurDir, Build!Made, Build!Dirs,
       Build!Platforms, Build!disk, Build!shared, Build!history, Build!Ended
<1>4. CacheInv'
    BY DEF BuildsInv, BuildTypes, LockHeld, MadeInv, CacheInv, SpoiledInv, Build!retireBuildDir,
       Build!retireLocked, Build!Forget, Build!At, Build!Go, Locking, Reusing, Building, Using,
       Build!Dirs, Build!Platforms, Build!disk
<1>5. SpoiledInv'
    BY DEF BuildsInv, BuildTypes, LockHeld, MadeInv, CacheInv, SpoiledInv, BuildInv, UseInv,
       CloseInv, Build!retireBuildDir, Build!retireLocked, Build!Forget, Build!At, Build!Go,
       Locking, Reusing, Building, Using, Build!Out, Build!isOurDir, Build!Made, Build!Dirs,
       Build!Platforms, Build!disk, Build!shared, Build!history, Build!Ended
<1>6. BuildInv'
    BY DEF BuildsInv, BuildTypes, LockHeld, MadeInv, CacheInv, SpoiledInv, BuildInv, UseInv,
       CloseInv, Build!retireBuildDir, Build!retireLocked, Build!Forget, Build!At, Build!Go,
       Locking, Reusing, Building, Using, Build!Out, Build!isOurDir, Build!Made, Build!Dirs,
       Build!Platforms, Build!disk, Build!shared, Build!history, Build!Ended
<1>7. UseInv'
    <2>1. /\ UNCHANGED <<at, bin, dir, spoiled>>
          /\ \A q \in Pushes : q # p => pc'[q] = pc[q]
          /\ pc'[p] = "dir"
          /\ \A k \in Build!Platforms : cache'[k] = IF cache[k] = dir[p] THEN 0 ELSE cache[k]
          /\ buildDir' = IF buildDir = dir[p] THEN 0 ELSE buildDir
        BY DEF BuildsInv, BuildTypes, Build!retireBuildDir, Build!retireLocked, Build!Forget,
           Build!Go, Build!At, Build!disk, Build!history
    <2>2. \A q \in Pushes : /\ Build!Out(q)' = Build!Out(q)
                            /\ (Build!isOurDir(dir[q])' <=> Build!isOurDir(dir[q]))
                            /\ (Building(q)' => Building(q)) /\ (Using(q)' => Using(q))
        BY <2>1 DEF Build!Out, Build!isOurDir, Building, Using
    <2>3. \A q \in Pushes : Using(q) => Platform[q] \in Build!Platforms /\ dir[q] # 0
        BY DEF BuildsInv, MadeInv, Build!Made, Build!Dirs, Build!Platforms
    <2>4. \A q \in Pushes : Using(q) /\ (cache[Platform[q]] = dir[q] \/ buildDir # dir[q])
                               => (cache'[Platform[q]] = dir[q] \/ buildDir' # dir[q])
        BY <2>1, <2>3
    <2>5. QED  BY <2>1, <2>2, <2>4 DEF BuildsInv, UseInv, Build!isOurDir
<1>8. CloseInv'
    BY SMTT(30) DEF BuildsInv, BuildTypes, LockHeld, MadeInv, CacheInv, SpoiledInv, BuildInv, UseInv,
       CloseInv, Build!retireBuildDir, Build!retireLocked, Build!Forget, Build!At, Build!Go,
       Locking, Reusing, Building, Using, Build!Out, Build!isOurDir, Build!Made, Build!Dirs,
       Build!Platforms, Build!disk, Build!shared, Build!history, Build!Ended
<1> QED  BY <1>1, <1>2, <1>3, <1>4, <1>5, <1>6, <1>7, <1>8 DEF BuildsInv

\* The current directory is built into.
LEMMA TakeDirKeeps ==
    ASSUME BuildsInv, NEW p \in Pushes, Build!At(p, "dir"), Build!Go(p, "build"), buildDir # 0,
           Build!verifyBuildDir(buildDir),
           dir' = [dir EXCEPT ![p] = buildDir],
           UNCHANGED <<Build!disk, bin, Build!shared, holder, Build!history>>
    PROVE  BuildsInv'
<1>1. BuildTypes'
    BY DEF BuildsInv, BuildTypes, LockHeld, Build!verifyBuildDir, Build!At, Build!Go, Build!disk,
       Build!shared, Build!history
<1>2. LockHeld'
    BY DEF BuildsInv, BuildTypes, LockHeld, Build!verifyBuildDir, Build!At, Build!Go, Locking,
       Reusing, Building
<1>3. MadeInv'
    BY DEF BuildsInv, BuildTypes, LockHeld, MadeInv, CacheInv, SpoiledInv, BuildInv, UseInv,
       CloseInv, Build!verifyBuildDir, Build!At, Build!Go, Locking, Reusing, Building, Using,
       Build!Out, Build!isOurDir, Build!Made, Build!Dirs, Build!Platforms, Build!disk,
       Build!shared, Build!history, Build!Ended
<1>4. CacheInv'
    BY DEF BuildsInv, BuildTypes, LockHeld, MadeInv, CacheInv, SpoiledInv, Build!verifyBuildDir,
       Build!At, Build!Go, Locking, Reusing, Building, Build!disk, Build!shared, Build!history
<1>5. SpoiledInv'
    BY DEF BuildsInv, BuildTypes, LockHeld, MadeInv, CacheInv, SpoiledInv, Using, Build!Out,
       Build!isOurDir, Build!disk, Build!shared, Build!history
<1>6. BuildInv'
    <2>1. /\ \A q \in Pushes \ {p} : Build!Out(q)' = Build!Out(q) /\ pc'[q] = pc[q] /\
                dir'[q] = dir[q]
          /\ pc'[p] = "build" /\ dir'[p] = buildDir /\ Build!Out(p)' = <<buildDir, Platform[p]>>
          /\ Build!isOurDir(buildDir) /\ cache[Platform[p]] = 0
          /\ UNCHANGED <<at, bin, spoiled, known>> /\ known[p] \subseteq spoiled
        BY DEF BuildsInv, BuildTypes, CacheInv, Build!At, Build!Go, Build!Out,
           Build!verifyBuildDir, Build!disk, Build!history
    <2>2. <<buildDir, Platform[p]>> \notin spoiled
        BY <2>1 DEF BuildsInv, SpoiledInv
    <2>3. QED  BY <2>1, <2>2 DEF BuildsInv, BuildInv, Building, Using, Build!isOurDir
<1>7. UseInv'
    BY DEF BuildsInv, BuildTypes, LockHeld, MadeInv, CacheInv, SpoiledInv, BuildInv, UseInv,
       CloseInv, Build!verifyBuildDir, Build!At, Build!Go, Locking, Reusing, Building, Using,
       Build!Out, Build!isOurDir, Build!disk, Build!shared, Build!history
<1>8. CloseInv'
    BY DEF BuildsInv, BuildTypes, LockHeld, BuildInv, UseInv, CloseInv, Build!verifyBuildDir,
       Build!At, Build!Go, Using, Build!Out, Build!isOurDir, Build!disk, Build!shared,
       Build!history
<1> QED  BY <1>1, <1>2, <1>3, <1>4, <1>5, <1>6, <1>7, <1>8 DEF BuildsInv

\* A new directory becomes the current one.
LEMMA MakeDirKeeps ==
    ASSUME BuildsInv, NEW p \in Pushes, Build!At(p, "dir"), Build!Go(p, "build"),
           NEW d \in Build!Dirs \ Build!Made,
           at' = [at EXCEPT ![d] = "ours"], buildDir' = d, dir' = [dir EXCEPT ![p] = d],
           Build!Forget(buildDir), UNCHANGED <<private, bin, holder, Build!history>>
    PROVE  BuildsInv'
<1>1. BuildTypes'
    BY DEF BuildsInv, BuildTypes, LockHeld, Build!Forget, Build!At, Build!Go, Build!disk,
       Build!shared, Build!history
<1>2. LockHeld'
    BY DEF BuildsInv, BuildTypes, LockHeld, Build!Forget, Build!At, Build!Go, Locking, Reusing,
       Building
<1>3. MadeInv'
    BY DEF BuildsInv, BuildTypes, LockHeld, MadeInv, CacheInv, SpoiledInv, BuildInv, UseInv,
       CloseInv, Build!Forget, Build!At, Build!Go, Locking, Reusing, Building, Using, Build!Out,
       Build!isOurDir, Build!Made, Build!Dirs, Build!Platforms, Build!disk, Build!shared,
       Build!history, Build!Ended
<1>4. CacheInv'
    BY DEF BuildsInv, BuildTypes, LockHeld, MadeInv, CacheInv, SpoiledInv, BuildInv, UseInv,
       CloseInv, Build!Forget, Build!At, Build!Go, Locking, Reusing, Building, Using, Build!Out,
       Build!isOurDir, Build!Made, Build!Dirs, Build!Platforms, Build!disk, Build!shared,
       Build!history, Build!Ended
<1>5. SpoiledInv'
    BY DEF BuildsInv, BuildTypes, LockHeld, MadeInv, CacheInv, SpoiledInv, Build!disk,
       Build!shared, Build!history
<1>6. BuildInv'
    <2>1. /\ pc' = [pc EXCEPT ![p] = "build"] /\ spoiled' = spoiled /\ known' = known /\ bin' = bin
          /\ d \in Build!Dirs /\ d \notin Build!Made
        BY DEF Build!Go, Build!history
    <2>2. Build!Out(p)' = <<d, Platform[p]>> /\ Build!Out(p)' \notin spoiled /\
             known[p] \subseteq spoiled
        BY <2>1 DEF BuildsInv, BuildTypes, MadeInv, Build!Out
    <2>3. ASSUME NEW q \in Pushes, q # p
          PROVE  /\ Build!Out(q)' = Build!Out(q)
                 /\ Building(q) \/ Using(q) => (Build!isOurDir(dir[q])' <=> Build!isOurDir(dir[q]))
        BY <2>1, <2>3 DEF BuildsInv, BuildTypes, MadeInv, Build!Made, Build!Out, Build!isOurDir
    <2>4. /\ pc'[p] = "build" /\ \A q \in Pushes : q # p => pc'[q] = pc[q]
        BY <2>1 DEF BuildsInv, BuildTypes
    <2>5. QED  BY <2>1, <2>2, <2>3, <2>4 DEF BuildsInv, BuildInv, Building, Using
<1>7. UseInv'
    BY DEF BuildsInv, BuildTypes, LockHeld, MadeInv, CacheInv, SpoiledInv, BuildInv, UseInv,
       CloseInv, Build!Forget, Build!At, Build!Go, Locking, Reusing, Building, Using, Build!Out,
       Build!isOurDir, Build!Made, Build!Dirs, Build!Platforms, Build!disk, Build!shared,
       Build!history, Build!Ended
<1>8. CloseInv'
    BY DEF BuildsInv, BuildTypes, LockHeld, MadeInv, CacheInv, SpoiledInv, BuildInv, UseInv,
       CloseInv, Build!Forget, Build!At, Build!Go, Locking, Reusing, Building, Using, Build!Out,
       Build!isOurDir, Build!Made, Build!Dirs, Build!Platforms, Build!disk, Build!shared,
       Build!history, Build!Ended
<1> QED  BY <1>1, <1>2, <1>3, <1>4, <1>5, <1>6, <1>7, <1>8 DEF BuildsInv

\* No directory can be made.
LEMMA MakeDirFails ==
    ASSUME BuildsInv, NEW p \in Pushes, Build!At(p, "dir"), Build!Return(p, "failed"),
           buildDir' = 0, Build!Forget(buildDir),
           UNCHANGED <<Build!disk, bin, dir, Build!history>>
    PROVE  BuildsInv'
<1>1. BuildTypes'
    BY DEF BuildsInv, BuildTypes, LockHeld, Build!Forget, Build!Return, Build!At, Build!Go,
       Locking, Reusing, Build!Platforms, Build!disk, Build!shared, Build!history, Build!Ended
<1>2. LockHeld'
    <2>1. \A q \in Pushes : Locking(q)' => Locking(q) /\ q # p /\ Platform[q] # Platform[p]
        <3>1. \A q \in Pushes : Locking(q)' => Locking(q) /\ q # p
            BY DEF BuildsInv, BuildTypes, Build!Return, Build!Go, Locking, Reusing, Building
        <3>2. Locking(p)
            BY DEF Build!At, Locking, Reusing, Building
        <3>3. QED  BY <3>1, <3>2, OneOfPlatform DEF BuildsInv
    <2>2. QED  BY <2>1 DEF BuildsInv, BuildTypes, LockHeld, Build!Platforms, Build!Return
<1>3. MadeInv'
    BY ZenonT(60) DEF BuildsInv, BuildTypes, LockHeld, MadeInv, CacheInv, SpoiledInv, BuildInv, UseInv,
       CloseInv, Build!Forget, Build!Return, Build!At, Build!Go, Locking, Reusing, Building, Using,
       Build!Out, Build!isOurDir, Build!Made, Build!Dirs, Build!Platforms, Build!disk,
       Build!shared, Build!history, Build!Ended
<1>4. CacheInv'
    BY DEF BuildsInv, BuildTypes, LockHeld, MadeInv, CacheInv, SpoiledInv, Build!Forget,
       Build!Return, Build!At, Build!Go, Locking, Reusing, Building, Using, Build!Out,
       Build!Platforms, Build!disk, Build!shared
<1>5. SpoiledInv'
    BY DEF BuildsInv, BuildTypes, LockHeld, MadeInv, CacheInv, SpoiledInv, Build!isOurDir,
       Build!Made, Build!Dirs, Build!history, Build!Ended
<1>6. BuildInv'
    BY DEF BuildsInv, BuildTypes, LockHeld, MadeInv, CacheInv, SpoiledInv, BuildInv, UseInv,
       CloseInv, Build!Forget, Build!Return, Build!At, Build!Go, Locking, Reusing, Building, Using,
       Build!Out, Build!isOurDir, Build!Made, Build!Dirs, Build!Platforms, Build!disk,
       Build!shared, Build!history, Build!Ended
<1>7. UseInv'
    <2>1. /\ UNCHANGED <<at, bin, dir, spoiled>>
          /\ \A q \in Pushes : q # p => pc'[q] = pc[q]
          /\ pc[p] = "dir" /\ pc'[p] = "failed"
          /\ \A k \in Build!Platforms : cache'[k] = IF cache[k] = buildDir THEN 0 ELSE cache[k]
          /\ buildDir' = 0
        BY DEF BuildsInv, BuildTypes, Build!Forget, Build!Return, Build!Go, Build!At, Build!disk,
           Build!history
    <2>2. \A q \in Pushes : /\ Build!Out(q)' = Build!Out(q)
                            /\ (Build!isOurDir(dir[q])' <=> Build!isOurDir(dir[q]))
                            /\ (Building(q)' => Building(q)) /\ (Using(q)' => Using(q))
        BY <2>1 DEF Build!Out, Build!isOurDir, Building, Using
    <2>3. \A q \in Pushes : Using(q) => dir[q] # 0
        BY OutType DEF Build!Dirs
    <2>4. QED  BY <2>1, <2>2, <2>3 DEF BuildsInv, UseInv, Build!isOurDir
<1>8. CloseInv'
    BY DEF BuildsInv, BuildTypes, LockHeld, MadeInv, CacheInv, SpoiledInv, BuildInv, UseInv,
       CloseInv, Build!Forget, Build!Return, Build!At, Build!Go, Locking, Reusing, Building, Using,
       Build!Out, Build!isOurDir, Build!Made, Build!Dirs, Build!Platforms, Build!disk,
       Build!shared, Build!history, Build!Ended
<1> QED  BY <1>1, <1>2, <1>3, <1>4, <1>5, <1>6, <1>7, <1>8 DEF BuildsInv

LEMMA privateBuildDirKeeps ==
    ASSUME BuildsInv, NEW p \in Pushes, Build!privateBuildDir(p)
    PROVE  BuildsInv'
<1>1. CASE buildDir # 0 /\ Build!verifyBuildDir(buildDir)
    BY <1>1, TakeDirKeeps DEF Build!privateBuildDir, Build!disk, Build!shared
<1>2. CASE ~(buildDir # 0 /\ Build!verifyBuildDir(buildDir))
    <2>1. /\ Build!At(p, "dir") /\ Build!Forget(buildDir) /\ Build!newBuildDir(p)
          /\ UNCHANGED <<private, bin, Build!history>>
        BY <1>2 DEF Build!privateBuildDir
    <2>2. CASE buildDir' = 0 /\ Build!Return(p, "failed") /\ UNCHANGED <<at, dir>>
        BY <2>1, <2>2, MakeDirFails DEF Build!disk
    <2>3. ASSUME NEW d \in Build!Dirs \ Build!Made, at' = [at EXCEPT ![d] = "ours"], buildDir' = d,
                 dir' = [dir EXCEPT ![p] = d], Build!Go(p, "build"), UNCHANGED holder
          PROVE  BuildsInv'
        BY <2>1, <2>3, MakeDirKeeps
    <2>4. QED  BY <2>1, <2>2, <2>3 DEF Build!newBuildDir
<1>3. QED  BY <1>1, <1>2

LEMMA GoBuildKeeps ==
    ASSUME BuildsInv, NEW p \in Pushes, Build!GoBuild(p)
    PROVE  BuildsInv'
<1>1. BuildTypes'
    BY DEF BuildsInv, BuildTypes, LockHeld, Build!GoBuild, Build!At, Build!Go, Build!disk,
       Build!shared, Build!history
<1>2. LockHeld'
    BY DEF BuildsInv, BuildTypes, LockHeld, Build!GoBuild, Build!At, Build!Go, Locking, Reusing,
       Building
<1>3. MadeInv'
    BY DEF BuildsInv, BuildTypes, LockHeld, MadeInv, CacheInv, SpoiledInv, BuildInv, UseInv,
       CloseInv, Build!GoBuild, Build!At, Build!Go, Locking, Reusing, Building, Using, Build!Out,
       Build!isOurDir, Build!Made, Build!Dirs, Build!Platforms, Build!disk, Build!shared,
       Build!history, Build!Ended
<1>4. CacheInv'
    BY DEF BuildsInv, BuildTypes, LockHeld, MadeInv, CacheInv, SpoiledInv, Build!GoBuild, Build!At,
       Build!Go, Locking, Reusing, Building, Build!disk, Build!shared, Build!history
<1>5. SpoiledInv'
    BY DEF BuildsInv, BuildTypes, LockHeld, MadeInv, CacheInv, SpoiledInv, Build!GoBuild, Build!At,
       Build!Go, Using, Build!Out, Build!isOurDir, Build!disk, Build!shared, Build!history
<1>6. BuildInv'
    <2>1. Building(p) /\ \A q \in Pushes : q # p => Build!Out(q)' = Build!Out(q) /\ pc'[q] = pc[q]
        BY DEF BuildsInv, BuildTypes, Building, Build!At, Build!GoBuild, Build!Go, Build!history,
           Build!Out
    <2>2. \A q \in Pushes : Building(q) /\ q # p =>
             Build!Out(q) # Build!Out(p) /\ Build!Out(q) \in Build!Dirs \X Build!Platforms
        BY <2>1, BuildsElsewhere, OutType
    <2>3. \A q \in Pushes : Building(q) /\ q # p => bin'[Build!Out(q)] = bin[Build!Out(q)]
        BY <2>2 DEF BuildsInv, BuildTypes, Build!GoBuild
    <2>4. /\ pc'[p] \in {"built", "failed"} /\ spoiled' = spoiled /\ known' = known
          /\ dir' = dir /\ at' = at /\ Build!Out(p)' = Build!Out(p)
        BY DEF BuildsInv, BuildTypes, Build!GoBuild, Build!Go, Build!history, Build!disk, Build!Out
    <2>5. \A q \in Pushes : Building(q)' \/ Using(q)' => Building(q) \/ Using(q)
        BY <2>1, <2>4 DEF Building, Using
    <2>6. QED  BY <2>1, <2>3, <2>4, <2>5 DEF BuildsInv, BuildInv, Building, Using, Build!isOurDir
<1>7. UseInv'
    <2>1. /\ Building(p) /\ pc'[p] \in {"built", "sum", "failed"}
          /\ \A q \in Pushes \ {p} : pc'[q] = pc[q]
          /\ UNCHANGED <<at, dir, spoiled>>
        BY DEF BuildsInv, BuildTypes, Build!GoBuild, Build!At, Build!Go, Building, Build!disk,
           Build!history
    <2>2. \A x \in (Build!Dirs \X Build!Platforms) \ {Build!Out(p)} : bin'[x] = bin[x]
        BY DEF BuildsInv, BuildTypes, Build!GoBuild
    <2>3. /\ \A k \in Build!Platforms : cache'[k] = cache[k] \/
                (cache'[k] = 0 /\ buildDir' # cache[k])
          /\ buildDir' = buildDir \/ buildDir' = 0
        BY DEF Build!GoBuild, Build!shared
    <2>4. QED  BY <2>1, <2>2, <2>3, BuildStep
<1>8. CloseInv'
    BY DEF BuildsInv, BuildTypes, LockHeld, BuildInv, UseInv, CloseInv, Build!GoBuild, Build!At,
       Build!Go, Using, Build!Out, Build!isOurDir, Build!disk, Build!shared, Build!history,
       Build!Ended
<1> QED  BY <1>1, <1>2, <1>3, <1>4, <1>5, <1>6, <1>7, <1>8 DEF BuildsInv

\* The binary is whole.
LEMMA BuildSucceeds ==
    ASSUME BuildsInv, NEW p \in Pushes, Build!At(p, "built"), Build!Go(p, "sum"),
           Build!isOurDir(dir[p]),
           bin' = [bin EXCEPT ![Build!Out(p)] = "good"],
           UNCHANGED <<Build!disk, Build!shared, dir, Build!history, holder>>
    PROVE  BuildsInv'
<1>1. BuildTypes'
    BY DEF BuildsInv, BuildTypes, LockHeld, Build!At, Build!Go, Locking, Build!Dirs,
       Build!Platforms, Build!disk, Build!shared, Build!history, Build!Ended
<1>2. LockHeld'
    BY DEF BuildsInv, BuildTypes, LockHeld, Build!At, Build!Go, Locking, Reusing, Building, Using
<1>3. MadeInv'
    BY ZenonT(60) DEF BuildsInv, BuildTypes, LockHeld, MadeInv, CacheInv, SpoiledInv, BuildInv, UseInv,
       CloseInv, Build!At, Build!Go, Locking, Reusing, Building, Using, Build!Out, Build!isOurDir,
       Build!Made, Build!Dirs, Build!Platforms, Build!disk, Build!shared, Build!history,
       Build!Ended
<1>4. CacheInv'
    BY DEF BuildsInv, BuildTypes, LockHeld, MadeInv, CacheInv, SpoiledInv, Build!At, Build!Go,
       Locking, Reusing, Building, Using, Build!shared, Build!history, Build!Ended
<1>5. SpoiledInv'
    BY DEF BuildsInv, BuildTypes, LockHeld, MadeInv, CacheInv, SpoiledInv, BuildInv, UseInv,
       CloseInv, Build!At, Build!Go, Locking, Reusing, Building, Using, Build!Out, Build!isOurDir,
       Build!Made, Build!Dirs, Build!Platforms, Build!disk, Build!shared, Build!history,
       Build!Ended
<1>6. BuildInv'
    BY DEF BuildsInv, BuildTypes, LockHeld, MadeInv, CacheInv, SpoiledInv, BuildInv, UseInv,
       CloseInv, Build!At, Build!Go, Locking, Reusing, Building, Using, Build!Out, Build!isOurDir,
       Build!Made, Build!Dirs, Build!Platforms, Build!disk, Build!shared, Build!history,
       Build!Ended
<1>7. UseInv'
    <2>1. /\ Building(p) /\ pc'[p] \in {"built", "sum", "failed"}
          /\ \A q \in Pushes \ {p} : pc'[q] = pc[q]
          /\ UNCHANGED <<at, dir, spoiled>>
        BY DEF Build!At, Build!Go, Building, Build!disk, Build!history
    <2>2. \A x \in (Build!Dirs \X Build!Platforms) \ {Build!Out(p)} : bin'[x] = bin[x]
        BY DEF BuildsInv, BuildTypes, Build!Out
    <2>3. /\ \A k \in Build!Platforms : cache'[k] = cache[k] \/
                (cache'[k] = 0 /\ buildDir' # cache[k])
          /\ buildDir' = buildDir \/ buildDir' = 0
        BY DEF Build!shared
    <2>4. QED  BY <2>1, <2>2, <2>3, BuildStep
<1>8. CloseInv'
    BY DEF BuildsInv, BuildTypes, LockHeld, MadeInv, CacheInv, SpoiledInv, BuildInv, UseInv,
       CloseInv, Build!At, Build!Go, Locking, Reusing, Building, Using, Build!Out, Build!isOurDir,
       Build!Made, Build!Dirs, Build!Platforms, Build!disk, Build!shared, Build!history,
       Build!Ended
<1> QED  BY <1>1, <1>2, <1>3, <1>4, <1>5, <1>6, <1>7, <1>8 DEF BuildsInv

\* A failed build leaves none.
LEMMA BuildFails ==
    ASSUME BuildsInv, NEW p \in Pushes, Build!At(p, "built"), Build!Return(p, "failed"),
           bin' = [bin EXCEPT ![Build!Out(p)] = "none"],
           UNCHANGED <<Build!disk, Build!shared, dir, Build!history>>
    PROVE  BuildsInv'
<1>1. BuildTypes'
    BY DEF BuildsInv, BuildTypes, LockHeld, Build!Return, Build!At, Build!Go, Build!disk,
       Build!shared, Build!history
<1>2. LockHeld'
    <2>1. \A q \in Pushes : Locking(q)' => Locking(q) /\ q # p /\ Platform[q] # Platform[p]
        <3>1. \A q \in Pushes : Locking(q)' => Locking(q) /\ q # p
            BY DEF BuildsInv, BuildTypes, Build!Return, Build!Go, Locking, Reusing, Building
        <3>2. Locking(p)
            BY DEF Build!At, Locking, Reusing, Building
        <3>3. QED  BY <3>1, <3>2, OneOfPlatform DEF BuildsInv
    <2>2. QED  BY <2>1 DEF BuildsInv, BuildTypes, LockHeld, Build!Platforms, Build!Return
<1>3. MadeInv'
    BY DEF BuildsInv, BuildTypes, LockHeld, MadeInv, CacheInv, SpoiledInv, BuildInv, UseInv,
       CloseInv, Build!Return, Build!At, Build!Go, Locking, Reusing, Building, Using, Build!Out,
       Build!isOurDir, Build!Made, Build!Dirs, Build!Platforms, Build!disk, Build!shared,
       Build!history, Build!Ended
<1>4. CacheInv'
    BY DEF BuildsInv, BuildTypes, LockHeld, MadeInv, CacheInv, SpoiledInv, Build!Return, Build!At,
       Build!Go, Locking, Reusing, Building, Build!disk, Build!shared, Build!history
<1>5. SpoiledInv'
    BY DEF BuildsInv, BuildTypes, LockHeld, MadeInv, CacheInv, SpoiledInv, Using, Build!Out,
       Build!isOurDir, Build!disk, Build!shared, Build!history
<1>6. BuildInv'
    <2>1. Building(p) /\ \A q \in Pushes : q # p => Build!Out(q)' = Build!Out(q) /\ pc'[q] = pc[q]
        BY DEF BuildsInv, BuildTypes, Building, Build!At, Build!Return, Build!Go, Build!history,
           Build!Out
    <2>2. \A q \in Pushes : Building(q) /\ q # p =>
             Build!Out(q) # Build!Out(p) /\ Build!Out(q) \in Build!Dirs \X Build!Platforms
        BY <2>1, BuildsElsewhere, OutType
    <2>3. \A q \in Pushes : Building(q) /\ q # p => bin'[Build!Out(q)] = bin[Build!Out(q)]
        BY <2>2 DEF BuildsInv, BuildTypes, Build!Return
    <2>4. /\ pc'[p] \in {"built", "failed"} /\ spoiled' = spoiled /\ known' = known
          /\ dir' = dir /\ at' = at /\ Build!Out(p)' = Build!Out(p)
        BY DEF BuildsInv, BuildTypes, Build!Return, Build!Go, Build!history, Build!disk, Build!Out
    <2>5. \A q \in Pushes : Building(q)' \/ Using(q)' => Building(q) \/ Using(q)
        BY <2>1, <2>4 DEF Building, Using
    <2>6. QED  BY <2>1, <2>3, <2>4, <2>5 DEF BuildsInv, BuildInv, Building, Using, Build!isOurDir
<1>7. UseInv'
    <2>1. /\ Building(p) /\ pc'[p] \in {"built", "sum", "failed"}
          /\ \A q \in Pushes \ {p} : pc'[q] = pc[q]
          /\ UNCHANGED <<at, dir, spoiled>>
        BY DEF BuildsInv, BuildTypes, Build!Return, Build!At, Build!Go, Building, Build!disk,
           Build!history
    <2>2. \A x \in (Build!Dirs \X Build!Platforms) \ {Build!Out(p)} : bin'[x] = bin[x]
        BY DEF BuildsInv, BuildTypes, Build!Return
    <2>3. /\ \A k \in Build!Platforms : cache'[k] = cache[k] \/
                (cache'[k] = 0 /\ buildDir' # cache[k])
          /\ buildDir' = buildDir \/ buildDir' = 0
        BY DEF Build!shared
    <2>4. QED  BY <2>1, <2>2, <2>3, BuildStep
<1>8. CloseInv'
    BY DEF BuildsInv, BuildTypes, LockHeld, BuildInv, UseInv, CloseInv, Build!Return, Build!At,
       Build!Go, Using, Build!Out, Build!isOurDir, Build!disk, Build!shared, Build!history,
       Build!Ended
<1> QED  BY <1>1, <1>2, <1>3, <1>4, <1>5, <1>6, <1>7, <1>8 DEF BuildsInv

LEMMA GoBuiltKeeps ==
    ASSUME BuildsInv, NEW p \in Pushes, Build!GoBuilt(p)
    PROVE  BuildsInv'
BY BuildSucceeds, BuildFails DEF Build!GoBuilt

LEMMA SumBinaryKeeps ==
    ASSUME BuildsInv, NEW p \in Pushes, Build!SumBinary(p)
    PROVE  BuildsInv'
<1>1. BuildTypes'
    BY DEF BuildsInv, BuildTypes, LockHeld, Build!SumBinary, Build!checkOwnRegularFile, Build!At,
       Build!Go, Locking, Reusing, Build!Platforms, Build!disk, Build!shared, Build!history,
       Build!Ended
<1>2. LockHeld'
    BY DEF BuildsInv, BuildTypes, LockHeld, Build!SumBinary, Build!checkOwnRegularFile, Build!At,
       Build!Go, Locking, Reusing, Building, Using, Build!Out
<1>3. MadeInv'
    BY DEF BuildsInv, BuildTypes, LockHeld, MadeInv, CacheInv, SpoiledInv, BuildInv, UseInv,
       CloseInv, Build!SumBinary, Build!checkOwnRegularFile, Build!At, Build!Go, Locking, Reusing,
       Building, Using, Build!Out, Build!isOurDir, Build!Made, Build!Dirs, Build!Platforms,
       Build!disk, Build!shared, Build!history, Build!Ended
<1>4. CacheInv'
    BY DEF BuildsInv, BuildTypes, LockHeld, MadeInv, CacheInv, SpoiledInv, Build!SumBinary,
       Build!checkOwnRegularFile, Build!At, Build!Go, Locking, Reusing, Building, Using, Build!Out,
       Build!Platforms, Build!disk, Build!shared
<1>5. SpoiledInv'
    BY DEF BuildsInv, BuildTypes, LockHeld, MadeInv, CacheInv, SpoiledInv, BuildInv, UseInv,
       CloseInv, Build!SumBinary, Build!checkOwnRegularFile, Build!At, Build!Go, Locking, Reusing,
       Building, Using, Build!Out, Build!isOurDir, Build!Made, Build!Dirs, Build!Platforms,
       Build!disk, Build!shared, Build!history, Build!Ended
<1>6. BuildInv'
    BY DEF BuildsInv, BuildTypes, LockHeld, MadeInv, CacheInv, SpoiledInv, BuildInv, UseInv,
       CloseInv, Build!SumBinary, Build!checkOwnRegularFile, Build!At, Build!Go, Locking, Reusing,
       Building, Using, Build!Out, Build!isOurDir, Build!Made, Build!Dirs, Build!Platforms,
       Build!disk, Build!shared, Build!history, Build!Ended
<1>7. UseInv'
    BY QuietUse DEF BuildsInv, BuildTypes, Build!SumBinary, Build!checkOwnRegularFile, Building,
       Build!Go, Build!At, Build!shared, Build!disk, Build!history
<1>8. CloseInv'
    BY DEF BuildsInv, BuildTypes, LockHeld, MadeInv, CacheInv, SpoiledInv, BuildInv, UseInv,
       CloseInv, Build!SumBinary, Build!checkOwnRegularFile, Build!At, Build!Go, Locking, Reusing,
       Building, Using, Build!Out, Build!isOurDir, Build!Made, Build!Dirs, Build!Platforms,
       Build!disk, Build!shared, Build!history, Build!Ended
<1> QED  BY <1>1, <1>2, <1>3, <1>4, <1>5, <1>6, <1>7, <1>8 DEF BuildsInv

LEMMA VerifyBuiltKeeps ==
    ASSUME BuildsInv, NEW p \in Pushes, Build!VerifyBuilt(p)
    PROVE  BuildsInv'
<1>1. BuildTypes'
    BY DEF BuildsInv, BuildTypes, LockHeld, Build!VerifyBuilt, Build!verifyBuildDir, Build!At,
       Build!Go, Locking, Reusing, Build!Platforms, Build!disk, Build!shared, Build!history,
       Build!Ended
<1>2. LockHeld'
    BY DEF BuildsInv, BuildTypes, LockHeld, Build!VerifyBuilt, Build!verifyBuildDir, Build!At,
       Build!Go, Locking, Reusing, Building, Using, Build!Out
<1>3. MadeInv'
    BY DEF BuildsInv, BuildTypes, LockHeld, MadeInv, CacheInv, SpoiledInv, BuildInv, UseInv,
       CloseInv, Build!VerifyBuilt, Build!verifyBuildDir, Build!At, Build!Go, Locking, Reusing,
       Building, Using, Build!Out, Build!isOurDir, Build!Made, Build!Dirs, Build!Platforms,
       Build!disk, Build!shared, Build!history, Build!Ended
<1>4. CacheInv'
    BY DEF BuildsInv, BuildTypes, LockHeld, MadeInv, CacheInv, SpoiledInv, Build!VerifyBuilt,
       Build!verifyBuildDir, Build!At, Build!Go, Locking, Reusing, Building, Using, Build!Out,
       Build!Platforms, Build!disk, Build!shared
<1>5. SpoiledInv'
    BY DEF BuildsInv, BuildTypes, LockHeld, MadeInv, CacheInv, SpoiledInv, BuildInv, UseInv,
       CloseInv, Build!VerifyBuilt, Build!verifyBuildDir, Build!At, Build!Go, Locking, Reusing,
       Building, Using, Build!Out, Build!isOurDir, Build!Made, Build!Dirs, Build!Platforms,
       Build!disk, Build!shared, Build!history, Build!Ended
<1>6. BuildInv'
    BY DEF BuildsInv, BuildTypes, LockHeld, MadeInv, CacheInv, SpoiledInv, BuildInv, UseInv,
       CloseInv, Build!VerifyBuilt, Build!verifyBuildDir, Build!At, Build!Go, Locking, Reusing,
       Building, Using, Build!Out, Build!isOurDir, Build!Made, Build!Dirs, Build!Platforms,
       Build!disk, Build!shared, Build!history, Build!Ended
<1>7. UseInv'
    BY QuietUse DEF BuildsInv, BuildTypes, Build!VerifyBuilt, Build!verifyBuildDir, Building,
       Build!Go, Build!At, Build!shared, Build!disk, Build!history
<1>8. CloseInv'
    BY DEF BuildsInv, BuildTypes, LockHeld, MadeInv, CacheInv, SpoiledInv, BuildInv, UseInv,
       CloseInv, Build!VerifyBuilt, Build!verifyBuildDir, Build!At, Build!Go, Locking, Reusing,
       Building, Using, Build!Out, Build!isOurDir, Build!Made, Build!Dirs, Build!Platforms,
       Build!disk, Build!shared, Build!history, Build!Ended
<1> QED  BY <1>1, <1>2, <1>3, <1>4, <1>5, <1>6, <1>7, <1>8 DEF BuildsInv

LEMMA DiscardKeeps ==
    ASSUME BuildsInv, NEW p \in Pushes, Build!Discard(p)
    PROVE  BuildsInv'
<1>1. BuildTypes'
    BY DEF BuildsInv, BuildTypes, LockHeld, Build!Discard, Build!retireLocked, Build!Forget,
       Build!Return, Build!At, Build!Go, Build!Made, Build!Dirs, Build!Platforms, Build!disk,
       Build!shared, Build!history, Build!Ended
<1>2. LockHeld'
    BY DEF BuildsInv, BuildTypes, LockHeld, Build!Discard, Build!retireLocked, Build!Forget,
       Build!Return, Build!At, Build!Go, Locking, Reusing, Building, Build!Made, Build!Dirs,
       Build!Platforms, Build!disk, Build!shared, Build!history, Build!Ended
<1>3. MadeInv'
    BY ZenonT(60) DEF BuildsInv, BuildTypes, LockHeld, MadeInv, CacheInv, SpoiledInv, BuildInv, UseInv,
       CloseInv, Build!Discard, Build!retireLocked, Build!Forget, Build!Return, Build!At, Build!Go,
       Locking, Reusing, Building, Using, Build!Out, Build!isOurDir, Build!Made, Build!Dirs,
       Build!Platforms, Build!disk, Build!shared, Build!history, Build!Ended
<1>4. CacheInv'
    BY DEF BuildsInv, BuildTypes, LockHeld, MadeInv, CacheInv, SpoiledInv, Build!Discard,
       Build!retireLocked, Build!Forget, Build!Return, Build!At, Build!Go, Locking, Reusing,
       Building, Build!Made, Build!Dirs, Build!Platforms
<1>5. SpoiledInv'
    BY DEF BuildsInv, BuildTypes, LockHeld, MadeInv, CacheInv, SpoiledInv, BuildInv, UseInv,
       CloseInv, Build!Discard, Build!retireLocked, Build!Forget, Build!Return, Build!At, Build!Go,
       Locking, Reusing, Building, Using, Build!Out, Build!isOurDir, Build!Made, Build!Dirs,
       Build!Platforms, Build!disk, Build!shared, Build!history, Build!Ended
<1>6. BuildInv'
    <2>1. Building(p) /\ \A q \in Pushes : q # p => Build!Out(q)' = Build!Out(q) /\ pc'[q] = pc[q]
        BY DEF BuildsInv, BuildTypes, Building, Build!At, Build!Discard, Build!Return, Build!Go,
           Build!history, Build!Out
    <2>2. \A q \in Pushes : Building(q) /\ q # p =>
             Build!Out(q) # Build!Out(p) /\ Build!Out(q) \in Build!Dirs \X Build!Platforms
        BY <2>1, BuildsElsewhere, OutType
    <2>3. \A q \in Pushes : Building(q) /\ q # p => bin'[Build!Out(q)] = bin[Build!Out(q)]
        BY <2>2 DEF BuildsInv, BuildTypes, Build!Discard, Build!Return
    <2>4. /\ pc'[p] \in {"built", "failed"} /\ spoiled' = spoiled /\ known' = known
          /\ dir' = dir /\ at' = at /\ Build!Out(p)' = Build!Out(p)
        BY DEF BuildsInv, BuildTypes, Build!Discard, Build!Return, Build!Go, Build!history,
           Build!disk, Build!Out
    <2>5. \A q \in Pushes : Building(q)' \/ Using(q)' => Building(q) \/ Using(q)
        BY <2>1, <2>4 DEF Building, Using
    <2>6. QED  BY <2>1, <2>3, <2>4, <2>5 DEF BuildsInv, BuildInv, Building, Using, Build!isOurDir
<1>7. UseInv'
    <2>0. dir[p] \in Build!Dirs
        BY OutType DEF Build!Discard, Build!At, Building
    <2>1. /\ Building(p) /\ pc'[p] \in {"built", "sum", "failed"}
          /\ \A q \in Pushes \ {p} : pc'[q] = pc[q]
          /\ UNCHANGED <<at, dir, spoiled>>
        BY DEF BuildsInv, BuildTypes, Build!Discard, Build!Return, Build!At, Build!Go, Building,
           Build!disk, Build!history
    <2>2. \A x \in (Build!Dirs \X Build!Platforms) \ {Build!Out(p)} : bin'[x] = bin[x]
        BY DEF BuildsInv, BuildTypes, Build!Discard, Build!Return
    <2>3. /\ \A k \in Build!Platforms : cache'[k] = cache[k] \/
                (cache'[k] = 0 /\ buildDir' # cache[k])
          /\ buildDir' = buildDir \/ buildDir' = 0
        BY <2>0 DEF BuildsInv, BuildTypes, Build!Discard, Build!retireLocked, Build!Forget,
           Build!Dirs
    <2>4. QED  BY <2>1, <2>2, <2>3, BuildStep
<1>8. CloseInv'
    BY ZenonT(60) DEF BuildsInv, BuildTypes, LockHeld, MadeInv, CacheInv, SpoiledInv, BuildInv, UseInv,
       CloseInv, Build!Discard, Build!retireLocked, Build!Forget, Build!Return, Build!At, Build!Go,
       Locking, Reusing, Building, Using, Build!Out, Build!isOurDir, Build!Made, Build!Dirs,
       Build!Platforms, Build!disk, Build!shared, Build!history, Build!Ended
<1> QED  BY <1>1, <1>2, <1>3, <1>4, <1>5, <1>6, <1>7, <1>8 DEF BuildsInv

LEMMA buildCacheSetKeeps ==
    ASSUME BuildsInv, NEW p \in Pushes, Build!buildCacheSet(p)
    PROVE  BuildsInv'
<1>1. BuildTypes'
    BY DEF BuildsInv, BuildTypes, LockHeld, Build!buildCacheSet, Build!Return, Build!At, Build!Go,
       Locking, Reusing, Build!Platforms, Build!disk, Build!shared, Build!history, Build!Ended
<1>2. LockHeld'
    BY DEF BuildsInv, BuildTypes, LockHeld, Build!buildCacheSet, Build!Return, Build!At, Build!Go,
       Locking, Reusing, Building, Using, Build!Out, Build!Platforms, Build!disk, Build!shared
<1>3. MadeInv'
    BY DEF BuildsInv, BuildTypes, LockHeld, MadeInv, CacheInv, SpoiledInv, BuildInv, UseInv,
       CloseInv, Build!buildCacheSet, Build!Return, Build!At, Build!Go, Locking, Reusing, Building,
       Using, Build!Out, Build!isOurDir, Build!Made, Build!Dirs, Build!Platforms, Build!disk,
       Build!shared, Build!history, Build!Ended
<1>4. CacheInv'
    <2>1. /\ \A q \in Pushes \ {p} : pc'[q] = pc[q]
          /\ pc'[p] = "using" /\ dir' = dir /\ buildDir' = buildDir /\ Building(p)
          /\ \A k \in Build!Platforms \ {Platform[p]} : cache'[k] = cache[k]
        BY DEF BuildsInv, BuildTypes, Build!buildCacheSet, Build!Return, Build!Go, Build!At,
           Building
    <2>2. \A q \in Pushes : Locking(q)' => q # p /\ Platform[q] # Platform[p] /\
             Platform[q] \in Build!Platforms
        BY <2>1, OneOfPlatform DEF BuildsInv, Locking, Reusing, Building, Build!Platforms
    <2>3. QED  BY <2>1, <2>2 DEF BuildsInv, CacheInv, Locking, Reusing, Building
<1>5. SpoiledInv'
    BY DEF BuildsInv, BuildTypes, LockHeld, MadeInv, CacheInv, SpoiledInv, BuildInv, UseInv,
       CloseInv, Build!buildCacheSet, Build!Return, Build!At, Build!Go, Locking, Reusing, Building,
       Using, Build!Out, Build!isOurDir, Build!Made, Build!Dirs, Build!Platforms, Build!disk,
       Build!shared, Build!history, Build!Ended
<1>6. BuildInv'
    BY DEF BuildsInv, BuildTypes, LockHeld, MadeInv, CacheInv, SpoiledInv, BuildInv, UseInv,
       CloseInv, Build!buildCacheSet, Build!Return, Build!At, Build!Go, Locking, Reusing, Building,
       Using, Build!Out, Build!isOurDir, Build!Made, Build!Dirs, Build!Platforms, Build!disk,
       Build!shared, Build!history, Build!Ended
<1>7. UseInv'
    <2>1. /\ \A q \in Pushes \ {p} : pc'[q] = pc[q]
          /\ pc[p] = "set" /\ pc'[p] = "using" /\ buildDir' = buildDir /\ Building(p)
          /\ cache'[Platform[p]] = dir[p] /\ Platform[p] \in Build!Platforms
          /\ \A k \in Build!Platforms \ {Platform[p]} : cache'[k] = cache[k]
          /\ UNCHANGED <<at, bin, dir, spoiled>>
        BY DEF BuildsInv, BuildTypes, Build!buildCacheSet, Build!Return, Build!Go, Build!At,
           Building, Build!Platforms, Build!disk, Build!history
    <2>2. \A q \in Pushes : /\ Using(q)' => Using(q) \/ q = p
                            /\ Building(q)' => Building(q) /\ q # p
                            /\ Build!Out(q)' = Build!Out(q) /\
                                  (Build!isOurDir(dir[q])' <=> Build!isOurDir(dir[q]))
        BY <2>1 DEF Using, Building, Build!Out, Build!isOurDir
    <2>3. Build!Out(p) \notin spoiled => Build!isOurDir(dir[p]) /\ bin[Build!Out(p)] = "good"
        BY <2>1 DEF BuildsInv, BuildInv
    <2>4. \A q \in Pushes : Building(q) /\ q # p => Build!Out(q) # Build!Out(p)
        BY <2>1, BuildsElsewhere
    <2>5. ASSUME NEW q \in Pushes, Using(q), Build!Out(q) \notin spoiled
          PROVE  cache'[Platform[q]] = dir[q] \/ buildDir # dir[q]
        <3>1. CASE Platform[q] = Platform[p]
            <4>1. cache[Platform[q]] = 0 /\ dir[q] \in Build!Dirs
                BY <2>1, <2>5, <3>1, OutType DEF BuildsInv, CacheInv
            <4>2. QED  BY <2>5, <4>1 DEF BuildsInv, UseInv, Build!Dirs
        <3>2. CASE Platform[q] # Platform[p]
            BY <2>1, <2>5, <3>2 DEF BuildsInv, UseInv, Build!Platforms
        <3>3. QED  BY <3>1, <3>2
    <2>6. SUFFICES ASSUME NEW q \in Pushes, Using(q)', Build!Out(q) \notin spoiled
          PROVE  /\ Build!isOurDir(dir[q]) /\ bin[Build!Out(q)] = "good"
                 /\ cache'[Platform[q]] = dir[q] \/ buildDir # dir[q]
                 /\ \A r \in Pushes : Building(r)' => Build!Out(r) # Build!Out(q)
        BY <2>1, <2>2 DEF UseInv
    <2>7. CASE q = p
        BY <2>1, <2>2, <2>3, <2>4, <2>6, <2>7
    <2>8. CASE q # p
        BY <2>1, <2>2, <2>5, <2>6, <2>8 DEF BuildsInv, UseInv
    <2>9. QED  BY <2>7, <2>8
<1>8. CloseInv'
    BY DEF BuildsInv, BuildTypes, LockHeld, MadeInv, CacheInv, SpoiledInv, BuildInv, UseInv,
       CloseInv, Build!buildCacheSet, Build!Return, Build!At, Build!Go, Locking, Reusing, Building,
       Using, Build!Out, Build!isOurDir, Build!Made, Build!Dirs, Build!Platforms, Build!disk,
       Build!shared, Build!history, Build!Ended
<1> QED  BY <1>1, <1>2, <1>3, <1>4, <1>5, <1>6, <1>7, <1>8 DEF BuildsInv

LEMMA InstalledKeeps ==
    ASSUME BuildsInv, NEW p \in Pushes, Build!Installed(p)
    PROVE  BuildsInv'
<1>1. BuildTypes'
    BY DEF BuildsInv, BuildTypes, LockHeld, Build!Installed, Build!At, Build!Go, Build!disk,
       Build!shared, Build!history
<1>2. LockHeld'
    BY DEF BuildsInv, BuildTypes, LockHeld, Build!Installed, Build!At, Build!Go, Locking, Reusing,
       Building
<1>3. MadeInv'
    BY SMTT(30) DEF BuildsInv, BuildTypes, LockHeld, MadeInv, CacheInv, SpoiledInv, BuildInv, UseInv,
       CloseInv, Build!Installed, Build!At, Build!Go, Locking, Reusing, Building, Using, Build!Out,
       Build!isOurDir, Build!Made, Build!Dirs, Build!Platforms, Build!disk, Build!shared,
       Build!history, Build!Ended
<1>4. CacheInv'
    BY DEF BuildsInv, BuildTypes, LockHeld, MadeInv, CacheInv, SpoiledInv, Build!Installed,
       Build!At, Build!Go, Locking, Reusing, Building, Build!disk, Build!shared, Build!history
<1>5. SpoiledInv'
    BY DEF BuildsInv, BuildTypes, LockHeld, MadeInv, CacheInv, SpoiledInv, Build!Installed,
       Build!At, Build!Go, Using, Build!Out, Build!isOurDir, Build!disk, Build!shared,
       Build!history
<1>6. BuildInv'
    BY DEF BuildsInv, BuildTypes, LockHeld, BuildInv, UseInv, CloseInv, Build!Installed, Build!At,
       Build!Go, Locking, Reusing, Building, Using, Build!Out, Build!isOurDir, Build!disk,
       Build!shared, Build!history
<1>7. UseInv'
    BY QuietUse DEF BuildsInv, BuildTypes, Build!Installed, Building, Build!Go, Build!At,
       Build!shared, Build!disk, Build!history
<1>8. CloseInv'
    BY DEF BuildsInv, BuildTypes, LockHeld, BuildInv, UseInv, CloseInv, Build!Installed, Build!At,
       Build!Go, Using, Build!Out, Build!isOurDir, Build!disk, Build!shared, Build!history,
       Build!Ended
<1> QED  BY <1>1, <1>2, <1>3, <1>4, <1>5, <1>6, <1>7, <1>8 DEF BuildsInv

LEMMA CloseKeeps ==
    ASSUME BuildsInv, Build!Close
    PROVE  BuildsInv'
<1>1. BuildTypes'
    BY DEF BuildsInv, BuildTypes, LockHeld, Build!Close, Build!Ended, Build!removeBuildDir
<1>2. LockHeld'
    BY DEF BuildsInv, BuildTypes, LockHeld, Build!Close, Build!Ended, Build!removeBuildDir,
       Build!At, Build!Go, Locking, Reusing, Building, Using
<1>3. MadeInv'
    BY DEF BuildsInv, BuildTypes, LockHeld, MadeInv, CacheInv, SpoiledInv, BuildInv, UseInv,
       CloseInv, Build!Close, Build!Ended, Build!removeBuildDir, Build!At, Build!Go, Locking,
       Reusing, Building, Using, Build!Out, Build!isOurDir, Build!Made, Build!Dirs,
       Build!Platforms, Build!disk, Build!shared, Build!history, Build!Ended
<1>4. CacheInv'
    BY DEF MadeInv, CacheInv, SpoiledInv, Build!Close, Build!Ended, Build!removeBuildDir,
       Build!Dirs, Build!Platforms, Build!disk
<1>5. SpoiledInv'
    BY DEF BuildsInv, BuildTypes, LockHeld, MadeInv, CacheInv, SpoiledInv, Build!Close,
       Build!Ended, Build!removeBuildDir
<1>6. BuildInv'
    BY DEF BuildInv, UseInv, CloseInv, Build!Close, Build!Ended, Build!removeBuildDir, Reusing,
       Building, Using
<1>7. UseInv'
    BY DEF BuildInv, UseInv, CloseInv, Build!Close, Build!Ended, Build!removeBuildDir, Reusing,
       Building, Using
<1>8. CloseInv'
    BY DEF BuildsInv, BuildTypes, LockHeld, BuildInv, UseInv, CloseInv, Build!Close, Build!Ended,
       Build!removeBuildDir, Build!Out, Build!isOurDir, Build!Made
<1> QED  BY <1>1, <1>2, <1>3, <1>4, <1>5, <1>6, <1>7, <1>8 DEF BuildsInv

LEMMA SweepKeeps ==
    ASSUME BuildsInv, NEW d \in Build!Made, Build!Sweep(d)
    PROVE  BuildsInv'
<1>1. BuildTypes'
    BY DEF BuildsInv, BuildTypes, LockHeld, Build!Sweep, Build!Event, Build!At, Build!Platforms,
       Build!disk, Build!shared
<1>2. LockHeld'
    BY DEF BuildsInv, BuildTypes, LockHeld, Build!Sweep, Build!Event, Build!At, Build!Go, Locking,
       Reusing, Building, Using, Build!Out
<1>3. MadeInv'
    BY DEF BuildsInv, BuildTypes, LockHeld, MadeInv, CacheInv, SpoiledInv, BuildInv, UseInv,
       CloseInv, Build!Sweep, Build!Event, Build!At, Build!Go, Locking, Reusing, Building, Using,
       Build!Out, Build!isOurDir, Build!Made, Build!Dirs, Build!Platforms, Build!disk,
       Build!shared, Build!history, Build!Ended
<1>4. CacheInv'
    BY DEF BuildsInv, BuildTypes, LockHeld, MadeInv, CacheInv, SpoiledInv, Build!Sweep,
       Build!Event, Build!At, Build!Go, Locking, Reusing, Building, Using, Build!Out,
       Build!Platforms, Build!disk, Build!shared
<1>5. SpoiledInv'
    BY DEF BuildsInv, BuildTypes, LockHeld, MadeInv, CacheInv, SpoiledInv, Build!Sweep,
       Build!Event, Build!At, Build!isOurDir, Build!Made, Build!Dirs, Build!Platforms, Build!disk,
       Build!shared
<1>6. BuildInv'
    BY DEF BuildsInv, BuildTypes, LockHeld, MadeInv, CacheInv, SpoiledInv, BuildInv, UseInv,
       CloseInv, Build!Sweep, Build!Event, Build!At, Build!Go, Locking, Reusing, Building, Using,
       Build!Out, Build!isOurDir, Build!Made, Build!Dirs, Build!Platforms, Build!disk,
       Build!shared, Build!history, Build!Ended
<1>7. UseInv'
    BY DEF BuildsInv, BuildTypes, LockHeld, MadeInv, CacheInv, SpoiledInv, BuildInv, UseInv,
       CloseInv, Build!Sweep, Build!Event, Build!At, Build!Go, Locking, Reusing, Building, Using,
       Build!Out, Build!isOurDir, Build!Made, Build!Dirs, Build!Platforms, Build!disk,
       Build!shared, Build!history, Build!Ended
<1>8. CloseInv'
    BY DEF BuildsInv, BuildTypes, LockHeld, BuildInv, UseInv, CloseInv, Build!Sweep, Build!Event,
       Build!At, Build!isOurDir, Build!Made, Build!Dirs, Build!Platforms, Build!disk, Build!shared
<1> QED  BY <1>1, <1>2, <1>3, <1>4, <1>5, <1>6, <1>7, <1>8 DEF BuildsInv

LEMMA PlantKeeps ==
    ASSUME BuildsInv, NEW d \in Build!Made, Build!Plant(d)
    PROVE  BuildsInv'
<1>1. BuildTypes'
    BY DEF BuildsInv, BuildTypes, LockHeld, Build!Plant, Build!Event, Build!At, Build!Platforms,
       Build!disk, Build!shared
<1>2. LockHeld'
    BY DEF BuildsInv, BuildTypes, LockHeld, Build!Plant, Build!Event, Build!At, Build!Go, Locking,
       Reusing, Building, Using, Build!Out
<1>3. MadeInv'
    BY DEF BuildsInv, BuildTypes, LockHeld, MadeInv, CacheInv, SpoiledInv, BuildInv, UseInv,
       CloseInv, Build!Plant, Build!Event, Build!At, Build!Go, Locking, Reusing, Building, Using,
       Build!Out, Build!isOurDir, Build!Made, Build!Dirs, Build!Platforms, Build!disk,
       Build!shared, Build!history, Build!Ended
<1>4. CacheInv'
    BY DEF BuildsInv, BuildTypes, LockHeld, MadeInv, CacheInv, SpoiledInv, Build!Plant,
       Build!Event, Build!At, Build!Go, Locking, Reusing, Building, Using, Build!Out,
       Build!Platforms, Build!disk, Build!shared
<1>5. SpoiledInv'
    BY DEF BuildsInv, BuildTypes, LockHeld, MadeInv, CacheInv, SpoiledInv, Build!Plant,
       Build!Event, Build!At, Build!isOurDir, Build!Made, Build!Dirs, Build!Platforms, Build!disk,
       Build!shared
<1>6. BuildInv'
    BY DEF BuildsInv, BuildTypes, LockHeld, MadeInv, CacheInv, SpoiledInv, BuildInv, UseInv,
       CloseInv, Build!Plant, Build!Event, Build!At, Build!Go, Locking, Reusing, Building, Using,
       Build!Out, Build!isOurDir, Build!Made, Build!Dirs, Build!Platforms, Build!disk,
       Build!shared, Build!history, Build!Ended
<1>7. UseInv'
    BY DEF BuildsInv, BuildTypes, LockHeld, MadeInv, CacheInv, SpoiledInv, BuildInv, UseInv,
       CloseInv, Build!Plant, Build!Event, Build!At, Build!Go, Locking, Reusing, Building, Using,
       Build!Out, Build!isOurDir, Build!Made, Build!Dirs, Build!Platforms, Build!disk,
       Build!shared, Build!history, Build!Ended
<1>8. CloseInv'
    BY DEF BuildsInv, BuildTypes, LockHeld, BuildInv, UseInv, CloseInv, Build!Plant, Build!Event,
       Build!At, Build!isOurDir, Build!Made, Build!Dirs, Build!Platforms, Build!disk, Build!shared
<1> QED  BY <1>1, <1>2, <1>3, <1>4, <1>5, <1>6, <1>7, <1>8 DEF BuildsInv

LEMMA ChmodKeeps ==
    ASSUME BuildsInv, NEW d \in Build!Made, Build!Chmod(d)
    PROVE  BuildsInv'
<1>1. BuildTypes'
    BY DEF BuildsInv, BuildTypes, LockHeld, Build!Chmod, Build!Event, Build!At, Build!Platforms,
       Build!disk, Build!shared
<1>2. LockHeld'
    BY DEF BuildsInv, BuildTypes, LockHeld, Build!Chmod, Build!Event, Build!At, Build!Go, Locking,
       Reusing, Building, Using, Build!Out
<1>3. MadeInv'
    BY DEF BuildsInv, BuildTypes, LockHeld, MadeInv, CacheInv, SpoiledInv, BuildInv, UseInv,
       CloseInv, Build!Chmod, Build!Event, Build!At, Build!Go, Locking, Reusing, Building, Using,
       Build!Out, Build!isOurDir, Build!Made, Build!Dirs, Build!Platforms, Build!disk,
       Build!shared, Build!history, Build!Ended
<1>4. CacheInv'
    BY DEF BuildsInv, BuildTypes, LockHeld, MadeInv, CacheInv, SpoiledInv, Build!Chmod,
       Build!Event, Build!At, Build!Go, Locking, Reusing, Building, Using, Build!Out,
       Build!Platforms, Build!disk, Build!shared
<1>5. SpoiledInv'
    BY DEF BuildsInv, BuildTypes, LockHeld, MadeInv, CacheInv, SpoiledInv, Build!Chmod,
       Build!Event, Build!At, Build!isOurDir, Build!Made, Build!Dirs, Build!Platforms, Build!disk,
       Build!shared
<1>6. BuildInv'
    BY DEF BuildsInv, BuildTypes, LockHeld, MadeInv, CacheInv, SpoiledInv, BuildInv, UseInv,
       CloseInv, Build!Chmod, Build!Event, Build!At, Build!Go, Locking, Reusing, Building, Using,
       Build!Out, Build!isOurDir, Build!Made, Build!Dirs, Build!Platforms, Build!disk,
       Build!shared, Build!history, Build!Ended
<1>7. UseInv'
    BY DEF BuildsInv, BuildTypes, LockHeld, MadeInv, CacheInv, SpoiledInv, BuildInv, UseInv,
       CloseInv, Build!Chmod, Build!Event, Build!At, Build!Go, Locking, Reusing, Building, Using,
       Build!Out, Build!isOurDir, Build!Made, Build!Dirs, Build!Platforms, Build!disk,
       Build!shared, Build!history, Build!Ended
<1>8. CloseInv'
    BY DEF BuildsInv, BuildTypes, LockHeld, BuildInv, UseInv, CloseInv, Build!Chmod, Build!Event,
       Build!At, Build!isOurDir, Build!Made, Build!Dirs, Build!Platforms, Build!disk, Build!shared
<1> QED  BY <1>1, <1>2, <1>3, <1>4, <1>5, <1>6, <1>7, <1>8 DEF BuildsInv

LEMMA EditKeeps ==
    ASSUME BuildsInv, NEW x \in Build!Dirs \X Build!Platforms, Build!Edit(x)
    PROVE  BuildsInv'
<1>1. BuildTypes'
    <2>1. PICK c \in {"edited", "foreign"} : bin' = [bin EXCEPT ![x] = c]
        BY DEF Build!Edit
    <2>2. QED
        BY <2>1 DEF BuildsInv, BuildTypes, Build!Edit, Build!Event, Build!shared, Build!Made
<1>2. LockHeld'
    BY DEF BuildsInv, BuildTypes, LockHeld, Build!Edit, Build!Event, Build!At, Build!Go, Locking,
       Reusing, Building, Using, Build!Out
<1>3. MadeInv'
    BY DEF BuildsInv, BuildTypes, LockHeld, MadeInv, CacheInv, SpoiledInv, BuildInv, UseInv,
       CloseInv, Build!Edit, Build!Event, Build!At, Build!Go, Locking, Reusing, Building, Using,
       Build!Out, Build!isOurDir, Build!Made, Build!Dirs, Build!Platforms, Build!disk,
       Build!shared, Build!history, Build!Ended
<1>4. CacheInv'
    BY DEF BuildsInv, BuildTypes, LockHeld, MadeInv, CacheInv, SpoiledInv, Build!Edit, Build!Event,
       Build!At, Build!Go, Locking, Reusing, Building, Using, Build!Out, Build!Platforms,
       Build!disk, Build!shared
<1>5. SpoiledInv'
    BY DEF BuildsInv, BuildTypes, LockHeld, MadeInv, CacheInv, SpoiledInv, Build!Edit, Build!Event,
       Build!At, Build!isOurDir, Build!Made, Build!Dirs, Build!Platforms, Build!disk, Build!shared
<1>6. BuildInv'
    BY SMTT(30) DEF BuildsInv, BuildTypes, LockHeld, MadeInv, CacheInv, SpoiledInv, BuildInv, UseInv,
       CloseInv, Build!Edit, Build!Event, Build!At, Build!Go, Locking, Reusing, Building, Using,
       Build!Out, Build!isOurDir, Build!Made, Build!Dirs, Build!Platforms, Build!disk,
       Build!shared, Build!history, Build!Ended
<1>7. UseInv'
    BY DEF BuildsInv, BuildTypes, LockHeld, MadeInv, CacheInv, SpoiledInv, BuildInv, UseInv,
       CloseInv, Build!Edit, Build!Event, Build!At, Build!Go, Locking, Reusing, Building, Using,
       Build!Out, Build!isOurDir, Build!Made, Build!Dirs, Build!Platforms, Build!disk,
       Build!shared, Build!history, Build!Ended
<1>8. CloseInv'
    BY DEF BuildsInv, BuildTypes, LockHeld, BuildInv, UseInv, CloseInv, Build!Edit, Build!Event,
       Build!At, Build!isOurDir, Build!Made, Build!Dirs, Build!Platforms, Build!disk, Build!shared
<1> QED  BY <1>1, <1>2, <1>3, <1>4, <1>5, <1>6, <1>7, <1>8 DEF BuildsInv

LEMMA BuildsStart == Build!Init => BuildsInv
BY DEF Build!Init, BuildsInv, BuildTypes, LockHeld, MadeInv, CacheInv, SpoiledInv, BuildInv,
   UseInv, CloseInv, Build!At, Build!Go, Locking, Reusing, Building, Using, Build!Out,
   Build!isOurDir

LEMMA BuildsStutter == ASSUME BuildsInv, UNCHANGED Build!vars PROVE BuildsInv'
<1>1. BuildTypes'
    BY DEF BuildsInv, BuildTypes, Build!vars
<1>2. LockHeld'
    BY DEF BuildsInv, LockHeld, Build!vars, Build!At, Locking, Reusing, Building, Using, Build!Out
<1>3. MadeInv'
    BY DEF BuildsInv, MadeInv, Build!vars, Build!At, Locking, Reusing, Building, Using, Build!Out,
       Build!isOurDir, Build!Made, Build!Dirs
<1>4. CacheInv'
    BY DEF BuildsInv, CacheInv, Build!vars, Build!At, Locking, Reusing, Building, Using, Build!Out
<1>5. SpoiledInv'
    BY DEF BuildsInv, SpoiledInv, Build!vars, Build!isOurDir, Build!Made, Build!Dirs
<1>6. BuildInv'
    BY DEF BuildsInv, BuildInv, Build!vars, Building, Using, Build!Out, Build!isOurDir, Build!Made,
       Build!Dirs
<1>7. UseInv'
    BY DEF BuildsInv, UseInv, Build!vars, Building, Using, Build!Out, Build!isOurDir, Build!Made,
       Build!Dirs
<1>8. CloseInv'
    BY DEF BuildsInv, CloseInv, Build!vars, Build!isOurDir, Build!Made, Build!Dirs,
       Build!Platforms, Build!Ended
<1> QED  BY <1>1, <1>2, <1>3, <1>4, <1>5, <1>6, <1>7, <1>8 DEF BuildsInv

LEMMA BuildsStep ==
    ASSUME BuildsInv, [Build!Next]_(Build!vars)
    PROVE  BuildsInv'
<1>1. ASSUME NEW p \in Pushes, Build!Step(p) PROVE BuildsInv'
    BY <1>1, buildKeyLockKeeps, buildCacheGetKeeps, ReuseDirKeeps, ReuseBinaryKeeps,
       retireBuildDirKeeps, privateBuildDirKeeps, GoBuildKeeps, GoBuiltKeeps, SumBinaryKeeps,
       VerifyBuiltKeeps, DiscardKeeps, buildCacheSetKeeps, InstalledKeeps DEF Build!Step
<1>2. ASSUME Build!Close PROVE BuildsInv'
    BY <1>2, CloseKeeps
<1>3. ASSUME Build!Others PROVE BuildsInv'
    <2>1. DOMAIN bin = Build!Dirs \X Build!Platforms
        BY DEF BuildsInv, BuildTypes
    <2>2. QED
        BY <1>3, <2>1, SweepKeeps, PlantKeeps, ChmodKeeps, EditKeeps DEF Build!Others
<1>4. ASSUME UNCHANGED Build!vars PROVE BuildsInv'
    BY <1>4, BuildsStutter
<1>5. QED  BY <1>1, <1>2, <1>3, <1>4 DEF Build!Next

\* BuildsInv holds in every state of every behaviour, whatever the other
\* programs in the temporary directory do.
THEOREM BuildsInvariant == Build!Spec => []BuildsInv
BY BuildsStart, BuildsStep, PTL DEF Build!Spec

LEMMA BuildsFollow ==
    ASSUME BuildsInv
    PROVE  Build!BinariesHold /\ Build!NothingLeft
BY DEF BuildsInv, BuildInv, UseInv, CloseInv, Using, Build!BinariesHold, Build!NothingLeft,
       Build!At, Build!Made

\* A push installs the binary that was built for its platform, whole and as
\* the compiler left it, unless it was spoiled after the push verified it.
THEOREM BuiltBinariesHold == Build!Spec => []Build!BinariesHold
<1>1. BuildsInv => Build!BinariesHold
    BY BuildsFollow
<1>2. QED  BY <1>1, BuildsInvariant, PTL

\* Close leaves no build directory of this run behind.
THEOREM BuildsLeaveNothing == Build!Spec => []Build!NothingLeft
<1>1. BuildsInv => Build!NothingLeft
    BY BuildsFollow
<1>2. QED  BY <1>1, BuildsInvariant, PTL

(***************************************************************************)
(* Secret lookups: the invariant, action by action                         *)
(***************************************************************************)
Results == [kind : {"ok", "not found", "failed", "canceled", "none"}, val : Secret!Contents]

Chain == provider = "chain"
Finding == {"lookup", "probe", "read", "root", "walk", "missing", "found"}
Callings == [pc : {"idle", "entry", "wait", "return"} \cup Finding, key : Secret!Keys \cup {NoKey},
             entry : Nat, probe : Nat, fd : Nat, res : Results, canceled : BOOLEAN]
Snaps == [done : BOOLEAN, kept : BOOLEAN, res : Results]

Keyed(s) == s.pc \in Finding \cup {"entry", "wait"} => s.key \in Secret!Keys

LookupTypes ==
    /\ provider \in {"file", "chain"} /\ used \in BOOLEAN
    /\ entries \in [Secret!Keys -> Nat]
    /\ heap \in Seq(Snaps)
    /\ world \in Secret!Worlds /\ world.dir <= Len(world.files)
    /\ caller \in [Callers -> Callings] /\ \A c \in Callers : Keyed(caller[c])
    /\ seen \in [Callers -> SUBSET ({"item", "file"} \X Secret!Contents)]
    /\ answers \in [Secret!Keys -> SUBSET Results]

Attempts == probes \in Seq({"running", "ok", "failed"})

\* The provider is chosen before the first lookup.
Allowed(s) == ~Chain => s.pc \in {"idle", "root", "walk", "missing", "return"}
ChosenFirst ==
    /\ ~used => \A c \in Callers : Secret!At(c, "idle")
    /\ ~used => \A k \in Secret!Keys : answers[k] = {}
    /\ \A c \in Callers : Allowed(caller[c])

\* What the stores hold during a lookup has been seen.
Watched ==
    \A c \in Callers : ~Secret!At(c, "idle") /\ Secret!Key(c) # NoKey =>
       Secret!Now(world, Secret!Key(c)) \subseteq seen[c]

\* What has been found so far was so.
FoundOf(s, facts) ==
    /\ s.pc \in {"probe", "read"} => s.key \in Mapped
    /\ s.pc \in {"root", "walk", "missing"} /\ Chain => <<"item", Secret!Absent>> \in facts
    /\ s.pc \in {"walk", "missing"} => s.fd \in 1..Len(world.files)
    /\ s.pc = "walk" => \/ world.files[s.fd][s.key] = Secret!Absent
                        \/ <<"file", world.files[s.fd][s.key]>> \in facts
    /\ s.pc = "missing" /\ world.dir = s.fd => <<"file", Secret!Absent>> \in facts
    /\ s.pc = "found" /\ Secret!Fact(s.res) => Secret!WasSo(s.res, facts, TRUE)
    /\ s.pc = "return" /\ ~Chain /\ Secret!Fact(s.res) => Secret!WasSo(s.res, facts, FALSE)
FoundSo == \A c \in Callers : FoundOf(caller[c], seen[c])

\* An entry of the snapshot that keeps a fact about a key.
Kept(k, r) ==
    entries[k] # 0 /\ heap[entries[k]].done /\ heap[entries[k]].kept /\ heap[entries[k]].res = r

\* A caller that leads has the key's entry, which is not done; one that waits
\* has the key's entry, or one that was dropped; one that returns a fact
\* leaves it in the key's entry.
Leads(c) == Chain /\ caller[c].pc \in Finding
Placed(s) ==
    /\ Chain /\ s.pc \in Finding =>
          entries[s.key] = s.entry /\ s.entry # 0 /\ ~heap[s.entry].done
    /\ s.pc = "wait" =>
          /\ s.entry \in 1..Len(heap)
          /\ entries[s.key] = s.entry \/ (heap[s.entry].done /\ ~heap[s.entry].kept)
    /\ s.pc = "return" /\ Chain /\ Secret!Fact(s.res) =>
          s.key \in Secret!Keys /\ Kept(s.key, s.res)
OneLeader ==
    \A c, d \in Callers : Leads(c) /\ Leads(d) /\ Secret!Key(c) = Secret!Key(d) => c = d
EntriesApart ==
    /\ \A k \in Secret!Keys : entries[k] <= Len(heap)
    /\ \A k, l \in Secret!Keys : entries[k] = entries[l] /\ entries[k] # 0 => k = l
AnswersKept == Chain => \A k \in Secret!Keys : \A r \in answers[k] : Kept(k, r)

Snapshots ==
    EntriesApart /\ (\A c \in Callers : Placed(caller[c])) /\ OneLeader /\ AnswersKept

LookupsInv == LookupTypes /\ ChosenFirst /\ Watched /\ FoundSo /\ Snapshots /\ lies = {}

Quiet == <<provider, used, entries, heap, world, seen, answers, lies>>

LEMMA CallerMoves ==
    ASSUME LookupsInv, NEW c \in Callers, ~Secret!At(c, "idle"), NEW t \in Callings,
           caller' = [caller EXCEPT ![c] = t], UNCHANGED Quiet,
           t.pc # "idle", t.key = Secret!Key(c), Keyed(t), Allowed(t), FoundOf(t, seen[c]),
              Placed(t),
           Chain /\ t.pc \in Finding => Leads(c)
    PROVE  LookupsInv'
<1>1. /\ \A d \in Callers : caller'[d] = IF d = c THEN t ELSE caller[d]
      /\ provider' = provider /\ used' = used /\ entries' = entries /\ heap' = heap
      /\ world' = world /\ seen' = seen /\ answers' = answers /\ lies' = lies
    BY DEF LookupsInv, LookupTypes, Quiet
<1>2. LookupTypes'
    BY <1>1 DEF LookupsInv, LookupTypes, Keyed
<1>3. ChosenFirst'
    BY <1>1 DEF LookupsInv, ChosenFirst, Secret!At, Allowed, Chain
<1>4. Watched'
    BY <1>1 DEF LookupsInv, Watched, Secret!At, Secret!Key
<1>5. FoundSo'
    BY <1>1 DEF LookupsInv, FoundSo, FoundOf, Chain
<1>6. Snapshots'
    <2>1. EntriesApart' /\ AnswersKept'
        BY <1>1 DEF LookupsInv, Snapshots, EntriesApart, AnswersKept, Kept, Chain
    <2>2. \A d \in Callers : Placed(caller[d])'
        BY <1>1 DEF LookupsInv, Snapshots, Placed, Kept, Chain
    <2>3. OneLeader'
        BY <1>1 DEF LookupsInv, Snapshots, OneLeader, Leads, Secret!Key, Chain
    <2>4. QED  BY <2>1, <2>2, <2>3 DEF Snapshots
<1>7. QED  BY <1>1, <1>2, <1>3, <1>4, <1>5, <1>6 DEF LookupsInv

\* A step changes its caller only, and of it the place, or the place and the
\* result.
Places == {"entry", "wait", "return"} \cup Finding

LEMMA GoIs ==
    ASSUME LookupTypes, NEW c \in Callers, NEW p \in Places, Secret!Go(c, p)
    PROVE  \E t \in Callings :
              /\ caller' = [caller EXCEPT ![c] = t]
              /\ t.pc = p /\ t.key = caller[c].key /\ t.entry = caller[c].entry
              /\ t.fd = caller[c].fd /\ t.res = caller[c].res
<1> DEFINE t == [caller[c] EXCEPT !.pc = p]
<1>1. caller' = [caller EXCEPT ![c] = t]
    BY DEF LookupTypes, Secret!Go
<1>2. /\ t.pc = p /\ t.key = caller[c].key /\ t.entry = caller[c].entry
      /\ t.fd = caller[c].fd /\ t.res = caller[c].res
    BY DEF LookupTypes, Callings
<1>3. t \in Callings
    BY DEF LookupTypes, Callings, Places
<1> HIDE DEF t
<1>4. QED  BY <1>1, <1>2, <1>3

LEMMA LeaveIs ==
    ASSUME LookupTypes, NEW c \in Callers, NEW p \in Places, NEW r \in Results,
           Secret!Leave(c, p, r)
    PROVE  \E t \in Callings :
              /\ caller' = [caller EXCEPT ![c] = t]
              /\ t.pc = p /\ t.key = caller[c].key /\ t.entry = caller[c].entry
              /\ t.fd = caller[c].fd /\ t.res = r
<1> DEFINE t == [caller[c] EXCEPT !.pc = p, !.res = r]
<1>1. caller' = [caller EXCEPT ![c] = t]
    BY DEF LookupTypes, Secret!Leave, Callings
<1>2. /\ t.pc = p /\ t.key = caller[c].key /\ t.entry = caller[c].entry
      /\ t.fd = caller[c].fd /\ t.res = r
    BY DEF LookupTypes, Callings
<1>3. t \in Callings
    BY DEF LookupTypes, Callings, Places
<1> HIDE DEF t
<1>4. QED  BY <1>1, <1>2, <1>3

LEMMA ResultTypes ==
    /\ Secret!NotFound \in Results /\ Secret!Failed \in Results /\
          Secret!Err("canceled") \in Results
    /\ \A v \in Secret!Contents : Secret!Ok(v) \in Results
    /\ ~Secret!Fact(Secret!Failed) /\ ~Secret!Fact(Secret!Err("canceled"))
    /\ \A v : Secret!Ok(v) # Secret!NotFound /\ Secret!Ok(v).val = v /\ Secret!Ok(v).kind = "ok"
    /\ Secret!NotFound.kind = "not found" /\ Secret!Failed # Secret!NotFound /\
          Secret!Err("canceled") # Secret!NotFound
<1>1. Secret!NotFound \in Results /\ Secret!Failed \in Results /\
         Secret!Err("canceled") \in Results
    BY DEF Secret!NotFound, Secret!Failed, Secret!Err, Results, Secret!Contents
<1>2. \A v \in Secret!Contents : Secret!Ok(v) \in Results
    BY DEF Secret!Ok, Results
<1>3. ~Secret!Fact(Secret!Failed) /\ ~Secret!Fact(Secret!Err("canceled"))
    BY DEF Secret!Failed, Secret!Err, Secret!Fact
<1>4. \A v : Secret!Ok(v).val = v /\ Secret!Ok(v).kind = "ok"
    BY DEF Secret!Ok
<1>5. /\ Secret!NotFound.kind = "not found" /\ Secret!Failed.kind = "failed"
      /\ Secret!Err("canceled").kind = "canceled"
    BY DEF Secret!NotFound, Secret!Failed, Secret!Err
<1>6. QED  BY <1>1, <1>2, <1>3, <1>4, <1>5

\* A result that was so during the lookup.
Told(c, r) == Secret!Fact(r) => Secret!WasSo(r, seen[c], Chain)

\* A lookup ends with a result.
LEMMA ResultHolds ==
    ASSUME LookupsInv, NEW c \in Callers, caller[c].pc \in Finding,
           NEW p \in {"return", "found"}, p = "found" <=> Chain, NEW q \in Results, Told(c, q),
           Secret!Leave(c, p, q), UNCHANGED Quiet
    PROVE  LookupsInv'
<1>1. p \in Places
    BY DEF Places, Finding
<1>2. PICK t \in Callings :
         /\ caller' = [caller EXCEPT ![c] = t]
         /\ t.pc = p /\ t.key = caller[c].key /\ t.entry = caller[c].entry
         /\ t.res = q
    BY <1>1, LeaveIs DEF LookupsInv
<1>3. t.key = Secret!Key(c)
    BY <1>2 DEF Secret!Key
<1>4. Keyed(t) /\ Allowed(t) /\ t.pc # "idle" /\ ~Secret!At(c, "idle")
    BY <1>2 DEF LookupsInv, LookupTypes, Keyed, Allowed, Secret!Key, Secret!At, Finding
<1>5. FoundOf(t, seen[c])
    <2>1. Chain => Secret!WasSo(q, seen[c], TRUE) \/ ~Secret!Fact(q)
        BY DEF Told
    <2>2. ~Chain => Secret!WasSo(q, seen[c], FALSE) \/ ~Secret!Fact(q)
        BY DEF Told, Secret!WasSo
    <2>3. QED  BY <1>2, <2>1, <2>2 DEF FoundOf
<1>6. Placed(t)
    <2>1. Placed(caller[c]) /\ t.key = caller[c].key
        BY <1>2 DEF LookupsInv, Snapshots
    <2>2. QED  BY <1>2, <2>1 DEF Placed
<1>7. Chain /\ t.pc \in Finding => Leads(c)
    BY DEF Leads
<1> QED  BY <1>2, <1>3, <1>4, <1>5, <1>6, <1>7, CallerMoves

\* A provider's result, or that the caller's context is done.
LEMMA ProvidedHolds ==
    ASSUME LookupsInv, NEW c \in Callers, caller[c].pc \in Finding, NEW r \in Results,
           Told(c, r), Secret!Provided(c, r), UNCHANGED Quiet
    PROVE  LookupsInv'
<1>1. Secret!Checked(c, r) \in Results /\ Told(c, Secret!Checked(c, r))
    BY ResultTypes DEF Secret!Checked, Told
<1>2. CASE provider = "file"
    BY <1>1, <1>2, ResultHolds DEF Secret!Provided, Chain
<1>3. CASE provider = "chain"
    BY <1>1, <1>3, ResultHolds DEF Secret!Provided, Chain
<1>4. QED  BY <1>2, <1>3 DEF LookupsInv, LookupTypes

\* A step within a lookup.
LEMMA GoesOn ==
    ASSUME LookupsInv, NEW c \in Callers, caller[c].pc \in Finding,
           NEW p \in Finding, NEW t \in Callings, t.pc = p, t.key = caller[c].key,
           t.entry = caller[c].entry,
           caller' = [caller EXCEPT ![c] = t], Allowed(t), FoundOf(t, seen[c]), UNCHANGED Quiet
    PROVE  LookupsInv'
<1>1. ~Secret!At(c, "idle") /\ t.pc # "idle" /\ t.key = Secret!Key(c)
    BY DEF Secret!At, Secret!Key, Finding
<1>2. Keyed(t)
    BY DEF LookupsInv, LookupTypes, Keyed
<1>3. Placed(caller[c])
    BY DEF LookupsInv, Snapshots
<1>4. Placed(t)
    BY <1>3 DEF Placed, Finding
<1>5. QED  BY <1>1, <1>2, <1>4, CallerMoves DEF Leads

\* What foostore says: only that there is no item lets the files answer.
LEMMA FromPrimaryHolds ==
    ASSUME LookupsInv, NEW c \in Callers, caller[c].pc \in Finding, Chain, NEW r \in Results,
           r = Secret!NotFound => <<"item", Secret!Absent>> \in seen[c],
           Secret!Fact(r) /\ r # Secret!NotFound => Secret!WasSo(r, seen[c], TRUE),
           Secret!FromPrimary(c, r), UNCHANGED Quiet
    PROVE  LookupsInv'
<1>1. CASE Secret!Checked(c, r) = Secret!NotFound
    <2>1. "root" \in Places /\ Secret!Go(c, "root")
        BY <1>1 DEF Secret!FromPrimary, Places, Finding
    <2>2. PICK t \in Callings :
             /\ caller' = [caller EXCEPT ![c] = t]
             /\ t.pc = "root" /\ t.key = caller[c].key /\ t.entry = caller[c].entry
        BY <2>1, GoIs DEF LookupsInv
    <2>3. r = Secret!NotFound
        BY <1>1, ResultTypes DEF Secret!Checked
    <2>4. Allowed(t) /\ FoundOf(t, seen[c])
        BY <2>2, <2>3 DEF Allowed, FoundOf
    <2>5. QED  BY <2>2, <2>4, GoesOn DEF Finding
<1>2. CASE Secret!Checked(c, r) # Secret!NotFound
    <2>1. Secret!Provided(c, r)
        BY <1>2 DEF Secret!FromPrimary
    <2>2. CASE r = Secret!NotFound
        <3>1. Secret!Checked(c, r) = Secret!Err("canceled") /\
                 Secret!Provided(c, Secret!Err("canceled"))
            BY <1>2, <2>1, <2>2 DEF Secret!Checked, Secret!Provided
        <3>2. QED  BY <3>1, ResultTypes, ProvidedHolds DEF Told
    <2>3. CASE r # Secret!NotFound
        <3>1. Told(c, r)
            BY <2>3 DEF Told
        <3>2. QED  BY <2>1, <3>1, ProvidedHolds
    <2>4. QED  BY <2>2, <2>3
<1>3. QED  BY <1>1, <1>2

\* What a lookup with foostore knows.
LEMMA AtPrimary ==
    ASSUME LookupsInv, NEW c \in Callers, caller[c].pc \in {"lookup", "probe", "read"}
    PROVE  /\ Chain /\ caller[c].pc \in Finding /\ Secret!Key(c) \in Secret!Keys
           /\ Secret!Now(world, Secret!Key(c)) \subseteq seen[c]
<1>1. Chain /\ caller[c].pc \in Finding
    BY DEF LookupsInv, ChosenFirst, Allowed, Finding
<1>2. Secret!Key(c) \in Secret!Keys /\ Secret!Key(c) # NoKey
    BY <1>1 DEF LookupsInv, LookupTypes, Keyed, Secret!Key, Secret!Keys
<1>3. QED  BY <1>1, <1>2 DEF LookupsInv, Watched, Secret!At

LEMMA CancelHolds ==
    ASSUME LookupsInv, NEW c \in Callers, Secret!Cancel(c)
    PROVE  LookupsInv'
<1> DEFINE t == [caller[c] EXCEPT !.canceled = TRUE]
<1>1. caller' = [caller EXCEPT ![c] = t]
    BY DEF LookupsInv, LookupTypes, Secret!Cancel
<1>2. t \in Callings
    BY DEF LookupsInv, LookupTypes, Callings
<1>3. /\ t.pc = caller[c].pc /\ t.key = caller[c].key /\ t.entry = caller[c].entry
      /\ t.fd = caller[c].fd /\ t.res = caller[c].res
    BY DEF LookupsInv, LookupTypes, Callings
<1> HIDE DEF t
<1>4. ~Secret!At(c, "idle") /\ t.pc # "idle" /\ t.key = Secret!Key(c) /\ UNCHANGED Quiet
    BY <1>3 DEF Secret!Cancel, Secret!At, Secret!Key, Secret!Shared, Secret!World, Secret!History,
       Quiet
<1>5. Keyed(t) /\ Allowed(t) /\ (Chain /\ t.pc \in Finding => Leads(c))
    BY <1>3 DEF LookupsInv, LookupTypes, ChosenFirst, Keyed, Allowed, Leads
<1>6. FoundOf(caller[c], seen[c]) /\ Placed(caller[c])
    BY DEF LookupsInv, FoundSo, Snapshots
<1>7. FoundOf(t, seen[c]) /\ Placed(t)
    BY ZenonT(60), <1>3, <1>6 DEF FoundOf, Placed
<1> QED  BY <1>1, <1>2, <1>4, <1>5, <1>7, CallerMoves

LEMMA LookupHolds ==
    ASSUME LookupsInv, Attempts, NEW c \in Callers, Secret!Lookup(c)
    PROVE  LookupsInv'
<1>1. /\ Chain /\ caller[c].pc \in Finding /\ Secret!Key(c) \in Secret!Keys
      /\ Secret!Now(world, Secret!Key(c)) \subseteq seen[c] /\ UNCHANGED Quiet
    BY AtPrimary DEF Secret!Lookup, Secret!At, Secret!World, Secret!History, Quiet
<1>2. CASE caller[c].canceled \/ Secret!Key(c) \notin Mapped
    <2>1. Secret!FromPrimary(c, Secret!NotFound)
        BY <1>2 DEF Secret!Lookup
    <2>2. CASE caller[c].canceled
        <3>1. Secret!FromPrimary(c, Secret!Err("canceled"))
            BY <2>1, <2>2 DEF Secret!FromPrimary, Secret!Provided, Secret!Checked
        <3>2. QED  BY <1>1, <3>1, FromPrimaryHolds, ResultTypes
    <2>3. CASE Secret!Key(c) \notin Mapped
        <3>1. <<"item", Secret!Absent>> \in seen[c]
            BY <1>1, <2>3 DEF Secret!Now, Secret!ItemNow
        <3>2. QED  BY <1>1, <2>1, <3>1, FromPrimaryHolds, ResultTypes
    <2>4. QED  BY <1>2, <2>2, <2>3
<1>3. CASE ~(caller[c].canceled \/ Secret!Key(c) \notin Mapped) /\ probed
    <2>1. Secret!Go(c, "read") /\ "read" \in Places /\ "read" \in Finding
        BY <1>3 DEF Secret!Lookup, Places, Finding
    <2>2. PICK t \in Callings :
             /\ caller' = [caller EXCEPT ![c] = t]
             /\ t.pc = "read" /\ t.key = caller[c].key /\ t.entry = caller[c].entry
        BY <2>1, GoIs DEF LookupsInv
    <2>3. Allowed(t) /\ FoundOf(t, seen[c])
        BY <1>1, <1>3, <2>2 DEF Allowed, FoundOf, Secret!Key
    <2>4. QED  BY <1>1, <2>1, <2>2, <2>3, GoesOn
<1>4. CASE ~(caller[c].canceled \/ Secret!Key(c) \notin Mapped) /\ ~probed
    <2>1. PICK n \in Nat : caller' = [caller EXCEPT ![c].pc = "probe", ![c].probe = n]
        <3>1. Len(probes) \in Nat /\ Len(probes) + 1 \in Nat
            BY DEF Attempts
        <3>2. QED  BY <1>4, <3>1 DEF Secret!Lookup
    <2> DEFINE t == [caller[c] EXCEPT !.pc = "probe", !.probe = n]
    <2>2. caller' = [caller EXCEPT ![c] = t]
        BY <2>1 DEF LookupsInv, LookupTypes, Callings
    <2>3. t \in Callings
        BY DEF LookupsInv, LookupTypes, Callings, Finding
    <2>4. t.pc = "probe" /\ t.key = caller[c].key /\ t.entry = caller[c].entry
        BY DEF LookupsInv, LookupTypes, Callings
    <2> HIDE DEF t
    <2>5. Allowed(t) /\ FoundOf(t, seen[c]) /\ "probe" \in Finding
        BY <1>1, <1>4, <2>4 DEF Allowed, FoundOf, Finding, Secret!Key
    <2>6. QED  BY <1>1, <2>2, <2>3, <2>4, <2>5, GoesOn
<1>5. QED  BY <1>2, <1>3, <1>4

LEMMA checkContractHolds ==
    ASSUME LookupsInv, NEW c \in Callers, Secret!checkContract(c)
    PROVE  LookupsInv'
<1>1. /\ Chain /\ caller[c].pc \in Finding /\ UNCHANGED Quiet
    BY AtPrimary DEF Secret!checkContract, Secret!At, Secret!Shared, Secret!World, Secret!History,
       Quiet
<1>2. CASE Secret!FromPrimary(c, Secret!Err("canceled"))
    BY <1>1, <1>2, FromPrimaryHolds, ResultTypes
<1>3. CASE Secret!FromPrimary(c, Secret!Failed)
    BY <1>1, <1>3, FromPrimaryHolds, ResultTypes
<1>4. CASE Secret!Go(c, "read")
    <2>1. "read" \in Places /\ "read" \in Finding
        BY DEF Places, Finding
    <2>2. PICK t \in Callings :
             /\ caller' = [caller EXCEPT ![c] = t]
             /\ t.pc = "read" /\ t.key = caller[c].key /\ t.entry = caller[c].entry
        BY <1>4, <2>1, GoIs DEF LookupsInv
    <2>3. caller[c].key \in Mapped
        BY DEF LookupsInv, FoundSo, FoundOf, Secret!checkContract, Secret!At
    <2>4. Allowed(t) /\ FoundOf(t, seen[c])
        BY <1>1, <2>2, <2>3 DEF Allowed, FoundOf
    <2>5. QED  BY <1>1, <2>1, <2>2, <2>4, GoesOn
<1>5. QED  BY <1>2, <1>3, <1>4 DEF Secret!checkContract

LEMMA ReadHolds ==
    ASSUME LookupsInv, NEW c \in Callers, Secret!Read(c)
    PROVE  LookupsInv'
<1>1. /\ Chain /\ caller[c].pc \in Finding /\ Secret!Now(world, Secret!Key(c)) \subseteq seen[c]
      /\ UNCHANGED Quiet
    BY AtPrimary DEF Secret!Read, Secret!At, Secret!Shared, Secret!World, Secret!History, Quiet
<1>2. Secret!Key(c) \in Mapped
    BY DEF LookupsInv, FoundSo, FoundOf, Secret!Read, Secret!At, Secret!Key
<1>3. PICK r \in Secret!Outcomes(Secret!Key(c)) : Secret!FromPrimary(c, r)
    BY DEF Secret!Read
<1>4. CASE r = Secret!Failed
    BY <1>1, <1>3, <1>4, FromPrimaryHolds, ResultTypes
<1>5. CASE r # Secret!Failed
    <2>1. world.status = "ok" /\ <<"item", world.items[Secret!Key(c)]>> \in seen[c]
        BY <1>1, <1>2, <1>3, <1>5 DEF Secret!Outcomes, Secret!Now, Secret!ItemNow
    <2>2. CASE world.items[Secret!Key(c)] = Secret!Absent /\ r = Secret!NotFound
        BY <1>1, <1>3, <2>1, <2>2, FromPrimaryHolds, ResultTypes
    <2>3. CASE world.items[Secret!Key(c)] # Secret!Absent /\
                  r = Secret!Ok(world.items[Secret!Key(c)])
        <3>1. world.items[Secret!Key(c)] \in Secret!Contents
            BY <1>2 DEF LookupsInv, LookupTypes, Secret!Worlds
        <3>2. r \in Results /\ r # Secret!NotFound /\ Secret!WasSo(r, seen[c], TRUE)
            BY <2>1, <2>3, <3>1, ResultTypes DEF Secret!WasSo
        <3>3. QED  BY <1>1, <1>3, <3>2, FromPrimaryHolds
    <2>4. QED  BY <1>3, <1>5, <2>1, <2>2, <2>3 DEF Secret!Outcomes
<1>6. QED  BY <1>4, <1>5

LEMMA OpenRootHolds ==
    ASSUME LookupsInv, NEW c \in Callers, Secret!OpenRoot(c)
    PROVE  LookupsInv'
<1>1. caller[c].pc \in Finding /\ UNCHANGED Quiet
    BY DEF Secret!OpenRoot, Secret!At, Finding, Secret!Shared, Secret!World, Secret!History, Quiet
<1>2. CASE caller[c].canceled \/ world.dir = 0
    <2>1. Secret!Provided(c, Secret!Failed)
        BY <1>2 DEF Secret!OpenRoot
    <2>2. QED  BY <1>1, <2>1, ProvidedHolds, ResultTypes DEF Told
<1>3. CASE ~(caller[c].canceled \/ world.dir = 0)
    <2> DEFINE t == [caller[c] EXCEPT !.pc = "walk", !.fd = world.dir]
    <2>1. caller' = [caller EXCEPT ![c] = t]
        BY <1>3 DEF LookupsInv, LookupTypes, Callings, Secret!OpenRoot
    <2>2. t \in Callings
        BY ZenonT(60) DEF LookupsInv, LookupTypes, Secret!Worlds, Callings, Finding
    <2>3. t.pc = "walk" /\ t.key = caller[c].key /\ t.entry = caller[c].entry /\ t.fd = world.dir
        BY DEF LookupsInv, LookupTypes, Callings
    <2> HIDE DEF t
    <2>4. Secret!Key(c) \in Secret!Keys /\ Secret!Key(c) # NoKey /\
             Secret!Now(world, Secret!Key(c)) \subseteq seen[c]
        BY <1>1 DEF LookupsInv, LookupTypes, Keyed, Secret!Key, Secret!Keys, Watched, Secret!At,
           Finding
    <2>5. <<"file", world.files[world.dir][caller[c].key]>> \in seen[c]
        BY <1>3, <2>4 DEF Secret!Now, Secret!FileNow, Secret!Key
    <2>6. world.dir \in 1..Len(world.files)
        BY <1>3 DEF LookupsInv, LookupTypes, Secret!Worlds
    <2>7. Chain => <<"item", Secret!Absent>> \in seen[c]
        BY DEF LookupsInv, FoundSo, FoundOf, Secret!OpenRoot, Secret!At
    <2>8. Allowed(t) /\ FoundOf(t, seen[c]) /\ "walk" \in Finding
        BY <2>3, <2>5, <2>6, <2>7 DEF Allowed, FoundOf, Finding
    <2>9. QED  BY <1>1, <2>1, <2>2, <2>3, <2>8, GoesOn
<1>4. QED  BY <1>2, <1>3

LEMMA OpenWalkHolds ==
    ASSUME LookupsInv, NEW c \in Callers, Secret!OpenWalk(c)
    PROVE  LookupsInv'
<1> DEFINE v == world.files[caller[c].fd][Secret!Key(c)]
<1>1. caller[c].pc = "walk" /\ caller[c].pc \in Finding /\ UNCHANGED Quiet
    BY DEF Secret!OpenWalk, Secret!At, Finding, Secret!Shared, Secret!World, Secret!History, Quiet
<1>2. /\ Chain => <<"item", Secret!Absent>> \in seen[c]
      /\ caller[c].fd \in 1..Len(world.files)
      /\ v = Secret!Absent \/ <<"file", v>> \in seen[c]
    BY <1>1 DEF LookupsInv, FoundSo, FoundOf, Secret!Key
<1>3. Secret!Key(c) \in Secret!Keys /\ Secret!Key(c) # NoKey /\
         Secret!Now(world, Secret!Key(c)) \subseteq seen[c]
    BY <1>1 DEF LookupsInv, LookupTypes, Keyed, Secret!Key, Secret!Keys, Watched, Secret!At,
       Finding
<1>4. v \in Secret!Contents
    BY <1>2, <1>3 DEF LookupsInv, LookupTypes, Secret!Worlds
<1>5. CASE v = Secret!Absent /\ Secret!Go(c, "missing")
    <2>1. "missing" \in Places /\ "missing" \in Finding
        BY DEF Places, Finding
    <2>2. PICK t \in Callings :
             /\ caller' = [caller EXCEPT ![c] = t]
             /\ t.pc = "missing" /\ t.key = caller[c].key /\ t.entry = caller[c].entry
             /\ t.fd = caller[c].fd
        BY <1>5, <2>1, GoIs DEF LookupsInv
    <2>3. world.dir = caller[c].fd => <<"file", Secret!Absent>> \in seen[c]
        BY <1>2, <1>3, <1>5 DEF Secret!Now, Secret!FileNow
    <2>4. Allowed(t) /\ FoundOf(t, seen[c])
        BY <1>2, <2>2, <2>3 DEF Allowed, FoundOf
    <2>5. QED  BY <1>1, <2>1, <2>2, <2>4, GoesOn
<1>6. CASE Secret!Provided(c, Secret!Failed)
    BY <1>1, <1>6, ProvidedHolds, ResultTypes DEF Told
<1>7. CASE v # Secret!Absent /\ Secret!Provided(c, Secret!Ok(v))
    <2>1. Told(c, Secret!Ok(v)) /\ Secret!Ok(v) \in Results
        BY <1>2, <1>4, <1>7, ResultTypes DEF Told, Secret!WasSo
    <2>2. QED  BY <1>1, <1>7, <2>1, ProvidedHolds
<1>8. QED  BY <1>5, <1>6, <1>7 DEF Secret!OpenWalk

LEMMA MissingHolds ==
    ASSUME LookupsInv, NEW c \in Callers, Secret!Missing(c)
    PROVE  LookupsInv'
<1>1. caller[c].pc = "missing" /\ caller[c].pc \in Finding /\ UNCHANGED Quiet
    BY DEF Secret!Missing, Secret!At, Finding, Secret!Shared, Secret!World, Secret!History, Quiet
<1>2. /\ Chain => <<"item", Secret!Absent>> \in seen[c]
      /\ world.dir = caller[c].fd => <<"file", Secret!Absent>> \in seen[c]
    BY <1>1 DEF LookupsInv, FoundSo, FoundOf
<1>3. CASE Secret!rootVanished(c)
    <2>1. Secret!Provided(c, Secret!Failed)
        BY <1>3 DEF Secret!Missing
    <2>2. QED  BY <1>1, <2>1, ProvidedHolds, ResultTypes DEF Told
<1>4. CASE ~Secret!rootVanished(c)
    <2>1. Secret!Provided(c, Secret!NotFound) /\ world.dir = caller[c].fd
        BY <1>4 DEF Secret!Missing, Secret!rootVanished
    <2>2. Told(c, Secret!NotFound)
        BY <1>2, <2>1, ResultTypes DEF Told, Secret!WasSo
    <2>3. QED  BY <1>1, <2>1, <2>2, ProvidedHolds, ResultTypes
<1>5. QED  BY <1>3, <1>4

LEMMA WaitHolds ==
    ASSUME LookupsInv, NEW c \in Callers, Secret!Wait(c)
    PROVE  LookupsInv'
<1> DEFINE e == heap[caller[c].entry]
<1>1. /\ caller[c].pc = "wait" /\ Chain /\ Secret!Key(c) \in Secret!Keys /\
            ~Secret!At(c, "idle") /\ UNCHANGED Quiet
    BY DEF LookupsInv, LookupTypes, ChosenFirst, Allowed, Keyed, Secret!Key, Secret!Wait,
       Secret!At, Secret!Shared, Secret!World,
           Secret!History, Quiet
<1>2. /\ caller[c].entry \in 1..Len(heap)
      /\ entries[Secret!Key(c)] = caller[c].entry \/ (e.done /\ ~e.kept)
    BY <1>1 DEF LookupsInv, Snapshots, Placed, Secret!Key
<1>3. "return" \in Places /\ "entry" \in Places
    BY DEF Places
<1>4. ASSUME NEW r \in Results, Secret!Leave(c, "return", r), Secret!Fact(r) =>
             Kept(Secret!Key(c), r)
      PROVE  LookupsInv'
    <2>1. PICK t \in Callings :
             /\ caller' = [caller EXCEPT ![c] = t]
             /\ t.pc = "return" /\ t.key = caller[c].key /\ t.res = r
        BY <1>3, <1>4, LeaveIs DEF LookupsInv
    <2>2. Keyed(t) /\ Allowed(t) /\ t.pc # "idle" /\ t.key = Secret!Key(c) /\ t.pc \notin Finding
        BY <2>1 DEF Keyed, Allowed, Secret!Key, Finding
    <2>3. FoundOf(t, seen[c]) /\ Placed(t)
        BY <1>1, <1>4, <2>1, <2>2 DEF FoundOf, Placed
    <2>4. QED  BY <1>1, <2>1, <2>2, <2>3, CallerMoves
<1>5. CASE Secret!Leave(c, "return", Secret!Err("canceled"))
    BY <1>4, <1>5, ResultTypes
<1>6. CASE e.done /\ e.kept /\ Secret!Leave(c, "return", e.res)
    <2>1. e.res \in Results
        <3>1. e \in Snaps
            BY <1>2 DEF LookupsInv, LookupTypes
        <3>2. QED  BY <3>1 DEF Snaps
    <2>2. Kept(Secret!Key(c), e.res)
        BY <1>2, <1>6 DEF Kept
    <2>3. QED  BY <1>4, <1>6, <2>1, <2>2
<1>7. CASE Secret!Go(c, "entry")
    <2>1. PICK t \in Callings :
             caller' = [caller EXCEPT ![c] = t] /\ t.pc = "entry" /\ t.key = caller[c].key
        BY <1>3, <1>7, GoIs DEF LookupsInv
    <2>2. Keyed(t) /\ Allowed(t) /\ t.pc # "idle" /\ t.key = Secret!Key(c) /\ t.pc \notin Finding
        BY <1>1, <2>1 DEF Keyed, Allowed, Secret!Key, Finding
    <2>3. FoundOf(t, seen[c]) /\ Placed(t)
        BY <2>1, <2>2 DEF FoundOf, Placed
    <2>4. QED  BY <1>1, <2>1, <2>2, <2>3, CallerMoves
<1>8. QED  BY <1>5, <1>6, <1>7 DEF Secret!Wait

\* More seen leaves what was so, so.
LEMMA SeenGrows ==
    ASSUME NEW r, NEW f, NEW g, f \subseteq g, NEW ch \in BOOLEAN, Secret!WasSo(r, f, ch)
    PROVE  Secret!WasSo(r, g, ch)
BY DEF Secret!WasSo

LEMMA NowTypes ==
    ASSUME NEW w \in Secret!Worlds, w.dir <= Len(w.files), NEW k \in Secret!Keys
    PROVE  Secret!Now(w, k) \subseteq {"item", "file"} \X Secret!Contents
<1>1. Secret!ItemNow(w, k) \subseteq {"item", "file"} \X Secret!Contents
    <2>1. Secret!Absent \in Secret!Contents /\ (k \in Mapped => w.items[k] \in Secret!Contents)
        BY DEF Secret!Worlds, Secret!Contents
    <2>2. QED  BY <2>1 DEF Secret!ItemNow
<1>2. Secret!FileNow(w, k) \subseteq {"item", "file"} \X Secret!Contents
    <2>1. CASE w.dir = 0
        BY <2>1 DEF Secret!FileNow
    <2>2. CASE w.dir # 0
        <3>1. w.dir \in 1..Len(w.files)
            BY <2>2 DEF Secret!Worlds
        <3>2. w.files[w.dir][k] \in Secret!Contents
            BY <3>1 DEF Secret!Worlds
        <3>3. QED  BY <2>2, <3>2 DEF Secret!FileNow
    <2>3. QED  BY <2>1, <2>2
<1>3. QED  BY <1>1, <1>2 DEF Secret!Now

\* The stores change: a directory that is not the current one is emptied at
\* most, and never becomes the current one again.
LEMMA ChangedHolds ==
    ASSUME LookupsInv, NEW w \in Secret!Worlds, w.dir <= Len(w.files),
           \A d \in 1..Len(world.files) :
              /\ d \in 1..Len(w.files)
              /\ w.dir = d => world.dir = d
              /\ \A k \in Secret!Keys : w.files[d][k] \in {world.files[d][k], Secret!Absent} \/
                    w.dir = d,
           Secret!Changed(w)
    PROVE  LookupsInv'
<1>1. /\ world' = w /\ caller' = caller /\ provider' = provider /\ used' = used
      /\ entries' = entries /\ heap' = heap /\ answers' = answers /\ lies' = lies
    BY DEF Secret!Changed, Secret!Shared
<1>2. \A c \in Callers : seen'[c] = IF Secret!At(c, "idle") \/ Secret!Key(c) = NoKey THEN seen[c]
                                    ELSE seen[c] \cup Secret!Now(w, Secret!Key(c))
    BY DEF Secret!Changed
<1>3. LookupTypes'
    <2>1. ASSUME NEW c \in Callers, Secret!Key(c) # NoKey PROVE Secret!Key(c) \in Secret!Keys
        BY <2>1 DEF LookupsInv, LookupTypes, Callings, Secret!Key
    <2>2. seen' \in [Callers -> SUBSET ({"item", "file"} \X Secret!Contents)]
        <3>1. \A c \in Callers : seen'[c] \subseteq {"item", "file"} \X Secret!Contents
            BY <1>2, <2>1, NowTypes DEF LookupsInv, LookupTypes
        <3>2. QED  BY <3>1 DEF Secret!Changed
    <2>3. QED  BY <1>1, <2>2 DEF LookupsInv, LookupTypes, Keyed
<1>4. ChosenFirst'
    BY <1>1 DEF LookupsInv, ChosenFirst, Secret!At, Allowed, Chain
<1>5. Watched'
    BY ZenonT(60), <1>1, <1>2 DEF LookupsInv, Watched, Secret!At, Secret!Key
<1>6. FoundSo'
    <2> SUFFICES ASSUME NEW c \in Callers PROVE FoundOf(caller[c], seen[c])'
        BY DEF FoundSo
    <2>1. FoundOf(caller[c], seen[c]) /\ seen[c] \subseteq seen'[c]
        BY <1>2 DEF LookupsInv, FoundSo
    <2>2. CASE caller[c].pc \in {"walk", "missing"}
        <3>1. Secret!Key(c) \in Secret!Keys /\ Secret!Key(c) # NoKey /\ ~Secret!At(c, "idle")
            BY <2>2 DEF LookupsInv, LookupTypes, Keyed, Secret!Key, Secret!Keys, Secret!At, Finding
        <3>2. Secret!Now(w, Secret!Key(c)) \subseteq seen'[c]
            BY <1>2, <3>1
        <3>3. caller[c].fd \in 1..Len(world.files)
            BY <2>1, <2>2 DEF FoundOf
        <3>4. CASE w.dir = caller[c].fd
            <4>1. <<"file", w.files[caller[c].fd][Secret!Key(c)]>> \in seen'[c]
                BY <3>2, <3>3, <3>4 DEF Secret!Now, Secret!FileNow
            <4>2. QED  BY <1>1, <2>1, <2>2, <3>3, <3>4, <4>1 DEF FoundOf, Chain, Secret!Key
        <3>5. CASE w.dir # caller[c].fd
            BY <1>1, <2>1, <2>2, <3>1, <3>3, <3>5 DEF FoundOf, Chain, Secret!Key
        <3>6. QED  BY <3>4, <3>5
    <2>3. CASE caller[c].pc \notin {"walk", "missing"}
        <3>1. caller'[c] = caller[c] /\ (Chain' <=> Chain)
            BY <1>1 DEF Chain
        <3>2. /\ Secret!WasSo(caller[c].res, seen[c], TRUE) =>
                    Secret!WasSo(caller[c].res, seen'[c], TRUE)
              /\ Secret!WasSo(caller[c].res, seen[c], FALSE) =>
                    Secret!WasSo(caller[c].res, seen'[c], FALSE)
            BY <2>1, SeenGrows
        <3>3. QED  BY <2>1, <2>3, <3>1, <3>2 DEF FoundOf
    <2>4. QED  BY <2>2, <2>3
<1>7. Snapshots'
    BY <1>1 DEF LookupsInv, Snapshots, EntriesApart, Placed, OneLeader, AnswersKept, Leads, Kept,
                Chain, Secret!Key
<1>8. QED  BY <1>1, <1>3, <1>4, <1>5, <1>6, <1>7 DEF LookupsInv

LEMMA WorldIs ==
    ASSUME LookupsInv
    PROVE  /\ world \in Secret!Worlds /\ world.dir \in Nat /\ world.dir <= Len(world.files)
           /\ world.files \in Seq([Secret!Keys -> Secret!Contents]) /\
                 Secret!Absent \in Secret!Contents
           /\ world.dir # 0 => world.dir \in 1..Len(world.files)
           /\ Secret!Empty \in [Secret!Keys -> Secret!Contents]
           /\ world.items \in [Mapped -> Secret!Contents] /\ world.status \in {"ok", "locked"}
           /\ Len(world.files) \in Nat
<1>1. world \in Secret!Worlds /\ world.dir <= Len(world.files)
    BY DEF LookupsInv, LookupTypes
<1>2. /\ world.dir \in Nat /\ world.files \in Seq([Secret!Keys -> Secret!Contents])
      /\ world.items \in [Mapped -> Secret!Contents] /\ world.status \in {"ok", "locked"}
    BY <1>1 DEF Secret!Worlds
<1>3. Secret!Absent \in Secret!Contents /\ Secret!Empty \in [Secret!Keys -> Secret!Contents]
    BY DEF Secret!Contents, Secret!Empty
<1>4. Len(world.files) \in Nat
    BY <1>2
<1>5. world.dir # 0 => world.dir \in 1..Len(world.files)
    BY <1>1, <1>2, <1>4
<1>6. QED  BY <1>1, <1>2, <1>3, <1>4, <1>5

LEMMA RotateItems ==
    ASSUME LookupsInv, NEW k \in Mapped, NEW v \in Values \cup {Secret!Absent},
           Secret!Changed([world EXCEPT !.items[k] = v])
    PROVE  LookupsInv'
<1> DEFINE w == [world EXCEPT !.items[k] = v]
<1>1. w \in Secret!Worlds
    BY WorldIs DEF Secret!Worlds, Secret!Contents
<1>2. w.dir = world.dir /\ w.files = world.files
    BY WorldIs DEF Secret!Worlds
<1> HIDE DEF w
<1>3. QED
    BY <1>1, <1>2, WorldIs, ChangedHolds DEF w

LEMMA RotateFiles ==
    ASSUME LookupsInv, NEW k \in Secret!Keys, NEW v \in Values \cup {Secret!Absent, "symlink"},
           world.dir # 0,
           Secret!Changed([world EXCEPT !.files[world.dir][k] = v])
    PROVE  LookupsInv'
<1> DEFINE w == [world EXCEPT !.files[world.dir][k] = v]
           g == [world.files[world.dir] EXCEPT ![k] = v]
           f == [world.files EXCEPT ![world.dir] = g]
<1>0. world.dir \in 1..Len(world.files) /\
         world.files[world.dir] \in [Secret!Keys -> Secret!Contents]
    BY WorldIs
<1>g. g \in [Secret!Keys -> Secret!Contents]
    BY <1>0 DEF Secret!Contents
<1>1. f \in Seq([Secret!Keys -> Secret!Contents]) /\ Len(f) = Len(world.files)
    <2> HIDE DEF g
    <2>1. QED  BY <1>0, <1>g, WorldIs
<1>2. \A d \in 1..Len(world.files) : d # world.dir => f[d] = world.files[d]
    BY WorldIs
<1>3. w = [world EXCEPT !.files = f]
    BY WorldIs DEF Secret!Worlds
<1> HIDE DEF f, w
<1>4. w \in Secret!Worlds /\ w.dir = world.dir /\ w.files = f
    BY <1>1, <1>3, WorldIs DEF Secret!Worlds
<1>5. /\ w.dir <= Len(w.files)
      /\ \A d \in 1..Len(world.files) :
            /\ d \in 1..Len(w.files)
            /\ w.dir = d => world.dir = d
            /\ \A l \in Secret!Keys : w.files[d][l] \in {world.files[d][l], Secret!Absent} \/
                  w.dir = d
    BY <1>1, <1>2, <1>4, WorldIs
<1>6. Secret!Changed(w)
    BY DEF w
<1>7. QED  BY <1>4, <1>5, <1>6, ChangedHolds

LEMMA LockHolds ==
    ASSUME LookupsInv, NEW s \in {"ok", "locked"}, Secret!Changed([world EXCEPT !.status = s])
    PROVE  LookupsInv'
<1> DEFINE w == [world EXCEPT !.status = s]
<1>1. w \in Secret!Worlds /\ w.dir = world.dir /\ w.files = world.files
    BY WorldIs DEF Secret!Worlds
<1> HIDE DEF w
<1>2. QED
    BY <1>1, WorldIs, ChangedHolds DEF w

LEMMA RemoveDirHolds ==
    ASSUME LookupsInv, Secret!RemoveDir
    PROVE  LookupsInv'
<1> DEFINE w == [world EXCEPT !.dir = 0, !.files[world.dir] = Secret!Empty]
           f == [world.files EXCEPT ![world.dir] = Secret!Empty]
<1>1. f \in Seq([Secret!Keys -> Secret!Contents]) /\ Len(f) = Len(world.files)
    BY WorldIs DEF Secret!RemoveDir
<1>2. \A d \in 1..Len(world.files),
         k \in Secret!Keys : f[d][k] \in {world.files[d][k], Secret!Absent}
    BY WorldIs DEF Secret!Empty
<1>3. w \in Secret!Worlds /\ w.dir = 0 /\ w.files = f
    BY <1>1, WorldIs DEF Secret!Worlds
<1>4. Secret!Changed(w)
    BY DEF Secret!RemoveDir
<1> HIDE DEF f, w
<1>5. QED  BY <1>1, <1>2, <1>3, <1>4, WorldIs, ChangedHolds

LEMMA NewDirHolds ==
    ASSUME LookupsInv, Secret!NewDir
    PROVE  LookupsInv'
<1> DEFINE w == [world EXCEPT !.dir = Len(world.files) + 1, !.files = Append(@, Secret!Empty)]
           f == Append(world.files, Secret!Empty)
<1>1. f \in Seq([Secret!Keys -> Secret!Contents]) /\ Len(f) = Len(world.files) + 1
    BY WorldIs
<1>2. \A d \in 1..Len(world.files) : f[d] = world.files[d]
    BY WorldIs
<1>3. w = [world EXCEPT !.dir = Len(world.files) + 1, !.files = f]
    BY WorldIs DEF Secret!Worlds
<1>4. Secret!Changed(w)
    BY DEF Secret!NewDir
<1> HIDE DEF f, w
<1>6. w \in Secret!Worlds /\ w.dir = Len(world.files) + 1 /\ w.files = f
    <2>1. Len(world.files) + 1 \in Nat
        BY WorldIs
    <2>2. w.dir = Len(world.files) + 1 /\ w.files = f
        BY <1>3, WorldIs DEF Secret!Worlds
    <2>3. w \in Secret!Worlds
        BY <1>1, <1>3, <2>1, WorldIs DEF Secret!Worlds
    <2>4. QED  BY <2>2, <2>3
<1>5. QED  BY <1>1, <1>2, <1>4, <1>6, WorldIs, ChangedHolds

LEMMA StartHolds ==
    ASSUME LookupsInv, NEW c \in Callers, NEW s \in Spellings, Secret!Start(c, s)
    PROVE  LookupsInv'
<1> DEFINE key == Canon[s]
           t == [Secret!Idle EXCEPT !.key = key, !.res = IF key = NoKey THEN Secret!Failed ELSE @,
                    !.pc = IF key = NoKey THEN "return"
                           ELSE IF provider = "file" THEN "root" ELSE "entry"]
           f == IF key = NoKey THEN {} ELSE Secret!Now(world, key)
<1>1. /\ Secret!At(c, "idle") /\ used' = TRUE /\ caller' = [caller EXCEPT ![c] = t]
      /\ seen' = [seen EXCEPT ![c] = f]
      /\ provider' = provider /\ entries' = entries /\ heap' = heap /\ world' = world
      /\ answers' = answers /\ lies' = lies
    BY DEF Secret!Start, Secret!World
<1>2. /\ t.pc = IF key = NoKey THEN "return" ELSE IF provider = "file" THEN "root" ELSE "entry"
      /\ t.key = key /\ t.res = (IF key = NoKey THEN Secret!Failed ELSE Secret!Err("none"))
    BY DEF Secret!Idle
<1>3. key \in Secret!Keys \cup {NoKey} /\ (key # NoKey => key \in Secret!Keys)
    BY DEF Secret!Keys
<1>4. t \in Callings
    BY <1>3, ResultTypes DEF Secret!Idle, Callings, Finding, Results, Secret!Err, Secret!Contents
<1> HIDE DEF t, key
<1>5. /\ \A d \in Callers : caller'[d] = (IF d = c THEN t ELSE caller[d])
      /\ \A d \in Callers : seen'[d] = (IF d = c THEN f ELSE seen[d])
    BY <1>1 DEF LookupsInv, LookupTypes
<1>6. LookupTypes'
    <2>1. f \subseteq {"item", "file"} \X Secret!Contents
        BY <1>3, NowTypes DEF LookupsInv, LookupTypes
    <2>2. seen' \in [Callers -> SUBSET ({"item", "file"} \X Secret!Contents)]
        <3> HIDE DEF f
        <3>1. QED  BY <1>1, <2>1 DEF LookupsInv, LookupTypes
    <2>3. Keyed(t)
        BY <1>2, <1>3 DEF Keyed, Finding
    <2>4. QED  BY <1>1, <1>4, <1>5, <2>2, <2>3 DEF LookupsInv, LookupTypes, Keyed
<1>7. ChosenFirst'
    BY <1>1, <1>2, <1>5 DEF LookupsInv, LookupTypes, ChosenFirst, Allowed, Chain
<1>8. Watched'
    BY <1>1, <1>2, <1>5 DEF LookupsInv, Watched, Secret!At, Secret!Key
<1>9. FoundSo'
    <2> SUFFICES ASSUME NEW d \in Callers PROVE FoundOf(caller[d], seen[d])'
        BY DEF FoundSo
    <2>1. CASE d = c
        <3>1. t.pc \in {"return", "root", "entry"} /\ (t.pc = "root" => ~Chain)
            BY <1>2 DEF Chain
        <3>2. t.pc = "return" => ~Secret!Fact(t.res)
            BY <1>2, ResultTypes
        <3>3. caller'[d] = t /\ world' = world /\ Chain' = Chain
            BY <1>1, <1>5, <2>1 DEF Chain
        <3>4. QED  BY <3>1, <3>2, <3>3 DEF FoundOf
    <2>2. CASE d # c
        BY <1>1, <1>5, <2>2 DEF LookupsInv, FoundSo, FoundOf, Chain
    <2>3. QED  BY <2>1, <2>2
<1>10. Snapshots'
    <2>1. EntriesApart' /\ AnswersKept'
        BY <1>1 DEF LookupsInv, Snapshots, EntriesApart, AnswersKept, Kept, Chain
    <2>2. ~(Chain /\ t.pc \in Finding) /\ t.pc # "wait" /\ ~(t.pc = "return" /\ Secret!Fact(t.res))
        BY <1>2, ResultTypes DEF Chain, Finding
    <2>3. \A d \in Callers : Placed(caller[d])'
        BY <1>1, <1>5, <2>2 DEF LookupsInv, Snapshots, Placed, Kept, Chain
    <2>4. OneLeader'
        BY <1>1, <1>5, <2>2 DEF LookupsInv, Snapshots, OneLeader, Leads, Secret!Key, Chain
    <2>5. QED  BY <2>1, <2>3, <2>4 DEF Snapshots
<1>11. QED  BY <1>1, <1>6, <1>7, <1>8, <1>9, <1>10 DEF LookupsInv

\* Entry: nobody leads a key that has no entry.
LEMMA EnterHolds ==
    ASSUME LookupsInv, NEW c \in Callers, Secret!Enter(c)
    PROVE  LookupsInv'
<1> DEFINE n == Len(heap) + 1
           k == Secret!Key(c)
<1>1. /\ caller[c].pc = "entry" /\ Chain /\ k \in Secret!Keys /\ k # NoKey /\ ~Secret!At(c, "idle")
      /\ k = caller[c].key
    BY DEF LookupsInv, LookupTypes, ChosenFirst, Allowed, Keyed, Secret!Key, Secret!Keys,
       Secret!Enter, Secret!At
<1>2. CASE Secret!EntryOf(c) = 0
    <2> DEFINE t == [caller[c] EXCEPT !.pc = "lookup", !.entry = n]
               h == [done |-> FALSE, kept |-> FALSE, res |-> Secret!Err("none")]
    <2>1. /\ heap' = Append(heap, h) /\ entries' = [entries EXCEPT ![k] = n]
          /\ seen' = [seen EXCEPT ![c] = Secret!Now(world, k)]
          /\ provider' = provider /\ used' = used /\ world' = world
          /\ answers' = answers /\ lies' = lies
        BY <1>2 DEF Secret!Enter, Secret!World
    <2>2. caller' = [caller EXCEPT ![c] = t]
        BY <1>2 DEF LookupsInv, LookupTypes, Callings, Secret!Enter
    <2>3. t.pc = "lookup" /\ t.key = k /\ t.entry = n
        BY <1>1 DEF LookupsInv, LookupTypes, Callings
    <2>4. n \in Nat /\ heap \in Seq(Snaps) /\ Len(heap) \in Nat
        BY DEF LookupsInv, LookupTypes
    <2>5. t \in Callings
        BY <2>4 DEF LookupsInv, LookupTypes, Callings, Finding
    <2>6. h \in Snaps /\ ~h.done
        BY DEF Snaps, Results, Secret!Err, Secret!Contents
    <2> HIDE DEF t, h
    <2>7. /\ heap' \in Seq(Snaps) /\ Len(heap') = n /\ ~heap'[n].done
          /\ \A i \in 1..Len(heap) : heap'[i] = heap[i]
        BY <2>1, <2>4, <2>6
    <2>8. /\ \A d \in Callers : caller'[d] = (IF d = c THEN t ELSE caller[d])
          /\ \A d \in Callers : seen'[d] = (IF d = c THEN Secret!Now(world, k) ELSE seen[d])
          /\ \A l \in Secret!Keys : entries'[l] = (IF l = k THEN n ELSE entries[l])
        BY <2>1, <2>2 DEF LookupsInv, LookupTypes
    <2>9. LookupTypes'
        <3>1. Secret!Now(world, k) \subseteq {"item", "file"} \X Secret!Contents
            BY <1>1, NowTypes DEF LookupsInv, LookupTypes
        <3>2. seen' \in [Callers -> SUBSET ({"item", "file"} \X Secret!Contents)]
            BY <2>1, <3>1 DEF LookupsInv, LookupTypes
        <3>3. entries' \in [Secret!Keys -> Nat] /\ caller' \in [Callers -> Callings]
            BY <2>1, <2>2, <2>4, <2>5 DEF LookupsInv, LookupTypes
        <3>4. \A d \in Callers : Keyed(caller'[d])
            BY <1>1, <2>3, <2>8 DEF LookupsInv, LookupTypes, Keyed
        <3>5. QED  BY <2>1, <2>7, <3>2, <3>3, <3>4 DEF LookupsInv, LookupTypes, Keyed
    <2>10. ChosenFirst'
        BY <1>1, <2>1, <2>8 DEF LookupsInv, ChosenFirst, Secret!At, Allowed, Chain
    <2>11. Watched'
        BY <2>1, <2>3, <2>8 DEF LookupsInv, Watched, Secret!At, Secret!Key
    <2>12. FoundSo'
        <3> SUFFICES ASSUME NEW d \in Callers PROVE FoundOf(caller[d], seen[d])'
            BY DEF FoundSo
        <3>1. CASE d = c
            BY <2>1, <2>3, <2>8, <3>1 DEF FoundOf
        <3>2. CASE d # c
            BY <2>1, <2>8, <3>2 DEF LookupsInv, FoundSo, FoundOf, Chain
        <3>3. QED  BY <3>1, <3>2
    <2>13. Snapshots'
        <3>1. \A l \in Secret!Keys : entries[l] \in Nat /\ entries[l] <= Len(heap)
            BY DEF LookupsInv, LookupTypes, Snapshots, EntriesApart
        <3>2. EntriesApart'
            BY <1>1, <2>4, <2>7, <2>8, <3>1 DEF LookupsInv, Snapshots, EntriesApart
        <3>3. \A l \in Secret!Keys : l # k /\ entries[l] # 0 =>
                 entries'[l] = entries[l] /\ heap'[entries[l]] = heap[entries[l]]
            BY <2>7, <2>8, <3>1
        <3>4. \A l \in Secret!Keys : \A r : Kept(l, r) => Kept(l, r)'
            BY <1>2, <3>3 DEF Kept, Secret!EntryOf
        <3>5. AnswersKept'
            BY <2>1, <3>4 DEF LookupsInv, Snapshots, AnswersKept, Chain
        <3>6. ASSUME NEW d \in Callers, Leads(d)
              PROVE  Secret!Key(d) \in Secret!Keys /\ Secret!Key(d) # k /\ d # c
            BY <1>1, <1>2, <3>6 DEF LookupsInv, LookupTypes, Snapshots, Placed, Leads, Keyed,
                                    Secret!EntryOf, Secret!Key, Finding
        <3>7. ASSUME NEW d \in Callers PROVE Placed(caller[d])'
            <4>1. CASE d = c
                BY <1>1, <2>1, <2>3, <2>4, <2>7, <2>8, <4>1 DEF Placed, Finding
            <4>2. CASE d # c
                <5>1. Placed(caller[d]) /\ caller'[d] = caller[d] /\ (Chain' <=> Chain)
                    BY <2>1, <2>8, <4>2 DEF LookupsInv, Snapshots, Chain
                <5>2. CASE Leads(d)
                    BY <3>3, <3>6, <5>1, <5>2 DEF Placed, Leads, Secret!Key, Finding
                <5>3. CASE Secret!At(d, "wait")
                    <6>1. Secret!Key(d) \in Secret!Keys /\ caller[d].entry \in 1..Len(heap)
                        BY <5>1, <5>3 DEF LookupsInv, LookupTypes, Keyed, Secret!At, Secret!Key,
                           Placed
                    <6>2. CASE Secret!Key(d) = k
                        BY <1>2, <2>7, <2>4, <5>1, <5>3, <6>1, <6>2 DEF Placed, Secret!At,
                           Secret!Key, Secret!EntryOf, Finding
                    <6>3. CASE Secret!Key(d) # k
                        BY <2>4, <2>7, <2>8, <5>1, <5>3, <6>1, <6>3 DEF Placed, Secret!At,
                           Secret!Key, Finding
                    <6>4. QED  BY <6>2, <6>3
                <5>4. CASE Secret!At(d, "return")
                    BY <3>4, <5>1, <5>4 DEF Placed, Secret!At, Finding
                <5>5. QED  BY <5>1, <5>2, <5>3, <5>4 DEF Placed, Leads, Secret!At
            <4>3. QED  BY <4>1, <4>2
        <3>8. OneLeader'
            BY <2>1, <2>3, <2>8, <3>6 DEF LookupsInv, Snapshots, OneLeader, Leads, Secret!Key,
               Chain
        <3>9. QED  BY <3>2, <3>5, <3>7, <3>8 DEF Snapshots
    <2>14. QED  BY <2>1, <2>9, <2>10, <2>11, <2>12, <2>13 DEF LookupsInv
<1>3. CASE Secret!EntryOf(c) # 0
    <2> DEFINE t == [caller[c] EXCEPT !.pc = "wait", !.entry = Secret!EntryOf(c)]
    <2>1. UNCHANGED Quiet
        BY <1>3 DEF Secret!Enter, Secret!World, Quiet
    <2>2. caller' = [caller EXCEPT ![c] = t]
        BY <1>3 DEF LookupsInv, LookupTypes, Callings, Secret!Enter
    <2>3. t.pc = "wait" /\ t.key = k /\ t.entry = entries[k]
        BY <1>1 DEF LookupsInv, LookupTypes, Callings, Secret!EntryOf
    <2>4. entries[k] \in Nat /\ entries[k] # 0 /\ entries[k] <= Len(heap) /\ Len(heap) \in Nat
        BY <1>1, <1>3 DEF LookupsInv, LookupTypes, Snapshots, EntriesApart, Secret!EntryOf
    <2>5. t \in Callings
        BY <2>4 DEF LookupsInv, LookupTypes, Callings, Secret!EntryOf
    <2> HIDE DEF t
    <2>6. Keyed(t) /\ Allowed(t) /\ t.pc # "idle" /\ t.pc \notin Finding
        BY <1>1, <2>3 DEF Keyed, Allowed, Finding
    <2>7. FoundOf(t, seen[c]) /\ Placed(t)
        BY <2>3, <2>4, <2>6 DEF FoundOf, Placed
    <2>8. QED  BY <1>1, <2>1, <2>2, <2>3, <2>5, <2>6, <2>7, CallerMoves
<1>4. QED  BY <1>2, <1>3

\* The leader is done: its fact stays, and anything else takes the entry back.
LEMMA LeadHolds ==
    ASSUME LookupsInv, NEW c \in Callers, Secret!Lead(c)
    PROVE  LookupsInv'
<1> DEFINE k == Secret!Key(c)
           r == caller[c].res
           e == caller[c].entry
           h == [done |-> TRUE, kept |-> Secret!Fact(r), res |-> r]
<1>1. /\ caller[c].pc = "found" /\ Chain /\ Leads(c) /\ k \in Secret!Keys /\ k # NoKey
      /\ k = caller[c].key /\ ~Secret!At(c, "idle")
    BY DEF LookupsInv, LookupTypes, ChosenFirst, Allowed, Keyed, Secret!Key, Secret!Keys,
       Secret!Lead, Secret!At, Leads, Finding
<1>2. entries[k] = e /\ e # 0 /\ ~heap[e].done /\ e \in 1..Len(heap)
    BY <1>1 DEF LookupsInv, LookupTypes, Snapshots, EntriesApart, Placed, Finding
<1>3. /\ Secret!Go(c, "return") /\ heap' = [heap EXCEPT ![e] = h]
      /\ entries' = IF Secret!Fact(r) THEN entries ELSE [entries EXCEPT ![k] = 0]
      /\ provider' = provider /\ used' = used /\ world' = world /\ seen' = seen
      /\ answers' = answers
    BY DEF Secret!Lead, Secret!World
<1>4. r \in Results
    BY DEF LookupsInv, LookupTypes, Callings
<1>5. Secret!Fact(r) \in BOOLEAN
    BY DEF Secret!Fact
<1>6. h \in Snaps /\ h.done /\ (h.kept <=> Secret!Fact(r)) /\ h.res = r
    BY <1>4, <1>5 DEF Snaps
<1>7. PICK t \in Callings :
         /\ caller' = [caller EXCEPT ![c] = t]
         /\ t.pc = "return" /\ t.key = caller[c].key /\ t.res = r
    BY <1>3, GoIs DEF LookupsInv, Places
<1> HIDE DEF h
<1>8. /\ heap' \in Seq(Snaps) /\ Len(heap') = Len(heap) /\ heap'[e] = h
      /\ \A i \in 1..Len(heap) : i # e => heap'[i] = heap[i]
    BY <1>2, <1>3, <1>6 DEF LookupsInv, LookupTypes
<1>9. /\ \A d \in Callers : caller'[d] = (IF d = c THEN t ELSE caller[d])
      /\ \A l \in Secret!Keys : entries'[l] = (IF l = k /\ ~Secret!Fact(r) THEN 0 ELSE entries[l])
    BY <1>1, <1>3, <1>7 DEF LookupsInv, LookupTypes
<1>a. caller'[c].res = r /\ Secret!Key(c)' = k
    BY <1>7, <1>9 DEF Secret!Key
<1>10. lies' = lies
    <2>1. Secret!Fact(r) => Secret!WasSo(r, seen[c], TRUE)
        BY <1>1 DEF LookupsInv, FoundSo, FoundOf
    <2>2. QED  BY <2>1 DEF Secret!Lead
<1>11. LookupTypes'
    <2>1. entries' \in [Secret!Keys -> Nat] /\ caller' \in [Callers -> Callings]
        BY <1>3, <1>7 DEF LookupsInv, LookupTypes
    <2>2. \A d \in Callers : Keyed(caller'[d])
        BY <1>7, <1>9 DEF LookupsInv, LookupTypes, Keyed, Finding
    <2>3. QED  BY <1>3, <1>8, <2>1, <2>2 DEF LookupsInv, LookupTypes, Keyed
<1>12. ChosenFirst'
    BY <1>1, <1>3, <1>7, <1>9 DEF LookupsInv, ChosenFirst, Secret!At, Allowed, Chain
<1>13. Watched'
    BY <1>1, <1>3, <1>7, <1>9 DEF LookupsInv, Watched, Secret!At, Secret!Key
<1>14. FoundSo'
    <2> SUFFICES ASSUME NEW d \in Callers PROVE FoundOf(caller[d], seen[d])'
        BY DEF FoundSo
    <2>1. CASE d = c
        BY <1>1, <1>3, <1>7, <1>9, <2>1 DEF FoundOf, Chain
    <2>2. CASE d # c
        BY <1>3, <1>9, <2>2 DEF LookupsInv, FoundSo, FoundOf, Chain
    <2>3. QED  BY <2>1, <2>2
<1>15. Snapshots'
    <2>1. \A l \in Secret!Keys :
            /\ entries[l] \in Nat /\ entries[l] <= Len(heap)
            /\ l # k => entries'[l] = entries[l] /\ (entries[l] # 0 => entries[l] # e)
        BY <1>1, <1>2, <1>9 DEF LookupsInv, LookupTypes, Snapshots, EntriesApart
    <2>2. EntriesApart'
        BY <1>8, <1>9 DEF LookupsInv, Snapshots, EntriesApart
    <2>3. ASSUME NEW l \in Secret!Keys, l # k, entries[l] # 0
          PROVE  heap'[entries[l]] = heap[entries[l]]
        <3>1. entries[l] \in 1..Len(heap) /\ entries[l] # e
            BY <2>1, <2>3
        <3>2. QED  BY <1>8, <3>1
    <2>4. ASSUME NEW l \in Secret!Keys, NEW q, Kept(l, q) PROVE Kept(l, q)'
        <3>1. l # k
            BY <1>2, <2>4 DEF Kept
        <3>2. entries'[l] = entries[l] /\ heap'[entries[l]] = heap[entries[l]]
            BY <2>1, <2>3, <2>4, <3>1 DEF Kept
        <3>3. QED  BY <2>4, <3>2 DEF Kept
    <2>5. AnswersKept'
        BY <1>3, <2>4 DEF LookupsInv, Snapshots, AnswersKept, Chain
    <2>6. Secret!Fact(r) => Kept(k, r)'
        BY <1>a, <1>1, <1>2, <1>6, <1>8, <1>9 DEF Kept
    <2>7. ASSUME NEW d \in Callers, Leads(d), d # c
          PROVE  Secret!Key(d) \in Secret!Keys /\ Secret!Key(d) # k
        BY <1>1, <2>7 DEF LookupsInv, LookupTypes, Snapshots, OneLeader, Leads, Keyed, Secret!Key
    <2>8. ASSUME NEW d \in Callers PROVE Placed(caller[d])'
        <3>1. CASE d = c
            BY <1>a, <1>1, <1>7, <1>9, <2>6, <3>1 DEF Placed, Kept, Secret!Key, Finding
        <3>2. CASE d # c
            <4>1. Placed(caller[d]) /\ caller'[d] = caller[d] /\ (Chain' <=> Chain)
                BY <1>3, <1>9, <3>2 DEF LookupsInv, Snapshots, Chain
            <4>2. CASE Leads(d)
                BY <2>1, <2>3, <2>7, <3>2, <4>1, <4>2 DEF Placed, Leads, Secret!Key, Finding
            <4>3. CASE Secret!At(d, "wait")
                <5>1. Secret!Key(d) \in Secret!Keys /\ caller[d].entry \in 1..Len(heap)
                    BY <4>1, <4>3 DEF LookupsInv, LookupTypes, Keyed, Secret!At, Secret!Key, Placed
                <5>2. CASE caller[d].entry = e
                    <6>1. Secret!Fact(r) => entries'[Secret!Key(d)] = e
                        BY <1>2, <1>9, <4>1, <4>3, <5>1, <5>2 DEF Placed, Secret!At, Secret!Key
                    <6>2. QED
                        BY <1>6, <1>8, <4>1, <4>3, <5>1, <5>2, <6>1 DEF Placed, Secret!At,
                           Secret!Key, Finding
                <5>3. CASE caller[d].entry # e
                    <6>1. entries[Secret!Key(d)] = caller[d].entry =>
                             entries'[Secret!Key(d)] = caller[d].entry
                        BY <1>2, <2>1, <5>1, <5>3
                    <6>2. QED  BY <1>8, <4>1, <4>3, <5>1, <5>3, <6>1 DEF Placed, Secret!At,
                       Secret!Key, Finding
                <5>4. QED  BY <5>2, <5>3
            <4>4. CASE Secret!At(d, "return")
                BY <2>4, <4>1, <4>4 DEF Placed, Secret!At, Finding
            <4>5. QED  BY <4>1, <4>2, <4>3, <4>4 DEF Placed, Leads, Secret!At
        <3>3. QED  BY <3>1, <3>2
    <2>9. OneLeader'
        BY <1>3, <1>7, <1>9 DEF LookupsInv, Snapshots, OneLeader, Leads, Secret!Key, Chain, Finding
    <2>10. QED  BY <2>2, <2>5, <2>8, <2>9 DEF Snapshots
<1>16. QED  BY <1>10, <1>11, <1>12, <1>13, <1>14, <1>15 DEF LookupsInv

LEMMA ReturnHolds ==
    ASSUME LookupsInv, NEW c \in Callers, Secret!Return(c)
    PROVE  LookupsInv'
<1> DEFINE k == Secret!Key(c)
           r == caller[c].res
<1>1. /\ caller[c].pc = "return" /\ caller' = [caller EXCEPT ![c] = Secret!Idle]
      /\ seen' = [seen EXCEPT ![c] = {}]
      /\ provider' = provider /\ used' = used /\ entries' = entries /\ heap' = heap
      /\ world' = world
    BY DEF Secret!Return, Secret!At, Secret!Shared, Secret!World
<1>2. Secret!Idle \in Callings /\ Secret!Idle.pc = "idle"
    BY DEF Secret!Idle, Callings, Results, Secret!Err, Secret!Contents
<1>3. /\ \A d \in Callers : caller'[d] = (IF d = c THEN Secret!Idle ELSE caller[d])
      /\ \A d \in Callers : seen'[d] = (IF d = c THEN {} ELSE seen[d])
    BY <1>1 DEF LookupsInv, LookupTypes
<1>4. used
    BY <1>1 DEF LookupsInv, LookupTypes, ChosenFirst, Secret!At
<1>5. r \in Results
    BY DEF LookupsInv, LookupTypes, Callings
<1>6. lies' = lies
    <2>1. provider = "file" /\ Secret!Fact(r) => Secret!WasSo(r, seen[c], FALSE)
        BY <1>1 DEF LookupsInv, FoundSo, FoundOf, Chain
    <2>2. QED  BY <2>1 DEF Secret!Return
<1>7. /\ answers' \in [Secret!Keys -> SUBSET Results]
      /\ \A l \in Secret!Keys : \A q \in answers'[l] : q \in answers[l] \/
            (l = k /\ q = r /\ Secret!Fact(r))
    <2>1. answers \in [Secret!Keys -> SUBSET Results]
        BY DEF LookupsInv, LookupTypes
    <2>2. answers' = answers \/ (Secret!Fact(r) /\ answers' = [answers EXCEPT ![k] = @ \cup {r}])
        BY DEF Secret!Return
    <2> HIDE DEF r, k
    <2>3. QED  BY <1>5, <2>1, <2>2
<1> HIDE DEF r
<1>8. LookupTypes'
    <2>1. seen' \in [Callers -> SUBSET ({"item", "file"} \X Secret!Contents)]
        BY <1>1 DEF LookupsInv, LookupTypes
    <2>2. caller' \in [Callers -> Callings] /\ \A d \in Callers : Keyed(caller'[d])
        BY <1>1, <1>2, <1>3 DEF LookupsInv, LookupTypes, Keyed, Finding
    <2>3. QED  BY <1>1, <1>7, <2>1, <2>2 DEF LookupsInv, LookupTypes, Keyed
<1>9. ChosenFirst'
    BY <1>1, <1>2, <1>3, <1>4 DEF LookupsInv, ChosenFirst, Allowed, Chain
<1>10. Watched'
    BY <1>1, <1>2, <1>3 DEF LookupsInv, Watched, Secret!At, Secret!Key
<1>11. FoundSo'
    <2> SUFFICES ASSUME NEW d \in Callers PROVE FoundOf(caller[d], seen[d])'
        BY DEF FoundSo
    <2>1. CASE d = c
        BY <1>2, <1>3, <2>1 DEF FoundOf
    <2>2. CASE d # c
        BY <1>1, <1>3, <2>2 DEF LookupsInv, FoundSo, FoundOf, Chain
    <2>3. QED  BY <2>1, <2>2
<1>12. Snapshots'
    <2>1. EntriesApart'
        BY <1>1 DEF LookupsInv, Snapshots, EntriesApart
    <2>2. \A d \in Callers : Placed(caller[d])'
        BY <1>1, <1>2, <1>3 DEF LookupsInv, Snapshots, Placed, Kept, Chain, Finding
    <2>3. OneLeader'
        BY <1>1, <1>2, <1>3 DEF LookupsInv, Snapshots, OneLeader, Leads, Secret!Key, Chain, Finding
    <2>4. Chain /\ Secret!Fact(r) => Kept(k, r)
        BY <1>1 DEF LookupsInv, Snapshots, Placed, Secret!Key, r
    <2>5. AnswersKept'
        BY <1>1, <1>7, <2>4 DEF LookupsInv, Snapshots, AnswersKept, Kept, Chain
    <2>6. QED  BY <2>1, <2>2, <2>3, <2>5 DEF Snapshots
<1>13. QED  BY <1>6, <1>8, <1>9, <1>10, <1>11, <1>12 DEF LookupsInv

LEMMA SetSecretProviderHolds ==
    ASSUME LookupsInv, Secret!SetSecretProvider
    PROVE  LookupsInv'
<1>1. /\ provider' = "chain" /\ ~used /\ used' = used /\ entries' = entries /\ heap' = heap
      /\ world' = world /\ caller' = caller /\ seen' = seen /\ answers' = answers /\ lies' = lies
    BY DEF Secret!SetSecretProvider, Secret!World, Secret!History
<1>2. /\ \A c \in Callers : caller[c].pc = "idle"
      /\ \A k \in Secret!Keys : answers[k] = {}
    BY <1>1 DEF LookupsInv, ChosenFirst, Secret!At
<1>3. LookupTypes' /\ ChosenFirst' /\ Watched'
    BY <1>1, <1>2 DEF LookupsInv, LookupTypes, Keyed, ChosenFirst, Allowed, Secret!At, Watched,
       Secret!Key
<1>4. FoundSo'
    BY <1>1, <1>2 DEF FoundSo, FoundOf
<1>5. Snapshots'
    BY <1>1, <1>2 DEF LookupsInv, Snapshots, EntriesApart, Placed, OneLeader, AnswersKept, Leads,
                      Finding
<1>6. QED  BY <1>1, <1>3, <1>4, <1>5 DEF LookupsInv

\* The contract check, and a step of no lookup.
LEMMA NothingMoves ==
    ASSUME LookupsInv, UNCHANGED <<Quiet, caller>>
    PROVE  LookupsInv'
BY DEF LookupsInv, LookupTypes, Keyed, ChosenFirst, Allowed, Secret!At, Watched, Secret!Key,
   FoundSo, FoundOf,
       Snapshots, EntriesApart, Placed, OneLeader, AnswersKept, Leads, Kept, Chain, Quiet

LEMMA LookupsStart ==
    ASSUME Secret!ConstantsOK, Secret!Init
    PROVE  LookupsInv /\ Attempts
<1>1. world \in Secret!Worlds /\ world.dir <= Len(world.files) /\ Secret!Idle \in Callings /\
         Secret!Idle.pc = "idle"
    BY DEF Secret!ConstantsOK, Secret!Init, Secret!Idle, Callings, Results, Secret!Err,
       Secret!Contents
<1>2. heap \in Seq(Snaps) /\ Attempts
    BY DEF Secret!Init, Attempts
<1>3. LookupTypes
    BY <1>1, <1>2 DEF Secret!Init, LookupTypes, Keyed, Finding
<1>4. ChosenFirst /\ Watched
    BY <1>1 DEF Secret!Init, ChosenFirst, Allowed, Secret!At, Watched
<1>5. FoundSo
    BY <1>1 DEF Secret!Init, FoundSo, FoundOf
<1>6. Snapshots
    BY <1>1, <1>2 DEF Secret!Init, Snapshots, EntriesApart, Placed, OneLeader, AnswersKept, Leads,
                      Finding, Chain
<1>7. QED  BY <1>2, <1>3, <1>4, <1>5, <1>6 DEF Secret!Init, LookupsInv

LEMMA AttemptsHold ==
    ASSUME Attempts, [Secret!Next]_(Secret!vars)
    PROVE  Attempts'
<1>1. CASE UNCHANGED probes
    BY <1>1 DEF Attempts
<1>2. ASSUME NEW c \in Callers, Secret!Lookup(c), probes' # probes PROVE Attempts'
    <2>1. probes' = Append(probes, "running")
        BY <1>2 DEF Secret!Lookup
    <2>2. QED  BY <2>1 DEF Attempts
<1>3. CASE Secret!RunProbe
    <2>1. PICK r \in {"failed", "ok"} : probes' = [probes EXCEPT ![Len(probes)] = r]
        BY <1>3 DEF Secret!RunProbe
    <2>2. Len(probes) \in 1..Len(probes)
        BY <1>3 DEF Attempts, Secret!RunProbe
    <2>3. QED  BY <2>1, <2>2 DEF Attempts
<1>4. CASE Secret!Rotate \/ Secret!Lock \/ Secret!RemoveDir \/ Secret!NewDir
    BY <1>1, <1>4 DEF Secret!Rotate, Secret!Lock, Secret!RemoveDir, Secret!NewDir, Secret!Changed,
       Secret!Shared
<1>5. ASSUME NEW c \in Callers, Secret!Step(c) PROVE Attempts'
    BY <1>1, <1>2, <1>5 DEF Secret!Step, Secret!Enter, Secret!Wait, Secret!Lead,
       Secret!checkContract, Secret!Read, Secret!OpenRoot, Secret!OpenWalk,
                            Secret!Missing, Secret!Return, Secret!Shared
<1>6. QED
    BY <1>1, <1>3, <1>4, <1>5 DEF Secret!Next, Secret!SetSecretProvider, Secret!Start,
       Secret!Cancel, Secret!Shared, Secret!vars

LEMMA LookupsStep ==
    ASSUME LookupsInv, Attempts, [Secret!Next]_(Secret!vars)
    PROVE  LookupsInv'
<1>1. ASSUME NEW c \in Callers, Secret!Step(c) PROVE LookupsInv'
    BY <1>1, EnterHolds, WaitHolds, LeadHolds, LookupHolds, checkContractHolds, ReadHolds,
       OpenRootHolds, OpenWalkHolds, MissingHolds, ReturnHolds DEF Secret!Step
<1>2. ASSUME NEW c \in Callers, NEW s \in Spellings, Secret!Start(c, s) PROVE LookupsInv'
    BY <1>2, StartHolds
<1>3. ASSUME NEW c \in Callers, Secret!Cancel(c) PROVE LookupsInv'
    BY <1>3, CancelHolds
<1>4. CASE Secret!SetSecretProvider
    BY <1>4, SetSecretProviderHolds
<1>5. CASE Secret!RunProbe \/ UNCHANGED Secret!vars
    BY <1>5, NothingMoves DEF Secret!RunProbe, Secret!World, Secret!History, Quiet, Secret!vars
<1>6. CASE Secret!Rotate
    BY <1>6, RotateItems, RotateFiles DEF Secret!Rotate
<1>7. CASE Secret!Lock \/ Secret!RemoveDir \/ Secret!NewDir
    BY <1>7, LockHolds, RemoveDirHolds, NewDirHolds DEF Secret!Lock
<1>8. QED  BY <1>1, <1>2, <1>3, <1>4, <1>5, <1>6, <1>7 DEF Secret!Next

LEMMA FactsFollow ==
    ASSUME LookupsInv
    PROVE  Secret!FactsHold
<1> SUFFICES ASSUME LookupsInv, Chain, NEW k \in Secret!Keys
             PROVE  Secret!Cardinality(answers[k]) <= 1
    BY DEF LookupsInv, Secret!FactsHold, Chain
<1>1. \A r \in answers[k] : r = heap[entries[k]].res
    BY DEF LookupsInv, Snapshots, AnswersKept, Kept
<1>2. answers[k] = {} \/ answers[k] = {heap[entries[k]].res}
    BY <1>1
<1>3. Secret!Cardinality(answers[k]) = Cardinality(answers[k])
    BY DEF Secret!Cardinality, Cardinality
<1>4. CASE answers[k] = {}
    <2>1. Cardinality(answers[k]) = 0
        BY <1>4, FS_EmptySet, Zenon
    <2>2. QED  BY <1>3, <2>1
<1>5. CASE answers[k] = {heap[entries[k]].res}
    <2>1. \A x : Cardinality({x}) = 1
        BY FS_Singleton
    <2>2. Cardinality(answers[k]) = 1
        BY <1>5, <2>1, Zenon
    <2>3. QED  BY <1>3, <2>2
<1>6. QED  BY <1>2, <1>4, <1>5

\* What a lookup tells was so during the lookup, and through a Snapshot
\* every caller is told the same.
THEOREM LookupsTellFacts == ASSUME Secret!ConstantsOK PROVE Secret!Spec => []Secret!FactsHold
<1>1. Secret!Init => LookupsInv /\ Attempts
    BY LookupsStart
<1>2. (LookupsInv /\ Attempts) /\ [Secret!Next]_(Secret!vars) => (LookupsInv /\ Attempts)'
    BY LookupsStep, AttemptsHold
<1>3. LookupsInv => Secret!FactsHold
    BY FactsFollow
<1>4. QED  BY <1>1, <1>2, <1>3, PTL DEF Secret!Spec

(***************************************************************************)
(* Delivery: what stays, and the records under an update                   *)
(***************************************************************************)
\* A session that changed its step keeps what it was opened for.
LEMMA SetStep ==
    ASSUME NEW s, Push!IsSession(s), NEW x
    PROVE  LET t == [s EXCEPT !.step = x]
           IN  Push!IsSession(t) /\ t.step = x /\ t.k = s.k /\ t.kind = s.kind /\ t.i = s.i
               /\ t.attached = s.attached /\ t.left = s.left
<1> DEFINE t == [s EXCEPT !.step = x]
<1>1. s = [k |-> s.k, kind |-> s.kind, i |-> s.i, attached |-> s.attached, release |-> s.release,
           left |-> s.left, step |-> s.step]
  BY DEF Push!IsSession
<1>2. t = [k |-> s.k, kind |-> s.kind, i |-> s.i, attached |-> s.attached, release |-> s.release,
           left |-> s.left, step |-> x]
  BY <1>1
<1> HIDE DEF t
<1> QED
  BY <1>2 DEF Push!IsSession

\* A session whose ssh is gone.
LEMMA SetAttached ==
    ASSUME NEW s, Push!IsSession(s), NEW b \in BOOLEAN
    PROVE  LET t == [s EXCEPT !.attached = b]
           IN  Push!IsSession(t) /\ t.attached = b /\ t.k = s.k /\ t.kind = s.kind /\ t.i = s.i
               /\ t.step = s.step /\ t.left = s.left
<1> DEFINE t == [s EXCEPT !.attached = b]
<1>1. s = [k |-> s.k, kind |-> s.kind, i |-> s.i, attached |-> s.attached, release |-> s.release,
           left |-> s.left, step |-> s.step]
  BY DEF Push!IsSession
<1>2. t = [k |-> s.k, kind |-> s.kind, i |-> s.i, attached |-> b, release |-> s.release,
           left |-> s.left, step |-> s.step]
  BY <1>1
<1> HIDE DEF t
<1> QED
  BY <1>2 DEF Push!IsSession

\* A session that extracted an entry.
LEMMA SetLeft ==
    ASSUME NEW s, Push!IsSession(s), NEW l
    PROVE  LET t == [s EXCEPT !.left = l]
           IN  Push!IsSession(t) /\ t.left = l /\ t.k = s.k /\ t.kind = s.kind /\ t.i = s.i
               /\ t.step = s.step /\ t.attached = s.attached
<1> DEFINE t == [s EXCEPT !.left = l]
<1>1. s = [k |-> s.k, kind |-> s.kind, i |-> s.i, attached |-> s.attached, release |-> s.release,
           left |-> s.left, step |-> s.step]
  BY DEF Push!IsSession
<1>2. t = [k |-> s.k, kind |-> s.kind, i |-> s.i, attached |-> s.attached, release |-> s.release,
           left |-> l, step |-> s.step]
  BY <1>1
<1> HIDE DEF t
<1> QED
  BY <1>2 DEF Push!IsSession

\* The deliveries, and what follows from them, never change.
LEMMA SettingKept ==
    ASSUME Push!Next
    PROVE  setting' = setting
BY DEF Push!Next, Push!Controls, Push!control, Push!Start, Push!Require, Push!Probe,
   Push!ProbeRelease, Push!BuildTarget, Push!Mktemp, Push!Scp, Push!Install, Push!Verify,
   Push!RemoveStaging, Push!Gate, Push!Upload, Push!StreamChunk, Push!RemoveSticky, Push!Returned,
   Push!NextDelivery, Push!Drop, Push!Cancel, Push!RemoteStep, Push!RemoveDir, Push!Prepare,
   Push!Extract, Push!Stage, Push!Apply

\* ... so the operators on deliveries keep their values.
LEMMA PlansKept ==
    ASSUME setting' = setting
    PROVE  /\ Push!Deliveries' = Push!Deliveries /\ Push!Path' = Push!Path /\ Push!Linger' = Push!Linger
           /\ \A d : /\ Push!HasBlobs(d)' = Push!HasBlobs(d) /\ Push!Sticky(d)' = Push!Sticky(d)
                     /\ Push!SealedRefs(d)' = Push!SealedRefs(d) /\ Push!Uploaded(d)' = Push!Uploaded(d)
                     /\ Push!SealedReadElsewhere(d)' = Push!SealedReadElsewhere(d)
BY DEF Push!Deliveries, Push!Path, Push!Linger, Push!Reads, Push!HasBlobs, Push!Sticky,
   Push!SealedReads, Push!SealedRefs, Push!Uploaded, Push!SealedReadElsewhere

\* Where the controller can be when it waits for a session, and for which.
LEMMA Waiting ==
    ASSUME Push!AttachedInv, Push!SessionInv
    PROVE  /\ pushPc \notin {"uploading", "applying", "cleaning"} => \A s \in sessions : ~s.attached
           /\ pushPc \notin {"uploading", "applying", "cleaning"} /\ ~Push!Linger => sessions = {}
           /\ \A s \in sessions : s.attached \in BOOLEAN /\ s.k \in 1..pushNo
           /\ ~Push!Linger => \A s, t \in sessions : s = t /\ s.k = pushNo
BY DEF Push!AttachedInv, Push!SessionInv, Push!Attached, Push!IsSession

\* The sessions after one of them moved on.
LEMMA BecomesStep ==
    ASSUME NEW s, Push!IsSession(s), NEW x, Push!Becomes(s, x)
    PROVE  \E t : /\ sessions' \subseteq (sessions \ {s}) \cup {t}
                  /\ Push!IsSession(t) /\ t.step = x /\ t.k = s.k /\ t.kind = s.kind /\ t.i = s.i
                  /\ t.attached = s.attached /\ t.left = s.left
<1> DEFINE n == [s EXCEPT !.step = x]
<1>1. Push!IsSession(n) /\ n.step = x /\ n.k = s.k /\ n.kind = s.kind /\ n.i = s.i
      /\ n.attached = s.attached /\ n.left = s.left
  BY SetStep
<1>2. sessions' \subseteq (sessions \ {s}) \cup {n}
  BY DEF Push!Becomes
<1> HIDE DEF n
<1> QED
  BY <1>1, <1>2

\* The session the controller opens.
LEMMA OpenStep ==
    ASSUME NEW kind, NEW e, NEW keyed, Push!Open(kind, e, keyed)
    PROVE  \E t : /\ sessions' = sessions \cup {t}
                  /\ Push!IsSession(t) /\ t.attached = TRUE /\ t.k = pushNo /\ t.i = chunkNo /\
                         t.kind = kind
                  /\ t.left = IF kind = "upload" THEN Push!Uploaded(pushNo) ELSE {}
                  /\ t.step \in {"start", "failed"} /\ (kind = "rm" => t.step = "start")
<1> DEFINE l == IF kind = "upload" THEN Push!Uploaded(pushNo) ELSE {}
           x == IF \/ kind = "rm"
                   \/ Push!Release(e) >= Push!TakesRelayed /\
                          (keyed => Push!Release(e) >= Push!DecryptsSealed)
                THEN "start" ELSE "failed"
           b == TRUE
           t == [k |-> pushNo, kind |-> kind, i |-> chunkNo, attached |-> b,
               release |-> Push!Release(e),
                 left |-> l, step |-> x]
<1>1. sessions' = sessions \cup {t}
  BY DEF Push!Open
<1>2. x \in {"start", "failed"} /\ (kind = "rm" => x = "start") /\ b = TRUE
  BY Zenon
<1> HIDE DEF l, x, b
<1>3. /\ t.k = pushNo /\ t.i = chunkNo /\ t.kind = kind /\ t.attached = b /\ t.left = l /\ t.step = x
      /\ t = [k |-> t.k, kind |-> t.kind, i |-> t.i, attached |-> t.attached, release |-> t.release,
              left |-> t.left, step |-> t.step]
  OBVIOUS
<1> HIDE DEF t
<1>4. Push!IsSession(t)
  BY <1>2, <1>3 DEF Push!IsSession
<1> QED
  BY <1>1, <1>2, <1>3, <1>4 DEF l

\* The steps of the controller before it streams, and the start of the next
\* delivery: no session and no blob changes.
Early ==
    \/ Push!Start \/ Push!Require \/ Push!Probe \/ Push!ProbeRelease \/ Push!BuildTarget \/
           Push!Mktemp \/ Push!Scp \/ Push!Install
    \/ Push!Verify \/ Push!RemoveStaging \/ Push!Gate

\* They lead on to the next one, to the first chunk or upload, or to the end.
LEMMA EarlySteps ==
    ASSUME Early
    PROVE  /\ UNCHANGED <<setting, pushNo, chunkNo, ctx, sticky, files, sessions, applied, reads, ran>>
           /\ pushPc \in {"start", "require"} \cup Push!Installing
           /\ \/ pushPc' = "ended" /\ results' = [results EXCEPT ![pushNo] = "failed"]
              \/ /\ UNCHANGED results
                 /\ \/ pushPc = "start" /\ pushPc' = (IF Push!Preview THEN "require" ELSE "probe")
                       /\ ~(Push!Preview /\ Push!HasBlobs(pushNo)) /\ ~Push!SealedReadElsewhere(pushNo)
                    \/ pushPc = "require" /\ pushPc' = "chunk"
                    \/ pushPc = "gate" /\ pushPc' = (IF Push!Sticky(pushNo) THEN "upload" ELSE "chunk")
                    \/ pushPc \in Push!Installing /\ pushPc' \in Push!Installing
           /\ failing' = failing \/ failing' \in {"yes", "no"}
BY DEF Early, Push!Start, Push!Require, Push!Probe, Push!ProbeRelease, Push!BuildTarget,
   Push!Mktemp, Push!Scp, Push!Install, Push!Verify, Push!RemoveStaging, Push!Gate, Push!host,
   Push!history, Push!Go, Push!Fail, Push!End, Push!Unstage, Push!Installing

\* What ends a wait, and a session that hears of it.
LEMMA ReturnedStep ==
    ASSUME Push!AttachedInv, Push!Returned
    PROVE  \E s \in sessions :
              /\ s.attached /\ s.step \in {"ok", "failed"} /\ sessions' = sessions \ {s}
              /\ UNCHANGED <<setting, pushNo, ctx, gonfPath, Push!host, lost, Push!history>>
              /\ \/ pushPc = "uploading" /\ s.kind = "upload" /\ s.step = "ok" /\ Push!Go("chunk")
                 \/ pushPc \in {"uploading", "applying"} /\ Push!AfterFailure
                 \/ /\ pushPc = "applying" /\ s.kind = "chunk" /\ s.i = chunkNo /\ s.step = "ok"
                    /\ \/ Push!LastChunk /\ Push!AfterLast
                       \/ ~Push!LastChunk /\ pushPc' = "chunk" /\ chunkNo' = chunkNo + 1 /\
                              UNCHANGED <<failing, results>>
                 \/ /\ pushPc = "cleaning" /\ s.kind = "rm" /\ s.step \in {"ok", "failed"}
                    /\ Push!End(IF failing = "yes" THEN "failed" ELSE "ok")
<1>1. PICK s \in Push!Attached :
        /\ s.step \in {"ok", "failed"}
        /\ sessions' = sessions \ {s}
        /\ CASE pushPc = "uploading" -> IF s.step = "ok" THEN Push!Go("chunk") ELSE Push!AfterFailure
             [] pushPc = "applying" ->
                    IF s.step = "failed" THEN Push!AfterFailure
                    ELSE IF Push!LastChunk THEN Push!AfterLast
                    ELSE pushPc' = "chunk" /\ chunkNo' = chunkNo + 1 /\ UNCHANGED <<failing, results>>
             [] pushPc = "cleaning" -> Push!End(IF failing = "yes" THEN "failed" ELSE "ok")
        /\ UNCHANGED <<setting, pushNo, ctx, gonfPath, Push!host, lost, Push!history>>
  BY DEF Push!Returned
<1>2. /\ s \in sessions /\ s.attached
      /\ \/ s.kind = "upload" /\ pushPc = "uploading"
         \/ s.kind = "chunk" /\ pushPc = "applying" /\ s.i = chunkNo
         \/ s.kind = "rm" /\ pushPc = "cleaning"
  BY DEF Push!AttachedInv, Push!Attached
<1>3. CASE pushPc = "uploading"
  BY <1>1, <1>2, <1>3
<1>4. CASE pushPc = "applying"
  BY <1>1, <1>2, <1>4
<1>5. CASE pushPc = "cleaning"
  BY <1>1, <1>2, <1>5
<1> QED
  BY <1>2, <1>3, <1>4, <1>5

\* A session whose ssh ends without it goes, or goes on by itself.
LEMMA DropStep ==
    ASSUME Push!AttachedInv, Push!SessionInv, Push!Drop
    PROVE  \E s \in sessions :
              /\ s.attached
              /\ \A t \in sessions' :
                    \/ t \in sessions \ {s}
                    \/ /\ Push!Linger /\ Push!IsSession(t) /\ t.attached = FALSE /\ t.k = s.k /\
                              t.kind = s.kind
                       /\ t.i = s.i /\ t.step = s.step /\ t.left = s.left
              /\ UNCHANGED <<setting, pushNo, ctx, gonfPath, Push!host, Push!history>>
              /\ \/ /\ s.kind = "rm" /\ pushPc = "cleaning"
                    /\ Push!End(IF failing = "yes" THEN "failed" ELSE "ok")
                    /\ lost' = lost \cup {0}
                 \/ pushPc \in {"uploading", "applying"} /\ Push!AfterFailure /\ lost' = lost
<1>1. PICK s \in Push!Attached :
        /\ sessions' = (sessions \ {s}) \cup
               (IF Push!Linger /\ s.step \notin {"ok", "failed"}
                   THEN {[s EXCEPT !.attached = FALSE]} ELSE {})
        /\ IF pushPc = "cleaning" THEN Push!End(IF failing = "yes" THEN "failed" ELSE "ok")
               ELSE Push!AfterFailure
        /\ lost' = IF s.kind = "rm" THEN lost \cup {0} ELSE lost
        /\ UNCHANGED <<setting, pushNo, ctx, gonfPath, Push!host, Push!history>>
  BY DEF Push!Drop
<1>2. /\ s \in sessions /\ s.attached /\ Push!IsSession(s)
      /\ \/ s.kind = "upload" /\ pushPc = "uploading"
         \/ s.kind = "chunk" /\ pushPc = "applying" /\ s.i = chunkNo
         \/ s.kind = "rm" /\ pushPc = "cleaning"
  BY DEF Push!AttachedInv, Push!Attached, Push!SessionInv
<1> DEFINE b == FALSE
           n == [s EXCEPT !.attached = b]
<1>3. b \in BOOLEAN /\ b = FALSE
  OBVIOUS
<1>4. \A t \in sessions' : t \in sessions \ {s} \/ (Push!Linger /\ t = n)
  BY <1>1
<1> HIDE DEF b
<1>5. Push!IsSession(n) /\ n.attached = b /\ n.k = s.k /\ n.kind = s.kind /\ n.i = s.i
      /\ n.step = s.step /\ n.left = s.left
  BY <1>2, <1>3, SetAttached
<1> HIDE DEF n
<1>6. \A t \in sessions' :
         \/ t \in sessions \ {s}
         \/ /\ Push!Linger /\ Push!IsSession(t) /\ t.attached = FALSE /\ t.k = s.k /\ t.kind = s.kind
            /\ t.i = s.i /\ t.step = s.step /\ t.left = s.left
  BY <1>3, <1>4, <1>5
<1>7. \/ /\ s.kind = "rm" /\ pushPc = "cleaning" /\ Push!End(IF failing = "yes" THEN "failed" ELSE "ok")
         /\ lost' = lost \cup {0}
      \/ pushPc \in {"uploading", "applying"} /\ Push!AfterFailure /\ lost' = lost
  BY <1>1, <1>2
<1> QED
  BY <1>1, <1>2, <1>6, <1>7

\* A session that moves on touches no other, and nothing of the controller's.
LEMMA RemoteSteps ==
    ASSUME Push!SessionInv, NEW s \in sessions, s.step \notin {"ok", "failed"}, Push!RemoteStep(s)
    PROVE  /\ UNCHANGED <<Push!control, hostBin, staging, ran>>
           /\ \E t : /\ sessions' \subseteq (sessions \ {s}) \cup {t}
                     /\ Push!IsSession(t) /\ t.k = s.k /\ t.kind = s.kind /\ t.i = s.i
                     /\ t.attached = s.attached
                     /\ \/ t.left = s.left /\ t.step # "start"
                        \/ s.kind = "upload" /\ t.left \subseteq s.left /\ t.step = "extract"
                     /\ \/ s.kind = "upload" /\ t.step \in {"extract", "ok", "failed"}
                        \/ s.kind = "chunk" /\ t.step \in {"stage", "apply", "ok", "failed"}
                        \/ s.kind = "rm" /\ t.step = "ok"
<1>0. Push!IsSession(s) /\ s.kind \in {"upload", "chunk", "rm"}
  BY Zenon DEF Push!SessionInv
<1>1. CASE Push!RemoveDir(s)
  BY <1>0, <1>1, BecomesStep DEF Push!RemoveDir, Push!history, Push!control
<1>2. CASE Push!Prepare(s)
  BY <1>0, <1>2, BecomesStep DEF Push!Prepare, Push!history, Push!control
<1>3. CASE Push!Extract(s)
  <2>1. ASSUME NEW x \in s.left, sessions' = (sessions \ {s}) \cup {[s EXCEPT !.left = @ \ {x}]}
        PROVE  \E t : /\ sessions' \subseteq (sessions \ {s}) \cup {t}
                      /\ Push!IsSession(t) /\ t.k = s.k /\ t.kind = s.kind /\ t.i = s.i
                      /\ t.attached = s.attached /\ t.left = s.left \ {x} /\ t.step = s.step
    <3> DEFINE l == s.left \ {x}
               n == [s EXCEPT !.left = l]
    <3>1. sessions' = (sessions \ {s}) \cup {n}
      BY <2>1
    <3>2. Push!IsSession(n) /\ n.left = l /\ n.k = s.k /\ n.kind = s.kind /\ n.i = s.i
          /\ n.step = s.step /\ n.attached = s.attached
      BY <1>0, SetLeft
    <3> HIDE DEF n
    <3> QED
      BY <3>1, <3>2
  <2>2. s.kind = "upload" /\ s.step = "extract" /\ UNCHANGED <<Push!control, hostBin, staging, ran>>
    BY <1>3 DEF Push!Extract, Push!history, Push!control
  <2>3. \/ \E x \in s.left : sessions' = (sessions \ {s}) \cup {[s EXCEPT !.left = @ \ {x}]}
        \/ Push!Becomes(s, "ok") \/ Push!Becomes(s, "failed")
    BY <1>3 DEF Push!Extract
  <2>4. CASE \E x \in s.left : sessions' = (sessions \ {s}) \cup {[s EXCEPT !.left = @ \ {x}]}
    BY <2>1, <2>2, <2>4
  <2>5. CASE Push!Becomes(s, "ok") \/ Push!Becomes(s, "failed")
    BY <1>0, <2>2, <2>5, BecomesStep
  <2> QED
    BY <2>3, <2>4, <2>5
<1>4. CASE Push!Stage(s)
  <2>1. Push!Becomes(s, "apply") \/ Push!Becomes(s, "failed")
    BY <1>4 DEF Push!Stage
  <2> QED
    BY <1>0, <1>4, <2>1, BecomesStep DEF Push!Stage, Push!host, Push!control
<1>5. CASE Push!Apply(s)
  <2>1. Push!Becomes(s, "ok") \/ Push!Becomes(s, "failed")
    BY <1>5 DEF Push!Apply
  <2> QED
    BY <1>0, <1>5, <2>1, BecomesStep DEF Push!Apply, Push!host, Push!control
<1> QED
  BY <1>1, <1>2, <1>3, <1>4, <1>5 DEF Push!RemoteStep

\* What a step is.
LEMMA PushStepCases ==
    ASSUME Push!Next
    PROVE  \/ Early \/ Push!Upload \/ Push!StreamChunk \/ Push!RemoveSticky \/ Push!Returned \/
                  Push!NextDelivery
           \/ Push!Drop \/ Push!Cancel
           \/ \E s \in sessions : s.step \notin {"ok", "failed"} /\ Push!RemoteStep(s)
BY DEF Push!Next, Push!Controls, Early

(***************************************************************************)
(* The controller                                                          *)
(***************************************************************************)
\* The deliveries and their chunks are numbered from 1.
LEMMA Numbers ==
    ASSUME Push!ConstantsOK, Push!ControlInv
    PROVE  /\ Len(Push!Deliveries) \in Nat \ {0} /\ DOMAIN Push!Deliveries = 1..Len(Push!Deliveries)
           /\ \A d \in DOMAIN Push!Deliveries :
                 /\ Len(Push!Deliveries[d].chunks) \in Nat \ {0}
                 /\ DOMAIN Push!Deliveries[d].chunks = 1..Len(Push!Deliveries[d].chunks)
           /\ pushNo \in 1..Len(Push!Deliveries) /\ chunkNo \in 1..Len(Push!D.chunks) /\
                  Len(Push!D.chunks) \in Nat
BY DEF Push!ConstantsOK, Push!ControlInv, Push!Deliveries, Push!D

\* A preview that reads no blob has no sticky directory.
LEMMA NoBlobsNotSticky ==
    ASSUME NEW d
    PROVE  Push!Sticky(d) => Push!HasBlobs(d)
BY DEF Push!Sticky

\* Every step keeps what the controller decided: blobs that some chunk may not
\* read sealed, and previews with blobs, were refused at the start.
LEMMA ControlStep ==
    ASSUME Push!ConstantsOK, Push!ControlInv, Push!SessionInv, Push!AttachedInv, Push!Next
    PROVE  Push!ControlInv'
<1>1. /\ setting' = setting /\ Push!Deliveries' = Push!Deliveries
      /\ \A d : /\ Push!HasBlobs(d)' = Push!HasBlobs(d) /\ Push!Sticky(d)' = Push!Sticky(d)
                /\ Push!SealedReadElsewhere(d)' = Push!SealedReadElsewhere(d)
      /\ pushNo' = pushNo => Push!D' = Push!D /\ Push!Preview' = Push!Preview
  BY SettingKept, PlansKept DEF Push!D, Push!Preview
<1>2. setting' \in Settings
  BY <1>1 DEF Push!ControlInv
<1>3. \A r : DOMAIN [results EXCEPT ![pushNo] = r] = DOMAIN results
  OBVIOUS
<1>4. CASE Early
  <2>1. pushNo' = pushNo /\ chunkNo' = chunkNo /\ ctx' = ctx /\
            (failing' = failing \/ failing' \in {"yes", "no"})
    BY <1>4, EarlySteps
  <2>2. DOMAIN results' = DOMAIN results
    BY <1>3, <1>4, EarlySteps
  <2>3. \/ pushPc' = "ended"
        \/ pushPc = "start" /\ pushPc' = (IF Push!Preview THEN "require" ELSE "probe")
              /\ ~(Push!Preview /\ Push!HasBlobs(pushNo)) /\ ~Push!SealedReadElsewhere(pushNo)
        \/ pushPc = "require" /\ pushPc' = "chunk"
        \/ pushPc = "gate" /\ pushPc' = (IF Push!Sticky(pushNo) THEN "upload" ELSE "chunk")
        \/ pushPc \in Push!Installing /\ pushPc' \in Push!Installing
    BY <1>4, EarlySteps
  <2> QED
    BY <1>1, <1>2, <2>1, <2>2, <2>3 DEF Push!ControlInv, Push!Installing, Push!Streaming
<1>5. CASE Push!Upload \/ Push!StreamChunk \/ Push!RemoveSticky
  <2>1. /\ pushNo' = pushNo /\ chunkNo' = chunkNo /\ ctx' = ctx /\
               (failing' = failing \/ failing' = "yes")
        /\ \/ pushPc = "upload" /\ pushPc' \in {"uploading", "clean"} /\ results' = results
           \/ pushPc = "chunk" /\ (pushPc' = "applying" \/
                  (pushPc' = "clean" /\ Push!Sticky(pushNo))) /\ results' = results
           \/ pushPc = "chunk" /\ pushPc' = "ended" /\ results' = [results EXCEPT ![pushNo] = "failed"]
           \/ pushPc = "clean" /\ pushPc' = "cleaning" /\ results' = results
    BY <1>5 DEF Push!Upload, Push!StreamChunk, Push!RemoveSticky, Push!Go, Push!AfterFailure,
       Push!Fail, Push!End
  <2> QED
    BY <1>1, <1>2, <1>3, <2>1 DEF Push!ControlInv, Push!Installing, Push!Streaming
<1>6. CASE Push!Returned \/ Push!Drop
  <2>1. /\ pushNo' = pushNo /\ ctx' = ctx /\ (failing' = failing \/ failing' \in {"yes", "no"})
        /\ DOMAIN results' = DOMAIN results
        /\ chunkNo' = chunkNo \/ (chunkNo' = chunkNo + 1 /\ ~Push!LastChunk)
        /\ \/ pushPc = "uploading" /\ pushPc' = "chunk"
           \/ pushPc \in {"uploading", "applying"} /\
                  (pushPc' = "ended" \/ (pushPc' = "clean" /\ Push!Sticky(pushNo)))
           \/ pushPc = "applying" /\ pushPc' = "chunk"
           \/ pushPc' = "ended"
    BY <1>3, <1>6, ReturnedStep, DropStep DEF Push!Go, Push!AfterFailure, Push!AfterLast,
       Push!Fail, Push!End
  <2>2. chunkNo' \in DOMAIN Push!D'.chunks
    BY <1>1, <2>1, Numbers DEF Push!LastChunk
  <2> QED
    BY <1>1, <1>2, <2>1, <2>2 DEF Push!ControlInv, Push!Installing, Push!Streaming
<1>7. CASE Push!NextDelivery
  <2>1. /\ pushNo' = pushNo + 1 /\ pushPc' = "start" /\ chunkNo' = 1 /\ ctx' = FALSE /\ failing' = "no"
        /\ results' = results /\ pushNo < Len(Push!Deliveries)
    BY <1>7 DEF Push!NextDelivery
  <2>2. pushNo' \in DOMAIN Push!Deliveries /\ chunkNo' \in DOMAIN Push!Deliveries[pushNo'].chunks
    BY <2>1, Numbers
  <2> QED
    BY <1>1, <1>2, <2>1, <2>2 DEF Push!ControlInv, Push!D, Push!Installing, Push!Streaming
<1>8. CASE Push!Cancel
  BY <1>1, <1>2, <1>8 DEF Push!Cancel, Push!ControlInv
<1>9. CASE \E s \in sessions : s.step \notin {"ok", "failed"} /\ Push!RemoteStep(s)
  <2>1. UNCHANGED Push!control
    BY <1>9, RemoteSteps
  <2> QED
    BY <1>1, <1>2, <2>1 DEF Push!control, Push!ControlInv
<1> QED
  BY <1>4, <1>5, <1>6, <1>7, <1>8, <1>9, PushStepCases

(***************************************************************************)
(* The sessions                                                            *)
(***************************************************************************)
\* Every session stays one the controller opened, and goes through its steps in
\* their order.
LEMMA SessionStep ==
    ASSUME Push!ConstantsOK, Push!ControlInv, Push!SessionInv, Push!AttachedInv, Push!Next
    PROVE  Push!SessionInv'
<1>1. /\ Push!Deliveries' = Push!Deliveries
      /\ \A d : Push!Sticky(d)' = Push!Sticky(d) /\ Push!Uploaded(d)' = Push!Uploaded(d)
  BY SettingKept, PlansKept
<1>2. pushNo \in Nat /\ pushNo >= 1 /\ chunkNo \in DOMAIN Push!Deliveries[pushNo].chunks
  BY Numbers DEF Push!ControlInv, Push!D
<1> DEFINE Good(s, n) ==
        /\ Push!IsSession(s) /\ s.k \in 1..n
        /\ \/ s.kind = "upload" /\ s.step \in {"start", "extract", "ok", "failed"}
              /\ Push!Sticky(s.k) /\ s.left \subseteq Push!Uploaded(s.k)
              /\ (s.step = "start" => s.left = Push!Uploaded(s.k))
           \/ s.kind = "chunk" /\ s.step \in {"start", "stage", "apply", "ok", "failed"}
              /\ s.i \in DOMAIN Push!Deliveries[s.k].chunks
           \/ s.kind = "rm" /\ s.step \in {"start", "ok"}
<1>3. \A s \in sessions : Good(s, pushNo)
  BY DEF Push!SessionInv
<1>4. SUFFICES \A s \in sessions' : Good(s, pushNo')
  BY <1>1 DEF Push!SessionInv
<1>5. CASE Early \/ Push!Cancel
  BY <1>3, <1>5, EarlySteps DEF Push!Cancel
<1>6. CASE Push!NextDelivery
  <2>1. sessions' = sessions /\ pushNo' = pushNo + 1
    BY <1>6 DEF Push!NextDelivery
  <2>2. \A n \in 1..pushNo : n \in 1..pushNo'
    BY <1>2, <2>1
  <2> QED
    BY <1>3, <2>1, <2>2
<1>7. CASE Push!Upload \/ Push!StreamChunk \/ Push!RemoveSticky
  <2>1. /\ pushNo' = pushNo
        /\ \/ sessions' = sessions
           \/ /\ Push!Sticky(pushNo) /\ Push!Open("upload", FALSE, FALSE)
           \/ Push!Open("chunk", Push!D.chunks[chunkNo].elevate, Push!Keyed(pushNo, chunkNo))
           \/ Push!Open("rm", FALSE, FALSE)
    BY <1>7 DEF Push!Upload, Push!StreamChunk, Push!RemoveSticky, Push!ControlInv
  <2>2. CASE Push!Sticky(pushNo) /\ Push!Open("upload", FALSE, FALSE)
    <3>1. PICK t : /\ sessions' = sessions \cup {t}
                   /\ Push!IsSession(t) /\ t.k = pushNo /\ t.i = chunkNo /\ t.kind = "upload"
                   /\ t.left = Push!Uploaded(pushNo) /\ t.step \in {"start", "failed"}
      BY <2>2, OpenStep
    <3>2. Good(t, pushNo)
      BY <1>2, <2>1, <2>2, <3>1
    <3> QED
      BY <1>3, <2>1, <3>1, <3>2
  <2>3. CASE Push!Open("chunk", Push!D.chunks[chunkNo].elevate, Push!Keyed(pushNo, chunkNo))
    <3>1. PICK t : /\ sessions' = sessions \cup {t}
                   /\ Push!IsSession(t) /\ t.k = pushNo /\ t.i = chunkNo /\ t.kind = "chunk"
                   /\ t.step \in {"start", "failed"}
      BY ZenonT(60), <2>3, OpenStep
    <3>2. Good(t, pushNo)
      BY <1>2, <2>1, <2>3, <3>1
    <3> QED
      BY <1>3, <2>1, <3>1, <3>2
  <2>4. CASE Push!Open("rm", FALSE, FALSE)
    <3>1. PICK t : /\ sessions' = sessions \cup {t}
                   /\ Push!IsSession(t) /\ t.k = pushNo /\ t.i = chunkNo /\ t.kind = "rm"
                   /\ t.step = "start"
      BY <2>4, OpenStep
    <3>2. Good(t, pushNo)
      BY <1>2, <2>1, <2>4, <3>1
    <3> QED
      BY <1>3, <2>1, <3>1, <3>2
  <2> QED
    BY <1>3, <2>1, <2>2, <2>3, <2>4
<1>8. CASE Push!Returned
  BY <1>3, <1>8, ReturnedStep
<1>9. CASE Push!Drop
  <2>1. PICK s \in sessions :
          /\ \A t \in sessions' :
                \/ t \in sessions \ {s}
                \/ /\ Push!IsSession(t) /\ t.k = s.k /\ t.kind = s.kind
                   /\ t.i = s.i /\ t.step = s.step /\ t.left = s.left
          /\ pushNo' = pushNo
    BY <1>9, DropStep
  <2> QED
    BY <1>3, <2>1
<1>10. ASSUME NEW s \in sessions, s.step \notin {"ok", "failed"}, Push!RemoteStep(s)
       PROVE  \A t \in sessions' : Good(t, pushNo')
  <2>1. pushNo' = pushNo
    BY <1>10, RemoteSteps DEF Push!control
  <2>2. Good(s, pushNo)
    BY <1>3
  <2> QED
    BY <1>3, <1>10, <2>1, <2>2, RemoteSteps
<1> QED
  BY <1>5, <1>6, <1>7, <1>8, <1>9, <1>10, PushStepCases

\* The controller opens a session only when it waits for none.
LEMMA AttachedStep ==
    ASSUME Push!ConstantsOK, Push!ControlInv, Push!SessionInv, Push!AttachedInv, Push!Next
    PROVE  Push!AttachedInv'
<1>1. Push!Linger' = Push!Linger
  BY SettingKept, PlansKept
<1>2. /\ pushPc \notin {"uploading", "applying", "cleaning"} => \A s \in sessions : ~s.attached
      /\ \A s \in sessions : s.attached \in BOOLEAN
  BY Waiting
<1>3. CASE Early \/ Push!NextDelivery
  <2>1. sessions' = sessions /\ \A s \in sessions : ~s.attached
    BY <1>2, <1>3, EarlySteps DEF Push!NextDelivery, Push!Installing
  <2> QED
    BY <1>1, <2>1 DEF Push!AttachedInv, Push!Attached
<1>4. CASE Push!Upload \/ Push!StreamChunk \/ Push!RemoveSticky
  <2>1. /\ pushNo' = pushNo /\ chunkNo' = chunkNo /\ \A s \in sessions : ~s.attached
        /\ \/ sessions' = sessions
           \/ pushPc' = "uploading" /\ Push!Open("upload", FALSE, FALSE)
           \/ pushPc' = "applying" /\ Push!Open("chunk", Push!D.chunks[chunkNo].elevate,
                  Push!Keyed(pushNo, chunkNo))
           \/ pushPc' = "cleaning" /\ Push!Open("rm", FALSE, FALSE)
    BY <1>2, <1>4 DEF Push!Upload, Push!StreamChunk, Push!RemoveSticky, Push!Go, Push!AfterFailure,
       Push!Fail, Push!End
  <2>2. CASE sessions' = sessions
    BY <1>1, <2>1, <2>2 DEF Push!AttachedInv, Push!Attached
  <2>3. ASSUME NEW kind, NEW e, NEW keyed, Push!Open(kind, e, keyed),
               \/ kind = "upload" /\ pushPc' = "uploading"
               \/ kind = "chunk" /\ pushPc' = "applying"
               \/ kind = "rm" /\ pushPc' = "cleaning"
        PROVE  Push!AttachedInv'
    <3>1. PICK t : sessions' = sessions \cup {t} /\ t.k = pushNo /\ t.i = chunkNo /\ t.kind = kind /\
                   t.attached
      BY <2>3, OpenStep
    <3> QED
      BY <1>1, <2>1, <2>3, <3>1 DEF Push!AttachedInv, Push!Attached
  <2> QED
    BY <2>1, <2>2, <2>3
<1>5. CASE Push!Returned
  <2>1. PICK s \in sessions : s.attached /\ sessions' = sessions \ {s}
    BY <1>5, ReturnedStep
  <2> QED
    BY <1>1, <2>1 DEF Push!AttachedInv, Push!Attached
<1>6. CASE Push!Drop
  <2>1. PICK s \in sessions :
          /\ s.attached
          /\ \A t \in sessions' : t \in sessions \ {s} \/ (Push!Linger /\ t.attached = FALSE)
    BY <1>6, DropStep
  <2> QED
    BY <1>1, <2>1 DEF Push!AttachedInv, Push!Attached
<1>7. CASE Push!Cancel
  BY <1>1, <1>7 DEF Push!Cancel, Push!AttachedInv, Push!Attached
<1>8. ASSUME NEW s \in sessions, s.step \notin {"ok", "failed"}, Push!RemoteStep(s)
      PROVE  Push!AttachedInv'
  <2>1. pushNo' = pushNo /\ chunkNo' = chunkNo /\ pushPc' = pushPc
    BY <1>8, RemoteSteps DEF Push!control
  <2>2. PICK t : /\ sessions' \subseteq (sessions \ {s}) \cup {t}
                 /\ t.k = s.k /\ t.kind = s.kind /\ t.i = s.i /\ t.attached = s.attached
    BY <1>8, RemoteSteps
  <2> QED
    BY <1>1, <2>1, <2>2 DEF Push!AttachedInv, Push!Attached
<1> QED
  BY <1>3, <1>4, <1>5, <1>6, <1>7, <1>8, PushStepCases

(***************************************************************************)
(* The releases on the host                                                *)
(***************************************************************************)
\* What the login user's commands find as gonf, and root's.
Login == Push!Release(FALSE)
Root == Push!Release(TRUE)

\* The locations a command may find gonf in.
LEMMA PushPlaces ==
    ASSUME Push!ConstantsOK, Push!ControlInv, Push!FitInv
    PROVE  /\ \A e \in BOOLEAN : Push!Release(e) \in 0..Push!Controller
           /\ Login \in 0..Push!Controller /\ Root \in 0..Push!Controller
           /\ Push!InstallPath \in Locations /\ Push!InstallPath # NoPath
           /\ TargetPath \in Locations \cup {NoPath}
           /\ Push!Path["login"] \in Locations /\ Push!Path["elevated"] \in Locations
BY DEF Push!ConstantsOK, Push!ControlInv, Push!FitInv, Push!Release, Push!InstallPath, Push!Path,
   Login, Root

\* A chunk that gets the key is elevated, and reads a blob its push sealed.
LEMMA KeyedElevated ==
    ASSUME Push!ControlInv
    PROVE  Push!Keyed(pushNo, chunkNo) => Push!D.chunks[chunkNo].elevate /\ Push!SealedRefs(pushNo) # {}
BY DEF Push!ControlInv, Push!Keyed, Push!SealedReads, Push!SealedRefs, Push!Seals, Push!D

\* What a delivery is vouched for before it streams.
Vouched ==
    /\ (pushPc \in {"release", "gate", "upload", "uploading"} \cup Push!Streaming /\ ~Push!Preview)
           => Login >= Push!HasSchema
    /\ (pushPc \in {"upload", "uploading"} \cup Push!Streaming /\ Push!SealedRefs(pushNo) # {})
           => Root >= Push!DecryptsSealed
    /\ (pushPc \in Push!Streaming /\ Push!Preview) => \A e \in BOOLEAN : Push!NeedsContext(e) =>
           Push!Release(e) = Push!Controller
    /\ pushPc = "unstage" /\ failing = "no" => hostBin[Push!InstallPath] >= Push!HasSchema

\* Probes, installation and gate establish it.
LEMMA EarlyVouched ==
    ASSUME Push!ConstantsOK, Push!ControlInv, Push!FitInv, Early, pushNo' = pushNo,
           Push!Preview' = Push!Preview, Push!Path' = Push!Path, Push!SealedRefs(pushNo)' =
               Push!SealedRefs(pushNo),
           \A e \in BOOLEAN : Push!NeedsContext(e)' = Push!NeedsContext(e)
    PROVE  /\ Vouched' /\ hostBin' \in [Locations -> 0..Push!Controller]
           /\ gonfPath' \in Locations \cup {NoPath}
<1> USE DEF Push!host, Push!history, Push!Go, Push!Fail, Push!End
<1>0. /\ \A e \in BOOLEAN : Push!Release(e) \in 0..Push!Controller
      /\ Login \in 0..Push!Controller
      /\ Push!InstallPath \in Locations /\ Push!InstallPath # NoPath
      /\ hostBin \in [Locations -> 0..Push!Controller] /\ gonfPath \in Locations \cup {NoPath}
  BY PushPlaces DEF Push!FitInv
<1>1. UNCHANGED <<hostBin, gonfPath>> =>
         Login' = Login /\ Root' = Root /\ \A e \in BOOLEAN : Push!Release(e)' = Push!Release(e)
  BY DEF Push!Release, Login, Root
<1>2. CASE Push!Start \/ Push!BuildTarget \/ Push!Mktemp \/ Push!Scp
  <2>1. /\ UNCHANGED <<hostBin, gonfPath>>
        /\ pushPc' \in {"ended", "require", "probe", "mktemp", "scp", "install"}
              \/ (pushPc' = "unstage" /\ failing' = "yes")
    BY <1>2 DEF Push!Start, Push!BuildTarget, Push!Mktemp, Push!Scp, Push!Unstage
  <2> QED
    BY <1>0, <2>1 DEF Vouched, Push!Streaming
<1>3. CASE Push!Require
  <2>1. /\ UNCHANGED <<hostBin, gonfPath>>
        /\ \/ pushPc' = "ended"
           \/ pushPc' = "chunk" /\ \A e \in BOOLEAN : Push!NeedsContext(e) =>
                  Push!Release(e) >= Push!Controller
    BY <1>3 DEF Push!Require
  <2>2. CASE pushPc' = "ended"
    BY <1>0, <2>1, <2>2 DEF Vouched, Push!Streaming
  <2>3. CASE pushPc' = "chunk" /\ \A e \in BOOLEAN : Push!NeedsContext(e) =>
                 Push!Release(e) >= Push!Controller
    <3>1. Push!Preview /\ ~Push!HasBlobs(pushNo)
      BY <1>3 DEF Push!Require, Push!ControlInv
    <3>2. Push!SealedRefs(pushNo) = {}
      BY <3>1, NoBlobsNotSticky DEF Push!SealedRefs
    <3>3. \A e \in BOOLEAN : Push!NeedsContext(e) => Push!Release(e) = Push!Controller
      BY <1>0, <2>3 DEF Push!Controller
    <3> QED
      BY <1>0, <1>1, <2>1, <2>3, <3>1, <3>2, <3>3 DEF Vouched
  <2> QED
    BY <2>1, <2>2, <2>3
<1>4. CASE Push!Probe \/ Push!ProbeRelease
  <2>1. /\ UNCHANGED <<hostBin, gonfPath>>
        /\ \/ pushPc' \in {"ended", "target"}
           \/ pushPc = "probe" /\ pushPc' = "release" /\ ~(Login < Push!HasSchema)
           \/ pushPc = "release" /\ pushPc' = "gate"
    BY <1>4 DEF Push!Probe, Push!ProbeRelease, Login
  <2>2. pushPc = "release" => Login >= Push!HasSchema
    BY DEF Push!FitInv, Push!ControlInv, Push!Installing, Login
  <2>3. pushPc' \in {"release", "gate"} => Login' >= Push!HasSchema
    <3>1. Login \in 0..Push!Controller
      BY <1>0
    <3>2. Login' = Login
      BY <1>1, <2>1
    <3>3. pushPc' \in {"release", "gate"} => Login >= Push!HasSchema
      BY <2>1, <2>2, <3>1 DEF Push!HasSchema, Push!Controller
    <3> QED
      BY <3>2, <3>3
  <2> QED
    BY <1>0, <2>1, <2>3 DEF Vouched, Push!Streaming
<1>5. CASE Push!Install
  <2>1. \E r \in 0..Push!Controller : hostBin' = [hostBin EXCEPT ![Push!InstallPath] = r]
    BY <1>0, <1>5 DEF Push!Install, Push!Unstage, Push!None, Push!Controller
  <2>2. gonfPath' = gonfPath /\ (pushPc' = "verify" \/ (pushPc' = "unstage" /\ failing' = "yes"))
    BY <1>5 DEF Push!Install, Push!Unstage
  <2> QED
    BY <1>0, <2>1, <2>2 DEF Vouched, Push!Streaming
<1>6. CASE Push!Verify
  <2>1. /\ UNCHANGED <<hostBin, gonfPath>> /\ pushPc' = "unstage"
        /\ failing' = "yes" \/ hostBin[Push!InstallPath] >= Push!HasSchema
    BY <1>6 DEF Push!Verify, Push!Unstage
  <2> QED
    BY <1>0, <2>1 DEF Vouched, Push!Streaming, Push!InstallPath
<1>7. CASE Push!RemoveStaging
  <2>1. /\ hostBin' = hostBin /\ pushPc = "unstage"
        /\ \/ pushPc' = "ended" /\ gonfPath' = gonfPath
           \/ pushPc' = "gate" /\ gonfPath' = Push!InstallPath /\ failing # "yes"
    BY <1>7 DEF Push!RemoveStaging
  <2>2. CASE pushPc' = "ended" /\ gonfPath' = gonfPath
    BY <1>0, <2>1, <2>2 DEF Vouched, Push!Streaming
  <2>3. CASE pushPc' = "gate" /\ gonfPath' = Push!InstallPath /\ failing # "yes"
    <3>1. hostBin[Push!InstallPath] >= Push!HasSchema
      BY <2>1, <2>3 DEF Push!FitInv, Push!ControlInv
    <3>2. Login' = hostBin[Push!InstallPath]
      BY <1>0, <2>1, <2>3 DEF Push!Release, Login, Login
    <3> QED
      BY <1>0, <2>1, <2>3, <3>1, <3>2 DEF Vouched, Push!Streaming
  <2> QED
    BY <2>1, <2>2, <2>3
<1>8. CASE Push!Gate
  <2>1. /\ UNCHANGED <<hostBin, gonfPath>> /\ pushPc = "gate"
        /\ \/ pushPc' = "ended"
           \/ /\ Push!SealedRefs(pushNo) # {} => Root >= Push!DecryptsSealed
              /\ pushPc' \in {"upload", "chunk"}
    BY <1>8 DEF Push!Gate, Root
  <2>2. ~Push!Preview /\ Login >= Push!HasSchema
    BY <2>1 DEF Push!ControlInv, Push!FitInv, Push!Installing, Login
  <2> QED
    BY <1>0, <1>1, <2>1, <2>2 DEF Vouched, Push!Streaming
<1> QED
  BY <1>2, <1>3, <1>4, <1>5, <1>6, <1>7, <1>8 DEF Early

\* What runs is fit: the chunk of a preview is vouched for in its context, the
\* one of a push as login user by the probe, and with a key by the gate.
LEMMA RunFits ==
    ASSUME Push!ConstantsOK, Push!ControlInv, Push!FitInv, pushPc \in {"upload", "chunk"},
           NEW e \in BOOLEAN, NEW keyed,
           pushPc = "upload" => e = FALSE /\ keyed = FALSE,
           pushPc = "chunk" => e = Push!D.chunks[chunkNo].elevate /\ keyed = Push!Keyed(pushNo, chunkNo)
    PROVE  LET r == [k |-> pushNo, elevate |-> e, keyed |-> keyed, release |-> Push!Release(e)]
           IN  /\ Push!Deliveries[r.k].mode = "preview" => r.release = Push!Controller
               /\ ~r.elevate => r.release >= Push!HasSchema
               /\ r.keyed => r.release >= Push!DecryptsSealed
<1>1. /\ ~Push!Preview => Login >= Push!HasSchema
      /\ Push!SealedRefs(pushNo) # {} => Root >= Push!DecryptsSealed
      /\ (pushPc = "chunk" /\ Push!Preview) => \A b \in BOOLEAN : Push!NeedsContext(b) =>
             Push!Release(b) = Push!Controller
      /\ pushPc = "upload" => ~Push!Preview
  BY DEF Push!FitInv, Push!ControlInv, Push!Streaming, Push!Installing, Login, Root
<1>2. Push!Deliveries[pushNo].mode = "preview" => Push!Release(e) = Push!Controller
  <2>1. pushPc = "chunk" => Push!NeedsContext(e)
    BY DEF Push!NeedsContext, Push!ControlInv
  <2> QED
    BY <1>1, <2>1 DEF Push!Preview, Push!D
<1>3. ~e => Push!Release(e) >= Push!HasSchema
  <2>1. CASE e = FALSE
    <3>1. Push!Release(e) = Login
      BY <2>1, Zenon DEF Login
    <3>2. Push!Release(e) = Push!Controller \/ Login >= Push!HasSchema
      BY <1>1, <1>2 DEF Push!Preview, Push!D
    <3> QED
      BY <3>1, <3>2 DEF Push!HasSchema, Push!Controller
  <2> QED
    BY <2>1
<1>4. keyed => Push!Release(e) >= Push!DecryptsSealed
  <2>1. CASE pushPc = "chunk" /\ keyed
    <3>1. e = TRUE /\ Push!SealedRefs(pushNo) # {}
      BY <2>1, KeyedElevated
    <3>2. Push!Release(e) = Root
      BY <3>1, Zenon DEF Root
    <3> QED
      BY <1>1, <3>1, <3>2
  <2> QED
    BY <2>1
<1> QED
  BY <1>2, <1>3, <1>4

\* A delivery changes no binary once it streams.
LEMMA FitStep ==
    ASSUME Push!ConstantsOK, Push!ControlInv, Push!SessionInv, Push!AttachedInv, Push!FitInv, Push!Next
    PROVE  Push!FitInv'
<1>1. /\ Push!Deliveries' = Push!Deliveries /\ Push!Path' = Push!Path
      /\ \A d : Push!SealedRefs(d)' = Push!SealedRefs(d)
  BY SettingKept, PlansKept
<1>2. pushNo' = pushNo => /\ Push!Preview' = Push!Preview /\ Push!SealedRefs(pushNo)' = Push!SealedRefs(pushNo)
                /\ \A e \in BOOLEAN : Push!NeedsContext(e)' = Push!NeedsContext(e)
  BY <1>1 DEF Push!D, Push!Preview, Push!NeedsContext
<1>3. UNCHANGED <<hostBin, gonfPath>> =>
         Login' = Login /\ Root' = Root /\ \A e \in BOOLEAN : Push!Release(e)' = Push!Release(e)
  BY <1>1 DEF Push!Release, Login, Root
<1>4. /\ hostBin \in [Locations -> 0..Push!Controller] /\ gonfPath \in Locations \cup {NoPath}
      /\ Vouched /\ Push!BinaryFits
  BY DEF Push!FitInv, Vouched, Login, Root
<1>5. SUFFICES Vouched' /\ Push!BinaryFits' /\ hostBin' \in [Locations -> 0..Push!Controller]
               /\ gonfPath' \in Locations \cup {NoPath}
  BY DEF Push!FitInv, Vouched, Login, Root
<1>6. ran' = ran => Push!BinaryFits'
  BY <1>1, <1>4 DEF Push!BinaryFits
<1>7. CASE Early
  <2>1. pushNo' = pushNo /\ ran' = ran
    BY <1>7, EarlySteps
  <2> QED
    BY <1>1, <1>2, <1>6, <1>7, <2>1, EarlyVouched
<1>8. CASE Push!Upload \/ Push!StreamChunk
  <2>1. /\ UNCHANGED <<hostBin, gonfPath, pushNo>>
        /\ \/ pushPc = "upload" /\ pushPc' \in {"uploading", "clean"}
           \/ pushPc = "chunk" /\ pushPc' \in {"applying", "clean", "ended"}
    BY <1>8 DEF Push!Upload, Push!StreamChunk, Push!Go, Push!AfterFailure, Push!Fail, Push!End,
       Push!host
  <2>2. Vouched'
    BY <1>2, <1>3, <1>4, <2>1 DEF Vouched, Push!Streaming
  <2>3. Push!BinaryFits'
    <3>1. CASE pushPc = "upload"
      <4>1. FALSE \in BOOLEAN /\ pushPc # "chunk"
        BY <3>1
      <4> DEFINE r == [k |-> pushNo, elevate |-> FALSE, keyed |-> FALSE,
                     release |-> Push!Release(FALSE)]
      <4>2. /\ Push!Deliveries[r.k].mode = "preview" => r.release = Push!Controller
            /\ ~r.elevate => r.release >= Push!HasSchema
            /\ r.keyed => r.release >= Push!DecryptsSealed
        BY <3>1, <4>1, RunFits
      <4>3. ran' = ran \/ ran' = ran \cup {r}
        BY <1>8, <3>1 DEF Push!Upload, Push!StreamChunk
      <4> HIDE DEF r
      <4> QED
        BY <1>1, <1>4, <4>2, <4>3 DEF Push!BinaryFits
    <3>2. CASE pushPc = "chunk"
      <4> DEFINE e == Push!D.chunks[chunkNo].elevate
      <4>1. e \in BOOLEAN /\ pushPc # "upload"
        BY <3>2, Numbers DEF Push!ConstantsOK, Push!ControlInv, Push!D, Push!Deliveries
      <4> DEFINE r == [k |-> pushNo, elevate |-> e, keyed |-> Push!Keyed(pushNo, chunkNo),
                     release |-> Push!Release(e)]
      <4>2. /\ Push!Deliveries[r.k].mode = "preview" => r.release = Push!Controller
            /\ ~r.elevate => r.release >= Push!HasSchema
            /\ r.keyed => r.release >= Push!DecryptsSealed
        BY <3>2, <4>1, RunFits
      <4>3. ran' = ran \/ ran' = ran \cup {r}
        BY <1>8, <3>2 DEF Push!Upload, Push!StreamChunk
      <4> HIDE DEF r
      <4> QED
        BY <1>1, <1>4, <4>2, <4>3 DEF Push!BinaryFits
    <3> QED
      BY <2>1, <3>1, <3>2
  <2> QED
    BY <1>4, <2>1, <2>2, <2>3
<1>9. CASE Push!RemoveSticky \/ Push!Returned \/ Push!Drop
  <2>1. /\ UNCHANGED <<hostBin, gonfPath, pushNo, ran>>
        /\ \/ pushPc = "uploading" /\ pushPc' = "chunk"
           \/ pushPc = "applying" /\ pushPc' = "chunk"
           \/ pushPc' \in {"clean", "cleaning", "ended"}
    BY <1>9, ReturnedStep, DropStep DEF Push!RemoveSticky, Push!Go, Push!AfterFailure,
       Push!AfterLast, Push!Fail, Push!End, Push!host, Push!history
  <2>2. pushPc = "uploading" => ~Push!Preview
    BY DEF Push!ControlInv
  <2> QED
    BY <1>2, <1>3, <1>4, <1>6, <2>1, <2>2 DEF Vouched, Push!Streaming
<1>10. CASE Push!NextDelivery
  <2>1. /\ pushPc' = "start" /\ gonfPath' = TargetPath /\ UNCHANGED <<hostBin, ran>>
    BY <1>10 DEF Push!NextDelivery, Push!host, Push!history
  <2> QED
    BY <1>4, <1>6, <2>1, PushPlaces DEF Vouched, Push!Streaming
<1>11. CASE Push!Cancel
  <2>1. UNCHANGED <<hostBin, gonfPath, pushNo, ran, pushPc, failing>>
    BY <1>11 DEF Push!Cancel, Push!host, Push!history
  <2> QED
    BY <1>2, <1>3, <1>4, <1>6, <2>1 DEF Vouched, Push!InstallPath
<1>12. CASE \E s \in sessions : s.step \notin {"ok", "failed"} /\ Push!RemoteStep(s)
  <2>1. UNCHANGED <<hostBin, gonfPath, pushNo, ran, pushPc, failing>>
    BY <1>12, RemoteSteps DEF Push!control
  <2> QED
    BY <1>2, <1>3, <1>4, <1>6, <2>1 DEF Vouched, Push!InstallPath
<1> QED
  BY <1>7, <1>8, <1>9, <1>10, <1>11, <1>12, PushStepCases

(***************************************************************************)
(* The files in the sticky directory                                       *)
(***************************************************************************)
\* What the sessions do to the directory.
LEMMA DirectorySteps ==
    ASSUME Push!Next
    PROVE  \/ UNCHANGED <<sticky, files>>
           \/ \E s \in sessions :
                 /\ s.step \notin {"ok", "failed"} /\ Push!RemoteStep(s)
                 /\ \/ s.kind = "rm" /\ sticky' = FALSE /\ files' = Push!Empty /\ Push!Becomes(s, "ok")
                    \/ /\ s.kind = "upload" /\ s.step = "start"
                       /\ sticky' = (sticky \/ Push!Sticky(s.k)) /\ files' = Push!Empty /\
                              Push!Becomes(s, "extract")
                    \/ /\ s.kind = "chunk" /\ s.step = "start"
                       /\ sticky' = (sticky \/ Push!Sticky(s.k)) /\ files' = files /\
                              Push!Becomes(s, "stage")
                    \/ /\ s.kind = "upload" /\ s.step = "extract"
                       /\ \E x \in s.left :
                             /\ sticky' = TRUE /\ files' = [files EXCEPT ![x] = s.k]
                             /\ sessions' = (sessions \ {s}) \cup {[s EXCEPT !.left = @ \ {x}]}
<1>1. CASE Early \/ Push!Cancel \/ Push!Upload \/ Push!StreamChunk \/ Push!RemoveSticky \/
               Push!Returned \/ Push!NextDelivery \/ Push!Drop
  BY <1>1, EarlySteps DEF Push!Cancel, Push!Upload, Push!StreamChunk, Push!RemoveSticky,
     Push!Returned, Push!NextDelivery, Push!Drop, Push!host
<1>2. ASSUME NEW s \in sessions, s.step \notin {"ok", "failed"}, Push!RemoteStep(s)
      PROVE  \/ UNCHANGED <<sticky, files>>
             \/ s.kind = "rm" /\ sticky' = FALSE /\ files' = Push!Empty /\ Push!Becomes(s, "ok")
             \/ /\ s.kind = "upload" /\ s.step = "start"
                /\ sticky' = (sticky \/ Push!Sticky(s.k)) /\ files' = Push!Empty /\
                       Push!Becomes(s, "extract")
             \/ /\ s.kind = "chunk" /\ s.step = "start"
                /\ sticky' = (sticky \/ Push!Sticky(s.k)) /\ files' = files /\ Push!Becomes(s, "stage")
             \/ /\ s.kind = "upload" /\ s.step = "extract"
                /\ \E x \in s.left :
                      /\ sticky' = TRUE /\ files' = [files EXCEPT ![x] = s.k]
                      /\ sessions' = (sessions \ {s}) \cup {[s EXCEPT !.left = @ \ {x}]}
  <2>1. CASE Push!Stage(s) \/ Push!Apply(s)
    BY <2>1 DEF Push!Stage, Push!Apply, Push!host
  <2>2. CASE Push!RemoveDir(s)
    BY <2>2 DEF Push!RemoveDir
  <2>3. CASE Push!Prepare(s)
    BY <2>3 DEF Push!Prepare
  <2>4. CASE Push!Extract(s)
    BY <2>4 DEF Push!Extract
  <2> QED
    BY <1>2, <2>1, <2>2, <2>3, <2>4 DEF Push!RemoteStep
<1> QED
  BY <1>1, <1>2, PushStepCases

\* No file is in the empty directory.
LEMMA EmptyDirectory == Push!Empty \in [Push!Names -> Nat] /\ \A y \in Push!Names : Push!Empty[y] = 0
BY DEF Push!Empty, Push!Names

\* Sessions write only what their delivery uploads.
LEMMA FilesStep ==
    ASSUME Push!ConstantsOK, Push!ControlInv, Push!SessionInv, Push!FilesInv, Push!Next
    PROVE  Push!FilesInv'
<1>1. \A d : Push!Sticky(d)' = Push!Sticky(d) /\ Push!Uploaded(d)' = Push!Uploaded(d)
  BY SettingKept, PlansKept
<1>2. pushNo \in Nat /\ (pushNo' = pushNo \/ pushNo' = pushNo + 1)
  <2>1. CASE Push!NextDelivery
    BY <2>1, Numbers DEF Push!NextDelivery
  <2>2. CASE Early \/ Push!Cancel \/ Push!Upload \/ Push!StreamChunk \/ Push!RemoveSticky \/
                 Push!Returned \/ Push!Drop
    <3>1. pushNo' = pushNo
      BY <2>2, EarlySteps DEF Push!Cancel, Push!Upload, Push!StreamChunk, Push!RemoveSticky,
         Push!Returned, Push!Drop
    <3> QED
      BY <3>1, Numbers
  <2>3. CASE \E s \in sessions : s.step \notin {"ok", "failed"} /\ Push!RemoteStep(s)
    BY <2>3, RemoteSteps, Numbers DEF Push!control
  <2> QED
    BY <2>1, <2>2, <2>3, PushStepCases
<1>3. \A n \in 1..pushNo : n \in 1..pushNo' /\ n \in Nat
  BY <1>2
<1>4. CASE UNCHANGED <<sticky, files>>
  BY <1>1, <1>3, <1>4 DEF Push!FilesInv
<1>5. ASSUME NEW s \in sessions, NEW x \in s.left,
             s.kind = "upload", sticky' = TRUE, files' = [files EXCEPT ![x] = s.k]
      PROVE  Push!FilesInv'
  <2>1. s.k \in 1..pushNo /\ Push!Sticky(s.k) /\ x \in Push!Uploaded(s.k)
    BY <1>5 DEF Push!SessionInv
  <2>2. files' \in [Push!Names -> Nat]
    BY <1>3, <1>5, <2>1 DEF Push!FilesInv
  <2> QED
    BY <1>1, <1>3, <1>5, <2>1, <2>2 DEF Push!FilesInv
<1>6. CASE files' = Push!Empty /\ sticky' \in BOOLEAN
  BY <1>6, EmptyDirectory DEF Push!FilesInv
<1>7. \/ UNCHANGED <<sticky, files>>
      \/ \E s \in sessions : \E x \in s.left :
            s.kind = "upload" /\ sticky' = TRUE /\ files' = [files EXCEPT ![x] = s.k]
      \/ files' = Push!Empty /\ sticky' \in BOOLEAN
      \/ files' = files /\ sticky' \in BOOLEAN
  BY DirectorySteps
<1>8. CASE files' = files /\ sticky' \in BOOLEAN
  BY <1>1, <1>3, <1>8 DEF Push!FilesInv
<1> QED
  BY <1>4, <1>5, <1>6, <1>7, <1>8

\* A file of a blob in the clear, and a sealed blob.
Plain(ref, e) == <<ref, e, FALSE>>
Sealed(ref) == <<ref, 1, TRUE>>
ReadRefs(d) == {r.ref : r \in Push!Reads(d)}

\* They are different names.
LEMMA PlainAndSealed ==
    /\ \A r1, e1, r2, e2 : Plain(r1, e1) = Plain(r2, e2) => r1 = r2 /\ e1 = e2
    /\ \A r1, e1, r2 : Plain(r1, e1) # Sealed(r2)
    /\ \A r1, r2 : Sealed(r1) = Sealed(r2) => r1 = r2
BY DEF Plain, Sealed

\* What a delivery uploads: a blob that it seals sealed, every other in the clear.
LEMMA UploadedNames ==
    ASSUME NEW d
    PROVE  /\ \A ref : Sealed(ref) \in Push!Uploaded(d) <=> ref \in Push!SealedRefs(d)
           /\ \A ref, e : Plain(ref, e) \in Push!Uploaded(d) <=>
                  ref \in ReadRefs(d) \ Push!SealedRefs(d) /\ e \in Push!Deliveries[d].tree[ref]
<1>1. Push!Uploaded(d) = {Sealed(ref) : ref \in Push!SealedRefs(d)} \cup
                    UNION {{Plain(ref, e) : e \in Push!Deliveries[d].tree[ref]} :
                                ref \in ReadRefs(d) \ Push!SealedRefs(d)}
  BY DEF Push!Uploaded, Plain, Sealed, ReadRefs
<1> QED
  BY <1>1, PlainAndSealed

\* What a push uploads in the clear is read by a chunk that may read it so.
LEMMA PlainMeansRead ==
    ASSUME NEW d, NEW ref, NEW e, Plain(ref, e) \in Push!Uploaded(d), Push!Sticky(d)
    PROVE  \E c \in DOMAIN Push!Deliveries[d].chunks :
              \E r \in Push!Deliveries[d].chunks[c].reads :
                 r.ref = ref /\ ~(Push!Deliveries[d].chunks[c].elevate /\ r.sensitive)
<1>1. ref \in ReadRefs(d) /\ ref \notin Push!SealedRefs(d)
  BY UploadedNames
<1>2. PICK c \in DOMAIN Push!Deliveries[d].chunks : \E r \in Push!Deliveries[d].chunks[c].reads :
               r.ref = ref
  BY <1>1 DEF Push!Reads, ReadRefs
<1>3. PICK r \in Push!Deliveries[d].chunks[c].reads : r.ref = ref
  BY <1>2
<1>4. r \notin Push!SealedReads(d, c)
  BY <1>1, <1>3 DEF Push!SealedRefs
<1> QED
  BY <1>3, <1>4 DEF Push!SealedReads, Push!Seals

\* So no secret lies in the directory in the clear.
LEMMA FilesSealed ==
    ASSUME Push!ConstantsOK, Push!ControlInv, Push!FilesInv
    PROVE  Push!SecretsSealed
<1> SUFFICES ASSUME NEW ref \in Refs, NEW d \in DOMAIN Push!Deliveries, NEW e \in Entries,
                    files[Plain(ref, e)] = d
             PROVE  \E c \in DOMAIN Push!Deliveries[d].chunks :
                       \E r \in Push!Deliveries[d].chunks[c].reads :
                          r.ref = ref /\ ~(Push!Deliveries[d].chunks[c].elevate /\ r.sensitive)
  BY ZenonT(60) DEF Push!SecretsSealed, Plain
<1>1. Plain(ref, e) \in Push!Names
  BY DEF Push!Names, Plain
<1>2. d # 0
  BY Numbers
<1>3. Push!Sticky(d) /\ Plain(ref, e) \in Push!Uploaded(d)
  BY <1>1, <1>2 DEF Push!FilesInv
<1> QED
  BY <1>3, PlainMeansRead

(***************************************************************************)
(* Which push the files are from                                           *)
(***************************************************************************)
\* What BlobsInv says of the directory when no session outlives its ssh.
Filled ==
    /\ \A s \in sessions : s.kind = "upload" =>
          /\ s.step = "extract" => Push!HoldsOnly(Push!Uploaded(pushNo) \ s.left)
          /\ s.step = "ok" => Push!HoldsOnly(Push!Uploaded(pushNo))
    /\ pushPc \in Push!Streaming /\ Push!Sticky(pushNo) => Push!HoldsOnly(Push!Uploaded(pushNo))

\* The upload empties the directory, and fills it entry by entry.
LEMMA FilledStep ==
    ASSUME Push!ConstantsOK, Push!ControlInv, Push!SessionInv, Push!AttachedInv, Push!FilesInv,
               Push!Next, ~Push!Linger, Filled
    PROVE  Filled'
<1>1. \A d : Push!Sticky(d)' = Push!Sticky(d) /\ Push!Uploaded(d)' = Push!Uploaded(d)
  BY SettingKept, PlansKept
<1>2. /\ pushPc \notin {"uploading", "applying", "cleaning"} => sessions = {}
      /\ \A s, t \in sessions : s = t /\ s.k = pushNo
  BY Waiting
<1>4. CASE Early
  <2>1. sessions' = {} /\ pushNo' = pushNo
    BY <1>2, <1>4, EarlySteps DEF Push!Installing
  <2>2. pushPc' \in Push!Streaming => ~Push!Sticky(pushNo)
    <3>1. pushPc' \in Push!Streaming => pushPc = "require" \/ (pushPc = "gate" /\ ~Push!Sticky(pushNo))
      BY <1>4, EarlySteps DEF Push!Streaming, Push!Installing
    <3>2. pushPc = "require" => ~Push!Sticky(pushNo)
      BY NoBlobsNotSticky DEF Push!ControlInv
    <3> QED
      BY <3>1, <3>2
  <2> QED
    BY <1>1, <2>1, <2>2 DEF Filled
<1>5. CASE Push!Upload \/ Push!StreamChunk \/ Push!RemoveSticky
  <2>1. /\ sessions = {} /\ UNCHANGED <<pushNo, files>>
        /\ pushPc' \in Push!Streaming => pushPc \in Push!Streaming
    BY <1>2, <1>5 DEF Push!Upload, Push!StreamChunk, Push!RemoveSticky, Push!Go, Push!AfterFailure,
       Push!Fail, Push!End, Push!Streaming, Push!host
  <2>2. \A s \in sessions' : s.step \in {"start", "failed"}
    <3>1. \/ sessions' = {}
          \/ Push!Open("upload", FALSE, FALSE)
          \/ Push!Open("chunk", Push!D.chunks[chunkNo].elevate, Push!Keyed(pushNo, chunkNo))
          \/ Push!Open("rm", FALSE, FALSE)
      BY <1>5, <2>1 DEF Push!Upload, Push!StreamChunk, Push!RemoveSticky
    <3>2. ASSUME NEW kind, NEW e, NEW keyed, Push!Open(kind, e, keyed)
          PROVE  \A s \in sessions' : s.step \in {"start", "failed"}
      <4>1. PICK t : sessions' = sessions \cup {t} /\ t.step \in {"start", "failed"}
        BY <3>2, OpenStep
      <4> QED
        BY <2>1, <4>1
    <3> QED
      BY <3>1, <3>2
  <2>3. \A y : Push!HoldsOnly(y)' = Push!HoldsOnly(y)
    BY <2>1 DEF Push!HoldsOnly
  <2> QED
    BY <1>1, <2>1, <2>2, <2>3 DEF Filled
<1>6. CASE Push!Returned
  <2>1. PICK s \in sessions :
          /\ sessions' = sessions \ {s} /\ UNCHANGED <<pushNo, files>>
          /\ \/ pushPc = "uploading" /\ s.kind = "upload" /\ s.step = "ok"
             \/ pushPc' \in {"ended", "clean"}
             \/ pushPc = "applying"
    BY <1>6, ReturnedStep DEF Push!AfterFailure, Push!Fail, Push!End, Push!host
  <2>2. sessions' = {} /\ \A y : Push!HoldsOnly(y)' = Push!HoldsOnly(y)
    BY <1>2, <2>1 DEF Push!HoldsOnly
  <2> QED
    BY <1>1, <2>1, <2>2 DEF Filled, Push!Streaming
<1>7. CASE Push!Drop
  <2>1. PICK s \in sessions : \A t \in sessions' : t \in sessions \ {s} \/ Push!Linger
    BY <1>7, DropStep
  <2>2. pushPc' \in {"ended", "clean"}
    BY <1>7, DropStep DEF Push!AfterFailure, Push!Fail, Push!End
  <2>3. sessions' = {}
    BY <1>2, <2>1
  <2> QED
    BY <2>2, <2>3 DEF Filled, Push!Streaming
<1>8. CASE Push!NextDelivery
  BY <1>2, <1>8 DEF Push!NextDelivery, Filled, Push!Streaming
<1>9. CASE Push!Cancel
  BY <1>1, <1>9 DEF Push!Cancel, Filled, Push!HoldsOnly, Push!host
<1>10. ASSUME NEW s \in sessions, s.step \notin {"ok", "failed"}, Push!RemoteStep(s)
       PROVE  Filled'
  <2>1. /\ pushNo' = pushNo /\ pushPc' = pushPc /\ s.k = pushNo /\ Push!IsSession(s)
        /\ \/ s.kind = "upload" /\ pushPc = "uploading"
           \/ s.kind = "chunk" /\ pushPc = "applying"
           \/ s.kind = "rm" /\ pushPc = "cleaning"
    BY <1>2, <1>10, RemoteSteps DEF Push!control, Push!AttachedInv, Push!Attached, Push!SessionInv
  <2>2. CASE s.kind \in {"chunk", "rm"}
    <3>1. \A t \in sessions' : t.kind # "upload"
      BY <1>2, <1>10, <2>2, RemoteSteps
    <3>2. s.kind = "chunk" => files' = files
      BY <1>10, <2>1 DEF Push!RemoteStep, Push!RemoveDir, Push!Prepare, Push!Extract, Push!Stage,
         Push!Apply, Push!host
    <3>3. files' = files => \A y : Push!HoldsOnly(y)' = Push!HoldsOnly(y)
      BY <2>1 DEF Push!HoldsOnly
    <3> QED
      BY <1>1, <2>1, <2>2, <3>1, <3>2, <3>3 DEF Filled, Push!Streaming
  <2>3. CASE s.kind = "upload"
    <3>1. pushPc' \notin Push!Streaming /\ s.left \subseteq Push!Uploaded(pushNo)
      BY <2>1, <2>3 DEF Push!Streaming, Push!SessionInv
    <3>2. CASE Push!Prepare(s)
      <4>1. Push!Becomes(s, "extract") /\ files' = Push!Empty /\ s.left = Push!Uploaded(pushNo)
        BY <2>1, <2>3, <3>2 DEF Push!Prepare, Push!SessionInv
      <4>2. PICK t : /\ sessions' \subseteq (sessions \ {s}) \cup {t}
                     /\ t.step = "extract" /\ t.left = s.left
        BY <2>1, <4>1, BecomesStep
      <4>3. \A u \in sessions' : u.left = Push!Uploaded(pushNo) /\ u.step = "extract"
        BY <1>2, <4>1, <4>2
      <4>4. Push!HoldsOnly({})'
        BY <4>1, EmptyDirectory DEF Push!HoldsOnly
      <4>5. \A u \in sessions' : (Push!Uploaded(pushNo) \ u.left)' = {}
        BY <1>1, <2>1, <4>3
      <4> QED
        BY <3>1, <4>3, <4>4, <4>5 DEF Filled, Push!HoldsOnly
    <3>3. ASSUME NEW x \in s.left, s.step = "extract", files' = [files EXCEPT ![x] = s.k],
                 sessions' = (sessions \ {s}) \cup {[s EXCEPT !.left = @ \ {x}]}
          PROVE  Filled'
      <4> DEFINE l == s.left \ {x}
                 n == [s EXCEPT !.left = l]
      <4>1. sessions' = (sessions \ {s}) \cup {n}
        BY <3>3
      <4>2. n.left = l /\ n.step = "extract"
        BY <2>1, <3>3, SetLeft
      <4> HIDE DEF n
      <4>3. \A u \in sessions' : u.left = s.left \ {x} /\ u.step = "extract"
        BY <1>2, <4>1, <4>2
      <4>4. Push!HoldsOnly(Push!Uploaded(pushNo) \ s.left)
        BY <2>3, <3>3 DEF Filled
      <4>5. \A y \in Push!Names : files'[y] = IF y \in Push!Uploaded(pushNo) \ (s.left \ {x})
                THEN pushNo ELSE 0
        <5>1. SUFFICES ASSUME NEW y \in Push!Names
                       PROVE  files'[y] = IF y \in Push!Uploaded(pushNo) \ (s.left \ {x})
                                  THEN pushNo ELSE 0
          OBVIOUS
        <5>2. y \in DOMAIN files
          BY DEF Push!FilesInv
        <5> QED
          BY <2>1, <3>1, <3>3, <4>4, <5>2 DEF Push!HoldsOnly
      <4> QED
        BY <1>1, <2>1, <3>1, <4>3, <4>5 DEF Filled, Push!HoldsOnly
    <3>4. ASSUME files' = files, (s.left = {} /\ Push!Becomes(s, "ok")) \/ Push!Becomes(s, "failed"),
                 s.step = "extract"
          PROVE  Filled'
      <4>1. PICK t : /\ sessions' \subseteq (sessions \ {s}) \cup {t}
                     /\ t.step = "failed" \/ (t.step = "ok" /\ s.left = {})
        BY <2>1, <3>4, BecomesStep
      <4>2. Push!HoldsOnly(Push!Uploaded(pushNo) \ s.left)
        BY <2>3, <3>4 DEF Filled
      <4>3. s.left = {} => Push!HoldsOnly(Push!Uploaded(pushNo))
        BY <4>2 DEF Push!HoldsOnly
      <4>4. \A u \in sessions' : u.step = "failed" \/ (u.step = "ok" /\ s.left = {})
        BY <1>2, <4>1
      <4> QED
        BY <1>1, <2>1, <3>1, <3>4, <4>3, <4>4 DEF Filled, Push!HoldsOnly
    <3>5. CASE Push!Extract(s)
      <4>1. s.step = "extract"
        BY <3>5 DEF Push!Extract
      <4>2. CASE \E x \in s.left : /\ files' = [files EXCEPT ![x] = s.k]
                                   /\ sessions' = (sessions \ {s}) \cup {[s EXCEPT !.left = @ \ {x}]}
        BY <3>3, <4>1, <4>2
      <4>3. CASE files' = files /\ ((s.left = {} /\ Push!Becomes(s, "ok")) \/ Push!Becomes(s, "failed"))
        BY <3>4, <4>1, <4>3
      <4> QED
        BY <3>5, <4>2, <4>3 DEF Push!Extract
    <3> QED
      BY <1>10, <2>3, <3>2, <3>5 DEF Push!RemoteStep, Push!RemoveDir, Push!Stage, Push!Apply
  <2> QED
    BY <2>1, <2>2, <2>3
<1> QED
  BY <1>4, <1>5, <1>6, <1>7, <1>8, <1>9, <1>10, PushStepCases

\* Without sessions that outlive their ssh, a chunk finds the blobs of its push
\* in the clear, all of them and nothing else.
LEMMA PlainFound ==
    ASSUME Push!ConstantsOK, Push!ControlInv, Push!SessionInv, Push!AttachedInv, Filled, ~Push!Linger,
           NEW s \in sessions, s.kind = "chunk", s.step = "apply", NEW ref \in Push!PlainReads(s)
    PROVE  Push!Found(ref) = {<<e, s.k>> : e \in Push!Deliveries[s.k].tree[ref]}
<1>1. s.k = pushNo /\ pushPc = "applying" /\ s.i = chunkNo /\ Push!Sticky(pushNo)
  BY DEF Push!AttachedInv, Push!Attached, Push!PlainReads
<1>2. PICK r \in Push!D.chunks[chunkNo].reads \ Push!SealedReads(pushNo, chunkNo) : r.ref = ref
  BY <1>1 DEF Push!PlainReads, Push!D
<1>3. chunkNo \in DOMAIN Push!D.chunks /\ pushNo \in DOMAIN Push!Deliveries
  BY DEF Push!ControlInv
<1>4. ~Push!Seals(Push!D.chunks[chunkNo], r)
  BY <1>2 DEF Push!SealedReads, Push!D
<1>5. ref \notin Push!SealedRefs(pushNo)
  BY <1>1, <1>2, <1>3, <1>4 DEF Push!ControlInv, Push!SealedReadElsewhere, Push!D
<1>6. ref \in ReadRefs(pushNo)
  BY <1>2, <1>3 DEF ReadRefs, Push!Reads, Push!D
<1>7. ref \in Refs /\ Push!D.tree[ref] \subseteq Entries
  BY <1>2, <1>3 DEF Push!ConstantsOK, Push!ControlInv, Push!D, Push!Deliveries
<1>8. \A e \in Entries : files[Plain(ref, e)] = IF e \in Push!D.tree[ref] THEN pushNo ELSE 0
  <2>1. SUFFICES ASSUME NEW e \in Entries
                 PROVE  files[Plain(ref, e)] = IF e \in Push!D.tree[ref] THEN pushNo ELSE 0
    OBVIOUS
  <2>2. Plain(ref, e) \in Push!Names
    BY <1>7 DEF Plain, Push!Names
  <2>3. Plain(ref, e) \in Push!Uploaded(pushNo) <=> e \in Push!D.tree[ref]
    BY <1>5, <1>6, UploadedNames DEF Push!D
  <2> QED
    BY <1>1, <2>2, <2>3 DEF Filled, Push!HoldsOnly, Push!Streaming
<1>9. Push!Found(ref) = {<<e, files[Plain(ref, e)]>> : e \in {x \in Entries : files[Plain(ref, x)] # 0}}
  BY DEF Push!Found, Plain
<1>10. pushNo # 0
  BY Numbers
<1>11. {x \in Entries : files[Plain(ref, x)] # 0} = Push!D.tree[ref]
  BY <1>7, <1>8, <1>10
<1> QED
  BY <1>1, <1>7, <1>8, <1>9, <1>11 DEF Push!D

\* A chunk stages and reads what its push uploaded.
LEMMA FreshStep ==
    ASSUME Push!ConstantsOK, Push!ControlInv, Push!SessionInv, Push!AttachedInv, ~Push!Linger =>
               Filled, Push!FreshBlobs, Push!Next
    PROVE  Push!FreshBlobs'
<1>1. Push!Deliveries' = Push!Deliveries /\ Push!Linger' = Push!Linger
  BY SettingKept, PlansKept
<1> DEFINE Fresh(u) ==
        /\ u.sealed => u.found = {<<1, u.k>>}
        /\ ~u.sealed /\ ~Push!Linger => u.found = {<<e, u.k>> : e \in Push!Deliveries[u.k].tree[u.ref]}
<1>2. \A u \in reads : Fresh(u)
  BY DEF Push!FreshBlobs
<1>3. SUFFICES \A u \in reads' : Fresh(u)
  BY <1>1 DEF Push!FreshBlobs
<1>4. CASE reads' = reads
  BY <1>2, <1>4
<1>5. ASSUME NEW s \in sessions, Push!Stage(s)
      PROVE  \A u \in reads' : Fresh(u)
  <2> DEFINE fine == Push!Keyed(s.k, s.i) /\ Push!Sticky(s.k) /\ Push!Decrypts(s)
             N(r) == [k |-> s.k, ref |-> r.ref, sealed |-> TRUE,
                      found |-> {<<1, files[<<r.ref, 1, TRUE>>]>>}]
  <2>1. reads' = reads \/ (fine /\ reads' = reads \cup {N(r) : r \in Push!SealedReads(s.k, s.i)})
    BY <1>5 DEF Push!Stage, Push!Keyed
  <2>2. ASSUME fine, NEW r \in Push!SealedReads(s.k, s.i)
        PROVE  Fresh(N(r))
    BY <2>2 DEF Push!Decrypts
  <2> HIDE DEF Fresh, N, fine
  <2> QED
    BY <1>2, <2>1, <2>2
<1>6. ASSUME NEW s \in sessions, Push!Apply(s)
      PROVE  \A u \in reads' : Fresh(u)
  <2> DEFINE N(r) == [k |-> s.k, ref |-> r, sealed |-> FALSE, found |-> Push!Found(r)]
  <2>1. \/ reads' = reads
        \/ reads' = reads \cup {N(r) : r \in Push!PlainReads(s)}
    BY <1>6 DEF Push!Apply
  <2>2. ASSUME NEW r \in Push!PlainReads(s)
        PROVE  Fresh(N(r))
    <3>1. s.kind = "chunk" /\ s.step = "apply"
      BY <1>6 DEF Push!Apply
    <3>2. ~Push!Linger => Push!Found(r) = {<<e, s.k>> : e \in Push!Deliveries[s.k].tree[r]}
      BY <3>1, PlainFound
    <3> QED
      BY <3>2
  <2> QED
    BY <1>2, <2>1, <2>2
<1>7. CASE Early \/ Push!Cancel \/ Push!Upload \/ Push!StreamChunk \/ Push!RemoveSticky \/
               Push!Returned \/ Push!NextDelivery \/ Push!Drop
  <2>1. reads' = reads
    BY <1>7, EarlySteps DEF Push!Cancel, Push!Upload, Push!StreamChunk, Push!RemoveSticky,
       Push!Returned, Push!NextDelivery, Push!Drop, Push!history
  <2> QED
    BY <1>4, <2>1
<1>8. ASSUME NEW s \in sessions, Push!RemoteStep(s), ~Push!Stage(s), ~Push!Apply(s)
      PROVE  reads' = reads
  BY <1>8 DEF Push!RemoteStep, Push!RemoveDir, Push!Prepare, Push!Extract, Push!history
<1> QED
  BY <1>4, <1>5, <1>6, <1>7, <1>8, PushStepCases

\* Both together.
LEMMA BlobsStep ==
    ASSUME Push!ConstantsOK, Push!ControlInv, Push!SessionInv, Push!AttachedInv, Push!FilesInv,
               Push!BlobsInv, Push!Next
    PROVE  Push!BlobsInv'
<1>1. (~Push!Linger => Filled) /\ Push!FreshBlobs
  BY DEF Push!BlobsInv, Filled
<1>2. Push!Linger' = Push!Linger
  BY SettingKept, PlansKept
<1>3. ~Push!Linger => Filled'
  BY <1>1, FilledStep
<1>4. Push!FreshBlobs'
  BY <1>1, FreshStep
<1> QED
  BY <1>2, <1>3, <1>4 DEF Push!BlobsInv, Filled

(***************************************************************************)
(* What was applied                                                        *)
(***************************************************************************)
\* The controller starts a chunk when the one before it was applied.
LEMMA ChunksStep ==
    ASSUME Push!ConstantsOK, Push!ControlInv, Push!SessionInv, Push!AttachedInv, Push!ChunksInv,
               Push!Next
    PROVE  Push!ChunksInv'
<1> DEFINE Began == {"start", "require", "upload", "uploading"} \cup Push!Installing
           Behind(s) == /\ \A b \in 1..(s.i - 1) : <<s.k, b>> \in applied
                        /\ s.step = "ok" => <<s.k, s.i>> \in applied
           Past == /\ pushPc \in Began => chunkNo = 1
                   /\ pushPc \in Push!Streaming => \A b \in 1..(chunkNo - 1) : <<pushNo, b>> \in applied
                   /\ pushPc \in {"clean", "cleaning"} /\ failing = "no"
                         => \A c \in DOMAIN Push!D.chunks : <<pushNo, c>> \in applied
<1>1. Push!Deliveries' = Push!Deliveries /\ (pushNo' = pushNo => Push!D' = Push!D)
  BY SettingKept, PlansKept DEF Push!D
<1>2. /\ pushNo \in Nat /\ chunkNo \in Nat /\ chunkNo >= 1 /\
             DOMAIN Push!D.chunks = 1..Len(Push!D.chunks) /\ Len(Push!D.chunks) \in Nat
      /\ pushNo \in DOMAIN Push!Deliveries /\ DOMAIN results = DOMAIN Push!Deliveries
  BY Numbers DEF Push!D, Push!ControlInv
<1>3. /\ \A s \in sessions : s.kind = "chunk" => Behind(s)
      /\ Past /\ Push!SuccessMeansApplied
  BY DEF Push!ChunksInv
<1>4. SUFFICES /\ \A s \in sessions' : s.kind = "chunk" => Behind(s)'
               /\ Past' /\ Push!SuccessMeansApplied'
  BY DEF Push!ChunksInv
<1>5. ASSUME applied' = applied, results' = results \/ results' = [results EXCEPT ![pushNo] = "failed"]
      PROVE  Push!SuccessMeansApplied'
  BY <1>1, <1>2, <1>3, <1>5 DEF Push!SuccessMeansApplied
<1>6. ASSUME applied' = applied, results' = [results EXCEPT ![pushNo] = "ok"],
             \A c \in DOMAIN Push!D.chunks : <<pushNo, c>> \in applied
      PROVE  Push!SuccessMeansApplied'
  BY <1>1, <1>2, <1>3, <1>6 DEF Push!SuccessMeansApplied, Push!D
<1>7. applied' = applied => \A s : Behind(s) => Behind(s)'
  OBVIOUS
<1>8. CASE Early
  <2>1. /\ UNCHANGED <<pushNo, chunkNo, sessions, applied>>
        /\ results' = results \/ results' = [results EXCEPT ![pushNo] = "failed"]
        /\ pushPc' \notin {"clean", "cleaning", "applying"} /\ (pushPc' = "ended" \/ pushPc \in Began)
    BY <1>8, EarlySteps DEF Push!Installing
  <2>2. Past'
    BY <1>2, <1>3, <2>1 DEF Push!Streaming, Push!Installing
  <2> QED
    BY <1>3, <1>5, <1>7, <2>1, <2>2
<1>9. CASE Push!Upload \/ Push!StreamChunk \/ Push!RemoveSticky
  <2>1. /\ UNCHANGED <<pushNo, chunkNo, applied>>
        /\ results' = results \/ results' = [results EXCEPT ![pushNo] = "failed"]
    BY <1>9 DEF Push!Upload, Push!StreamChunk, Push!RemoveSticky, Push!Go, Push!AfterFailure,
       Push!Fail, Push!End, Push!history
  <2>2. Past'
    <3>1. \/ pushPc = "upload" /\ pushPc' = "uploading"
          \/ pushPc = "chunk" /\ pushPc' = "applying"
          \/ pushPc' = "ended"
          \/ pushPc' = "clean" /\ failing' = "yes"
          \/ pushPc = "clean" /\ pushPc' = "cleaning" /\ failing' = failing
      BY <1>9 DEF Push!Upload, Push!StreamChunk, Push!RemoveSticky, Push!Go, Push!AfterFailure,
         Push!Fail, Push!End
    <3> QED
      BY <1>1, <1>3, <2>1, <3>1 DEF Push!Streaming, Push!Installing
  <2>3. \A s \in sessions' : s.kind = "chunk" => Behind(s)
    <3>1. \/ sessions' = sessions
          \/ pushPc = "upload" /\ Push!Open("upload", FALSE, FALSE)
          \/ pushPc = "chunk" /\ Push!Open("chunk", Push!D.chunks[chunkNo].elevate,
                 Push!Keyed(pushNo, chunkNo))
          \/ pushPc = "clean" /\ Push!Open("rm", FALSE, FALSE)
      BY <1>9 DEF Push!Upload, Push!StreamChunk, Push!RemoveSticky
    <3>2. ASSUME NEW kind, NEW e, NEW keyed, Push!Open(kind, e, keyed), kind = "chunk" =>
                     pushPc = "chunk"
          PROVE  \A s \in sessions' : s.kind = "chunk" => Behind(s)
      <4>1. PICK t : /\ sessions' = sessions \cup {t} /\ t.step \in {"start", "failed"}
                     /\ t.k = pushNo /\ t.i = chunkNo /\ t.kind = kind
        BY <3>2, OpenStep
      <4>2. t.kind = "chunk" => Behind(t)
        BY <1>3, <3>2, <4>1 DEF Push!Streaming
      <4> QED
        BY <1>3, <4>1, <4>2
    <3> QED
      BY <1>3, <3>1, <3>2
  <2> QED
    BY <1>5, <1>7, <2>1, <2>2, <2>3
<1>10. CASE Push!Returned
  <2>1. PICK s \in sessions :
          /\ s.attached /\ s.step \in {"ok", "failed"} /\ sessions' = sessions \ {s}
          /\ UNCHANGED <<pushNo, applied>>
          /\ \/ pushPc = "uploading" /\ s.kind = "upload" /\ s.step = "ok" /\ Push!Go("chunk")
             \/ pushPc \in {"uploading", "applying"} /\ Push!AfterFailure
             \/ /\ pushPc = "applying" /\ s.kind = "chunk" /\ s.i = chunkNo /\ s.step = "ok"
                /\ \/ Push!LastChunk /\ Push!AfterLast
                   \/ ~Push!LastChunk /\ pushPc' = "chunk" /\ chunkNo' = chunkNo + 1 /\
                          UNCHANGED <<failing, results>>
             \/ /\ pushPc = "cleaning" /\ s.kind = "rm"
                /\ Push!End(IF failing = "yes" THEN "failed" ELSE "ok")
    BY <1>10, ReturnedStep DEF Push!history
  <2>2. \A t \in sessions' : t.kind = "chunk" => Behind(t)'
    BY <1>3, <1>7, <2>1
  <2>3. CASE pushPc = "uploading" /\ Push!Go("chunk")
    <3>1. Past'
      BY <1>3, <2>1, <2>3 DEF Push!Go, Push!Streaming, Push!Installing
    <3> QED
      BY <1>5, <2>1, <2>2, <2>3, <3>1 DEF Push!Go
  <2>4. CASE Push!AfterFailure
    <3>1. Past'
      BY <2>4 DEF Push!AfterFailure, Push!Fail, Push!End, Push!Streaming, Push!Installing
    <3> QED
      BY <1>5, <2>1, <2>2, <2>4, <3>1 DEF Push!AfterFailure, Push!Fail, Push!End
  <2>5. CASE pushPc = "applying" /\ s.kind = "chunk" /\ s.i = chunkNo /\ s.step = "ok"
    <3>1. s.k = pushNo
      BY <2>1 DEF Push!AttachedInv, Push!Attached
    <3>2. \A b \in 1..chunkNo : <<pushNo, b>> \in applied
      <4>1. \A b \in 1..(chunkNo - 1) : <<pushNo, b>> \in applied
        BY <1>3, <2>5 DEF Push!Streaming
      <4>2. <<pushNo, chunkNo>> \in applied
        BY <1>3, <2>5, <3>1
      <4> QED
        BY <1>2, <4>1, <4>2
    <3>3. CASE Push!LastChunk /\ Push!AfterLast
      <4>1. \A c \in DOMAIN Push!D.chunks : <<pushNo, c>> \in applied
        BY <1>2, <3>2, <3>3 DEF Push!LastChunk
      <4>2. Past'
        BY <1>1, <2>1, <3>3, <4>1 DEF Push!AfterLast, Push!End, Push!Streaming, Push!Installing
      <4> QED
        BY <1>5, <1>6, <2>1, <2>2, <3>3, <4>1, <4>2 DEF Push!AfterLast, Push!End
    <3>4. CASE pushPc' = "chunk" /\ chunkNo' = chunkNo + 1 /\ UNCHANGED <<failing, results>>
      <4>1. \A b \in 1..(chunkNo' - 1) : <<pushNo, b>> \in applied
        BY <1>2, <3>2, <3>4
      <4>2. Past'
        BY <2>1, <3>4, <4>1 DEF Push!Streaming, Push!Installing
      <4> QED
        BY <1>5, <2>1, <2>2, <3>4, <4>2
    <3>5. CASE Push!AfterFailure
      BY <2>4, <3>5
    <3> QED
      BY <2>1, <2>5, <3>3, <3>4, <3>5
  <2>6. CASE pushPc = "cleaning" /\ Push!End(IF failing = "yes" THEN "failed" ELSE "ok")
    <3>1. Past'
      BY <2>6 DEF Push!End, Push!Streaming, Push!Installing
    <3>2. failing = "yes" \/ \A c \in DOMAIN Push!D.chunks : <<pushNo, c>> \in applied
      BY <1>3, <2>6 DEF Push!ControlInv
    <3> QED
      BY <1>5, <1>6, <2>1, <2>2, <2>6, <3>1, <3>2 DEF Push!End
  <2> QED
    BY <2>1, <2>3, <2>4, <2>5, <2>6
<1>11. CASE Push!Drop
  <2>1. PICK s \in sessions :
          /\ \A t \in sessions' :
                \/ t \in sessions
                \/ t.k = s.k /\ t.kind = s.kind /\ t.i = s.i /\ t.step = s.step
          /\ UNCHANGED <<pushNo, applied>>
          /\ \/ pushPc = "cleaning" /\ Push!End(IF failing = "yes" THEN "failed" ELSE "ok")
             \/ Push!AfterFailure
    BY <1>11, DropStep DEF Push!history
  <2>2. \A t \in sessions' : t.kind = "chunk" => Behind(t)
    BY <1>3, <2>1
  <2>3. \A t \in sessions' : t.kind = "chunk" => Behind(t)'
    BY <1>7, <2>1, <2>2
  <2>4. Past'
    BY <2>1 DEF Push!AfterFailure, Push!Fail, Push!End, Push!Streaming, Push!Installing
  <2>5. Push!SuccessMeansApplied'
    <3>1. pushPc = "cleaning" => failing = "yes" \/
              \A c \in DOMAIN Push!D.chunks : <<pushNo, c>> \in applied
      BY <1>3 DEF Push!ControlInv
    <3> QED
      BY <1>5, <1>6, <2>1, <3>1 DEF Push!AfterFailure, Push!Fail, Push!End
  <2> QED
    BY <2>3, <2>4, <2>5
<1>12. CASE Push!NextDelivery
  <2>1. /\ pushPc' = "start" /\ chunkNo' = 1 /\ UNCHANGED <<sessions, applied, results>>
    BY <1>12 DEF Push!NextDelivery, Push!history
  <2>2. Past'
    BY <2>1 DEF Push!Streaming, Push!Installing
  <2> QED
    BY <1>3, <1>5, <1>7, <2>1, <2>2
<1>13. CASE Push!Cancel
  <2>1. UNCHANGED <<pushNo, chunkNo, pushPc, failing, sessions, applied, results>>
    BY <1>13 DEF Push!Cancel, Push!history
  <2>2. Past'
    BY <1>1, <1>3, <2>1
  <2> QED
    BY <1>3, <1>5, <1>7, <2>1, <2>2
<1>14. ASSUME NEW s \in sessions, s.step \notin {"ok", "failed"}, Push!RemoteStep(s)
       PROVE  /\ \A t \in sessions' : t.kind = "chunk" => Behind(t)'
              /\ Past' /\ Push!SuccessMeansApplied'
  <2>1. UNCHANGED <<pushNo, chunkNo, pushPc, failing, results>>
    BY <1>14, RemoteSteps DEF Push!control
  <2>2. applied' = applied \/ (Push!Apply(s) /\ applied' = applied \cup {<<s.k, s.i>>})
    BY <1>14 DEF Push!RemoteStep, Push!RemoveDir, Push!Prepare, Push!Extract, Push!Stage,
       Push!Apply, Push!history
  <2>3. Past'
    BY <1>1, <1>3, <2>1, <2>2
  <2>4. PICK t : /\ sessions' \subseteq (sessions \ {s}) \cup {t}
                 /\ t.k = s.k /\ t.kind = s.kind /\ t.i = s.i
    BY <1>14, RemoteSteps
  <2>5. s.kind = "chunk" =>
          \A u \in sessions' : u \in sessions \/ u.step # "ok" \/
              (Push!Apply(s) /\ <<s.k, s.i>> \in applied')
    <3>1. CASE Push!Prepare(s) /\ s.kind = "chunk"
      <4>1. Push!Becomes(s, "stage")
        BY <3>1 DEF Push!Prepare
      <4> QED
        BY <1>14, <4>1, BecomesStep DEF Push!SessionInv
    <3>2. CASE Push!Stage(s)
      <4>1. Push!Becomes(s, "apply") \/ Push!Becomes(s, "failed")
        BY <3>2 DEF Push!Stage
      <4> QED
        BY <1>14, <4>1, BecomesStep DEF Push!SessionInv
    <3>3. CASE Push!Apply(s)
      <4>1. Push!Becomes(s, "failed") \/ applied' = applied \cup {<<s.k, s.i>>}
        BY <3>3 DEF Push!Apply
      <4> QED
        BY <1>14, <3>3, <4>1, BecomesStep DEF Push!SessionInv
    <3> QED
      BY <1>14, <3>1, <3>2, <3>3 DEF Push!RemoteStep, Push!RemoveDir, Push!Extract
  <2>6. \A u \in sessions' : u.kind = "chunk" => Behind(u)'
    <3>1. \A u \in sessions' : u.kind = "chunk" => \A b \in 1..(u.i - 1) : <<u.k, b>> \in applied'
      BY <1>3, <2>2, <2>4
    <3>2. \A u \in sessions' : u.kind = "chunk" /\ u.step = "ok" => <<u.k, u.i>> \in applied'
      BY <1>3, <2>2, <2>4, <2>5
    <3> QED
      BY <3>1, <3>2
  <2>7. Push!SuccessMeansApplied'
    <3>1. CASE applied' = applied
      BY <1>5, <2>1, <3>1
    <3>2. CASE Push!Apply(s) /\ applied' = applied \cup {<<s.k, s.i>>}
      <4>1. \A b \in 1..(s.i - 1) : <<s.k, b>> \in applied
        BY <1>3, <3>2 DEF Push!Apply
      <4>2. s.i \in Nat
        BY <3>2, Numbers DEF Push!SessionInv, Push!Apply
      <4>3. \A b \in 1..s.i : <<s.k, b>> \in applied'
        BY <3>2, <4>1, <4>2
      <4> QED
        BY <1>1, <1>3, <2>1, <3>2, <4>3 DEF Push!SuccessMeansApplied
    <3> QED
      BY <2>2, <3>1, <3>2
  <2> QED
    BY <2>3, <2>6, <2>7
<1> QED
  BY <1>8, <1>9, <1>10, <1>11, <1>12, <1>13, <1>14, PushStepCases

(***************************************************************************)
(* What is left behind                                                     *)
(***************************************************************************)
\* The controller leaves no path out of a delivery without the removal.
LEMMA CleanStep ==
    ASSUME Push!ConstantsOK, Push!ControlInv, Push!SessionInv, Push!AttachedInv, Push!CleanInv,
               Push!Next
    PROVE  Push!CleanInv'
<1> DEFINE Staged == {"scp", "install", "verify", "unstage"}
           Made == Push!Sticky(pushNo) /\
               pushPc \in {"uploading", "clean", "cleaning"} \cup Push!Streaming
           Gone == \A s \in sessions : s.kind = "rm" /\ s.step = "ok" => ~sticky
           Stays == staging \subseteq 1..pushNo
                   /\ staging \subseteq lost \cup (IF pushPc \in Staged THEN {pushNo} ELSE {})
<1>1. /\ Push!Linger' = Push!Linger /\ \A d : Push!Sticky(d)' = Push!Sticky(d)
  BY SettingKept, PlansKept
<1>2. pushNo \in Nat /\ pushNo >= 1
  BY Numbers
<1>3. /\ Stays
      /\ ~Push!Linger => (sticky => 0 \in lost \/ Made) /\ Gone
  BY DEF Push!CleanInv
<1>4. SUFFICES Stays' /\ (~Push!Linger => (sticky' => 0 \in lost' \/ Made') /\ Gone')
  BY <1>1 DEF Push!CleanInv
<1>5. ~Push!Linger => /\ pushPc \notin {"uploading", "applying", "cleaning"} => sessions = {}
                 /\ \A s, t \in sessions : s = t /\ s.k = pushNo
  BY Waiting
<1>6. CASE Early
  <2>1. /\ UNCHANGED <<pushNo, sticky, sessions>>
        /\ pushPc \notin {"uploading", "clean", "cleaning"} \cup Push!Streaming
        /\ \/ staging' = staging /\ lost' = lost /\ (pushPc \in Staged => pushPc' \in Staged)
           \/ staging' = staging \cup {pushNo} /\
                  (lost' = lost \cup {pushNo} \/ (lost' = lost /\ pushPc' \in Staged))
           \/ staging' = staging \ {pushNo} /\ lost' = lost
           \/ staging' = staging /\ lost' = lost \cup {pushNo}
    BY <1>6, EarlySteps DEF Early, Push!Start, Push!Require, Push!Probe, Push!ProbeRelease,
       Push!BuildTarget, Push!Mktemp, Push!Scp, Push!Install, Push!Verify, Push!RemoveStaging,
       Push!Gate, Push!Go, Push!Fail, Push!End, Push!Unstage, Push!host, Push!Installing,
       Push!Streaming
  <2>2. staging' \subseteq 1..pushNo'
    <3>1. pushNo \in 1..pushNo
      BY <1>2
    <3> QED
      BY <1>3, <2>1, <3>1
  <2>3. staging' \subseteq lost' \cup (IF pushPc' \in Staged THEN {pushNo} ELSE {})
    BY <1>3, <2>1
  <2>4. 0 \in lost => 0 \in lost'
    BY <2>1
  <2> QED
    BY <1>3, <2>1, <2>2, <2>3, <2>4
<1>7. CASE Push!Upload \/ Push!StreamChunk \/ Push!RemoveSticky
  <2>1. /\ UNCHANGED <<pushNo, sticky, staging, lost>> /\ pushPc \notin Staged
        /\ \/ pushPc = "upload" /\ pushPc' \in {"uploading", "clean"}
           \/ pushPc = "chunk" /\ (pushPc' \in {"applying", "clean"} \/
                  (pushPc' = "ended" /\ ~Push!Sticky(pushNo)))
           \/ pushPc = "clean" /\ pushPc' = "cleaning"
    BY <1>7 DEF Push!Upload, Push!StreamChunk, Push!RemoveSticky, Push!Go, Push!AfterFailure,
       Push!Fail, Push!End, Push!host
  <2>2. Stays'
    BY <1>3, <2>1
  <2>3. ~Push!Linger => (sticky' => 0 \in lost' \/ Made')
    BY <1>1, <1>3, <2>1 DEF Push!Streaming
  <2>4. ~Push!Linger => Gone'
    <3>1. \/ sessions' = sessions
          \/ Push!Open("upload", FALSE, FALSE)
          \/ Push!Open("chunk", Push!D.chunks[chunkNo].elevate, Push!Keyed(pushNo, chunkNo))
          \/ Push!Open("rm", FALSE, FALSE)
      BY <1>7 DEF Push!Upload, Push!StreamChunk, Push!RemoveSticky
    <3>2. ASSUME NEW kind, NEW e, NEW keyed, Push!Open(kind, e, keyed), ~Push!Linger
          PROVE  Gone'
      <4>1. PICK t : sessions' = sessions \cup {t} /\ t.step \in {"start", "failed"}
        BY <3>2, OpenStep
      <4> QED
        BY <1>3, <2>1, <3>2, <4>1
    <3> QED
      BY <1>3, <2>1, <3>1, <3>2
  <2> QED
    BY <2>2, <2>3, <2>4
<1>8. CASE Push!Returned
  <2>1. PICK s \in sessions :
          /\ sessions' = sessions \ {s} /\ UNCHANGED <<pushNo, sticky, staging, lost>>
          /\ \/ pushPc = "uploading" /\ pushPc' = "chunk"
             \/ pushPc \in {"uploading", "applying"}
                   /\ (pushPc' \in {"clean", "chunk"} \/ (pushPc' = "ended" /\ ~Push!Sticky(pushNo)))
             \/ pushPc = "cleaning" /\ pushPc' = "ended" /\ s.kind = "rm" /\ s.step = "ok"
    <3>1. PICK s \in sessions :
            /\ sessions' = sessions \ {s} /\ UNCHANGED <<pushNo, sticky, staging, lost>>
            /\ s.step \in {"ok", "failed"}
            /\ \/ pushPc = "uploading" /\ Push!Go("chunk")
               \/ pushPc \in {"uploading", "applying"} /\ Push!AfterFailure
               \/ pushPc = "applying" /\ (Push!AfterLast \/ pushPc' = "chunk")
               \/ pushPc = "cleaning" /\ s.kind = "rm" /\
                      Push!End(IF failing = "yes" THEN "failed" ELSE "ok")
      BY <1>8, ReturnedStep DEF Push!host
    <3>2. s.kind = "rm" => s.step = "ok"
      BY <3>1 DEF Push!SessionInv
    <3> QED
      BY <3>1, <3>2 DEF Push!Go, Push!AfterFailure, Push!AfterLast, Push!Fail, Push!End
  <2> QED
    BY <1>1, <1>3, <2>1 DEF Push!Streaming
<1>9. CASE Push!Drop
  <2>1. PICK s \in sessions :
          /\ \A t \in sessions' : t \in sessions \ {s} \/ Push!Linger
          /\ UNCHANGED <<pushNo, sticky, staging>>
          /\ \/ /\ pushPc = "cleaning" /\ pushPc' = "ended" /\ lost' = lost \cup {0}
             \/ /\ pushPc \in {"uploading", "applying"} /\ lost' = lost
                /\ pushPc' = "clean" \/ (pushPc' = "ended" /\ ~Push!Sticky(pushNo))
    <3>1. PICK s \in sessions :
            /\ \A t \in sessions' : t \in sessions \ {s} \/ Push!Linger
            /\ UNCHANGED <<pushNo, sticky, staging>>
            /\ \/ /\ pushPc = "cleaning" /\ Push!End(IF failing = "yes" THEN "failed" ELSE "ok")
                  /\ lost' = lost \cup {0}
               \/ pushPc \in {"uploading", "applying"} /\ Push!AfterFailure /\ lost' = lost
      BY <1>9, DropStep DEF Push!host
    <3> QED
      BY <3>1 DEF Push!AfterFailure, Push!Fail, Push!End
  <2> QED
    BY <1>1, <1>3, <2>1 DEF Push!Streaming
<1>10. CASE Push!NextDelivery
  <2>1. pushPc = "ended" /\ pushNo' = pushNo + 1 /\ pushPc' = "start" /\
            UNCHANGED <<sticky, staging, lost, sessions>>
    BY <1>10 DEF Push!NextDelivery, Push!host
  <2>2. \A n \in 1..pushNo : n \in 1..pushNo'
    BY <1>2, <2>1
  <2> QED
    BY <1>3, <2>1, <2>2 DEF Push!Streaming
<1>11. CASE Push!Cancel
  <2>1. UNCHANGED <<pushNo, pushPc, sticky, staging, lost, sessions>>
    BY <1>11 DEF Push!Cancel, Push!host
  <2> QED
    BY <1>1, <1>3, <2>1
<1>12. ASSUME NEW s \in sessions, s.step \notin {"ok", "failed"}, Push!RemoteStep(s)
       PROVE  Stays' /\ (~Push!Linger => (sticky' => 0 \in lost' \/ Made') /\ Gone')
  <2>1. UNCHANGED <<pushNo, pushPc, staging>>
    BY <1>12, RemoteSteps DEF Push!control
  <2>2. lost' = lost \/ lost' = lost \ {0}
    BY <1>12 DEF Push!RemoteStep, Push!RemoveDir, Push!Prepare, Push!Extract, Push!Stage,
       Push!Apply
  <2>3. Stays'
    BY <1>2, <1>3, <2>1, <2>2
  <2>4. PICK t : sessions' \subseteq (sessions \ {s}) \cup {t} /\ t.kind = s.kind
    BY <1>12, RemoteSteps
  <2>5. ASSUME ~Push!Linger
        PROVE  (sticky' => 0 \in lost' \/ Made') /\ Gone'
    <3>1. CASE Push!RemoveDir(s)
      BY <3>1 DEF Push!RemoveDir
    <3>2. CASE ~Push!RemoveDir(s)
      <4>1. /\ lost' = lost /\ s.kind \in {"upload", "chunk"}
            /\ sticky' => sticky \/ Push!Sticky(s.k) \/ s.kind = "upload"
        <5>1. CASE Push!Prepare(s)
          <6>1. sticky' => sticky \/ Push!Sticky(s.k)
            BY <5>1, Zenon DEF Push!Prepare
          <6> QED
            BY <5>1, <6>1 DEF Push!Prepare
        <5>2. CASE Push!Extract(s) \/ Push!Stage(s) \/ Push!Apply(s)
          <6>1. s.kind = "upload" \/ sticky' = sticky
            BY <5>2 DEF Push!Extract, Push!Stage, Push!Apply, Push!host
          <6>2. lost' = lost /\ s.kind \in {"upload", "chunk"}
            BY <5>2 DEF Push!Extract, Push!Stage, Push!Apply
          <6>3. sticky' => sticky \/ s.kind = "upload"
            BY <6>1, Zenon
          <6> QED
            BY <6>2, <6>3
        <5> QED
          BY <1>12, <3>2, <5>1, <5>2 DEF Push!RemoteStep
      <4>2. s.k = pushNo /\ pushPc \in {"uploading", "applying"} /\
                (s.kind = "upload" => Push!Sticky(pushNo))
        BY <1>5, <2>5, <4>1 DEF Push!AttachedInv, Push!Attached, Push!SessionInv
      <4>3. \A u \in sessions' : u.kind # "rm"
        BY <1>5, <2>4, <2>5, <4>1
      <4> QED
        BY <1>1, <1>3, <2>1, <2>5, <4>1, <4>2, <4>3 DEF Push!Streaming
    <3> QED
      BY <3>1, <3>2
  <2> QED
    BY <2>3, <2>5
<1> QED
  BY <1>6, <1>7, <1>8, <1>9, <1>10, <1>11, <1>12, PushStepCases

(***************************************************************************)
(* The theorems                                                            *)
(***************************************************************************)
\* The first delivery starts with everything still to do.
LEMMA InitInv ==
    ASSUME Push!ConstantsOK, Push!Init
    PROVE  Push!DeliveryInv
<1>1. /\ setting \in Settings /\ pushNo = 1 /\ pushPc = "start" /\ chunkNo = 1 /\ ctx = FALSE /\
             failing = "no"
      /\ gonfPath = TargetPath /\ results = [d \in DOMAIN Push!Deliveries |-> "none"]
      /\ hostBin \in [Locations -> setting.releases] /\ sticky = FALSE /\ files = Push!Empty
      /\ staging = {} /\ sessions = {} /\ lost = {} /\ applied = {} /\ reads = {} /\ ran = {}
  BY DEF Push!Init
<1>2. pushNo \in DOMAIN Push!Deliveries /\ chunkNo \in DOMAIN Push!D.chunks
  <2>1. pushNo \in DOMAIN Push!Deliveries
    BY <1>1 DEF Push!ConstantsOK, Push!Deliveries
  <2> QED
    BY <1>1, <2>1 DEF Push!ConstantsOK, Push!Deliveries, Push!D
<1>3. Push!ControlInv
  BY <1>1, <1>2 DEF Push!ControlInv, Push!Installing, Push!Streaming
<1>4. Push!SessionInv /\ Push!AttachedInv
  BY <1>1 DEF Push!SessionInv, Push!AttachedInv, Push!Attached
<1>5. Push!FitInv
  <2>1. hostBin \in [Locations -> 0..Push!Controller] /\ gonfPath \in Locations \cup {NoPath}
    BY <1>1 DEF Push!ConstantsOK
  <2> QED
    BY <1>1, <2>1 DEF Push!FitInv, Push!Streaming, Push!BinaryFits
<1>6. Push!FilesInv
  BY <1>1, EmptyDirectory DEF Push!FilesInv
<1>7. Push!BlobsInv
  BY <1>1 DEF Push!BlobsInv, Push!FreshBlobs, Push!Streaming
<1>8. Push!ChunksInv
  <2>1. Push!SuccessMeansApplied
    BY <1>1 DEF Push!SuccessMeansApplied
  <2> QED
    BY <1>1, <2>1 DEF Push!ChunksInv, Push!Streaming
<1>9. Push!CleanInv
  BY <1>1 DEF Push!CleanInv
<1> QED
  BY <1>3, <1>4, <1>5, <1>6, <1>7, <1>8, <1>9 DEF Push!DeliveryInv

\* Every step keeps the invariant, ...
LEMMA NextInv ==
    ASSUME Push!ConstantsOK, Push!DeliveryInv, Push!Next
    PROVE  Push!DeliveryInv'
BY ControlStep, SessionStep, AttachedStep, FitStep, FilesStep, BlobsStep, ChunksStep, CleanStep
   DEF Push!DeliveryInv

\* ... and so does a step that changes nothing.
LEMMA StutterInv ==
    ASSUME Push!DeliveryInv, UNCHANGED Push!vars
    PROVE  Push!DeliveryInv'
<1>1. /\ UNCHANGED <<setting, pushNo, pushPc, chunkNo, ctx, gonfPath, failing, results>>
      /\ UNCHANGED <<hostBin, staging, sticky, files, sessions, lost, applied, reads, ran>>
  BY DEF Push!vars, Push!control, Push!host, Push!history
<1>2. /\ Push!Deliveries' = Push!Deliveries /\ Push!Path' = Push!Path /\ Push!Linger' = Push!Linger
      /\ \A d : /\ Push!HasBlobs(d)' = Push!HasBlobs(d) /\ Push!Sticky(d)' = Push!Sticky(d)
                /\ Push!SealedRefs(d)' = Push!SealedRefs(d) /\ Push!Uploaded(d)' = Push!Uploaded(d)
                /\ Push!SealedReadElsewhere(d)' = Push!SealedReadElsewhere(d)
  BY <1>1, PlansKept
<1>3. Push!D' = Push!D /\ Push!Preview' = Push!Preview
  BY <1>1, <1>2 DEF Push!D, Push!Preview
<1>4. Push!ControlInv'
  BY <1>1, <1>2, <1>3 DEF Push!DeliveryInv, Push!ControlInv
<1>5. Push!SessionInv' /\ Push!AttachedInv'
  BY <1>1, <1>2 DEF Push!DeliveryInv, Push!SessionInv, Push!AttachedInv, Push!Attached
<1>6. Push!FitInv'
  <2>1. /\ Login' = Login /\ Root' = Root /\ \A e \in BOOLEAN : Push!Release(e)' = Push!Release(e)
        /\ \A e \in BOOLEAN : Push!NeedsContext(e)' = Push!NeedsContext(e)
    BY <1>1, <1>2, <1>3 DEF Push!Release, Login, Root, Push!NeedsContext
  <2>2. Vouched' /\ Push!BinaryFits'
    BY <1>1, <1>2, <1>3, <2>1 DEF Push!DeliveryInv, Push!FitInv, Vouched, Login, Root,
       Push!InstallPath, Push!BinaryFits
  <2> QED
    BY <1>1, <2>2 DEF Push!DeliveryInv, Push!FitInv, Vouched, Login, Root
<1>7. Push!FilesInv'
  BY <1>1, <1>2 DEF Push!DeliveryInv, Push!FilesInv
<1>8. Push!BlobsInv'
  BY <1>1, <1>2 DEF Push!DeliveryInv, Push!BlobsInv, Push!HoldsOnly, Push!FreshBlobs
<1>9. Push!ChunksInv'
  BY <1>1, <1>2, <1>3 DEF Push!DeliveryInv, Push!ChunksInv, Push!SuccessMeansApplied
<1>10. Push!CleanInv'
  BY <1>1, <1>2 DEF Push!DeliveryInv, Push!CleanInv
<1> QED
  BY <1>4, <1>5, <1>6, <1>7, <1>8, <1>9, <1>10 DEF Push!DeliveryInv

\* DeliveryInv holds in every state of every behaviour, whatever ssh and the
\* host do.
THEOREM DeliveryInvariant == ASSUME Push!ConstantsOK PROVE Push!Spec => []Push!DeliveryInv
<1>1. Push!Init => Push!DeliveryInv
  BY InitInv
<1>2. Push!DeliveryInv /\ [Push!Next]_(Push!vars) => Push!DeliveryInv'
  BY NextInv, StutterInv
<1> QED
  BY <1>1, <1>2, PTL DEF Push!Spec

LEMMA SealedFollows ==
    ASSUME Push!ConstantsOK, Push!DeliveryInv
    PROVE  Push!SecretsSealed
BY FilesSealed DEF Push!DeliveryInv

\* The directories that are left when a delivery ends.
LEMMA CleanFollows ==
    ASSUME Push!DeliveryInv
    PROVE  Push!CleanedUp
<1> SUFFICES ASSUME Push!CleanInv, pushPc = "ended"
             PROVE  (sticky => 0 \in lost \/ Push!Linger) /\ staging \subseteq lost
  BY DEF Push!DeliveryInv, Push!CleanedUp
<1>1. staging \subseteq lost
  BY DEF Push!CleanInv
<1>2. sticky => 0 \in lost \/ Push!Linger
  BY DEF Push!CleanInv, Push!Streaming
<1> QED
  BY <1>1, <1>2

\* What the invariant says of the blobs, the binaries and the chunks.
LEMMA DeliveryFollows ==
    ASSUME Push!ConstantsOK, Push!DeliveryInv
    PROVE  Push!FreshBlobs /\ Push!SecretsSealed /\ Push!BinaryFits /\ Push!SuccessMeansApplied /\
               Push!CleanedUp
BY SealedFollows, CleanFollows DEF Push!DeliveryInv, Push!BlobsInv, Push!FitInv, Push!ChunksInv

\* A chunk stages sealed blobs of its own push only, and reads exactly what its
\* push uploaded unless a session outlived its ssh (prepareStickyApplyDir,
\* stageSealedStickyRefs).
THEOREM ChunksReadFreshBlobs == ASSUME Push!ConstantsOK PROVE Push!Spec => []Push!FreshBlobs
<1>1. Push!DeliveryInv => Push!FreshBlobs
  BY DeliveryFollows
<1> QED
  BY <1>1, DeliveryInvariant, PTL

\* A blob that only sensitive elevated operations read never lies in the sticky
\* directory in the clear (sealsStickyBlob, uploadBlobs).
THEOREM SecretsStaySealed == ASSUME Push!ConstantsOK PROVE Push!Spec => []Push!SecretsSealed
<1>1. Push!DeliveryInv => Push!SecretsSealed
  BY DeliveryFollows
<1> QED
  BY <1>1, DeliveryInvariant, PTL

\* No gonf runs a chunk that its release is not fit for (EnsureRemoteGonf,
\* RequireRemoteSealedSticky, requireRemoteGonfForChunks).
THEOREM RunnersAreFit == ASSUME Push!ConstantsOK PROVE Push!Spec => []Push!BinaryFits
<1>1. Push!DeliveryInv => Push!BinaryFits
  BY DeliveryFollows
<1> QED
  BY <1>1, DeliveryInvariant, PTL

\* Chunks are applied in order, all of them when the delivery succeeds
\* (streamChunks).
THEOREM ChunksInOrder == ASSUME Push!ConstantsOK PROVE Push!Spec => []Push!SuccessMeansApplied
<1>1. Push!DeliveryInv => Push!SuccessMeansApplied
  BY DeliveryFollows
<1> QED
  BY <1>1, DeliveryInvariant, PTL

\* A delivery that ended, in whatever way, left no directory behind unless the
\* command that removes it was lost (pushRemoveSticky).
THEOREM NothingLeftBehind == ASSUME Push!ConstantsOK PROVE Push!Spec => []Push!CleanedUp
<1>1. Push!DeliveryInv => Push!CleanedUp
  BY DeliveryFollows
<1> QED
  BY <1>1, DeliveryInvariant, PTL
=============================================================================
