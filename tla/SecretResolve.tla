---------------------------- MODULE SecretResolve ----------------------------
(***************************************************************************)
(* Secret lookups by several goroutines (api.ResolveSecret and its callers)*)
(* through the file provider, or through Snapshot over Fallback over       *)
(* foostore and the file provider (package secret), while the stores       *)
(* change, lock and vanish and the callers' contexts end.                  *)
(***************************************************************************)
EXTENDS Naturals, Sequences, FiniteSets

CONSTANTS
    Callers,
    Spellings,  \* the references callers write
    Canon,      \* CanonicalRef: spelling -> key, or NoKey
    NoKey,
    Mapped,     \* the keys that foostore's table lists
    Values,     \* what a secret may be; "" is the empty one
    Stores,     \* initial states of the stores, see world
    MaxLookups, MaxEvents

VARIABLES
    provider,   \* "file" by default or "chain"
    used,       \* secretConfig.used
    entries,    \* Snapshot.entries: key -> place in heap, 0 if none
    heap,       \* the entries ever made: [done, kept, res]
    probed,     \* foostore: the contract check has passed
    probes,     \* the attempts ever made: "running", "ok" or "failed"
    world,      \* [status, items, contract, dir, files]: foostore, its items,
                \* is it the right binary, the file store's directory (0:
                \* none) and what each directory there ever was holds
    events,     \* changes of the world so far
    caller,     \* [pc, key, entry, probe, fd, res, canceled]
    lookups,    \* lookups made per caller
    seen,       \* history: what was so during a caller's lookup
    answers,    \* history: the facts told about each key
    lies        \* history: keys a lookup found a fact for that was not so

vars == <<provider, used, entries, heap, probed, probes, world, events, caller, lookups, seen,
          answers, lies>>

Keys == {Canon[s] : s \in Spellings} \ {NoKey}

\* What a lookup ends with: bytes, ErrNotFound, a context that is done, or
\* any other error (unavailable, invalid, unreadable).
Ok(v) == [kind |-> "ok", val |-> v]
Err(k) == [kind |-> k, val |-> ""]
NotFound == Err("not found")
Failed == Err("failed")
Absent == "absent"

\* What the stores may hold, and what they are initially.
Contents == Values \cup {"", Absent, "symlink"}
Worlds == [status : {"ok", "locked"}, items : [Mapped -> Contents], contract : BOOLEAN, dir : Nat,
           files : Seq([Keys -> Contents])]
ConstantsOK == \A w \in Stores : w \in Worlds /\ w.dir <= Len(w.files)

\* IsNotFound and success are facts about the stores' content.
Fact(r) == r.kind \in {"ok", "not found"}

Idle == [pc |-> "idle", key |-> NoKey, entry |-> 0, probe |-> 0, fd |-> 0,
         res |-> Err("none"), canceled |-> FALSE]

Key(c) == caller[c].key
At(c, p) == caller[c].pc = p
Go(c, p) == caller' = [caller EXCEPT ![c].pc = p]
Leave(c, p, r) == caller' = [caller EXCEPT ![c].pc = p, ![c].res = r]

Shared == <<provider, used, entries, heap, probed, probes>>
World == <<world, events>>
History == <<lookups, seen, answers, lies>>

-----------------------------------------------------------------------------
(* History: what foostore and the file store hold for a key right now.     *)

ItemNow(w, k) ==
    IF k \notin Mapped THEN {<<"item", Absent>>}
    ELSE IF w.status = "ok" THEN {<<"item", w.items[k]>>} ELSE {}
FileNow(w, k) == IF w.dir = 0 THEN {} ELSE {<<"file", w.files[w.dir][k]>>}
Now(w, k) == ItemNow(w, k) \cup FileNow(w, k)

\* A fact was so: in foostore, or in the file store with nothing in foostore.
WasSo(r, facts, chain) ==
    LET v == IF r.kind = "ok" THEN r.val ELSE Absent
    IN  \/ chain /\ r.kind = "ok" /\ <<"item", v>> \in facts
        \/ (chain => <<"item", Absent>> \in facts) /\ <<"file", v>> \in facts

-----------------------------------------------------------------------------
Init ==
    /\ provider = "file" /\ used = FALSE
    /\ entries = [k \in Keys |-> 0] /\ heap = <<>>
    /\ probed = FALSE /\ probes = <<>>
    /\ world \in Stores /\ events = 0
    /\ caller = [c \in Callers |-> Idle] /\ lookups = [c \in Callers |-> 0]
    /\ seen = [c \in Callers |-> {}] /\ answers = [k \in Keys |-> {}] /\ lies = {}

\* setSecretProvider: once, and before the first secret is resolved.
SetSecretProvider ==
    /\ provider = "file" /\ ~used
    /\ provider' = "chain"
    /\ UNCHANGED <<used, entries, heap, probed, probes, World, caller, History>>

\* ResolveSecret up to the provider; a reference without a canonical form is
\* refused by every provider.
Start(c, s) ==
    /\ At(c, "idle") /\ lookups[c] < MaxLookups
    /\ used' = TRUE /\ lookups' = [lookups EXCEPT ![c] = @ + 1]
    /\ caller' = [caller EXCEPT ![c] = [Idle EXCEPT
                    !.key = Canon[s], !.res = IF Canon[s] = NoKey THEN Failed ELSE @,
                    !.pc = IF Canon[s] = NoKey THEN "return"
                           ELSE IF provider = "file" THEN "root" ELSE "entry"]]
    /\ seen' = [seen EXCEPT ![c] = IF Canon[s] = NoKey THEN {} ELSE Now(world, Canon[s])]
    /\ UNCHANGED <<provider, entries, heap, probed, probes, World, answers, lies>>

\* The caller's context ends.
Cancel(c) ==
    /\ ~At(c, "idle") /\ ~caller[c].canceled
    /\ caller' = [caller EXCEPT ![c].canceled = TRUE]
    /\ UNCHANGED <<Shared, World, History>>

-----------------------------------------------------------------------------
(* Snapshot.                                                               *)

\* The entry of the canonical reference, 0 if there is none.
EntryOf(c) == entries[Key(c)]

\* entry: the first caller leads, the others wait.
Enter(c) ==
    /\ At(c, "entry")
    /\ IF EntryOf(c) = 0
       THEN /\ heap' = Append(heap, [done |-> FALSE, kept |-> FALSE, res |-> Err("none")])
            /\ entries' = [entries EXCEPT ![Key(c)] = Len(heap) + 1]
            /\ caller' = [caller EXCEPT ![c].pc = "lookup", ![c].entry = Len(heap) + 1]
            /\ seen' = [seen EXCEPT ![c] = Now(world, Key(c))]
       ELSE /\ caller' = [caller EXCEPT ![c].pc = "wait", ![c].entry = EntryOf(c)]
            /\ UNCHANGED <<heap, entries, seen>>
    /\ UNCHANGED <<provider, used, probed, probes, World, lookups, answers, lies>>

\* Waiting for the leader: a fact is shared, after anything else the caller
\* tries itself; its own context ends the wait.
Wait(c) ==
    /\ At(c, "wait")
    /\ LET e == heap[caller[c].entry]
       IN  \/ caller[c].canceled /\ Leave(c, "return", Err("canceled"))
           \/ e.done /\ e.kept /\ Leave(c, "return", e.res)
           \/ e.done /\ ~e.kept /\ Go(c, "entry")
    /\ UNCHANGED <<Shared, World, History>>

\* Mutant: a lookup that failed takes its entry back and tells nobody.
LeadSilently(c) ==
    LET r == caller[c].res
        e == caller[c].entry
    IN  /\ At(c, "found") /\ Go(c, "return")
        /\ heap' = IF Fact(r) THEN [heap EXCEPT ![e] = [done |-> TRUE, kept |-> TRUE, res |-> r]] ELSE heap
        /\ entries' = IF Fact(r) THEN entries ELSE [entries EXCEPT ![Key(c)] = 0]
        /\ lies' = IF Fact(r) /\ ~WasSo(r, seen[c], TRUE) THEN lies \cup {Key(c)} ELSE lies
        /\ UNCHANGED <<provider, used, probed, probes, World, lookups, seen, answers>>

\* lead: facts stay, everything else is dropped; the waiters are told.
Lead(c) ==
    LET r == caller[c].res
        e == caller[c].entry
    IN  /\ At(c, "found") /\ Go(c, "return")
        /\ heap' = [heap EXCEPT ![e] = [done |-> TRUE, kept |-> Fact(r), res |-> r]]
        /\ entries' = IF Fact(r) THEN entries ELSE [entries EXCEPT ![Key(c)] = 0]
        /\ lies' = IF Fact(r) /\ ~WasSo(r, seen[c], TRUE) THEN lies \cup {Key(c)} ELSE lies
        /\ UNCHANGED <<provider, used, probed, probes, World, lookups, seen, answers>>

-----------------------------------------------------------------------------
(* secret.Resolve around a provider: a context that is done hides what the *)
(* provider returned.                                                      *)

Checked(c, r) == IF caller[c].canceled THEN Err("canceled") ELSE r
Provided(c, r) == Leave(c, IF provider = "file" THEN "return" ELSE "found", Checked(c, r))

\* Fallback: only a secret that foostore does not have is asked of the files.
FromPrimary(c, r) ==
    IF Checked(c, r) = NotFound THEN Go(c, "root") ELSE Provided(c, r)

-----------------------------------------------------------------------------
(* foostore.                                                               *)

\* Resolve: the table, then the contract check, one attempt for all callers.
Lookup(c) ==
    /\ At(c, "lookup")
    /\ IF caller[c].canceled \/ Key(c) \notin Mapped
       THEN FromPrimary(c, NotFound) /\ UNCHANGED probes
       ELSE IF probed THEN Go(c, "read") /\ UNCHANGED probes
       ELSE IF probes # <<>> /\ probes[Len(probes)] = "running"
            THEN /\ caller' = [caller EXCEPT ![c].pc = "probe", ![c].probe = Len(probes)]
                 /\ UNCHANGED probes
            ELSE /\ caller' = [caller EXCEPT ![c].pc = "probe", ![c].probe = Len(probes) + 1]
                 /\ probes' = Append(probes, "running")
    /\ UNCHANGED <<provider, used, entries, heap, probed, World, History>>

\* runProbe: the attempt has its own context; it may time out.
RunProbe ==
    /\ probes # <<>> /\ probes[Len(probes)] = "running"
    /\ \E r \in {"failed"} \cup (IF world.contract THEN {"ok"} ELSE {}) :
          probes' = [probes EXCEPT ![Len(probes)] = r] /\ probed' = (r = "ok")
    /\ UNCHANGED <<provider, used, entries, heap, World, caller, History>>

checkContract(c) ==
    /\ At(c, "probe")
    /\ LET p == probes[caller[c].probe]
       IN  \/ caller[c].canceled /\ FromPrimary(c, Err("canceled"))
           \/ p = "failed" /\ FromPrimary(c, Failed)
           \/ p = "ok" /\ Go(c, "read")
    /\ UNCHANGED <<Shared, World, History>>

\* classify: exit 4 is the one that means there is no such item; a read may
\* be killed, cut short, too long or refused as ambiguous.
Outcomes(k) ==
    {Failed}
    \cup (IF world.status # "ok" THEN {}
          ELSE IF world.items[k] = Absent THEN {NotFound} ELSE {Ok(world.items[k])})

Read(c) ==
    /\ At(c, "read")
    /\ \E r \in Outcomes(Key(c)) : FromPrimary(c, r)
    /\ UNCHANGED <<Shared, World, History>>

-----------------------------------------------------------------------------
(* The file provider.                                                      *)

\* openRoot
OpenRoot(c) ==
    /\ At(c, "root")
    /\ IF caller[c].canceled \/ world.dir = 0 THEN Provided(c, Failed)
       ELSE caller' = [caller EXCEPT ![c].pc = "walk", ![c].fd = world.dir]
    /\ UNCHANGED <<Shared, World, History>>

\* openWalk and readAll below the directory that is open.
OpenWalk(c) ==
    LET v == world.files[caller[c].fd][Key(c)]
    IN  /\ At(c, "walk")
        /\ \/ v = Absent /\ Go(c, "missing")
           \/ v = "symlink" /\ Provided(c, Failed)
           \/ v \notin {Absent, "symlink"} /\ \E r \in {Ok(v), Failed} : Provided(c, r)
        /\ UNCHANGED <<Shared, World, History>>

\* The directory that is open is not the one of that name any more.
rootVanished(c) == world.dir # caller[c].fd

Missing(c) ==
    /\ At(c, "missing")
    /\ Provided(c, IF rootVanished(c) THEN Failed ELSE NotFound)
    /\ UNCHANGED <<Shared, World, History>>

-----------------------------------------------------------------------------
\* ResolveSecret, MustSecret, OptionalSecret: an empty value is an error, and
\* only a secret that is not there is skipped.
Return(c) ==
    LET r == caller[c].res
    IN  /\ At(c, "return")
        /\ caller' = [caller EXCEPT ![c] = Idle] /\ seen' = [seen EXCEPT ![c] = {}]
        /\ IF ~Fact(r) \/ r = Ok("") THEN UNCHANGED <<answers, lies>>
           ELSE /\ answers' = [answers EXCEPT ![Key(c)] = @ \cup {r}]
                /\ lies' = IF provider = "file" /\ ~WasSo(r, seen[c], FALSE)
                           THEN lies \cup {Key(c)} ELSE lies
        /\ UNCHANGED <<Shared, World, lookups>>

-----------------------------------------------------------------------------
(* The stores change under the lookups.                                    *)

Changed(w) ==
    /\ events < MaxEvents /\ events' = events + 1 /\ world' = w /\ w # world
    /\ seen' = [c \in Callers |->
                  IF At(c, "idle") \/ Key(c) = NoKey THEN seen[c]
                  ELSE seen[c] \cup Now(w, Key(c))]
    /\ UNCHANGED <<Shared, caller, lookups, answers, lies>>

Rotate ==
    \/ \E k \in Mapped, v \in Values \cup {Absent} : Changed([world EXCEPT !.items[k] = v])
    \/ \E k \in Keys, v \in Values \cup {Absent, "symlink"} :
          world.dir # 0 /\ Changed([world EXCEPT !.files[world.dir][k] = v])
Lock == \E s \in {"ok", "locked"} : Changed([world EXCEPT !.status = s])
Empty == [k \in Keys |-> Absent]
\* rm -r of the directory, or a new one in its place.
RemoveDir == world.dir # 0 /\ Changed([world EXCEPT !.dir = 0, !.files[world.dir] = Empty])
NewDir == Changed([world EXCEPT !.dir = Len(world.files) + 1, !.files = Append(@, Empty)])

Step(c) ==
    \/ Enter(c) \/ Wait(c) \/ Lead(c) \/ Lookup(c) \/ checkContract(c) \/ Read(c)
    \/ OpenRoot(c) \/ OpenWalk(c) \/ Missing(c) \/ Return(c)

Next ==
    \/ SetSecretProvider \/ RunProbe \/ Rotate \/ Lock \/ RemoveDir \/ NewDir
    \/ \E c \in Callers :
          \/ \E s \in Spellings : Start(c, s)
          \/ Cancel(c) \/ Step(c)

\* A goroutine runs on, and the check of foostore ends, by itself or by its
\* timeout; nobody has to call, to cancel or to change a store.
Fairness == WF_vars(RunProbe) /\ \A c \in Callers : WF_vars(Step(c))

Spec == Init /\ [][Next]_vars /\ Fairness

-----------------------------------------------------------------------------
(* Properties.                                                             *)

\* What a lookup tells of a secret, its bytes or that there is none, was so
\* at a time during the lookup: an optional secret is never skipped because
\* its store was locked, broken or gone, and the files never answer for
\* foostore; and through a Snapshot every caller is told the same.
FactsHold ==
    /\ lies = {}
    /\ provider = "chain" => \A k \in Keys : Cardinality(answers[k]) <= 1

\* A lookup is under way; it returns, whoever leads it and whatever happens
\* to the leader.
Busy == \E c \in Callers : ~At(c, "idle")
=============================================================================
