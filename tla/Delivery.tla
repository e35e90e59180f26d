------------------------------ MODULE Delivery ------------------------------
(***************************************************************************)
(* Deliveries of plans to one host, one after another (internal/remote     *)
(* delivery.go, remote.go, sync_*.go, sealed_sticky.go, and the receiving  *)
(* side in internal/cli): the remote gonf is probed and, for a push,       *)
(* upgraded; the blobs of a plan with several privilege chunks are         *)
(* uploaded to a sticky directory, those that only a sensitive elevated    *)
(* operation reads sealed to a key of this push; each chunk is streamed to *)
(* a session of its own; the directory is removed.                         *)
(*                                                                         *)
(* Any ssh can fail, and a context can end the delivery at any moment. A   *)
(* remote session whose ssh is gone dies, or goes on (Linger).             *)
(*                                                                         *)
(* Left out: the arguments of ssh and scp, the forwarding of -cmd-timeout  *)
(* (its probes never fail a delivery), the cross build (one step that may  *)
(* fail) and what an operation does to the host.                           *)
(***************************************************************************)
EXTENDS Naturals, Sequences, FiniteSets

CONSTANTS
    Settings,       \* of [deliveries, path, releases, linger], see below
    Refs,           \* blob references
    Entries,        \* 1..n: files of a tree blob; a sealed archive is entry 1
    Locations,      \* places a gonf binary can be in
    Dest,           \* /usr/local/bin/gonf
    TargetPath,     \* the host's configured GonfPath, or NoPath
    NoPath

\* Releases, oldest first.
None == 0           \* no gonf there
OldRelease == 1
TakesRelayed == 2   \* accepts -relayed
DecryptsSealed == 3 \* sealedStickyMinRelease
HasSchema == 4      \* current plan schema, older release
Controller == 5     \* internal.Version

\* A setting: the deliveries, one after another, what "login" and "elevated"
\* commands find as gonf, the releases the host may start with, and whether
\* sessions may outlive their ssh.  A delivery is [mode, sudo, needs, chunks, tree],
\* a chunk [elevate, reads], a read [ref, sensitive]; tree has the entries of
\* each reference.

VARIABLES
    setting,    \* one of Settings
    k, pc, i,   \* delivery, controller step, chunk
    ctx,        \* the delivery's context is done
    gonfPath,   \* t.GonfPath
    failing,    \* the error a pending cleanup ends with: "no", "yes"
    results,    \* of each delivery: "none", "ok", "failed"
    bin,        \* release at each location
    staging,    \* deliveries whose /tmp/gonf-sync.* exists
    dir,        \* the sticky directory exists
    files,      \* its contents: <<ref, entry, sealed>> -> delivery it is from, 0 for none
    sessions,   \* remote sessions
    lost,       \* directories whose removal was lost: a delivery's staging, 0 for the sticky one
    applied,    \* chunks that were applied: <<delivery, chunk>>
    used,       \* history of blob reads: [k, ref, sealed, found]; found: <<entry, its delivery>>
    ran         \* history of gonf runs on the host: [k, elevate, keyed, release]

control == <<setting, k, pc, i, ctx, gonfPath, failing, results>>
host == <<bin, staging, dir, files>>
history == <<applied, used, ran>>
vars == <<control, host, sessions, lost, history>>

Deliveries == setting.deliveries
Path == setting.path
Linger == setting.linger

D == Deliveries[k]
Preview == D.mode = "preview"
Reads(d) == UNION {Deliveries[d].chunks[c].reads : c \in DOMAIN Deliveries[d].chunks}
HasBlobs(d) == Reads(d) # {}
Sticky(d) == HasBlobs(d) /\ Len(Deliveries[d].chunks) > 1
NeedsContext(e) == \E c \in DOMAIN D.chunks : D.chunks[c].elevate = e

\* sealsStickyBlob
Seals(chunk, r) == chunk.elevate /\ r.sensitive
SealedReads(d, c) == {r \in Deliveries[d].chunks[c].reads : Seals(Deliveries[d].chunks[c], r)}
\* SealedStickyRefs; of a delivery without sticky directory nothing is sealed.
SealedRefs(d) ==
    IF Sticky(d) THEN {r.ref : r \in UNION {SealedReads(d, c) : c \in DOMAIN Deliveries[d].chunks}}
    ELSE {}
SealedReadElsewhere(d) ==
    \E c \in DOMAIN Deliveries[d].chunks :
        \E r \in Deliveries[d].chunks[c].reads :
            r.ref \in SealedRefs(d) /\ ~Seals(Deliveries[d].chunks[c], r)
\* ChunkNeedsStickyKey, for a push that seals.
Keyed(d, c) == Sticky(d) /\ SealedReads(d, c) # {}

\* remoteGonfBin: the release a command runs with.
Release(e) ==
    bin[IF gonfPath # NoPath THEN gonfPath ELSE Path[IF e THEN "elevated" ELSE "login"]]

Empty == [x \in Refs \X Entries \X BOOLEAN |-> 0]

Init ==
    /\ setting \in Settings
    /\ k = 1 /\ pc = "start" /\ i = 1 /\ ctx = FALSE
    /\ gonfPath = TargetPath /\ failing = "no"
    /\ results = [d \in DOMAIN Deliveries |-> "none"]
    /\ bin \in [Locations -> setting.releases]
    /\ staging = {} /\ dir = FALSE /\ files = Empty
    /\ sessions = {} /\ lost = {}
    /\ applied = {} /\ used = {} /\ ran = {}

(***************************************************************************)
(* The controller                                                          *)
(***************************************************************************)
Go(to) == pc' = to /\ UNCHANGED <<i, failing, results>>
End(r) == pc' = "ended" /\ results' = [results EXCEPT ![k] = r] /\ UNCHANGED <<i, failing>>
Fail == End("failed")

\* SIGINT, a sibling's failure or the host timeout.
Cancel ==
    /\ pc # "ended" /\ ~ctx
    /\ ctx' = TRUE
    /\ UNCHANGED <<setting, k, pc, i, gonfPath, failing, results, host, sessions, lost, history>>

\* ToHost's checks, before any ssh.
Start ==
    /\ pc = "start"
    /\ IF \/ Preview /\ HasBlobs(k)
          \/ SealedReadElsewhere(k)
          \/ NeedsContext(TRUE) /\ ~D.sudo
       THEN Fail
       ELSE Go(IF Preview THEN "require" ELSE "probe")
    /\ UNCHANGED <<setting, k, ctx, gonfPath, host, sessions, lost, history>>

\* requireRemoteGonfForChunks: a preview verifies every context it will use.
Require ==
    /\ pc = "require"
    /\ \/ Fail
       \/ /\ ~ctx
          /\ \A e \in BOOLEAN : NeedsContext(e) => Release(e) >= Controller
          /\ Go("chunk")
    /\ UNCHANGED <<setting, k, ctx, gonfPath, host, sessions, lost, history>>

\* EnsureRemoteGonf: the schema of the login context; an absent gonf has schema 0.
Probe ==
    /\ pc = "probe"
    /\ \/ Fail
       \/ ~ctx /\ Go(IF Release(FALSE) < HasSchema THEN "target" ELSE "release")
    /\ UNCHANGED <<setting, k, ctx, gonfPath, host, sessions, lost, history>>

\* remoteReleaseIsStale: a failing probe keeps the binary.
ProbeRelease ==
    /\ pc = "release"
    /\ \/ Go("gate")
       \/ ~ctx /\ Release(FALSE) < Controller /\ Go("target")
    /\ UNCHANGED <<setting, k, ctx, gonfPath, host, sessions, lost, history>>

\* remoteBuildTarget, buildGonf
BuildTarget ==
    /\ pc = "target"
    /\ Fail \/ (~ctx /\ Go("mktemp"))
    /\ UNCHANGED <<setting, k, ctx, gonfPath, host, sessions, lost, history>>

\* createRemoteStagingDir: an ssh that dies may leave the directory behind.
Mktemp ==
    /\ pc = "mktemp"
    /\ \/ Fail /\ UNCHANGED <<staging, lost>>
       \/ ~ctx /\ Fail /\ staging' = staging \cup {k} /\ lost' = lost \cup {k}
       \/ ~ctx /\ Go("scp") /\ staging' = staging \cup {k} /\ UNCHANGED lost
    /\ UNCHANGED <<setting, k, ctx, gonfPath, bin, dir, files, sessions, history>>

Unstage(f) == pc' = "unstage" /\ failing' = f /\ UNCHANGED <<i, results>>

Scp ==
    /\ pc = "scp"
    /\ Unstage("yes") \/ (~ctx /\ Go("install"))
    /\ UNCHANGED <<setting, k, ctx, gonfPath, host, sessions, lost, history>>

InstallPath == IF TargetPath = NoPath THEN Dest ELSE TargetPath

\* install(1): when its ssh fails, the old binary, the new one or a broken one
\* is in place.
Install ==
    /\ pc = "install"
    /\ \/ /\ Unstage("yes")
          /\ \E r \in {bin[InstallPath]} \cup (IF ctx THEN {} ELSE {None, Controller}) :
                bin' = [bin EXCEPT ![InstallPath] = r]
       \/ ~ctx /\ Go("verify") /\ bin' = [bin EXCEPT ![InstallPath] = Controller]
    /\ UNCHANGED <<setting, k, ctx, gonfPath, staging, dir, files, sessions, lost, history>>

\* probePlanVersion on the installed binary
Verify ==
    /\ pc = "verify"
    /\ Unstage("yes") \/ (~ctx /\ bin[InstallPath] >= HasSchema /\ Unstage("no"))
    /\ UNCHANGED <<setting, k, ctx, gonfPath, host, sessions, lost, history>>

\* The deferred removal, detached from the context; then prepareRuntime takes
\* the installed path.
RemoveStaging ==
    /\ pc = "unstage"
    /\ \/ staging' = staging \ {k} /\ UNCHANGED lost
       \/ UNCHANGED staging /\ lost' = lost \cup {k}
    /\ IF failing = "yes" THEN Fail /\ UNCHANGED gonfPath
       ELSE Go("gate") /\ gonfPath' = InstallPath
    /\ UNCHANGED <<setting, k, ctx, bin, dir, files, sessions, history>>

\* RequireRemoteSealedSticky, in the context that gets the key.
Gate ==
    /\ pc = "gate"
    /\ \/ SealedRefs(k) # {} /\ Fail
       \/ /\ SealedRefs(k) # {} => ~ctx /\ Release(TRUE) >= DecryptsSealed
          /\ Go(IF Sticky(k) THEN "upload" ELSE "chunk")
    /\ UNCHANGED <<setting, k, ctx, gonfPath, host, sessions, lost, history>>

\* Mutant: the upload carries the plain blobs.
UploadedPlain(d) == {<<r.ref, 1, FALSE>> : r \in Reads(d)}

\* uploadBlobs: the sealed references in place of their plaintext.
Uploaded(d) ==
    {<<ref, 1, TRUE>> : ref \in SealedRefs(d)} \cup
    UNION {{<<ref, e, FALSE>> : e \in Deliveries[d].tree[ref]} :
                ref \in {r.ref : r \in Reads(d)} \ SealedRefs(d)}

Attached == {s \in sessions : s.attached}

\* SSHRunner starts a session; a gonf that cannot run the command exits at once.
Open(kind, e, keyed) ==
    sessions' = sessions \cup
        {[k |-> k, kind |-> kind, i |-> i, attached |-> TRUE, release |-> Release(e),
          left |-> IF kind = "upload" THEN Uploaded(k) ELSE {},
          step |-> IF \/ kind = "rm"
                      \/ Release(e) >= TakesRelayed /\ (keyed => Release(e) >= DecryptsSealed)
                   THEN "start" ELSE "failed"]}

Upload ==
    /\ pc = "upload"
    /\ \/ ~ctx /\ Go("uploading") /\ Open("upload", FALSE, FALSE)
          /\ ran' = ran \cup {[k |-> k, elevate |-> FALSE, keyed |-> FALSE, release |-> Release(FALSE)]}
       \/ ctx /\ pc' = "clean" /\ failing' = "yes" /\ UNCHANGED <<i, results, sessions, ran>>
    /\ UNCHANGED <<setting, k, ctx, gonfPath, host, lost, applied, used>>

\* What follows a failed upload or chunk, and the last chunk.
AfterFailure == IF Sticky(k) THEN pc' = "clean" /\ failing' = "yes" /\ UNCHANGED <<i, results>> ELSE Fail
AfterLast == IF Sticky(k) THEN pc' = "clean" /\ failing' = "no" /\ UNCHANGED <<i, results>> ELSE End("ok")

StreamChunk ==
    LET ch == D.chunks[i]
    IN /\ pc = "chunk"
       /\ \/ ~ctx /\ Go("applying") /\ Open("chunk", ch.elevate, Keyed(k, i))
             /\ ran' = ran \cup {[k |-> k, elevate |-> ch.elevate, keyed |-> Keyed(k, i),
                                  release |-> Release(ch.elevate)]}
          \/ ctx /\ AfterFailure /\ UNCHANGED <<sessions, ran>>
       /\ UNCHANGED <<setting, k, ctx, gonfPath, host, lost, applied, used>>

LastChunk == i = Len(D.chunks)

\* The remote session of the controller's ssh ended.
Returned ==
    \E s \in Attached :
        /\ s.step \in {"ok", "failed"}
        /\ sessions' = sessions \ {s}
        /\ CASE pc = "uploading" -> IF s.step = "ok" THEN Go("chunk") ELSE AfterFailure
             [] pc = "applying" ->
                    IF s.step = "failed" THEN AfterFailure
                    ELSE IF LastChunk THEN AfterLast
                    ELSE pc' = "chunk" /\ i' = i + 1 /\ UNCHANGED <<failing, results>>
             [] pc = "cleaning" -> End(IF failing = "yes" THEN "failed" ELSE "ok")
        /\ UNCHANGED <<setting, k, ctx, gonfPath, host, lost, history>>

\* The ssh ends without its session: killed by the context (or pushRemoveSticky's
\* own timeout), or the connection is lost.
Drop ==
    \E s \in Attached :
        /\ sessions' = (sessions \ {s}) \cup
               (IF Linger /\ s.step \notin {"ok", "failed"} THEN {[s EXCEPT !.attached = FALSE]} ELSE {})
        /\ IF pc = "cleaning" THEN End(IF failing = "yes" THEN "failed" ELSE "ok") ELSE AfterFailure
        /\ lost' = IF s.kind = "rm" THEN lost \cup {0} ELSE lost
        /\ UNCHANGED <<setting, k, ctx, gonfPath, host, history>>

\* Mutant: the removal runs under the delivery's own context.
RemoveStickyCtx ==
    /\ pc = "clean"
    /\ IF ctx THEN End(IF failing = "yes" THEN "failed" ELSE "ok") /\ UNCHANGED sessions
       ELSE Go("cleaning") /\ Open("rm", FALSE, FALSE)
    /\ UNCHANGED <<setting, k, ctx, gonfPath, host, lost, history>>

\* pushRemoveSticky, detached from the context
RemoveSticky ==
    /\ pc = "clean"
    /\ Go("cleaning") /\ Open("rm", FALSE, FALSE)
    /\ UNCHANGED <<setting, k, ctx, gonfPath, host, lost, history>>

NextDelivery ==
    /\ pc = "ended" /\ k < Len(Deliveries)
    /\ k' = k + 1 /\ pc' = "start" /\ i' = 1 /\ ctx' = FALSE
    /\ gonfPath' = TargetPath /\ failing' = "no"
    /\ UNCHANGED <<setting, results, host, sessions, lost, history>>

(***************************************************************************)
(* A session on the host                                                   *)
(***************************************************************************)
Becomes(s, step) == sessions' = (sessions \ {s}) \cup
    (IF s.attached \/ step \notin {"ok", "failed"} THEN {[s EXCEPT !.step = step]} ELSE {})

\* rm -rf
RemoveDir(s) ==
    /\ s.kind = "rm"
    /\ dir' = FALSE /\ files' = Empty /\ Becomes(s, "ok") /\ lost' = lost \ {0}
    /\ UNCHANGED <<control, bin, staging, history>>

\* Mutant: the upload leaves what it finds in the directory.
PrepareKeeping(s) ==
    /\ s.kind \in {"upload", "chunk"} /\ s.step = "start"
    /\ dir' = (dir \/ Sticky(s.k))
    /\ UNCHANGED files
    /\ Becomes(s, IF s.kind = "upload" THEN "extract" ELSE "stage")
    /\ UNCHANGED <<control, bin, staging, lost, history>>

\* prepareStickyApplyDir: the session that carries the blobs empties it.
Prepare(s) ==
    /\ s.kind \in {"upload", "chunk"} /\ s.step = "start"
    /\ dir' = (dir \/ Sticky(s.k))
    /\ files' = IF s.kind = "upload" THEN Empty ELSE files
    /\ Becomes(s, IF s.kind = "upload" THEN "extract" ELSE "stage")
    /\ UNCHANGED <<control, bin, staging, lost, history>>

\* readBlobsGzipTar: one entry after another; the stream of a dead ssh ends
\* early.
Extract(s) ==
    /\ s.kind = "upload" /\ s.step = "extract"
    /\ \/ \E x \in s.left :
             /\ files' = [files EXCEPT ![x] = s.k] /\ dir' = TRUE
             /\ sessions' = (sessions \ {s}) \cup {[s EXCEPT !.left = @ \ {x}]}
       \/ s.left = {} /\ Becomes(s, "ok") /\ UNCHANGED <<dir, files>>
       \/ Becomes(s, "failed") /\ UNCHANGED <<dir, files>>
    /\ UNCHANGED <<control, bin, staging, lost, history>>

\* decryptSealedRefs: a stream sealed for another push does not open.
Decrypts(s) == \A r \in SealedReads(s.k, s.i) : files[<<r.ref, 1, TRUE>>] = s.k

\* refuseUnkeyedSealedRefs
NoneSealed(s) == \A r \in Deliveries[s.k].chunks[s.i].reads : files[<<r.ref, 1, TRUE>>] = 0

\* stageSealedStickyRefs, and the header's version check
Stage(s) ==
    /\ s.kind = "chunk" /\ s.step = "stage"
    /\ LET sealedFine == ~Sticky(s.k) \/ IF Keyed(s.k, s.i) THEN Decrypts(s) ELSE NoneSealed(s)
           fine == s.release >= Deliveries[s.k].needs /\ sealedFine
       IN /\ Becomes(s, IF fine THEN "apply" ELSE "failed")
          /\ used' = used \cup
                 IF fine /\ Keyed(s.k, s.i)
                 THEN {[k |-> s.k, ref |-> r.ref, sealed |-> TRUE, found |-> {<<1, files[<<r.ref, 1, TRUE>>]>>}] :
                            r \in SealedReads(s.k, s.i)}
                 ELSE {}
    /\ UNCHANGED <<control, host, lost, applied, ran>>

\* The reads that go to the sticky directory.
PlainReads(s) ==
    IF Sticky(s.k) THEN {r.ref : r \in Deliveries[s.k].chunks[s.i].reads \ SealedReads(s.k, s.i)} ELSE {}

\* What a resource finds below the reference.
Found(ref) == {<<e, files[<<ref, e, FALSE>>]>> : e \in {x \in Entries : files[<<ref, x, FALSE>>] # 0}}

\* applyPlanOps: a missing blob fails the chunk, and so may anything else.
Apply(s) ==
    /\ s.kind = "chunk" /\ s.step = "apply"
    /\ LET missing == \E r \in PlainReads(s) : Found(r) = {}
       IN \/ /\ ~missing /\ Becomes(s, "ok")
             /\ applied' = applied \cup {<<s.k, s.i>>}
             /\ used' = used \cup {[k |-> s.k, ref |-> r, sealed |-> FALSE, found |-> Found(r)] :
                                        r \in PlainReads(s)}
          \/ Becomes(s, "failed") /\ UNCHANGED <<applied, used>>
    /\ UNCHANGED <<control, host, lost, ran>>

RemoteStep(s) == RemoveDir(s) \/ Prepare(s) \/ Extract(s) \/ Stage(s) \/ Apply(s)

Controls ==
    \/ Start \/ Require \/ Probe \/ ProbeRelease \/ BuildTarget \/ Mktemp \/ Scp \/ Install
    \/ Verify \/ RemoveStaging \/ Gate \/ Upload \/ StreamChunk \/ RemoveSticky \/ Returned
    \/ NextDelivery

Next ==
    \/ Controls \/ Drop \/ Cancel
    \/ \E s \in sessions : s.step \notin {"ok", "failed"} /\ RemoteStep(s)

\* Every delivery has a deadline, the removal its own: an ssh without an end is
\* killed. Nothing is assumed of the host.
Fairness ==
    /\ WF_vars(Controls) /\ WF_vars(Cancel)
    /\ WF_vars(Drop /\ (ctx \/ pc = "cleaning"))

Spec == Init /\ [][Next]_vars /\ Fairness

(***************************************************************************)
(* Properties                                                              *)
(***************************************************************************)
\* A chunk reads exactly the blobs its own push uploaded, whatever an
\* interrupted push left in the directory of the same name.  A session of that
\* push that outlives its ssh and goes on writing can mix its files in, but
\* never into a sealed blob.
FreshBlobs ==
    \A u \in used :
        /\ u.sealed => u.found = {<<1, u.k>>}
        /\ ~u.sealed /\ ~Linger => u.found = {<<e, u.k>> : e \in Deliveries[u.k].tree[u.ref]}

\* A blob that only sensitive elevated operations read never lies in the login
\* user's directory in the clear.
SecretsSealed ==
    \A ref \in Refs : \A d \in DOMAIN Deliveries :
        (\E e \in Entries : files[<<ref, e, FALSE>>] = d) =>
            \E c \in DOMAIN Deliveries[d].chunks :
                \E r \in Deliveries[d].chunks[c].reads :
                    r.ref = ref /\ ~(Deliveries[d].chunks[c].elevate /\ r.sensitive)

\* What runs a chunk is fit for it: a push never uses a login gonf older than
\* its schema, a preview nothing older than the controller, and only a gonf
\* that can open the sealed blobs is given the key.
BinaryFits ==
    \A r \in ran :
        /\ Deliveries[r.k].mode = "preview" => r.release = Controller
        /\ ~r.elevate => r.release >= HasSchema
        /\ r.keyed => r.release >= DecryptsSealed

\* A delivery that succeeds applied every chunk, and no chunk is applied unless
\* the ones before it were.
SuccessMeansApplied ==
    \A d \in DOMAIN Deliveries :
        /\ results[d] = "ok" => \A c \in DOMAIN Deliveries[d].chunks : <<d, c>> \in applied
        /\ \A c \in DOMAIN Deliveries[d].chunks :
              <<d, c>> \in applied => \A b \in 1..c : <<d, b>> \in applied

\* A push leaves no directory behind in /tmp, cancelled or not, unless the
\* command that removes it was lost, or a session that outlived its ssh made the
\* sticky one again.
CleanedUp == pc = "ended" => (dir => 0 \in lost \/ Linger) /\ staging \subseteq lost

\* Every delivery returns, even if a session on the host hangs.
AllEnded == pc = "ended" /\ k = Len(Deliveries)

(***************************************************************************)
(* The inductive invariants behind them.                                   *)
(***************************************************************************)
\* What every setting is: at least one delivery, of at least one chunk each,
\* which read blobs there are, to a host whose locations have releases.
ConstantsOK ==
    /\ 1 \in Entries /\ Dest \in Locations
    /\ NoPath \notin Locations /\ TargetPath \in Locations \cup {NoPath}
    /\ \A st \in Settings :
          /\ Len(st.deliveries) \in Nat \ {0} /\ DOMAIN st.deliveries = 1..Len(st.deliveries)
          /\ st.releases \subseteq 0..Controller /\ st.linger \in BOOLEAN
          /\ st.path["login"] \in Locations /\ st.path["elevated"] \in Locations
          /\ \A d \in DOMAIN st.deliveries : LET del == st.deliveries[d] IN
                /\ Len(del.chunks) \in Nat \ {0} /\ DOMAIN del.chunks = 1..Len(del.chunks)
                /\ \A c \in DOMAIN del.chunks :
                      /\ del.chunks[c].elevate \in BOOLEAN
                      /\ \A r \in del.chunks[c].reads : r.ref \in Refs /\ del.tree[r.ref] \subseteq Entries

IsSession(s) ==
    /\ s = [k |-> s.k, kind |-> s.kind, i |-> s.i, attached |-> s.attached, release |-> s.release,
            left |-> s.left, step |-> s.step]
    /\ s.attached \in BOOLEAN

Installing == {"probe", "release", "target", "mktemp", "scp", "install", "verify", "unstage", "gate"}
Streaming == {"chunk", "applying"}

\* The controller: what a delivery that got this far passed on the way.
ControlInv ==
    /\ setting \in Settings /\ k \in DOMAIN Deliveries /\ i \in DOMAIN D.chunks
    /\ ctx \in BOOLEAN /\ failing \in {"no", "yes"}
    /\ pc \in {"start", "require", "upload", "uploading", "clean", "cleaning", "ended"}
              \cup Installing \cup Streaming
    /\ pc \notin {"start", "ended"} => ~SealedReadElsewhere(k) /\ (Preview => ~HasBlobs(k))
    /\ pc = "require" => Preview
    /\ pc \in {"upload", "uploading"} \cup Installing => ~Preview
    /\ pc \in {"upload", "uploading", "clean", "cleaning"} => Sticky(k)
    /\ DOMAIN results = DOMAIN Deliveries

\* The sessions: the kinds, and how far each gets.
SessionInv ==
    \A s \in sessions :
        /\ IsSession(s) /\ s.k \in 1..k
        /\ \/ s.kind = "upload" /\ s.step \in {"start", "extract", "ok", "failed"}
              /\ Sticky(s.k) /\ s.left \subseteq Uploaded(s.k)
              /\ (s.step = "start" => s.left = Uploaded(s.k))
           \/ s.kind = "chunk" /\ s.step \in {"start", "stage", "apply", "ok", "failed"}
              /\ s.i \in DOMAIN Deliveries[s.k].chunks
           \/ s.kind = "rm" /\ s.step \in {"start", "ok"}

\* The controller waits for one session at most, the one its step is about.
AttachedInv ==
    /\ \A s, t \in Attached : s = t
    /\ \A s \in Attached :
          /\ s.k = k
          /\ \/ s.kind = "upload" /\ pc = "uploading"
             \/ s.kind = "chunk" /\ pc = "applying" /\ s.i = i
             \/ s.kind = "rm" /\ pc = "cleaning"
    /\ ~Linger => \A s \in sessions : s.attached

\* The releases on the host, as far as the probes of the delivery vouch for
\* them.
FitInv ==
    /\ bin \in [Locations -> 0..Controller] /\ gonfPath \in Locations \cup {NoPath}
    /\ (pc \in {"release", "gate", "upload", "uploading"} \cup Streaming /\ ~Preview)
           => Release(FALSE) >= HasSchema
    /\ (pc \in {"upload", "uploading"} \cup Streaming /\ SealedRefs(k) # {})
           => Release(TRUE) >= DecryptsSealed
    /\ (pc \in Streaming /\ Preview) => \A e \in BOOLEAN : NeedsContext(e) => Release(e) = Controller
    /\ pc = "unstage" /\ failing = "no" => bin[InstallPath] >= HasSchema
    /\ BinaryFits

\* Every file in the sticky directory is one that its delivery uploads.
Names == Refs \X Entries \X BOOLEAN
FilesInv ==
    /\ dir \in BOOLEAN /\ files \in [Names -> Nat]
    /\ \A y \in Names : files[y] # 0 =>
          files[y] \in 1..k /\ Sticky(files[y]) /\ y \in Uploaded(files[y])

\* The directory holds names of the current delivery, no others.
HoldsOnly(names) == \A y \in Names : files[y] = IF y \in names THEN k ELSE 0

\* When no session outlives its ssh, an upload fills an empty directory, and
\* the chunks find it filled.
BlobsInv ==
    /\ ~Linger =>
          /\ \A s \in sessions : s.kind = "upload" =>
                /\ s.step = "extract" => HoldsOnly(Uploaded(k) \ s.left)
                /\ s.step = "ok" => HoldsOnly(Uploaded(k))
          /\ pc \in Streaming /\ Sticky(k) => HoldsOnly(Uploaded(k))
    /\ FreshBlobs

\* Chunks are applied in order.
ChunksInv ==
    /\ pc \in {"start", "require", "upload", "uploading"} \cup Installing => i = 1
    /\ \A s \in sessions : s.kind = "chunk" =>
          /\ \A b \in 1..(s.i - 1) : <<s.k, b>> \in applied
          /\ s.step = "ok" => <<s.k, s.i>> \in applied
    /\ pc \in Streaming => \A b \in 1..(i - 1) : <<k, b>> \in applied
    /\ pc \in {"clean", "cleaning"} /\ failing = "no" => \A c \in DOMAIN D.chunks : <<k, c>> \in applied
    /\ SuccessMeansApplied

\* A directory is there only while the delivery that made it still has to
\* remove it, or its removal was lost.
CleanInv ==
    /\ staging \subseteq 1..k
    /\ staging \subseteq lost \cup (IF pc \in {"scp", "install", "verify", "unstage"} THEN {k} ELSE {})
    /\ ~Linger =>
          /\ dir => 0 \in lost \/ (Sticky(k) /\ pc \in {"uploading", "clean", "cleaning"} \cup Streaming)
          /\ \A s \in sessions : s.kind = "rm" /\ s.step = "ok" => ~dir

DeliveryInv ==
    /\ ControlInv /\ SessionInv /\ AttachedInv /\ FitInv /\ FilesInv
    /\ BlobsInv /\ ChunksInv /\ CleanInv
=============================================================================
