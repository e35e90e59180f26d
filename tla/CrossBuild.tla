----------------------------- MODULE CrossBuild -----------------------------
(***************************************************************************)
(* The cross builds of gonf that the pushes of one process share           *)
(* (internal/remote/crossbuild.go, sync_buildcache.go): one lock per       *)
(* platform, a cache of built binaries, private directories that are       *)
(* retired when they no longer verify and removed by Close.  Meanwhile a   *)
(* temp cleaner, another user and the operator work on the directories.    *)
(*                                                                         *)
(* A directory is the number of its random name.  at[d] says what is at    *)
(* that name: the directory made there ("ours"), nothing, or a planted one *)
(* ("foreign").  The checks of the parent's owners and modes are left out. *)
(***************************************************************************)
EXTENDS Naturals, FiniteSets

CONSTANTS
    Pushes,     \* goroutines that push to a host
    Platform,   \* push -> the goos/goarch of its host
    MaxDirs, MaxEvents

VARIABLES
    at, private,    \* of a directory: what is there, whether its mode is 0700
    bin,            \* <<directory, platform>> -> "none", "partial", "good", "edited", "foreign"
    buildDir,       \* the current directory, 0 for none
    retired,
    cache,          \* platform -> the directory of its cached binary, 0 for none
    holder,         \* platform -> the pushes that hold its lock
    pc,
    dir,            \* push -> the directory it checks, builds into or uses
    spoiled,        \* history: binaries somebody else changed or removed
    known,          \* push -> spoiled when its build was asked for
    events,
    closed

vars == <<at, private, bin, buildDir, retired, cache, holder, pc, dir, spoiled, known, events,
          closed>>

disk == <<at, private>>
shared == <<buildDir, retired, cache>>
history == <<spoiled, known, events, closed>>

Dirs == 1..MaxDirs
Platforms == {Platform[p] : p \in Pushes}
Made == {d \in Dirs : at[d] # "unused"}

Init ==
    /\ at = [d \in Dirs |-> "unused"]
    /\ private = [d \in Dirs |-> TRUE]
    /\ bin = [x \in Dirs \X Platforms |-> "none"]
    /\ buildDir = 0 /\ retired = {}
    /\ cache = [k \in Platforms |-> 0]
    /\ holder = [k \in Platforms |-> {}]
    /\ pc = [p \in Pushes |-> "start"]
    /\ dir = [p \in Pushes |-> 0]
    /\ spoiled = {} /\ known = [p \in Pushes |-> {}]
    /\ events = 0 /\ closed = FALSE

(***************************************************************************)
(* Checks of a directory and of a binary                                   *)
(***************************************************************************)
isOurDir(d) == at[d] = "ours"
verifyBuildDir(d) == isOurDir(d) /\ private[d]

\* Regular and ours: a planted file is not.
checkOwnRegularFile(x) == bin[x] \notin {"none", "foreign"}

\* The sum recorded after the build is that of the built binary.
verifyBinary(x) == bin[x] = "good"

Out(p) == <<dir[p], Platform[p]>>

(***************************************************************************)
(* Steps of a push                                                         *)
(***************************************************************************)
At(p, l) == pc[p] = l
Go(p, l) == pc' = [pc EXCEPT ![p] = l]

\* buildGonf returns and gives the platform's lock back.
Return(p, how) == Go(p, how) /\ holder' = [holder EXCEPT ![Platform[p]] = {}]

buildKeyLock(p) ==
    /\ At(p, "start")
    /\ holder[Platform[p]] = {}
    /\ holder' = [holder EXCEPT ![Platform[p]] = {p}]
    /\ known' = [known EXCEPT ![p] = spoiled]
    /\ Go(p, "get")
    /\ UNCHANGED <<disk, bin, shared, dir, spoiled, events, closed>>

buildCacheGet(p) ==
    /\ At(p, "get")
    /\ dir' = [dir EXCEPT ![p] = cache[Platform[p]]]
    /\ Go(p, IF cache[Platform[p]] = 0 THEN "dir" ELSE "reuseDir")
    /\ UNCHANGED <<disk, bin, shared, holder, history>>

ReuseDir(p) ==
    /\ At(p, "reuseDir")
    /\ Go(p, IF verifyBuildDir(dir[p]) THEN "reuseBinary" ELSE "retire")
    /\ UNCHANGED <<disk, bin, shared, holder, dir, history>>

ReuseBinary(p) ==
    /\ At(p, "reuseBinary")
    /\ IF verifyBinary(Out(p)) THEN Return(p, "using") ELSE Go(p, "retire") /\ UNCHANGED holder
    /\ UNCHANGED <<disk, bin, shared, dir, history>>

\* d is no longer reused; one that is still ours is kept for Close.
Forget(d) ==
    /\ cache' = [k \in Platforms |-> IF cache[k] = d THEN 0 ELSE cache[k]]
    /\ retired' = IF d # 0 /\ isOurDir(d) THEN retired \cup {d} ELSE retired

retireLocked(d) == Forget(d) /\ buildDir' = IF buildDir = d THEN 0 ELSE buildDir

retireBuildDir(p) ==
    /\ At(p, "retire")
    /\ retireLocked(dir[p])
    /\ Go(p, "dir")
    /\ UNCHANGED <<disk, bin, holder, dir, history>>

\* Making a directory may fail, and leaves none then.
newBuildDir(p) ==
    \/ \E d \in Dirs \ Made :
          /\ \A n \in Dirs \ Made : d <= n
          /\ at' = [at EXCEPT ![d] = "ours"]
          /\ buildDir' = d
          /\ dir' = [dir EXCEPT ![p] = d]
          /\ Go(p, "build") /\ UNCHANGED holder
    \/ buildDir' = 0 /\ Return(p, "failed") /\ UNCHANGED <<at, dir>>

\* The current directory while it verifies, or else a new one.
privateBuildDir(p) ==
    /\ At(p, "dir")
    /\ IF (IF buildDir = 0 THEN FALSE ELSE verifyBuildDir(buildDir))
       THEN /\ dir' = [dir EXCEPT ![p] = buildDir]
            /\ Go(p, "build")
            /\ UNCHANGED <<at, shared, holder>>
       ELSE Forget(buildDir) /\ newBuildDir(p)
    /\ UNCHANGED <<private, bin, history>>

\* GoBuildRunner: writes the binary, or fails and leaves none.
GoBuild(p) ==
    /\ At(p, "build")
    /\ bin' = [bin EXCEPT ![Out(p)] = IF isOurDir(dir[p]) THEN "partial" ELSE @]
    /\ Go(p, "built")
    /\ UNCHANGED <<disk, shared, holder, dir, history>>

GoBuilt(p) ==
    /\ At(p, "built")
    /\ \/ /\ isOurDir(dir[p])
          /\ bin' = [bin EXCEPT ![Out(p)] = "good"]
          /\ Go(p, "sum") /\ UNCHANGED holder
       \/ bin' = [bin EXCEPT ![Out(p)] = "none"] /\ Return(p, "failed")
    /\ UNCHANGED <<disk, shared, dir, history>>

SumBinary(p) ==
    /\ At(p, "sum")
    /\ Go(p, IF checkOwnRegularFile(Out(p)) THEN "verify" ELSE "discard")
    /\ UNCHANGED <<disk, bin, shared, holder, dir, history>>

VerifyBuilt(p) ==
    /\ At(p, "verify")
    /\ Go(p, IF verifyBuildDir(dir[p]) THEN "set" ELSE "discard")
    /\ UNCHANGED <<disk, bin, shared, holder, dir, history>>

Discard(p) ==
    /\ At(p, "discard")
    /\ bin' = IF isOurDir(dir[p]) THEN [bin EXCEPT ![Out(p)] = "none"] ELSE bin
    /\ retireLocked(dir[p])
    /\ Return(p, "failed")
    /\ UNCHANGED <<disk, dir, history>>

buildCacheSet(p) ==
    /\ At(p, "set")
    /\ cache' = [cache EXCEPT ![Platform[p]] = dir[p]]
    /\ Return(p, "using")
    /\ UNCHANGED <<disk, bin, buildDir, retired, dir, history>>

\* scp has copied the binary.
Installed(p) ==
    /\ At(p, "using")
    /\ Go(p, "done")
    /\ UNCHANGED <<disk, bin, shared, holder, dir, history>>

(***************************************************************************)
(* The end of the process: deferred until every push has returned.  The    *)
(* check of a directory and its removal are one step.                      *)
(***************************************************************************)
Ended == \A p \in Pushes : pc[p] \in {"done", "failed"}

removeBuildDir(ds) ==
    at' = [d \in Dirs |-> IF d \in ds /\ isOurDir(d) THEN "none" ELSE at[d]]

Close ==
    /\ Ended /\ ~closed
    /\ removeBuildDir(retired \cup {buildDir})
    /\ buildDir' = 0 /\ retired' = {} /\ cache' = [k \in Platforms |-> 0]
    /\ closed' = TRUE
    /\ UNCHANGED <<private, bin, holder, pc, dir, spoiled, known, events>>

(***************************************************************************)
(* Others                                                                  *)
(***************************************************************************)
Event ==
    /\ ~closed
    /\ events < MaxEvents /\ events' = events + 1
    /\ UNCHANGED <<shared, holder, pc, dir, known, closed>>

\* The temp cleaner removes a directory.
Sweep(d) ==
    /\ Event
    /\ isOurDir(d)
    /\ at' = [at EXCEPT ![d] = "none"]
    /\ bin' = [x \in DOMAIN bin |-> IF x[1] = d THEN "none" ELSE bin[x]]
    /\ spoiled' = spoiled \cup {x \in DOMAIN bin : x[1] = d}
    /\ UNCHANGED private

\* Somebody puts a directory with the same files at its name.
Plant(d) ==
    /\ Event
    /\ at[d] = "none"
    /\ at' = [at EXCEPT ![d] = "foreign"]
    /\ bin' = [x \in DOMAIN bin |-> IF x[1] = d THEN "foreign" ELSE bin[x]]
    /\ UNCHANGED <<private, spoiled>>

Chmod(d) ==
    /\ Event
    /\ isOurDir(d)
    /\ private' = [private EXCEPT ![d] = ~@]
    /\ UNCHANGED <<at, bin, spoiled>>

\* A cached binary is changed, or replaced while its directory lets others in.
Edit(x) ==
    /\ Event
    /\ cache[x[2]] = x[1] /\ isOurDir(x[1])
    /\ \E c \in {"edited"} \cup (IF private[x[1]] THEN {} ELSE {"foreign"}) :
          bin' = [bin EXCEPT ![x] = c]
    /\ spoiled' = spoiled \cup {x}
    /\ UNCHANGED <<at, private>>

Step(p) ==
    \/ buildKeyLock(p) \/ buildCacheGet(p) \/ ReuseDir(p) \/ ReuseBinary(p) \/ retireBuildDir(p)
    \/ privateBuildDir(p) \/ GoBuild(p) \/ GoBuilt(p) \/ SumBinary(p) \/ VerifyBuilt(p)
    \/ Discard(p) \/ buildCacheSet(p) \/ Installed(p)

Others ==
    \/ \E d \in Made : Sweep(d) \/ Plant(d) \/ Chmod(d)
    \/ \E x \in DOMAIN bin : Edit(x)

Next == (\E p \in Pushes : Step(p)) \/ Close \/ Others

Spec == Init /\ [][Next]_vars /\ \A p \in Pushes : WF_vars(Step(p))

(***************************************************************************)
(* Properties                                                              *)
(***************************************************************************)
\* A push never gets a binary that was spoiled before it asked, and what it
\* got is neither rebuilt in place nor removed under it by another push,
\* although that one retires the directory meanwhile.
BinariesHold ==
    \A p \in Pushes : At(p, "using") =>
       /\ Out(p) \notin known[p]
       /\ Out(p) \notin spoiled => isOurDir(dir[p]) /\ bin[Out(p)] = "good"

\* After Close no build directory of the process is left.
NothingLeft == closed => \A d \in Made : ~isOurDir(d)
=============================================================================
