----------------------------- MODULE LinkApply ------------------------------
(***************************************************************************)
(* The link resource (resource/link): one apply of a symlink, a hard link, *)
(* a link_if_exists or an absent link at a path, system call by system     *)
(* call.  An entry in the way is moved aside to path.old, the link is      *)
(* created and the aside removed.  Between two calls the apply can be      *)
(* killed and somebody can put an entry at path.old.                       *)
(*                                                                         *)
(* The names are "path", "old" (path.old), "target" and "via" (a symlink   *)
(* that leads to one of them).  An entry is [kind, ino, to, full]: ino     *)
(* stands for its identity and data, to is where a symlink leads, full     *)
(* says that a directory is not empty.                                     *)
(***************************************************************************)
EXTENDS Naturals, FiniteSets

CONSTANTS
    Worlds,     \* the entries an apply starts from: name -> entry
    Links,      \* declared links: [op, to, darwin], on a platform whose link(2) follows
                \* symlinks if darwin
    Plants,     \* entries somebody may put at path.old
    MaxRuns     \* bound on applies

VARIABLES
    link,       \* the declared link
    fs,         \* name -> entry
    doomed,     \* files and directories the applies found at the path, by identity
    foreign,    \* entries somebody put at path.old, by identity
    foreseen,   \* what a dry run just before the apply says
    calm,       \* nothing interfered with this apply
    real,       \* the hard link's target, its symlinks resolved
    note,       \* outcome noted
    pc, runs

vars == <<link, fs, doomed, foreign, foreseen, calm, real, note, pc, runs>>

NoEntry == [kind |-> "none", ino |-> 0, to |-> "", full |-> FALSE]
Names == {"path", "old", "target", "via"}

Exists(f, n) == f[n].kind # "none"

(***************************************************************************)
(* What the proofs assume of the constants: a missing entry is NoEntry, a  *)
(* symlink leads to a name, entries with one identity are of one kind,     *)
(* "target" is no symlink and "via" nothing else, and what somebody plants *)
(* are files and directories of identities of their own.  Identities from  *)
(* 100 are those of the symlinks the applies make.                         *)
(***************************************************************************)
IsEntry(e) ==
    /\ e \in [kind : {"none", "file", "dir", "symlink"}, ino : 0..99, to : Names \cup {""},
               full : BOOLEAN]
    /\ e.kind = "none" => e = NoEntry
    /\ e.kind # "none" => e.ino # 0
    /\ e.kind = "symlink" => e.to \in Names

IsWorld(w) ==
    /\ DOMAIN w = Names /\ w = [n \in Names |-> w[n]] /\ \A n \in Names : IsEntry(w[n])
    /\ w["target"].kind # "symlink" /\ w["via"].kind \in {"none", "symlink"}
    /\ \A m, n \in Names : w[m].ino = w[n].ino => w[m].kind = w[n].kind
    /\ \A n \in Names : \A e \in Plants : w[n].ino # e.ino

ConstantsOK ==
    /\ \A w \in Worlds : IsWorld(w)
    /\ \A l \in Links : l.op \in {"symlink", "hardlink", "if_exists", "absent"}
                         /\ l.to \in {"target", "via"} /\ l.darwin \in BOOLEAN
    /\ \A e \in Plants : IsEntry(e) /\ e.kind \in {"file", "dir"}
    /\ \A e, f \in Plants : e.ino = f.ino => e = f

\* Where following symlinks from a name ends, "loop" or a missing name
\* included.
Follow(f, n) ==
    LET hop(m) == IF m \in Names /\ f[m].kind = "symlink" THEN f[m].to ELSE m
        last == hop(hop(hop(hop(n))))
    IN IF f[last].kind = "symlink" THEN "loop" ELSE last

Stat(f, n) ==
    IF Follow(f, n) = "loop" THEN "error"
      ELSE IF ~Exists(f, Follow(f, n)) THEN "missing"
      ELSE "ok"

(***************************************************************************)
(* What a dry run says                                                     *)
(***************************************************************************)
\* An entry that is not the link yet: a stale backup is refused here too.
PreviewReplace(f) == IF Exists(f, "old") THEN "error" ELSE "would"

PreviewSymlink(f, to) ==
    IF Stat(f, to) = "error" THEN "error"
      ELSE IF f["path"].kind = "symlink" THEN IF f["path"].to = to THEN "ok" ELSE "would"
      ELSE IF Exists(f, "path") THEN PreviewReplace(f)
      ELSE "would"

PreviewHardlink(f, to) ==
    IF Stat(f, to) # "ok" THEN "error"
      ELSE IF Exists(f, "path") /\ f["path"].ino = f[Follow(f, to)].ino THEN "ok"
      ELSE IF Exists(f, "path") THEN PreviewReplace(f)
      ELSE "would"

PreviewAbsent(f) == IF Exists(f, "path") THEN "would" ELSE "ok"

\* link_if_exists looks at its target on the destination.
Resolved(f, l) ==
    IF l.op # "if_exists" THEN l.op
      ELSE IF Stat(f, l.to) = "ok" THEN "symlink"
      ELSE IF Stat(f, l.to) = "missing" THEN "absent"
      ELSE "refused"

DryRun(f, l) ==
    CASE Resolved(f, l) = "symlink" -> PreviewSymlink(f, l.to)
      [] Resolved(f, l) = "hardlink" -> PreviewHardlink(f, l.to)
      [] Resolved(f, l) = "absent" -> PreviewAbsent(f)
      [] OTHER -> "error"

(***************************************************************************)
(* The apply                                                               *)
(***************************************************************************)
Goto(l) == pc' = l /\ UNCHANGED note
Done(st) == pc' = "done" /\ note' = st
Fail == pc' = "failed" /\ UNCHANGED note

FirstStep(op) ==
    CASE op = "symlink" -> "assertTarget" [] op = "hardlink" -> "evalTarget"
      [] op = "absent" -> "lstatAbsent" [] OTHER -> "refuse"

\* What the conversion may take away is the file or directory at the path.
Start ==
    /\ pc = "idle" /\ runs < MaxRuns
    /\ pc' = FirstStep(Resolved(fs, link)) /\ note' = "none" /\ runs' = runs + 1
    /\ doomed' = doomed \cup (IF fs["path"].kind \in {"file", "dir"} THEN {fs["path"].ino} ELSE {})
    /\ foreseen' = DryRun(fs, link) /\ calm' = TRUE
    /\ UNCHANGED <<link, fs, foreign, real>>

refuse ==
    /\ pc = "refuse" /\ Fail
    /\ UNCHANGED <<link, fs, doomed, foreign, foreseen, calm, real, runs>>

assertSymlinkTargetExists ==
    /\ pc = "assertTarget"
    /\ IF Stat(fs, link.to) = "ok" THEN Goto("lstatSymlink") ELSE Fail
    /\ UNCHANGED <<link, fs, doomed, foreign, foreseen, calm, real, runs>>

ensureSymlink ==
    /\ pc = "lstatSymlink"
    /\ CASE fs["path"].kind = "symlink" ->
              IF fs["path"].to = link.to THEN Done("ok") ELSE Goto("removeStale")
         [] fs["path"].kind = "none" -> Goto("createNew")
         [] OTHER -> Goto("assertNoBackup")
    /\ UNCHANGED <<link, fs, doomed, foreign, foreseen, calm, real, runs>>

ensureHardlink ==
    /\ pc = "evalTarget"
    /\ real' = Follow(fs, link.to)
    /\ CASE Stat(fs, link.to) # "ok" -> Fail
         [] Stat(fs, link.to) = "ok" /\ fs["path"].kind = "none" -> Goto("createNew")
         [] OTHER -> IF fs["path"].ino = fs[real'].ino THEN Done("ok") ELSE Goto("assertNoBackup")
    /\ UNCHANGED <<link, fs, doomed, foreign, foreseen, calm, runs>>

repointSymlink ==
    /\ pc = "removeStale"
    /\ fs' = [fs EXCEPT !["path"] = NoEntry]
    /\ Goto("createNew")
    /\ UNCHANGED <<link, doomed, foreign, foreseen, calm, real, runs>>

assertNoAsideBackup ==
    /\ pc = "assertNoBackup"
    /\ IF Exists(fs, "old") THEN Fail ELSE Goto("moveAside")
    /\ UNCHANGED <<link, fs, doomed, foreign, foreseen, calm, real, runs>>

(***************************************************************************)
(* Moving the entry aside: link(2) and unlink, which never replace an      *)
(* entry at path.old, or a rename for directories and on Darwin.           *)
(***************************************************************************)
ByRename == fs["path"].kind = "dir" \/ link.darwin

\* rename(2): a directory replaces an empty directory only, anything else
\* replaces whatever is not a directory.
CanRename(from, to) ==
    IF fs[from].kind = "dir" THEN fs[to].kind = "none" \/ (fs[to].kind = "dir" /\ ~fs[to].full)
    ELSE fs[to].kind # "dir"

\* Mutant: every entry is moved aside with a rename.
RenameAside ==
    /\ pc = "moveAside"
    /\ IF CanRename("path", "old")
       THEN fs' = [fs EXCEPT !["old"] = fs["path"], !["path"] = NoEntry] /\ Goto("create")
       ELSE Fail /\ UNCHANGED fs
    /\ UNCHANGED <<link, doomed, foreign, foreseen, calm, real, runs>>

moveAsideNoReplace ==
    /\ pc = "moveAside"
    /\ IF ByRename
       THEN IF CanRename("path", "old")
            THEN fs' = [fs EXCEPT !["old"] = fs["path"], !["path"] = NoEntry] /\ Goto("create")
            ELSE Fail /\ UNCHANGED fs
       ELSE IF Exists(fs, "old") THEN Fail /\ UNCHANGED fs
            ELSE fs' = [fs EXCEPT !["old"] = fs["path"]] /\ Goto("removeOriginal")
    /\ UNCHANGED <<link, doomed, foreign, foreseen, calm, real, runs>>

\* A failed removal takes the fresh aside away again.
moveAsideHardlink ==
    /\ pc = "removeOriginal"
    /\ \/ fs' = [fs EXCEPT !["path"] = NoEntry] /\ Goto("create") /\ UNCHANGED calm
       \/ fs' = [fs EXCEPT !["old"] = NoEntry] /\ Fail /\ calm' = FALSE
    /\ UNCHANGED <<link, doomed, foreign, foreseen, real, runs>>

NewEntry ==
    IF link.op = "hardlink" THEN fs[real]
    ELSE [kind |-> "symlink", ino |-> 100 + runs, to |-> link.to, full |-> FALSE]

\* link(2) and symlink(2) refuse an existing name, link(2) a directory or a
\* target that went away.
CreateFails ==
    \/ Exists(fs, "path")
    \/ link.op = "hardlink" /\ fs[real].kind \in {"none", "dir"}

createLink ==
    /\ pc = "createNew"
    /\ IF CreateFails THEN Fail /\ UNCHANGED fs
       ELSE fs' = [fs EXCEPT !["path"] = NewEntry] /\ Done("changed")
    /\ UNCHANGED <<link, doomed, foreign, foreseen, calm, real, runs>>

replaceWithLink ==
    /\ pc = "create"
    /\ IF CreateFails THEN Goto("restore") /\ UNCHANGED fs
       ELSE fs' = [fs EXCEPT !["path"] = NewEntry] /\ Goto("removeAside")
    /\ UNCHANGED <<link, doomed, foreign, foreseen, calm, real, runs>>

\* The aside is renamed back over whatever is at the path by now.
restoreAside ==
    /\ pc = "restore"
    /\ IF Exists(fs, "old") /\ CanRename("old", "path")
       THEN fs' = [fs EXCEPT !["path"] = fs["old"], !["old"] = NoEntry]
       ELSE UNCHANGED fs
    /\ Fail
    /\ UNCHANGED <<link, doomed, foreign, foreseen, calm, real, runs>>

removeAside ==
    /\ pc = "removeAside"
    /\ IF fs["old"].kind = "dir" /\ fs["old"].full THEN Fail /\ UNCHANGED fs
       ELSE fs' = [fs EXCEPT !["old"] = NoEntry] /\ Done("changed")
    /\ UNCHANGED <<link, doomed, foreign, foreseen, calm, real, runs>>

ensureAbsent ==
    /\ pc = "lstatAbsent"
    /\ IF ~Exists(fs, "path") THEN Done("ok") /\ UNCHANGED fs
         ELSE IF fs["path"].kind = "dir" /\ fs["path"].full THEN Fail /\ UNCHANGED fs
         ELSE fs' = [fs EXCEPT !["path"] = NoEntry] /\ Done("changed")
    /\ UNCHANGED <<link, doomed, foreign, foreseen, calm, real, runs>>

(***************************************************************************)
(* The surroundings                                                        *)
(***************************************************************************)
Running == pc \notin {"idle", "done", "failed"}

\* Somebody puts an entry at path.old while an apply runs.
Plant(e) ==
    /\ Running /\ ~Exists(fs, "old") /\ foreign = {}
    /\ fs' = [fs EXCEPT !["old"] = e]
    /\ foreign' = {e.ino} /\ calm' = FALSE
    /\ UNCHANGED <<link, doomed, foreseen, real, note, pc, runs>>

Kill ==
    /\ Running
    /\ pc' = "failed" /\ calm' = FALSE
    /\ UNCHANGED <<link, fs, doomed, foreign, foreseen, real, note, runs>>

Again ==
    /\ pc \in {"done", "failed"} /\ runs < MaxRuns
    /\ pc' = "idle"
    /\ UNCHANGED <<link, fs, doomed, foreign, foreseen, calm, real, note, runs>>

Init ==
    /\ link \in Links /\ fs \in Worlds
    /\ doomed = {} /\ foreign = {} /\ foreseen = "none" /\ calm = FALSE /\ real = "target"
    /\ note = "none" /\ pc = "idle" /\ runs = 0

Next ==
    \/ Start \/ refuse \/ assertSymlinkTargetExists \/ ensureSymlink \/ ensureHardlink
    \/ repointSymlink \/ assertNoAsideBackup \/ moveAsideNoReplace \/ moveAsideHardlink
    \/ createLink \/ replaceWithLink \/ restoreAside \/ removeAside \/ ensureAbsent
    \/ (\E e \in Plants : Plant(e)) \/ Kill \/ Again

Spec == Init /\ [][Next]_vars

(***************************************************************************)
(* Properties                                                              *)
(***************************************************************************)
Kept(ino) == \E n \in Names : fs[n].ino = ino

InPlace ==
    IF link.op = "hardlink" THEN fs["path"].ino = fs[real].ino
    ELSE fs["path"].kind = "symlink" /\ fs["path"].to = link.to

\* An entry the apply found at the path is given up only once the link is in
\* its place, whatever step the apply stops at (replaceWithLink), and an
\* entry somebody put at path.old meanwhile is never replaced, except an empty
\* directory by a directory and anything by a rename on Darwin, as
\* moveAsideNoReplace says.
DataKept ==
    /\ link.op \in {"symlink", "hardlink"} =>
           \A ino \in doomed : Kept(ino) \/ InPlace
    /\ ~link.darwin => \A e \in Plants : e.ino \in foreign => Kept(e.ino) \/ e.kind = "dir"

\* An apply nothing interfered with does what the dry run before it said: the
\* same refusals but for a missing symlink target, the same "ok", and a
\* change where it said one or an error after the link was made.
DryRunHolds ==
    (calm /\ pc \in {"done", "failed"}) =>
        CASE note = "ok" -> foreseen = "ok"
          [] note = "changed" -> foreseen = "would"
          [] OTHER -> \/ foreseen = "error"
                      \/ Stat(fs, link.to) # "ok" \/ Exists(fs, "old")
                      \/ link.op = "hardlink" /\ fs[real].kind = "dir"
                      \/ link.op = "absent" /\ fs["path"].full

\* A symlink whose target does not exist is refused instead of left dangling
\* (resource/link/symlink.go): after a successful apply the link leads
\* somewhere.
LinkLeadsSomewhere ==
    (pc = "done" /\ Resolved(fs, link) = "symlink") => Stat(fs, "path") = "ok"
=============================================================================
