----------------------------- MODULE FileWrite ------------------------------
(***************************************************************************)
(* One apply of a file resource to its path, step by step (resource/file,  *)
(* internal/atomicfile): the content is resolved, checked by a validator   *)
(* on a private candidate, compared with the entry at the path, written to *)
(* a temporary file and renamed over it, and owner and mode are set        *)
(* through a descriptor.  Between any two steps the apply can be killed,   *)
(* the host can lose power, or somebody can put another entry at the path. *)
(*                                                                         *)
(* An entry is [kind, data, uid, mode, ours]: mode is "plain", "setid"      *)
(* (the bits a chown clears) or "noread" (its owner cannot open it), ours  *)
(* says that an apply put it there.  "away" is the file a planted symlink  *)
(* leads to.                                                               *)
(***************************************************************************)
EXTENDS Naturals, FiniteSets

CONSTANTS
    Decls,      \* declared files, see the fields below
    Entries,    \* entries found at the path, or planted
    MaxPlants,  \* bound on planted entries
    MaxRuns     \* bound on applies

VARIABLES
    decl,       \* [op, only, uid, uidSet, mode, modeSet, check, dry, root]
    path,       \* the entry at the path
    stable,     \* the entries a power loss may leave there
    away,       \* the file behind a planted symlink
    tmp, cand,  \* temporary file and validation candidate, or NoEntry
    content,    \* the resolved content, or ""
    verdict,    \* of the validator: "none", "pass", "fail"
    fd,         \* what owner and mode are set on: "none", "path" (a descriptor of the
                \* entry at the path), "gone" (a descriptor of a replaced entry),
                \* "name" (whatever the path leads to)
    found,      \* the entry an EnsureFile found
    first,      \* the entry when the apply started
    note,       \* the resource's noted outcome
    pc, plants, runs

run == <<tmp, cand, content, verdict, fd, found, note, pc>>
world == <<path, stable, away>>
vars == <<decl, world, run, first, plants, runs>>

(***************************************************************************)
(* What every declaration and every entry is: a validator cannot be        *)
(* combined with EnsureFile, only applies write partial content, and the   *)
(* content "" stands for no content at all.                                *)
(***************************************************************************)
IsDecl(d) ==
    /\ d = [op |-> d.op, only |-> d.only, uid |-> d.uid, uidSet |-> d.uidSet, mode |-> d.mode,
            modeSet |-> d.modeSet, check |-> d.check, dry |-> d.dry, root |-> d.root]
    /\ d.op \in {"content", "lines", "ensure", "absent"}
    /\ {d.only, d.uidSet, d.modeSet, d.check, d.dry, d.root} \subseteq BOOLEAN
    /\ d.op = "ensure" => ~d.check

IsEntry(e) ==
    /\ e = [kind |-> e.kind, data |-> e.data, uid |-> e.uid, mode |-> e.mode, ours |-> e.ours]
    /\ e.ours \in BOOLEAN

ConstantsOK ==
    /\ \A d \in Decls : IsDecl(d)
    /\ \A e \in Entries : IsEntry(e) /\ ~e.ours /\ e.data # "partial" /\ (e.kind = "reg" => e.data # "")

NoEntry == [kind |-> "none", data |-> "", uid |-> "", mode |-> "plain", ours |-> FALSE]
Regular(data, uid, mode, ours) ==
    [kind |-> "reg", data |-> data, uid |-> uid, mode |-> mode, ours |-> ours]

Writer == IF decl.root THEN "root" ELSE "user"

\* The owner the resource wants: the declared one, or the applying user.
WantUid == IF decl.uidSet THEN decl.uid ELSE Writer

Removes == decl.op = "absent"

(***************************************************************************)
(* Leaving                                                                 *)
(***************************************************************************)
Goto(l) == pc' = l
Done(st) == pc' = "done" /\ note' = st
Fail == pc' = "failed" /\ UNCHANGED note

(***************************************************************************)
(* Resolving the content                                                   *)
(***************************************************************************)
Readable(entry) == decl.root \/ entry.mode # "noread"

\* What a read of the path for a line edit gives: a symlink is followed, a
\* missing file is empty, another entry is refused.
readForLineEdit == path.kind \in {"none", "link"} \/ (path.kind = "reg" /\ Readable(path))

FirstStep(d) ==
    CASE d.op = "absent" -> "lstatAbsent" [] d.op = "ensure" -> "lstatEnsure" [] OTHER -> "resolve"

\* A source that cannot be read or a template that does not render fails.
resolve ==
    /\ pc = "resolve"
    /\ \/ Fail /\ UNCHANGED content
       \/ /\ decl.op = "lines" /\ path.kind = "none" /\ decl.only
          /\ Done("skipped") /\ UNCHANGED content
       \/ /\ decl.op = "lines" => readForLineEdit /\ ~(path.kind = "none" /\ decl.only)
          /\ content' = "new"
          /\ Goto(IF decl.check /\ ~decl.dry THEN "parent" ELSE "classify") /\ UNCHANGED note
    /\ UNCHANGED <<decl, world, tmp, cand, verdict, fd, found, first, plants, runs>>

(***************************************************************************)
(* Validation of a candidate                                               *)
(***************************************************************************)
verifyValidationParent ==
    /\ pc = "parent"
    /\ \/ Fail
       \/ Goto("candidate") /\ UNCHANGED note
    /\ UNCHANGED <<decl, world, tmp, cand, content, verdict, fd, found, first, plants, runs>>

createValidationCandidate ==
    /\ pc = "candidate"
    /\ \/ Fail /\ UNCHANGED cand
       \/ cand' = Regular("partial", Writer, "plain", TRUE) /\ Goto("stage") /\ UNCHANGED note
    /\ UNCHANGED <<decl, world, tmp, content, verdict, fd, found, first, plants, runs>>

writeValidationCandidate ==
    /\ pc = "stage"
    /\ \/ verdict' = "fail" /\ Goto("unstage") /\ UNCHANGED cand
       \/ cand' = [cand EXCEPT !.data = content] /\ Goto("validate") /\ UNCHANGED verdict
    /\ UNCHANGED <<decl, world, tmp, content, fd, found, note, first, plants, runs>>

runValidation ==
    /\ pc = "validate"
    /\ verdict' \in {"pass", "fail"}
    /\ Goto("unstage")
    /\ UNCHANGED <<decl, world, tmp, cand, content, fd, found, note, first, plants, runs>>

\* The candidate goes whatever the verdict; a failed removal fails the apply.
removeValidationCandidate ==
    /\ pc = "unstage"
    /\ \/ Fail /\ UNCHANGED cand
       \/ /\ cand' = NoEntry
          /\ IF verdict = "pass" THEN Goto("classify") /\ UNCHANGED note ELSE Fail
    /\ UNCHANGED <<decl, world, tmp, content, verdict, fd, found, first, plants, runs>>

(***************************************************************************)
(* Comparing and writing                                                   *)
(***************************************************************************)
\* Mutant: an unreadable file is taken for one with the content.
changedIfRead == path.kind # "reg" \/ (Readable(path) /\ path.data # content)

\* Anything but a regular file with the content counts as changed; so does a
\* file that cannot be read, as its checksum is the zero one.
changed == path.kind # "reg" \/ path.data # content \/ ~Readable(path)

ensureFile ==
    /\ pc = "classify"
    /\ CASE changed /\ decl.dry -> Done("would")
         [] changed /\ ~decl.dry -> Goto("temp") /\ UNCHANGED note
         [] ~changed /\ decl.dry -> Done("ok")
         [] OTHER -> Goto("open") /\ note' = "ok"
    /\ UNCHANGED <<decl, world, tmp, cand, content, verdict, fd, found, first, plants, runs>>

\* An unknown owner, or a directory that takes no new file, fails.
createTemp ==
    /\ pc = "temp"
    /\ \/ Fail /\ UNCHANGED tmp
       \/ tmp' = Regular("partial", Writer, "plain", TRUE) /\ Goto("write") /\ UNCHANGED note
    /\ UNCHANGED <<decl, world, cand, content, verdict, fd, found, first, plants, runs>>

dropTemp == tmp' = NoEntry /\ Fail

writeTemp ==
    /\ pc = "write"
    /\ \/ dropTemp
       \/ tmp' = [tmp EXCEPT !.data = content] /\ Goto("chownTemp") /\ UNCHANGED note
    /\ UNCHANGED <<decl, world, cand, content, verdict, fd, found, first, plants, runs>>

\* Without privilege only a chown to oneself succeeds.
chownTemp ==
    /\ pc = "chownTemp"
    /\ IF decl.root \/ WantUid = Writer
       THEN tmp' = [tmp EXCEPT !.uid = WantUid] /\ Goto("chmodTemp") /\ UNCHANGED note
       ELSE dropTemp
    /\ UNCHANGED <<decl, world, cand, content, verdict, fd, found, first, plants, runs>>

chmodTemp ==
    /\ pc = "chmodTemp"
    /\ \/ dropTemp
       \/ tmp' = [tmp EXCEPT !.mode = decl.mode] /\ Goto("sync") /\ UNCHANGED note
    /\ UNCHANGED <<decl, world, cand, content, verdict, fd, found, first, plants, runs>>

syncTemp ==
    /\ pc = "sync"
    /\ \/ dropTemp
       \/ Goto("rename") /\ UNCHANGED <<tmp, note>>
    /\ UNCHANGED <<decl, world, cand, content, verdict, fd, found, first, plants, runs>>

\* Mutant: the rename is reached without the sync before it.
RenameUnsynced ==
    /\ pc = "rename"
    /\ path' = tmp /\ tmp' = NoEntry
    /\ stable' = stable \cup {tmp, [tmp EXCEPT !.data = "partial"]}
    /\ Goto("syncDir") /\ fd' = "none"
    /\ UNCHANGED <<decl, away, cand, content, verdict, found, note, first, plants, runs>>

\* The rename replaces any entry but a directory, and is not on disk yet.
renameTemp ==
    /\ pc = "rename"
    /\ IF path.kind = "dir"
       THEN dropTemp /\ UNCHANGED world
       ELSE /\ path' = tmp /\ tmp' = NoEntry
            /\ stable' = stable \cup {tmp}
            /\ Goto("syncDir") /\ UNCHANGED <<away, note>>
    /\ UNCHANGED <<decl, cand, content, verdict, fd, found, first, plants, runs>>

\* Best effort: a file system that refuses it does not fail the write.
syncDir ==
    /\ pc = "syncDir"
    /\ stable' \in {{path}, stable}
    /\ Goto("open")
    /\ UNCHANGED <<decl, path, away, tmp, cand, content, verdict, fd, found, note, first, plants, runs>>

(***************************************************************************)
(* Owner and mode                                                          *)
(***************************************************************************)
\* Mutant: the open follows a symlink at the path.
OpenFollows ==
    /\ pc = "open"
    /\ IF path.kind = "none" THEN Fail /\ UNCHANGED fd
       ELSE fd' = (IF path.kind = "link" THEN "name" ELSE "path") /\ Goto("chown") /\ UNCHANGED note
    /\ UNCHANGED <<decl, world, tmp, cand, content, verdict, found, first, plants, runs>>

\* A symlink or a missing entry cannot be opened; a file its owner may not
\* read is left to the path.
openNoFollow ==
    /\ pc = "open"
    /\ IF path.kind \in {"none", "link"} THEN Fail /\ UNCHANGED fd
         ELSE IF path.mode = "noread" /\ ~decl.root THEN Goto("byName") /\ UNCHANGED <<fd, note>>
         ELSE fd' = "path" /\ Goto("chown") /\ UNCHANGED note
    /\ UNCHANGED <<decl, world, tmp, cand, content, verdict, found, first, plants, runs>>

applyAttributesViaPath ==
    /\ pc = "byName"
    /\ IF path.kind # "reg" THEN Fail /\ UNCHANGED fd
       ELSE fd' = "name" /\ Goto("chown") /\ UNCHANGED note
    /\ UNCHANGED <<decl, world, tmp, cand, content, verdict, found, first, plants, runs>>

\* What the apply may change: everything as root, else its own files.
MayChange(entry) == decl.root \/ entry.uid = Writer

\* An EnsureFile of an existing file changes only what the recipe set.
Preserves == decl.op = "ensure" /\ found # NoEntry
AttrUid(entry) == IF Preserves /\ ~decl.uidSet THEN entry.uid ELSE WantUid
AttrMode == IF Preserves /\ ~decl.modeSet THEN found.mode ELSE decl.mode

\* The inode the change reaches: none when somebody replaced it, or, by
\* name, when nothing is there any more.
Target == CASE fd = "path" \/ (fd = "name" /\ path.kind \notin {"link", "none"}) -> "path"
            [] fd = "name" /\ path.kind = "link" -> "away"
            [] OTHER -> "none"
Inode == CASE Target = "path" -> path [] Target = "away" -> away [] OTHER -> NoEntry

SetOn(entry) ==
    /\ path' = IF Target = "path" THEN entry ELSE path
    /\ away' = IF Target = "away" THEN entry ELSE away
    /\ stable' = IF Target = "path" THEN stable \cup {entry} ELSE stable

\* Any chown clears the set-id bits.
chown ==
    /\ pc = "chown"
    /\ IF \/ fd = "gone"
          \/ Target # "none" /\ MayChange(Inode) /\ (decl.root \/ AttrUid(Inode) = Inode.uid)
       THEN /\ SetOn([Inode EXCEPT !.uid = AttrUid(Inode),
                                  !.mode = IF @ = "setid" THEN "plain" ELSE @])
            /\ Goto("chmod") /\ UNCHANGED <<fd, note>>
       ELSE Fail /\ fd' = "none" /\ UNCHANGED world
    /\ UNCHANGED <<decl, tmp, cand, content, verdict, found, first, plants, runs>>

\* The outcome of a changed file is noted only now.
chmod ==
    /\ pc = "chmod" /\ fd' = "none"
    /\ IF fd = "gone" \/ (Target # "none" /\ MayChange(Inode))
       THEN SetOn([Inode EXCEPT !.mode = AttrMode]) /\ Done(IF note = "ok" THEN "ok" ELSE "changed")
       ELSE Fail /\ UNCHANGED world
    /\ UNCHANGED <<decl, tmp, cand, content, verdict, found, first, plants, runs>>

(***************************************************************************)
(* EnsureFile and absent files                                             *)
(***************************************************************************)
explicitMetadataChanged ==
    \/ decl.modeSet /\ path.mode # decl.mode
    \/ decl.uidSet /\ path.uid # decl.uid

ensurePresent ==
    /\ pc = "lstatEnsure"
    /\ found' = IF path.kind = "reg" THEN path ELSE NoEntry
    /\ CASE path.kind = "none" -> content' = "empty" /\ Goto("classify") /\ UNCHANGED note
         [] path.kind \notin {"none", "reg"} -> Fail /\ UNCHANGED content
         [] OTHER -> /\ UNCHANGED content
                     /\ CASE ~explicitMetadataChanged -> Done("ok")
                          [] explicitMetadataChanged /\ decl.dry -> Done("would")
                          [] OTHER -> Goto("open") /\ UNCHANGED note
    /\ UNCHANGED <<decl, world, tmp, cand, verdict, fd, first, plants, runs>>

ensureAbsent ==
    /\ pc = "lstatAbsent"
    /\ CASE path.kind = "none" -> Done("ok")
         [] path.kind # "none" /\ decl.dry -> Done("would")
         [] OTHER -> Goto("remove") /\ UNCHANGED note
    /\ UNCHANGED <<decl, world, tmp, cand, content, verdict, fd, found, first, plants, runs>>

\* A directory that is not empty stays; an entry gone meanwhile is fine.
remove ==
    /\ pc = "remove"
    /\ \/ path.kind = "none" /\ Done("ok") /\ UNCHANGED world
       \/ path.kind # "none" /\ path' = NoEntry /\ stable' = stable \cup {NoEntry}
             /\ Done("changed") /\ UNCHANGED away
       \/ path.kind = "dir" /\ Fail /\ UNCHANGED world
    /\ UNCHANGED <<decl, tmp, cand, content, verdict, fd, found, first, plants, runs>>

(***************************************************************************)
(* Faults and repetition                                                   *)
(***************************************************************************)
Running == pc \notin {"done", "failed", "killed"}

\* Somebody else replaces the entry at the path; a descriptor keeps its inode.
Plant ==
    /\ Running /\ plants < MaxPlants
    /\ path' \in Entries \ {path}
    /\ stable' = {path'}
    /\ fd' = IF fd = "path" THEN "gone" ELSE fd
    /\ plants' = plants + 1
    /\ UNCHANGED <<decl, away, tmp, cand, content, verdict, found, note, first, pc, runs>>

Kill ==
    /\ Running
    /\ pc' = "killed"
    /\ UNCHANGED <<decl, world, tmp, cand, content, verdict, fd, found, note, first, plants, runs>>

PowerLoss ==
    /\ pc # "killed"
    /\ path' \in stable
    /\ stable' = {path'}
    /\ pc' = "killed"
    /\ UNCHANGED <<decl, away, tmp, cand, content, verdict, fd, found, note, first, plants, runs>>

\* The next apply; what a killed one left under random names is not touched.
Again ==
    /\ ~Running /\ runs < MaxRuns
    /\ runs' = runs + 1
    /\ decl' \in {decl, [decl EXCEPT !.dry = FALSE]}
    /\ tmp' = NoEntry /\ cand' = NoEntry /\ content' = "" /\ verdict' = "none"
    /\ fd' = "none" /\ found' = NoEntry /\ note' = "none" /\ pc' = FirstStep(decl')
    /\ first' = path /\ plants' = 0
    /\ UNCHANGED world

Init ==
    /\ decl \in Decls
    /\ path \in Entries
    /\ stable = {path}
    /\ away = Regular("away", "other", "setid", FALSE)
    /\ tmp = NoEntry /\ cand = NoEntry /\ content = "" /\ verdict = "none"
    /\ fd = "none" /\ found = NoEntry /\ note = "none" /\ pc = FirstStep(decl)
    /\ first = path /\ plants = 0 /\ runs = 1

Next ==
    \/ resolve
    \/ verifyValidationParent \/ createValidationCandidate \/ writeValidationCandidate
    \/ runValidation \/ removeValidationCandidate
    \/ ensureFile \/ createTemp \/ writeTemp \/ chownTemp \/ chmodTemp \/ syncTemp
    \/ renameTemp \/ syncDir \/ openNoFollow \/ applyAttributesViaPath \/ chown \/ chmod
    \/ ensurePresent \/ ensureAbsent \/ remove
    \/ Plant \/ Kill \/ PowerLoss \/ Again

Spec == Init /\ [][Next]_vars

(***************************************************************************)
(* Properties                                                              *)
(***************************************************************************)
\* Whatever is killed and whenever the power goes, the path holds a whole
\* file: what was there, what somebody put there, or the complete content,
\* and the content only once the validator passed it.  An apply that fails
\* before its rename leaves the entry as it was, and only a killed one (or
\* one that could not unlink its candidate) leaves files behind.
WholeFiles ==
    /\ \A e \in stable \cup {path} : e.data # "partial"
    /\ (path.ours /\ path # first /\ decl.check /\ ~Removes /\ pc # "killed") =>
           path.data = first.data \/ verdict = "pass"
    /\ (pc = "failed" /\ plants = 0 /\ ~path.ours) => path.kind = first.kind /\ path.data = first.data
    /\ pc \in {"done", "failed"} => tmp = NoEntry
    /\ pc = "done" => cand = NoEntry

\* An apply never changes a file through a symlink at its path, and a file
\* it wrote never carries set-id bits under an owner other than the declared
\* one, not even for a moment (writeAtomic: the temporary file gets owner
\* before mode, applyAttributesTo chowns before it chmods).
AttributesSafe ==
    /\ away = Regular("away", "other", "setid", FALSE)
    /\ \A e \in stable \cup {path} :
           (e.ours /\ e.mode = "setid" /\ e # first) => e.uid = WantUid

\* What the apply found was not as declared.  Of a regular file that is its
\* content, or that the apply cannot read it; of an EnsureFile the declared
\* owner and mode.
Owed ==
    \/ Removes /\ first.kind # "none"
    \/ /\ decl.op = "ensure"
       /\ \/ first.kind = "none"
          \/ decl.modeSet /\ first.mode # decl.mode
          \/ decl.uidSet /\ first.uid # decl.uid
    \/ /\ decl.op \in {"content", "lines"}
       /\ first.kind # "reg" \/ first.data # content \/ ~Readable(first)

\* An apply that ends well tells the truth: without interference the path is
\* as declared when it reports ok or changed, it reports a change, or in a dry
\* run that it would make one, exactly when what it found was not as declared
\* or could not be read, and a dry run touches nothing.
OutcomeTrue ==
    /\ decl.dry /\ plants = 0 /\ pc # "killed" => path = first
    /\ (pc = "done" /\ plants = 0) =>
           /\ note = "skipped" => path = first
           /\ note \in {"ok", "changed"} /\ ~decl.dry =>
                  \/ Removes /\ path.kind = "none"
                  \/ /\ ~Removes /\ path.kind = "reg"
                     /\ content # "" => path.data = content
                     /\ decl.uidSet \/ decl.op # "ensure" => path.uid = WantUid
                     /\ decl.modeSet \/ decl.op # "ensure" => path.mode = decl.mode
           /\ note = "ok" => ~Owed
           /\ note \in {"changed", "would"} => Owed

(***************************************************************************)
(* The inductive invariants behind them: where an apply stands tells what  *)
(* it has written so far.                                                  *)
(***************************************************************************)
Reading == {"resolve", "lstatEnsure", "lstatAbsent", "classify"}
Staging == {"parent", "candidate", "stage", "validate", "unstage"}
Writing == {"write", "chownTemp", "chmodTemp", "sync", "rename"}
Setting == {"open", "byName", "chown", "chmod"}
Stopped == {"done", "failed", "killed"}

TypeInv ==
    /\ IsDecl(decl)
    /\ \A e \in stable \cup {path, tmp, cand, found, first} : IsEntry(e)
    /\ content \in {"", "new", "empty"} /\ verdict \in {"none", "pass", "fail"}
    /\ fd \in {"none", "path", "gone", "name"}
    /\ note \in {"none", "ok", "skipped", "would", "changed"}
    /\ pc \in Reading \cup Staging \cup {"temp", "syncDir", "remove"} \cup Writing \cup Setting
               \cup Stopped
    /\ plants \in Nat

\* The control: which steps a declaration leads to, and what has been
\* decided when a step is reached.
ControlInv ==
    /\ pc \in {"lstatAbsent", "remove"} => decl.op = "absent"
    /\ pc \in (Reading \ {"lstatAbsent"}) \cup Staging \cup {"temp", "syncDir"} \cup Writing \cup Setting
           => decl.op # "absent"
    /\ pc = "lstatEnsure" => decl.op = "ensure" /\ content = ""
    /\ pc \in {"resolve"} \cup Staging => decl.op \in {"content", "lines"}
    /\ pc \in {"classify", "temp", "syncDir"} \cup Writing \cup Staging => content # ""
    /\ decl.dry => pc \in Reading \cup Stopped
    /\ pc \in {"resolve", "parent", "candidate", "stage", "validate"} => verdict = "none"
    /\ (decl.check /\ ~decl.dry /\ pc \in {"classify", "temp", "syncDir"} \cup Writing)
           => verdict = "pass"
    /\ pc \notin Writing \cup {"killed"} => tmp = NoEntry
    /\ pc \notin {"stage", "validate", "unstage", "failed", "killed"} => cand = NoEntry

\* The temporary file is complete, and its owner's, before it is renamed.
TempInv ==
    /\ pc \in Writing => tmp.ours /\ tmp.kind = "reg"
    /\ pc \in {"chownTemp", "chmodTemp", "sync", "rename"} => tmp.data = content
    /\ pc \in {"chmodTemp", "sync", "rename"} => tmp.uid = WantUid

\* What is at the path, and what a power loss may leave there.
PathInv ==
    /\ \A e \in stable \cup {path} :
          /\ e.data # "partial" /\ (e.kind = "reg" => e.data # "")
          /\ e.ours => e.uid = WantUid
    /\ (path.ours /\ path # first /\ decl.check /\ ~Removes /\ pc # "killed") =>
           path.data = first.data \/ verdict = "pass"
    /\ (plants = 0 /\ ~path.ours /\ pc \notin {"done", "killed"}) =>
           path.kind = first.kind /\ path.data = first.data

\* Owner and mode never reach the file behind a symlink: a change by name
\* is made without privilege only.
AwayInv ==
    /\ away = Regular("away", "other", "setid", FALSE)
    /\ fd = "name" \/ pc = "byName" => ~decl.root

\* Undisturbed, an apply finds at each step what it left there.
QuietInv ==
    plants = 0 =>
        /\ fd # "gone"
        /\ pc \in Reading \cup Staging \cup {"temp", "remove"} \cup Writing => path = first
        /\ decl.dry /\ pc # "killed" => path = first
        /\ pc \in {"syncDir"} \cup Setting => path.kind = "reg" /\ (content # "" => path.data = content)
        /\ pc \in {"chown", "chmod"} => fd \in {"path", "name"}
        /\ pc = "chmod" => (decl.uidSet \/ decl.op # "ensure" => path.uid = WantUid)
        /\ pc \notin Setting \cup Stopped => note = "none"
        /\ pc = "classify" /\ decl.op = "ensure" => first.kind = "none"
        /\ pc \in {"temp", "syncDir", "remove"} \cup Writing => Owed
        /\ pc \in Setting => note = IF Owed THEN "none" ELSE "ok"
        /\ first.kind = "reg" => first.data # ""

FileInv == TypeInv /\ ControlInv /\ TempInv /\ PathInv /\ AwayInv /\ QuietInv /\ OutcomeTrue
=============================================================================
