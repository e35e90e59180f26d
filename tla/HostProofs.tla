----------------------------- MODULE HostProofs -----------------------------
(***************************************************************************)
(* What a file or link resource does to the path it declares, for every    *)
(* declaration, every entry found there and any number of applies, kills   *)
(* and planted entries (modules FileWrite and LinkApply), the way of a     *)
(* File declaration to its destination (FileDecl), and what a service or   *)
(* timer does to its unit (ServiceConverge).  Each part below has its own  *)
(* variables and its own invariant.                                        *)
(*                                                                         *)
(* FileWrite: FileInv.  It says of each step of the apply what is known    *)
(* there: ControlInv what was decided on the way, TempInv how complete the *)
(* temporary file is, PathInv what is at the path and on disk, AwayInv     *)
(* that a change by name is made without privilege, and QuietInv what an   *)
(* undisturbed apply finds.                                                *)
(*                                                                         *)
(* LinkApply: LinkInv.  Entries are followed by identity: Identities says  *)
(* that an identity is of one kind, Steps and Replaced what an apply knows *)
(* where it is, above all that a hard link leads to nothing that is moved  *)
(* aside.  Once an entry is lost (LossesInv) the link is in place, and in  *)
(* a way that the next apply finds it so and replaces nothing again;       *)
(* without that the invariant is not inductive, as a second apply could    *)
(* give up the link it stands on.  PreviewInv is on top of it: Foresight   *)
(* says at each step of an undisturbed apply that what the dry run said is *)
(* what it would say of the entries as they are, or has been decided.      *)
(*                                                                         *)
(* FileDecl: DeclInv.  Shaped says what holds of a file whatever options   *)
(* it was built with, in any order; Probes that a secret's content was     *)
(* replaced by nobody unless the probe shows it.  DestinationMirrors is    *)
(* the step to the destination: an op is refused for want of content only, *)
(* and what is built from any other one does what the file does.           *)
(*                                                                         *)
(* ServiceConverge: ServiceInv.  Removing and Providing say what the       *)
(* actions left to run are, as lists that depend on what the host still    *)
(* lacks, so the last one leaves the unit as declared; Converged is what   *)
(* of that the next apply sees, and Asked why it runs anything after a     *)
(* good one.                                                               *)
(*                                                                         *)
(* The ConstantsOK of FileWrite, LinkApply and ServiceConverge are         *)
(* hypotheses; the instances TLC checks satisfy them.                      *)
(***************************************************************************)
EXTENDS FileWrite, SequenceTheorems, TLAPS

CONSTANTS
    LinkWorlds, Links, Plants,                      \* of LinkApply
    Constructors, DeclPaths, DeclNames, MaxOptions, \* of FileDecl
    ServiceDecls, ServiceHosts, NoFlags, MaxApplies, MaxFails  \* of ServiceConverge

VARIABLES
    link, fs, doomed, foreign, foreseen, calm, real, linkNote, linkAt, linkRuns,
    ctor, declPath, calls, file, probe, planOp, applied, at,
    unit, host, asked, todo, unitNote, unitAt, applies, fails, prior, acted, intact

Link == INSTANCE LinkApply WITH
    Worlds <- LinkWorlds, note <- linkNote, pc <- linkAt, runs <- linkRuns
Decl == INSTANCE FileDecl WITH Paths <- DeclPaths, Names <- DeclNames, path <- declPath, op <- planOp
Serve == INSTANCE ServiceConverge WITH
    Decls <- ServiceDecls, Hosts <- ServiceHosts, decl <- unit, changed <- asked,
    note <- unitNote, pc <- unitAt, start <- prior, calm <- intact

(***************************************************************************)
(* Entries and declarations under an update of one field                   *)
(***************************************************************************)

\* Writing the content of an entry.
LEMMA SetData ==
    ASSUME NEW e, IsEntry(e), NEW d
    PROVE  LET n == [e EXCEPT !.data = d]
           IN  IsEntry(n) /\ n.data = d
               /\ n.kind = e.kind /\ n.uid = e.uid /\ n.mode = e.mode /\ n.ours = e.ours
<1> DEFINE n == [e EXCEPT !.data = d]
<1>1. e = [kind |-> e.kind, data |-> e.data, uid |-> e.uid, mode |-> e.mode, ours |-> e.ours]
  BY DEF IsEntry
<1>2. n = [kind |-> e.kind, data |-> d, uid |-> e.uid, mode |-> e.mode, ours |-> e.ours]
  BY <1>1
<1> HIDE DEF n
<1> QED
  BY <1>2 DEF IsEntry

\* Changing the owner of an entry.
LEMMA SetUid ==
    ASSUME NEW e, IsEntry(e), NEW u
    PROVE  LET n == [e EXCEPT !.uid = u]
           IN  IsEntry(n) /\ n.uid = u
               /\ n.kind = e.kind /\ n.data = e.data /\ n.mode = e.mode /\ n.ours = e.ours
<1> DEFINE n == [e EXCEPT !.uid = u]
<1>1. e = [kind |-> e.kind, data |-> e.data, uid |-> e.uid, mode |-> e.mode, ours |-> e.ours]
  BY DEF IsEntry
<1>2. n = [kind |-> e.kind, data |-> e.data, uid |-> u, mode |-> e.mode, ours |-> e.ours]
  BY <1>1
<1> HIDE DEF n
<1> QED
  BY <1>2 DEF IsEntry

\* Changing the mode of an entry.
LEMMA SetMode ==
    ASSUME NEW e, IsEntry(e), NEW m
    PROVE  LET n == [e EXCEPT !.mode = m]
           IN  IsEntry(n) /\ n.mode = m
               /\ n.kind = e.kind /\ n.data = e.data /\ n.uid = e.uid /\ n.ours = e.ours
<1> DEFINE n == [e EXCEPT !.mode = m]
<1>1. e = [kind |-> e.kind, data |-> e.data, uid |-> e.uid, mode |-> e.mode, ours |-> e.ours]
  BY DEF IsEntry
<1>2. n = [kind |-> e.kind, data |-> e.data, uid |-> e.uid, mode |-> m, ours |-> e.ours]
  BY <1>1
<1> HIDE DEF n
<1> QED
  BY <1>2 DEF IsEntry

\* The next apply has the declaration of the one before, dry or not.
LEMMA SetDry ==
    ASSUME NEW d, IsDecl(d), NEW b \in BOOLEAN
    PROVE  LET e == [d EXCEPT !.dry = b]
           IN  /\ IsDecl(e) /\ e.dry = b
               /\ e.op = d.op /\ e.uid = d.uid /\ e.mode = d.mode /\ e.only = d.only
               /\ e.uidSet = d.uidSet /\ e.modeSet = d.modeSet
               /\ e.check = d.check /\ e.root = d.root
<1> DEFINE e == [d EXCEPT !.dry = b]
<1>1. d = [op |-> d.op, only |-> d.only, uid |-> d.uid, uidSet |-> d.uidSet, mode |-> d.mode,
           modeSet |-> d.modeSet, check |-> d.check, dry |-> d.dry, root |-> d.root]
  BY DEF IsDecl
<1>2. e = [op |-> d.op, only |-> d.only, uid |-> d.uid, uidSet |-> d.uidSet, mode |-> d.mode,
           modeSet |-> d.modeSet, check |-> d.check, dry |-> b, root |-> d.root]
  BY <1>1
<1> HIDE DEF e
<1>3. /\ e.dry = b
      /\ e.op = d.op /\ e.uid = d.uid /\ e.mode = d.mode /\ e.only = d.only
      /\ e.uidSet = d.uidSet /\ e.modeSet = d.modeSet
      /\ e.check = d.check /\ e.root = d.root
  BY <1>2
<1>4. IsDecl(e)
  BY <1>2, <1>3 DEF IsDecl
<1> QED
  BY <1>3, <1>4 DEF e

\* Nothing at the path is an entry too, and not ours.
LEMMA EmptyEntry == IsEntry(NoEntry) /\ NoEntry.kind = "none" /\ NoEntry.data = "" /\ ~NoEntry.ours
BY DEF IsEntry, NoEntry

\* A created temporary file or candidate is ours.
LEMMA NewFile ==
    LET r == Regular("partial", Writer, "plain", TRUE)
    IN  IsEntry(r) /\ r.kind = "reg" /\ r.ours
BY DEF IsEntry, Regular

\* Every step leads to a step of the apply or stops it.
LEMMA PcStep ==
    ASSUME TypeInv, Next
    PROVE  pc' \in Reading \cup Staging \cup {"temp", "syncDir", "remove"} \cup Writing \cup Setting
                        \cup Stopped
BY DEF TypeInv, Reading, Staging, Writing, Setting, Stopped, Next, resolve, verifyValidationParent,
         createValidationCandidate, writeValidationCandidate, runValidation, removeValidationCandidate,
             ensureFile, createTemp,
         writeTemp, chownTemp, chmodTemp, syncTemp, renameTemp, syncDir, openNoFollow,
         applyAttributesViaPath, chown, chmod, ensurePresent, ensureAbsent, remove, Plant, Kill,
         PowerLoss, Again, FirstStep, Goto, Done, Fail, dropTemp

\* How an action can change the entry at the path through fd.
LEMMA AttributeEdit ==
    ASSUME TypeInv, chown \/ chmod
    PROVE  IF Target = "path" /\ pc' # "failed"
           THEN /\ fd # "gone"
                /\ IsEntry(path') /\ stable' = stable \cup {path'}
                /\ path'.kind = path.kind /\ path'.data = path.data /\ path'.ours = path.ours
                /\ chown => path'.uid = AttrUid(path) /\ path'.mode # "setid"
                /\ chmod => path'.uid = path.uid /\ path'.mode = AttrMode
           ELSE path' = path /\ stable' = stable
<1>0. IsEntry(path) /\ ~(chown /\ chmod) /\ (Target = "path" => fd # "gone")
  BY DEF TypeInv, chown, chmod, Target
<1>1. CASE chown
  <2> DEFINE m == IF path.mode = "setid" THEN "plain" ELSE path.mode
  <2>1. IF Target = "path" /\ pc' # "failed"
        THEN /\ path' = [path EXCEPT !.uid = AttrUid(path), !.mode = m]
             /\ stable' = stable \cup {path'}
        ELSE path' = path /\ stable' = stable
    BY <1>1 DEF chown, world, SetOn, Inode, Goto, Fail
  <2> DEFINE u == AttrUid(path)
             i == [path EXCEPT !.uid = u]
             n == [i EXCEPT !.mode = m]
  <2>3. m # "setid" /\ [path EXCEPT !.uid = AttrUid(path), !.mode = m] = n
    OBVIOUS
  <2> HIDE DEF m, u
  <2>4. IsEntry(i) /\ i.uid = u /\ i.kind = path.kind /\ i.data = path.data /\ i.ours = path.ours
    BY <1>0, SetUid
  <2> HIDE DEF i
  <2>5. IsEntry(n) /\ n.mode = m /\ n.uid = i.uid /\ n.kind = i.kind /\ n.data = i.data /\
            n.ours = i.ours
    BY <2>4, SetMode
  <2> HIDE DEF n
  <2>6. IF Target = "path" /\ pc' # "failed"
        THEN path' = n /\ stable' = stable \cup {path'}
        ELSE path' = path /\ stable' = stable
    BY <2>1, <2>3
  <2> QED
    BY <1>0, <1>1, <2>3, <2>4, <2>5, <2>6 DEF u
<1>2. CASE chmod
  <2> DEFINE n == [path EXCEPT !.mode = AttrMode]
  <2>1. IF Target = "path" /\ pc' # "failed"
        THEN path' = n /\ stable' = stable \cup {path'}
        ELSE path' = path /\ stable' = stable
    BY <1>2 DEF chmod, world, SetOn, Inode, Done, Fail
  <2>3. /\ IsEntry(n) /\ n.mode = AttrMode /\ n.uid = path.uid
        /\ n.kind = path.kind /\ n.data = path.data /\ n.ours = path.ours
    BY <1>0, SetMode
  <2> HIDE DEF n
  <2> QED
    BY <1>0, <1>2, <2>1, <2>3
<1> QED
  BY <1>1, <1>2

\* How an action changes the temporary file.
LEMMA TempEdit ==
    ASSUME IsEntry(tmp)
    PROVE  /\ writeTemp => \/ tmp' = NoEntry /\ pc' = "failed"
                           \/ /\ IsEntry(tmp') /\ pc' = "chownTemp" /\ tmp'.data = content
                              /\ tmp'.kind = tmp.kind /\ tmp'.ours = tmp.ours
           /\ chownTemp => \/ tmp' = NoEntry /\ pc' = "failed"
                           \/ /\ IsEntry(tmp') /\ pc' = "chmodTemp" /\ tmp'.uid = WantUid
                              /\ tmp'.kind = tmp.kind /\ tmp'.data = tmp.data /\ tmp'.ours = tmp.ours
           /\ chmodTemp => \/ tmp' = NoEntry /\ pc' = "failed"
                           \/ /\ IsEntry(tmp') /\ pc' = "sync" /\ tmp'.uid = tmp.uid
                              /\ tmp'.kind = tmp.kind /\ tmp'.data = tmp.data /\ tmp'.ours = tmp.ours
<1> USE DEF Goto, Fail, dropTemp
<1>1. ASSUME writeTemp
      PROVE  \/ tmp' = NoEntry /\ pc' = "failed"
             \/ /\ IsEntry(tmp') /\ pc' = "chownTemp" /\ tmp'.data = content
                /\ tmp'.kind = tmp.kind /\ tmp'.ours = tmp.ours
  <2> DEFINE n == [tmp EXCEPT !.data = content]
  <2>1. IsEntry(n) /\ n.data = content /\ n.kind = tmp.kind /\ n.ours = tmp.ours
    BY SetData
  <2>2. (tmp' = NoEntry /\ pc' = "failed") \/ (tmp' = n /\ pc' = "chownTemp")
    BY <1>1 DEF writeTemp
  <2> HIDE DEF n
  <2> QED
    BY <2>1, <2>2
<1>2. ASSUME chownTemp
      PROVE  \/ tmp' = NoEntry /\ pc' = "failed"
             \/ /\ IsEntry(tmp') /\ pc' = "chmodTemp" /\ tmp'.uid = WantUid
                /\ tmp'.kind = tmp.kind /\ tmp'.data = tmp.data /\ tmp'.ours = tmp.ours
  <2> DEFINE n == [tmp EXCEPT !.uid = WantUid]
  <2>1. IsEntry(n) /\ n.uid = WantUid /\ n.kind = tmp.kind /\ n.data = tmp.data /\ n.ours = tmp.ours
    BY SetUid
  <2>2. (tmp' = NoEntry /\ pc' = "failed") \/ (tmp' = n /\ pc' = "chmodTemp")
    BY <1>2 DEF chownTemp
  <2> HIDE DEF n
  <2> QED
    BY <2>1, <2>2
<1>3. ASSUME chmodTemp
      PROVE  \/ tmp' = NoEntry /\ pc' = "failed"
             \/ /\ IsEntry(tmp') /\ pc' = "sync" /\ tmp'.uid = tmp.uid
                /\ tmp'.kind = tmp.kind /\ tmp'.data = tmp.data /\ tmp'.ours = tmp.ours
  <2> DEFINE n == [tmp EXCEPT !.mode = decl.mode]
  <2>1. IsEntry(n) /\ n.uid = tmp.uid /\ n.kind = tmp.kind /\ n.data = tmp.data /\ n.ours = tmp.ours
    BY SetMode
  <2>2. (tmp' = NoEntry /\ pc' = "failed") \/ (tmp' = n /\ pc' = "sync")
    BY <1>3 DEF chmodTemp
  <2> HIDE DEF n
  <2> QED
    BY <2>1, <2>2
<1> QED
  BY <1>1, <1>2, <1>3

\* The steps that leave the path, the disk and the declaration alone are
\* taken while the apply runs; a verdict only comes while a candidate is staged.
LEMMA OtherSteps ==
    ASSUME Next
    PROVE  \/ /\ UNCHANGED <<decl, world, first, plants>>
              /\ pc \notin Stopped /\ (verdict' = verdict \/ pc \in {"stage", "validate"})
           \/ renameTemp \/ syncDir \/ chown \/ chmod \/ remove \/ Plant \/ PowerLoss \/ Again
BY DEF world, Running, Stopped,
       Next, resolve, verifyValidationParent, createValidationCandidate,
       writeValidationCandidate, runValidation, removeValidationCandidate, ensureFile,
       createTemp, writeTemp, chownTemp, chmodTemp, syncTemp, openNoFollow,
       applyAttributesViaPath, ensurePresent, ensureAbsent, Kill

\* Every step keeps the types.
LEMMA TypeStep ==
    ASSUME ConstantsOK, TypeInv, Next
    PROVE  TypeInv'
<1>1. /\ content' \in {"", "new", "empty"} /\ verdict' \in {"none", "pass", "fail"}
      /\ fd' \in {"none", "path", "gone", "name"}
      /\ note' \in {"none", "ok", "skipped", "would", "changed"}
      /\ plants' \in Nat
  <2>1. /\ content' \in {content, "", "new", "empty"}
        /\ verdict' \in {verdict, "none", "pass", "fail"}
        /\ fd' \in {fd, "none", "path", "gone", "name"}
        /\ note' \in {note, "none", "ok", "skipped", "would", "changed"}
        /\ plants' = plants \/ plants' = plants + 1 \/ plants' = 0
    BY DEF Next, Goto, Done, Fail, dropTemp,
           resolve, verifyValidationParent, createValidationCandidate,
           writeValidationCandidate, runValidation, removeValidationCandidate, ensureFile,
           createTemp, writeTemp, chownTemp, chmodTemp, syncTemp, renameTemp, syncDir,
           openNoFollow, applyAttributesViaPath, chown, chmod, ensurePresent, ensureAbsent,
           remove, Plant, Kill, PowerLoss, Again
  <2>2. /\ content \in {"", "new", "empty"} /\ verdict \in {"none", "pass", "fail"}
        /\ fd \in {"none", "path", "gone", "name"}
        /\ note \in {"none", "ok", "skipped", "would", "changed"}
        /\ plants \in Nat
    BY DEF TypeInv
  <2>3. plants' \in Nat
    <3>1. plants \in Nat
      BY <2>2
    <3>2. plants' = plants \/ plants' = plants + 1 \/ plants' = 0
      BY <2>1
    <3> QED
      BY <3>1, <3>2
  <2>4. content' \in {"", "new", "empty"} /\ verdict' \in {"none", "pass", "fail"}
    BY <2>1, <2>2, Zenon
  <2>5. fd' \in {"none", "path", "gone", "name"}
    BY <2>1, <2>2, Zenon
  <2>6. note' \in {"none", "ok", "skipped", "would", "changed"}
    BY <2>1, <2>2, Zenon
  <2> QED
    BY <2>3, <2>4, <2>5, <2>6
<1>2. IsDecl(decl')
  <2>1. CASE Again
    BY <2>1, SetDry DEF TypeInv, Again
  <2>2. CASE ~Again
    BY <2>2, OtherSteps DEF TypeInv, renameTemp, syncDir, chown, chmod, remove, Plant, PowerLoss
  <2> QED
    BY <2>1, <2>2
<1>3. IsEntry(tmp')
  <2>1. IsEntry(tmp)
    BY DEF TypeInv
  <2>2. CASE writeTemp \/ chownTemp \/ chmodTemp
    BY <2>1, <2>2, TempEdit, EmptyEntry
  <2>3. tmp' \in {tmp, NoEntry, Regular("partial", Writer, "plain", TRUE)} => IsEntry(tmp')
    BY EmptyEntry, NewFile DEF TypeInv
  <2> QED
    BY <2>2, <2>3 DEF dropTemp,
           Next, resolve, verifyValidationParent, createValidationCandidate,
           writeValidationCandidate, runValidation, removeValidationCandidate, ensureFile,
           createTemp, syncTemp, renameTemp, syncDir, openNoFollow, applyAttributesViaPath,
           chown, chmod, ensurePresent, ensureAbsent, remove, Plant, Kill, PowerLoss, Again
<1>4. IsEntry(cand')
  <2>1. CASE writeValidationCandidate
    BY <2>1, SetData DEF TypeInv, writeValidationCandidate
  <2>2. cand' \in {cand, NoEntry, Regular("partial", Writer, "plain", TRUE)} => IsEntry(cand')
    BY EmptyEntry, NewFile DEF TypeInv
  <2> QED
    BY <2>1, <2>2 DEF
           Next, resolve, verifyValidationParent, createValidationCandidate, runValidation,
           removeValidationCandidate, ensureFile, createTemp, writeTemp, chownTemp, chmodTemp,
           syncTemp, renameTemp, syncDir, openNoFollow, applyAttributesViaPath, chown, chmod,
           ensurePresent, ensureAbsent, remove, Plant, Kill, PowerLoss, Again
<1>5. IsEntry(found')
  <2>1. found' \in {found, path, NoEntry} => IsEntry(found')
    BY EmptyEntry, NewFile DEF TypeInv
  <2> QED
    BY <2>1 DEF
           Next, resolve, verifyValidationParent, createValidationCandidate,
           writeValidationCandidate, runValidation, removeValidationCandidate, ensureFile,
           createTemp, writeTemp, chownTemp, chmodTemp, syncTemp, renameTemp, syncDir,
           openNoFollow, applyAttributesViaPath, chown, chmod, ensurePresent, ensureAbsent,
           remove, Plant, Kill, PowerLoss, Again
<1>6. \A e \in stable' \cup {path', first'} : IsEntry(e)
  <2>1. CASE UNCHANGED <<decl, world, first, plants>>
    BY <2>1 DEF TypeInv, world
  <2>2. CASE renameTemp \/ syncDir \/ PowerLoss \/ Again
    BY <2>2 DEF TypeInv, renameTemp, syncDir, PowerLoss, Again, world
  <2>3. CASE chown \/ chmod
    BY <2>3, AttributeEdit DEF TypeInv, chown, chmod
  <2>4. CASE remove
    BY <2>4, EmptyEntry DEF TypeInv, remove, world
  <2>5. CASE Plant
    BY <2>5 DEF ConstantsOK, TypeInv, Plant
  <2> QED
    BY <2>1, <2>2, <2>3, <2>4, <2>5, OtherSteps
<1> QED
  BY <1>1, <1>2, <1>3, <1>4, <1>5, <1>6, PcStep DEF TypeInv

\* Every step keeps the control invariant: a rename is reached only past a
\* verdict, a dry run never leaves the reading steps, and what was created
\* under a random name is gone before the apply ends.
LEMMA ControlStep ==
    ASSUME TypeInv, ControlInv, Next
    PROVE  ControlInv'
<1> USE DEF Goto, Done, Fail, dropTemp, Reading, Staging, Writing, Setting, Stopped
<1>1. CASE resolve
  BY <1>1 DEF IsDecl, TypeInv, ControlInv, resolve
<1>2. CASE verifyValidationParent \/ createValidationCandidate
  BY <1>2 DEF ControlInv, verifyValidationParent, createValidationCandidate
<1>3. CASE writeValidationCandidate \/ runValidation \/ removeValidationCandidate
  BY <1>3 DEF ControlInv, writeValidationCandidate, runValidation, removeValidationCandidate
<1>4. CASE ensureFile
  BY <1>4 DEF IsDecl, TypeInv, ControlInv, ensureFile
<1>5. CASE createTemp \/ writeTemp \/ chownTemp
  BY <1>5 DEF ControlInv, createTemp, writeTemp, chownTemp
<1>6. CASE chmodTemp \/ syncTemp \/ renameTemp
  BY <1>6 DEF ControlInv, chmodTemp, syncTemp, renameTemp
<1>7. CASE syncDir \/ openNoFollow \/ applyAttributesViaPath
  BY <1>7 DEF ControlInv, syncDir, openNoFollow, applyAttributesViaPath
<1>8. CASE chown \/ chmod
  BY <1>8 DEF ControlInv, chown, chmod
<1>9. CASE ensurePresent
  BY <1>9 DEF IsDecl, TypeInv, ControlInv, ensurePresent
<1>10. CASE ensureAbsent \/ remove
  BY <1>10 DEF ControlInv, ensureAbsent, remove
<1>11. CASE Plant \/ Kill \/ PowerLoss
  BY <1>11 DEF Running, ControlInv, Plant, Kill, PowerLoss
<1>12. CASE Again
  <2>1. decl'.op = decl.op /\ IsDecl(decl')
    BY <1>12, SetDry DEF TypeInv, Again
  <2> QED
    BY <1>12, <2>1 DEF ControlInv, Again, FirstStep, IsDecl
<1> QED
  BY <1>1, <1>2, <1>3, <1>4, <1>5, <1>6, <1>7, <1>8, <1>9, <1>10, <1>11, <1>12 DEF Next

\* Every step keeps the temporary file as complete as its step says.
LEMMA TempStep ==
    ASSUME TypeInv, ControlInv, TempInv, Next
    PROVE  TempInv'
<1> USE DEF Goto, Done, Fail, Writing
<1>1. IsEntry(tmp)
  BY DEF TypeInv
<1>2. CASE createTemp
  BY <1>2, NewFile DEF TempInv, createTemp
<1>3. CASE writeTemp \/ chownTemp \/ chmodTemp
  <2>1. WantUid' = WantUid /\ content' = content
    BY <1>3 DEF writeTemp, chownTemp, chmodTemp, WantUid, Writer
  <2> QED
    BY <1>1, <1>3, <2>1, TempEdit DEF TempInv, writeTemp, chownTemp, chmodTemp
<1>4. CASE syncTemp
  BY <1>4 DEF TempInv, syncTemp, dropTemp, WantUid, Writer
<1>5. CASE Plant
  BY <1>5 DEF TempInv, Plant, WantUid, Writer
<1>6. CASE pc' \notin Writing
  BY <1>6 DEF TempInv
<1> QED
  BY <1>2, <1>3, <1>4, <1>5, <1>6
     DEF Next, resolve, verifyValidationParent, createValidationCandidate, writeValidationCandidate,
         runValidation, removeValidationCandidate, ensureFile, renameTemp, dropTemp, syncDir,
             openNoFollow,
         applyAttributesViaPath, chown, chmod, ensurePresent, ensureAbsent, remove, Kill, PowerLoss,
         Again, FirstStep

\* Every step keeps the path and the disk whole: a rename puts the complete
\* temporary file there, an attribute change leaves the content, and a power
\* loss picks one of the entries that may be on disk.
LEMMA PathStep ==
    ASSUME ConstantsOK, TypeInv, ControlInv, TempInv, PathInv, QuietInv, Next, TypeInv'
    PROVE  PathInv'
<1> USE DEF Removes
<1>1. ASSUME UNCHANGED <<decl, world, first, plants>>, pc \notin Stopped,
             verdict' = verdict \/ pc \in {"stage", "validate"}
      PROVE  PathInv'
  <2>1. UNCHANGED <<decl, path, stable, first, plants>> /\ WantUid' = WantUid
    BY <1>1 DEF world, WantUid, Writer
  <2>2. verdict = "pass" => verdict' = "pass"
    BY <1>1 DEF ControlInv
  <2> QED
    BY <1>1, <2>1, <2>2 DEF PathInv, Stopped
<1>2. CASE renameTemp
  <2>1. CASE path.kind = "dir"
    BY <1>2, <2>1 DEF renameTemp, world, PathInv, WantUid, Writer
  <2>2. CASE path.kind # "dir"
    <3>1. /\ UNCHANGED <<decl, first, plants, verdict>> /\ WantUid' = WantUid
          /\ path' = tmp /\ stable' = stable \cup {tmp}
      BY <1>2, <2>2 DEF renameTemp, WantUid, Writer
    <3>2. /\ tmp.ours /\ tmp.kind = "reg" /\ tmp.data = content /\ tmp.uid = WantUid
          /\ content \in {"new", "empty"}
          /\ decl.check => verdict = "pass"
      BY <1>2 DEF renameTemp, TypeInv, IsDecl, ControlInv, TempInv, Reading, Writing, Stopped
    <3> QED
      BY <3>1, <3>2 DEF PathInv
  <2> QED
    BY <2>1, <2>2
<1>3. CASE syncDir
  <2>1. WantUid' = WantUid
    BY <1>3 DEF syncDir, WantUid, Writer
  <2> QED
    BY <1>3, <2>1 DEF syncDir, PathInv, Goto
<1>4. CASE chown \/ chmod
  <2>1. UNCHANGED <<decl, first, plants, verdict>> /\ WantUid' = WantUid /\ pc \notin Stopped
    BY <1>4 DEF chown, chmod, WantUid, Writer, Stopped
  <2>2. AttrUid(path) \in {path.uid, WantUid}
    BY DEF AttrUid
  <2> QED
    BY <1>4, <2>1, <2>2, AttributeEdit DEF PathInv, Stopped
<1>5. CASE remove
  <2>1. UNCHANGED <<decl, first>> /\ WantUid' = WantUid /\ Removes
    BY <1>5 DEF remove, WantUid, Writer, ControlInv
  <2> QED
    BY <1>5, <2>1, EmptyEntry DEF remove, PathInv, world, Done, Fail
<1>6. CASE Plant
  <2>1. UNCHANGED decl /\ WantUid' = WantUid /\ path' \in Entries /\ stable' = {path'}
    BY <1>6 DEF Plant, WantUid, Writer
  <2>2. plants' # 0
    <3>1. plants \in Nat /\ plants' = plants + 1
      BY <1>6 DEF Plant, TypeInv
    <3> QED
      BY <3>1
  <2> QED
    BY <2>1, <2>2 DEF ConstantsOK, PathInv
<1>7. CASE PowerLoss
  <2>1. UNCHANGED decl /\ WantUid' = WantUid /\ pc' = "killed" /\ path' \in stable /\ stable' = {path'}
    BY <1>7 DEF PowerLoss, WantUid, Writer
  <2> QED
    BY <2>1 DEF PathInv
<1>8. CASE Again
  <2>1. WantUid' = WantUid
    BY <1>8, SetDry DEF Again, TypeInv, WantUid, Writer
  <2>2. first' = path' /\ path' = path /\ stable' = stable
    BY <1>8 DEF Again, world
  <2> QED
    BY <2>1, <2>2 DEF PathInv
<1> QED
  BY <1>1, <1>2, <1>3, <1>4, <1>5, <1>6, <1>7, <1>8, OtherSteps

\* No step changes the file behind a symlink: only an unprivileged apply sets
\* attributes by name, and that file is not its own.
LEMMA AwayStep ==
    ASSUME TypeInv, AwayInv, Next
    PROVE  AwayInv'
<1>1. fd' = "name" \/ pc' = "byName" => ~decl'.root
  <2> USE DEF Goto, Done, Fail, dropTemp
  <2>1. CASE Again
    BY <2>1 DEF Again, FirstStep
  <2>2. CASE ~Again
    BY <2>2 DEF AwayInv, Next, resolve, verifyValidationParent, createValidationCandidate,
           writeValidationCandidate, runValidation, removeValidationCandidate, ensureFile, createTemp,
           writeTemp, chownTemp, chmodTemp, syncTemp, renameTemp, syncDir, openNoFollow,
           applyAttributesViaPath, chown, chmod, ensurePresent, ensureAbsent, remove, Plant, Kill,
           PowerLoss
  <2> QED
    BY <2>1, <2>2
<1>2. away' = away
  <2>1. CASE chown \/ chmod
    <3>1. Target = "away" => fd = "name" /\ Inode = away
      BY DEF Target, Inode
    <3>2. away.uid = "other"
      BY DEF AwayInv, Regular
    <3>3. Target = "away" => ~MayChange(Inode) /\ fd # "gone"
      BY <3>1, <3>2 DEF AwayInv, MayChange, Writer
    <3> QED
      BY <2>1, <3>3 DEF chown, chmod, SetOn, world
  <2>2. CASE ~(chown \/ chmod)
    BY <2>2, OtherSteps DEF renameTemp, syncDir, remove, Plant, PowerLoss, Again, world
  <2> QED
    BY <2>1, <2>2
<1> QED
  BY <1>1, <1>2 DEF AwayInv

\* What an apply owes does not change while it keeps its declaration and content.
LEMMA OwedKept ==
    ASSUME UNCHANGED <<decl, first, content>>
    PROVE  Owed' <=> Owed
BY DEF Owed, Removes, Readable

\* What an apply of a file with content, of an EnsureFile and of an absent file
\* owes, when nothing has touched the path since it started.
LEMMA OwedNow ==
    ASSUME path = first, first.kind = "reg" => first.data # ""
    PROVE  /\ decl.op \in {"content", "lines"} => (Owed <=> changed)
           /\ decl.op = "ensure" => (Owed <=> path.kind = "none" \/ explicitMetadataChanged)
           /\ decl.op = "absent" => (Owed <=> path.kind # "none")
BY DEF Owed, Removes, changed, explicitMetadataChanged

\* Without interference each step finds what the one before it left.
LEMMA QuietStep ==
    ASSUME ConstantsOK, TypeInv, ControlInv, TempInv, PathInv, QuietInv, Next, TypeInv'
    PROVE  QuietInv'
<1> USE DEF Goto, Done, Fail, Reading, Staging, Writing, Setting, Stopped
<1>0. /\ decl.op \in {"content", "lines", "ensure", "absent"}
      /\ UNCHANGED <<decl, first, content>> => (Owed' <=> Owed)
  BY OwedKept DEF TypeInv, IsDecl
<1>1. CASE resolve \/ ensureFile \/ ensureAbsent
  <2>1. CASE resolve
    BY <2>1 DEF QuietInv, resolve, world, ControlInv
  <2>2. CASE ensureFile
    <3>1. /\ UNCHANGED <<decl, path, first, content, plants, fd>>
          /\ pc = "classify" /\ decl.op # "absent"
          /\ \/ pc' = "done"
             \/ pc' = "temp" /\ changed /\ ~decl.dry /\ UNCHANGED note
             \/ pc' = "open" /\ ~changed /\ ~decl.dry /\ note' = "ok"
      BY <2>2 DEF ensureFile, world, ControlInv
    <3>2. plants = 0 => /\ path = first /\ (first.kind = "reg" => first.data # "")
                        /\ decl.op = "ensure" => path.kind = "none"
      BY <3>1 DEF QuietInv
    <3>3. plants = 0 => (Owed <=> changed)
      BY <1>0, <3>1, <3>2, OwedNow DEF changed
    <3>4. ~changed => path.kind = "reg" /\ path.data = content
      BY DEF changed
    <3> QED
      BY <1>0, <3>1, <3>2, <3>3, <3>4 DEF QuietInv
  <2>3. CASE ensureAbsent
    <3>1. /\ UNCHANGED <<decl, path, first, content, plants, fd>>
          /\ pc = "lstatAbsent" /\ decl.op = "absent"
          /\ pc' = "done" \/ (pc' = "remove" /\ path.kind # "none" /\ ~decl.dry /\ UNCHANGED note)
      BY <2>3 DEF ensureAbsent, world, ControlInv
    <3>2. plants = 0 => (Owed <=> path.kind # "none")
      BY <3>1, OwedNow DEF QuietInv
    <3> QED
      BY <1>0, <3>1, <3>2 DEF QuietInv
  <2> QED
    BY <1>1, <2>1, <2>2, <2>3
<1>2. CASE \/ verifyValidationParent \/ createValidationCandidate \/ writeValidationCandidate
           \/ runValidation \/ removeValidationCandidate
  <2>1. pc \in Staging /\ decl.op # "ensure" /\ UNCHANGED <<decl, path, first, plants>>
    BY <1>2 DEF ControlInv, verifyValidationParent, createValidationCandidate,
                writeValidationCandidate, runValidation, removeValidationCandidate, world
  <2> QED
    BY <1>2, <2>1 DEF QuietInv, verifyValidationParent, createValidationCandidate,
                      writeValidationCandidate, runValidation, removeValidationCandidate
<1>3. CASE createTemp \/ writeTemp \/ chownTemp \/ chmodTemp \/ syncTemp
  BY <1>0, <1>3 DEF QuietInv, createTemp, writeTemp, chownTemp, chmodTemp, syncTemp, dropTemp, world
<1>4. CASE renameTemp
  BY <1>0, <1>4 DEF QuietInv, renameTemp, dropTemp, world, TempInv, ControlInv
<1>5. CASE syncDir
  BY <1>0, <1>5 DEF QuietInv, syncDir
<1>6. CASE openNoFollow \/ applyAttributesViaPath
  BY <1>0, <1>6 DEF QuietInv, openNoFollow, applyAttributesViaPath, world
<1>7. CASE chown
  <2>1. AttrUid(path) = WantUid \/ ~(decl.uidSet \/ decl.op # "ensure")
    BY DEF AttrUid, Preserves
  <2>2. UNCHANGED <<decl, first, plants, content>> /\ WantUid' = WantUid
    BY <1>7 DEF chown, WantUid, Writer
  <2>3. ~decl.dry
    BY <1>7 DEF chown, ControlInv
  <2>4. plants = 0 => Target = "path" /\ fd # "gone"
    BY <1>7 DEF chown, QuietInv, Target
  <2>5. \/ pc' = "failed" /\ fd' = "none" /\ UNCHANGED note
        \/ pc' = "chmod" /\ UNCHANGED <<fd, note>>
    BY <1>7 DEF chown
  <2> QED
    BY <1>0, <1>7, <2>1, <2>2, <2>3, <2>4, <2>5, AttributeEdit DEF QuietInv, chown
<1>8. CASE chmod
  BY <1>8, AttributeEdit DEF QuietInv, chmod, ControlInv
<1>9. CASE ensurePresent
  <2>1. /\ UNCHANGED <<decl, path, first, plants, fd>> /\ pc = "lstatEnsure"
        /\ decl.op = "ensure" /\ content = ""
        /\ \/ pc' \in {"done", "failed"}
           \/ pc' = "classify" /\ path.kind = "none" /\ UNCHANGED note
           \/ /\ pc' = "open" /\ path.kind = "reg" /\ explicitMetadataChanged /\ ~decl.dry
              /\ UNCHANGED <<content, note>>
    BY <1>9 DEF ensurePresent, world, ControlInv
  <2>2. plants = 0 => (Owed <=> path.kind = "none" \/ explicitMetadataChanged)
    BY <2>1, OwedNow DEF QuietInv
  <2> QED
    BY <1>0, <2>1, <2>2 DEF QuietInv
<1>10. CASE remove
  BY <1>10 DEF QuietInv, remove, ControlInv
<1>11. CASE Plant
  <2>1. plants \in Nat /\ plants' = plants + 1
    BY <1>11 DEF Plant, TypeInv
  <2>2. plants' # 0
    BY <2>1
  <2> QED
    BY <2>2 DEF QuietInv
<1>12. CASE Kill \/ PowerLoss
  BY <1>12 DEF QuietInv, Kill, PowerLoss
<1>13. CASE Again
  BY <1>13 DEF QuietInv, Again, PathInv, FirstStep, world
<1> QED
  BY <1>1, <1>2, <1>3, <1>4, <1>5, <1>6, <1>7, <1>8, <1>9, <1>10, <1>11, <1>12, <1>13 DEF Next

\* Every step that ends an apply reports what it did.
LEMMA OutcomeStep ==
    ASSUME TypeInv, ControlInv, PathInv, QuietInv, OutcomeTrue, Next, QuietInv'
    PROVE  OutcomeTrue'
<1> USE DEF Goto, Done, Fail, Removes
<1>1. decl'.dry /\ plants' = 0 /\ pc' # "killed" => path' = first'
  BY DEF QuietInv
<1>2. CASE pc' # "done"
  BY <1>1, <1>2 DEF OutcomeTrue
<1>0. /\ decl.op \in {"content", "lines", "ensure", "absent"}
      /\ UNCHANGED <<decl, first, content>> => (Owed' <=> Owed)
  BY OwedKept DEF TypeInv, IsDecl
<1>3. CASE resolve
  BY <1>1, <1>2, <1>3 DEF OutcomeTrue, QuietInv, resolve, world, Reading
<1>4. CASE ensureFile
  <2>1. CASE pc' = "done"
    <3>1. /\ decl' = decl /\ path' = path /\ first' = first /\ plants' = plants /\ content' = content
          /\ decl.dry /\ pc = "classify" /\ decl.op # "absent"
          /\ \/ note' = "would" /\ changed
             \/ note' = "ok" /\ ~changed
      BY <1>4, <2>1 DEF ensureFile, ControlInv, Reading, world
    <3>2. plants = 0 => /\ path = first /\ (first.kind = "reg" => first.data # "")
                        /\ decl.op = "ensure" => path.kind = "none"
      BY <3>1 DEF QuietInv, Reading
    <3>3. plants = 0 => (Owed <=> changed)
      BY <1>0, <3>1, <3>2, OwedNow DEF changed
    <3> QED
      BY <1>0, <1>1, <3>1, <3>3 DEF OutcomeTrue
  <2> QED
    BY <1>2, <2>1
<1>5. CASE chmod
  <2>1. CASE pc' = "done" /\ plants' = 0
    <3>1. /\ UNCHANGED <<decl, first, plants, content, found>> /\ WantUid' = WantUid
          /\ ~decl.dry /\ decl.op # "absent" /\ note' = IF note = "ok" THEN "ok" ELSE "changed"
      BY <1>5, <2>1 DEF chmod, ControlInv, Setting, Reading, Stopped, WantUid, Writer
    <3>2. /\ path.kind = "reg" /\ (content # "" => path.data = content)
          /\ decl.uidSet \/ decl.op # "ensure" => path.uid = WantUid
          /\ Target = "path"
          /\ note = IF Owed THEN "none" ELSE "ok"
      BY <1>5, <2>1, <3>1 DEF chmod, QuietInv, Setting, Target
    <3>3. decl.modeSet \/ decl.op # "ensure" => AttrMode = decl.mode
      BY DEF AttrMode, Preserves
    <3>4. /\ path'.kind = path.kind /\ path'.data = path.data
          /\ path'.uid = path.uid /\ path'.mode = AttrMode
      BY <1>5, <2>1, <3>2, AttributeEdit
    <3>5. /\ note' \in {"ok", "changed"} /\ (note' = "ok" => ~Owed') /\ (note' = "changed" => Owed')
      BY <1>0, <3>1, <3>2
    <3> QED
      BY <1>1, <3>1, <3>2, <3>3, <3>4, <3>5 DEF OutcomeTrue
  <2> QED
    BY <1>1, <2>1 DEF OutcomeTrue
<1>6. CASE ensurePresent
  <2>1. CASE pc' = "done"
    <3>1. /\ UNCHANGED <<decl, path, first, plants, content>> /\ path.kind = "reg"
          /\ decl.op = "ensure" /\ content = ""
          /\ \/ note' = "ok" /\ ~explicitMetadataChanged
             \/ note' = "would" /\ explicitMetadataChanged
      BY <1>6, <2>1 DEF ensurePresent, ControlInv, world
    <3>2. WantUid' = WantUid /\ (decl.uidSet => WantUid = decl.uid)
      BY <3>1 DEF WantUid, Writer
    <3>3. plants = 0 => path = first /\ first.data # ""
      BY <1>6, <3>1 DEF ensurePresent, QuietInv, PathInv, Reading
    <3>4. plants = 0 => (Owed <=> explicitMetadataChanged)
      BY <3>1, <3>3, OwedNow
    <3> QED
      BY <1>0, <1>1, <3>1, <3>2, <3>3, <3>4 DEF OutcomeTrue, explicitMetadataChanged
  <2> QED
    BY <1>2, <2>1
<1>7. CASE ensureAbsent
  <2>1. /\ UNCHANGED <<decl, path, first, content, plants>> /\ decl.op = "absent" /\ pc = "lstatAbsent"
        /\ pc' = "done" => \/ note' = "ok" /\ path.kind = "none"
                           \/ note' = "would" /\ path.kind # "none"
    BY <1>7 DEF ensureAbsent, ControlInv, world
  <2>2. plants = 0 => (Owed <=> path.kind # "none")
    BY <2>1, OwedNow DEF QuietInv, Reading
  <2> QED
    BY <1>0, <1>1, <2>1, <2>2 DEF OutcomeTrue
<1>8. CASE remove
  <2>1. /\ UNCHANGED <<decl, first, content, plants>> /\ decl.op = "absent" /\ pc = "remove"
        /\ pc' = "done" => /\ note' \in {"ok", "changed"} /\ path'.kind = "none"
                           /\ note' = "ok" => path.kind = "none"
    BY <1>8, EmptyEntry DEF remove, ControlInv, world
  <2>2. plants = 0 => Owed /\ path.kind # "none"
    BY <2>1, OwedNow DEF QuietInv, Reading
  <2> QED
    BY <1>0, <1>1, <2>1, <2>2 DEF OutcomeTrue
<1> QED
  BY <1>2, <1>3, <1>4, <1>5, <1>6, <1>7, <1>8
     DEF Next, verifyValidationParent, createValidationCandidate, writeValidationCandidate,
         runValidation, removeValidationCandidate, createTemp, writeTemp, chownTemp, chmodTemp,
             syncTemp,
         renameTemp, dropTemp, syncDir, openNoFollow, applyAttributesViaPath, chown, Plant, Running,
         Kill, PowerLoss, Again, FirstStep

(***************************************************************************)
(* The theorems                                                            *)
(***************************************************************************)
\* Initially the invariant holds.
LEMMA FileInit == ConstantsOK /\ Init => FileInv
<1> SUFFICES ASSUME ConstantsOK, Init
             PROVE  FileInv
  OBVIOUS
<1> USE DEF Reading, Staging, Writing, Setting, Stopped
<1>1. IsDecl(decl) /\ IsEntry(path) /\ ~path.ours /\ path.data # "partial"
      /\ (path.kind = "reg" => path.data # "")
  BY DEF ConstantsOK, Init
<1>2. FirstStep(decl) \in {"resolve", "lstatEnsure", "lstatAbsent"}
  BY DEF FirstStep
<1>3. TypeInv
  BY <1>1, <1>2, EmptyEntry DEF Init, TypeInv
<1>4. ControlInv
  BY <1>1 DEF Init, ControlInv, FirstStep, IsDecl
<1>5. TempInv /\ AwayInv
  BY <1>2 DEF Init, TempInv, AwayInv
<1>6. PathInv /\ QuietInv
  BY <1>1, <1>2 DEF Init, PathInv, QuietInv
<1>7. OutcomeTrue
  BY <1>2 DEF Init, OutcomeTrue
<1> QED
  BY <1>3, <1>4, <1>5, <1>6, <1>7 DEF FileInv

\* Every step keeps the invariant.
LEMMA FileStep ==
    ASSUME ConstantsOK, FileInv, [Next]_vars
    PROVE  FileInv'
<1>1. CASE Next
  BY <1>1, TypeStep, ControlStep, TempStep, PathStep, AwayStep, QuietStep, OutcomeStep DEF FileInv
<1>2. CASE UNCHANGED vars
  <2> USE DEF FileInv
  <2>1. UNCHANGED <<decl, path, stable, away, tmp, cand, content, verdict, fd, found, first, note, pc,
            plants>>
    BY <1>2 DEF vars, world, run
  <2>2. TypeInv'
    BY <2>1 DEF TypeInv
  <2>3. ControlInv' /\ AwayInv'
    BY <2>1 DEF ControlInv, AwayInv
  <2>4. WantUid' = WantUid /\ Removes' = Removes
    BY <2>1 DEF WantUid, Writer, Removes
  <2>5. TempInv' /\ PathInv'
    BY <2>1, <2>4 DEF TempInv, PathInv
  <2>6. Owed' <=> Owed
    BY <2>1, OwedKept
  <2>7. QuietInv'
    BY <2>1, <2>4, <2>6 DEF QuietInv
  <2>8. OutcomeTrue'
    BY <2>1, <2>4, <2>6 DEF OutcomeTrue
  <2> QED
    BY <2>2, <2>3, <2>5, <2>7, <2>8
<1> QED
  BY <1>1, <1>2

\* What follows from the invariant.
LEMMA InvGivesWhole == FileInv => WholeFiles
BY DEF FileInv, PathInv, ControlInv, WholeFiles, Writing

LEMMA InvGivesSafe == FileInv => AttributesSafe
BY DEF FileInv, PathInv, AwayInv, AttributesSafe

LEMMA InvGivesOutcome == FileInv => OutcomeTrue
BY DEF FileInv

(***************************************************************************)
(* LinkApply                                                               *)
(***************************************************************************)
(***************************************************************************)
(* The invariant                                                           *)
(***************************************************************************)
Symlink == [kind : {"symlink"}, ino : Nat, to : Link!Names, full : {FALSE}]
EntryInv(e) == Link!IsEntry(e) \/ (e \in Symlink /\ e.ino >= 100)

LinkTypes ==
    /\ link \in Links
    /\ fs = [n \in Link!Names |-> fs[n]]
    /\ \A n \in Link!Names : EntryInv(fs[n])
    /\ fs["target"].kind # "symlink" /\ fs["via"].kind \in {"none", "symlink"}
    /\ linkRuns \in Nat
    /\ foreign = {} \/ \E e \in Plants : foreign = {e.ino}

\* An identity is of one kind, what the applies found at the path is no
\* symlink, and what nobody planted yet is nowhere.
Identities ==
    /\ \A m, n \in Link!Names : fs[m].ino = fs[n].ino => fs[m].kind = fs[n].kind
    /\ doomed \subseteq 1..99
    /\ \A n \in Link!Names : fs[n].kind = "symlink" => fs[n].ino \notin doomed
    /\ foreign = {} =>
           \A e \in Plants : e.ino \notin doomed /\ \A n \in Link!Names : fs[n].ino # e.ino

Own == {"removeOriginal", "create", "restore", "removeAside"}
Replacing == {"assertNoBackup", "moveAside", "removeOriginal"}
Path == fs["path"]
Old == fs["old"]

\* Where an apply is says what it found.
Steps ==
    /\ linkAt \in {"idle", "refuse", "assertTarget", "lstatSymlink", "evalTarget", "removeStale",
               "createNew", "lstatAbsent", "done", "failed"} \cup Own \cup Replacing
    /\ link.op # "hardlink" => linkAt # "evalTarget"
    /\ link.op = "symlink" => linkAt \notin {"evalTarget", "lstatAbsent", "refuse"}
    /\ link.op = "hardlink" =>
           linkAt \notin {"assertTarget", "lstatSymlink", "removeStale", "lstatAbsent", "refuse"}
    /\ linkAt = "removeStale" => Path.kind = "symlink" /\ Path.to # link.to
    /\ linkAt \in {"createNew", "create", "restore"} => Path.kind = "none"
    /\ linkAt \in Replacing => Path.kind # "none" /\ (link.op # "hardlink" => Path.kind # "symlink")
    /\ linkAt \in Own => Old.kind # "none"
    /\ linkAt = "removeOriginal" => Old = Path /\ Path.kind # "dir"
    /\ linkAt = "moveAside" => Old.ino \notin doomed

\* What a hard link leads to while the entry at the path is replaced: never
\* something that is moved.
Replaced ==
    link.op = "hardlink" =>
        /\ linkAt \in Replacing => Path.ino # fs[real].ino
        /\ linkAt \in Replacing \cup {"createNew"} => real \in {"target", "old"}
        /\ linkAt = "assertNoBackup" /\ Old.kind = "none" =>
               real = "target" /\ (link.to = "target" \/ fs["via"].to \in {"target", "path"})
        /\ linkAt \in {"moveAside"} \cup Own =>
               real = "target" /\ (link.to = "target" \/ fs["via"].to \in {"target", "path"})

\* The link is in place and a further apply finds it so, whatever is at
\* path.old.
Secure ==
    \/ link.op = "symlink" /\ Path.kind = "symlink" /\ Path.to = link.to
    \/ /\ link.op = "hardlink" /\ Path.ino = fs["target"].ino
       /\ Path.kind \notin {"none", "symlink"} /\ real \in {"target", "path"}
       /\ link.to = "target" \/ fs["via"].to \in {"target", "path"}

Lost == \E ino \in doomed : ~Link!Kept(ino)

LossesInv ==
    link.op \in {"symlink", "hardlink"} /\ (Lost \/ linkAt = "removeAside") => Secure

PlantsInv ==
    ~link.darwin =>
        \A e \in Plants : e.ino \in foreign /\ e.kind # "dir" => Old = e /\ linkAt \notin Own

LinkInv == LinkTypes /\ Identities /\ Steps /\ Replaced /\ LossesInv /\ PlantsInv

LEMMA EntryFacts ==
    ASSUME NEW e, EntryInv(e)
    PROVE  /\ e.kind \in {"none", "file", "dir", "symlink"}
           /\ e.kind = "none" => e.ino = 0 /\ e.to = ""
           /\ e.kind \in {"file", "dir"} => e.ino \in 1..99
           /\ e.kind = "symlink" => e.to \in Link!Names /\ e.ino \in Nat \ {0}
<1>1. CASE e \in Symlink /\ e.ino >= 100
  <2>1. e.kind = "symlink" /\ e.ino \in Nat /\ e.to \in Link!Names
    BY <1>1 DEF Symlink
  <2> QED
    BY <2>1, <1>1
<1>2. CASE Link!IsEntry(e)
  <2>1. Link!NoEntry.ino = 0 /\ Link!NoEntry.to = ""
    BY DEF Link!NoEntry
  <2>2. e.kind \in {"none", "file", "dir", "symlink"} /\ e.ino \in 0..99
    BY <1>2 DEF Link!IsEntry
  <2>3. /\ e.kind = "none" => e = Link!NoEntry
        /\ e.kind # "none" => e.ino # 0
        /\ e.kind = "symlink" => e.to \in Link!Names
    BY <1>2 DEF Link!IsEntry
  <2>4. e.kind = "none" => e.ino = 0 /\ e.to = ""
    BY <2>1, <2>3
  <2>5. e.kind # "none" => e.ino \in 1..99 /\ e.ino \in Nat \ {0}
    BY <2>2, <2>3
  <2> QED
    BY <2>2, <2>3, <2>4, <2>5
<1> QED
  BY <1>1, <1>2 DEF EntryInv

\* Where a declared target leads.
LEMMA FollowsTo ==
    ASSUME LinkTypes, Link!ConstantsOK, Link!Stat(fs, link.to) = "ok"
    PROVE  LET r == Link!Follow(fs, link.to)
           IN  /\ r \in {"target", "path", "old"}
               /\ fs[r].kind \notin {"none", "symlink"}
               /\ link.to = "target" \/ fs["via"].to \in {"target", "path"} \/ Old.kind # "none"
<1> USE DEF Link!Names
<1>1. link.to \in {"target", "via"}
  BY DEF LinkTypes, Link!ConstantsOK
<1>2. \A n \in Link!Names : fs[n].kind = "symlink" => fs[n].to \in Link!Names
  BY DEF LinkTypes, EntryInv, Link!IsEntry, Symlink
<1>3. fs["target"].kind # "symlink" /\ fs["via"].kind \in {"none", "symlink"}
  BY DEF LinkTypes
<1> DEFINE hop(m) == IF m \in Link!Names /\ fs[m].kind = "symlink" THEN fs[m].to ELSE m
           r == hop(hop(hop(hop(link.to))))
<1>4. \A m \in Link!Names : hop(m) \in Link!Names
  BY <1>2
<1>5. r \in Link!Names
  <2>1. link.to \in Link!Names
    BY <1>1
  <2>2. hop(link.to) \in Link!Names
    BY <2>1, <1>4
  <2>3. hop(hop(link.to)) \in Link!Names
    BY <2>2, <1>4
  <2>4. hop(hop(hop(link.to))) \in Link!Names
    BY ZenonT(60), <2>3, <1>4
  <2> HIDE DEF hop
  <2> QED
    BY <2>4, <1>4
<1>6. Link!Follow(fs, link.to) = IF fs[r].kind = "symlink" THEN "loop" ELSE r
  BY DEF Link!Follow
<1>7. fs[r].kind # "symlink" /\ Link!Follow(fs, link.to) = r /\ fs[r].kind # "none"
  BY ZenonT(60), <1>6, <1>5 DEF Link!Stat, Link!Exists
<1>8. r # "via"
  BY <1>7, <1>3
<1>9. r \in {"target", "path", "old"}
  BY <1>5, <1>8
<1>10. ASSUME link.to = "via", Old.kind = "none" PROVE fs["via"].to \in {"target", "path"}
  <2>1. fs["via"].kind = "symlink"
    <3>1. CASE fs["via"].kind = "none"
      <4>1. hop("via") = "via"
        BY <3>1
      <4>2. r = "via"
        BY <4>1, <1>10
      <4> QED
        BY <4>2, <1>8
    <3> QED
      BY <3>1, <1>3
  <2>2. hop("via") = fs["via"].to /\ hop("old") = "old"
    BY <2>1, <1>10 DEF Old
  <2>3. fs["via"].to # "old"
    <3>1. fs["via"].to = "old" => r = "old"
      BY <2>2, <1>10
    <3> QED
      BY <3>1, <1>7, <1>10 DEF Old
  <2>4. fs["via"].to # "via"
    <3>1. fs["via"].to = "via" => r = "via"
      BY <2>2, <1>10
    <3> QED
      BY <3>1, <1>8
  <2> QED
    BY <1>2, <2>1, <2>3, <2>4
<1> HIDE DEF r
<1> QED
  BY <1>1, <1>7, <1>9, <1>10

\* A link that is in place is found in place.
LEMMA FoundInPlace ==
    ASSUME LinkTypes, Link!ConstantsOK, Secure, link.op = "hardlink"
    PROVE  LET r == Link!Follow(fs, link.to)
           IN  r \in {"target", "path"} /\ fs[r].ino = Path.ino
<1> USE DEF Link!Names
<1>1. link.to \in {"target", "via"}
  BY DEF LinkTypes, Link!ConstantsOK
<1>2. /\ Path.ino = fs["target"].ino /\ Path.kind \notin {"none", "symlink"}
      /\ link.to = "target" \/ fs["via"].to \in {"target", "path"}
  BY DEF Secure
<1>3. fs["target"].kind # "symlink" /\ fs["via"].kind \in {"none", "symlink"}
  BY DEF LinkTypes
<1> DEFINE hop(m) == IF m \in Link!Names /\ fs[m].kind = "symlink" THEN fs[m].to ELSE m
           r == hop(hop(hop(hop(link.to))))
<1>4. Link!Follow(fs, link.to) = IF fs[r].kind = "symlink" THEN "loop" ELSE r
  BY DEF Link!Follow
<1>5. hop("target") = "target" /\ hop("path") = "path"
  BY <1>2, <1>3 DEF Path
<1>6. CASE link.to = "target"
  <2>1. r = "target"
    BY <1>5, <1>6
  <2> QED
    BY ZenonT(60), <2>1, <1>2, <1>3, <1>4
<1>7. CASE link.to = "via"
  <2>1. fs["via"].kind = "symlink"
    <3>2. fs["via"].kind = "none" => fs["via"].to = ""
      BY EntryFacts DEF LinkTypes
    <3> QED
      BY <3>2, <1>2, <1>3, <1>7
  <2>2. hop("via") = fs["via"].to
    BY <2>1
  <2>3. CASE fs["via"].to = "target"
    <3>1. r = "target"
      BY <1>5, <2>2, <2>3, <1>7
    <3> QED
      BY ZenonT(60), <3>1, <1>2, <1>3, <1>4
  <2>4. CASE fs["via"].to = "path"
    <3>1. r = "path"
      BY <1>5, <2>2, <2>4, <1>7
    <3> QED
      BY ZenonT(60), <3>1, <1>2, <1>4 DEF Path
  <2> QED
    BY <2>3, <2>4, <1>2, <1>7
<1> QED
  BY <1>1, <1>6, <1>7

LEMMA LinkStarts == Link!ConstantsOK /\ Link!Init => LinkInv
<1> SUFFICES ASSUME Link!ConstantsOK, Link!Init PROVE LinkInv
  OBVIOUS
<1>1. Link!IsWorld(fs)
  BY DEF Link!Init, Link!ConstantsOK
<1>2. /\ doomed = {} /\ foreign = {} /\ linkAt = "idle" /\ linkRuns = 0 /\ link \in Links
  BY DEF Link!Init
<1>3. LinkTypes
  BY <1>1, <1>2 DEF LinkTypes, Link!IsWorld, EntryInv
<1>4. Identities
  BY <1>1, <1>2 DEF Identities, Link!IsWorld
<1>5. Steps /\ Replaced
  BY <1>2 DEF Steps, Replaced, Own, Replacing
<1>6. LossesInv /\ PlantsInv
  BY <1>2 DEF LossesInv, Lost, PlantsInv
<1> QED
  BY <1>3, <1>4, <1>5, <1>6 DEF LinkInv

\* A step that changes neither the entries nor what is at stake.
LEMMA Stays ==
    ASSUME LinkInv, UNCHANGED <<link, fs, foreign, doomed>>, linkRuns' \in Nat,
           Steps', Replaced', link.op = "hardlink" /\ Secure => Secure',
           linkAt' \in Own => linkAt \in Own, linkAt' # "removeAside"
    PROVE  LinkInv'
<1>1. LinkTypes'
  BY DEF LinkInv, LinkTypes
<1>2. Identities'
  BY DEF LinkInv, Identities
<1>3. PlantsInv'
  BY DEF LinkInv, PlantsInv, Old
<1>4. LossesInv'
  <2>1. Lost' => Lost
    BY DEF Lost, Link!Kept
  <2>2. link.op = "symlink" /\ Secure => Secure'
    BY DEF Secure, Path
  <2> QED
    BY <2>1, <2>2 DEF LinkInv, LossesInv
<1> QED
  BY <1>1, <1>2, <1>3, <1>4 DEF LinkInv

\* One name gets another entry.
LEMMA Replace ==
    ASSUME LinkTypes, NEW n \in {"path", "old"}, NEW e, EntryInv(e),
           fs' = [fs EXCEPT ![n] = e], UNCHANGED link, linkRuns' \in Nat,
           UNCHANGED foreign \/ \E p \in Plants : foreign' = {p.ino}
    PROVE  /\ LinkTypes'
           /\ \A m \in Link!Names : fs'[m] = IF m = n THEN e ELSE fs[m]
<1>1. fs = [m \in Link!Names |-> fs[m]] /\ n \in Link!Names
  BY DEF LinkTypes, Link!Names
<1>2. \A m \in Link!Names : fs'[m] = IF m = n THEN e ELSE fs[m]
  BY <1>1
<1>3. fs' = [m \in Link!Names |-> fs'[m]]
  BY <1>1
<1> QED
  BY <1>2, <1>3 DEF LinkTypes, Link!Names

\* Nothing is lost where every doomed entry stays somewhere.
LEMMA NothingLost ==
    ASSUME NEW n \in {"path", "old"}, NEW e,
           \A m \in Link!Names : fs'[m] = IF m = n THEN e ELSE fs[m],
           fs[n].ino \notin doomed
              \/ \E m \in Link!Names : m # n /\ fs[m].ino = fs[n].ino,
           doomed' \subseteq doomed
    PROVE  Lost' => Lost
<1>1. \A ino \in doomed : Link!Kept(ino) => Link!Kept(ino)'
  BY DEF Link!Kept, Link!Names
<1> QED
  BY <1>1 DEF Lost

LEMMA StartKeeps == ASSUME Link!ConstantsOK, LinkInv, Link!Start PROVE LinkInv'
<1> USE DEF LinkInv
<1>1. /\ linkAt = "idle" /\ linkAt' = Link!FirstStep(Link!Resolved(fs, link)) /\
             linkRuns' = linkRuns + 1
      /\ UNCHANGED <<link, fs, foreign, real>>
      /\ doomed' = doomed \cup (IF Path.kind \in {"file", "dir"} THEN {Path.ino} ELSE {})
  BY DEF Link!Start, Path
<1>2. LinkTypes'
  BY <1>1 DEF LinkTypes
<1>3. EntryInv(Path) /\ Path = fs["path"] /\ "path" \in Link!Names
  BY DEF LinkTypes, Path, Link!Names
<1>4. Identities'
  <2>1. Path.kind \in {"file", "dir"} => Path.ino \in 1..99
    BY <1>3, EntryFacts
  <2>2. \A n \in Link!Names : fs[n].kind = "symlink" /\ Path.kind \in {"file", "dir"} =>
            fs[n].ino # Path.ino
    BY <1>3 DEF Identities
  <2> QED
    BY <2>1, <2>2, <1>1, <1>3 DEF Identities
<1>5. linkAt' \in {"assertTarget", "evalTarget", "lstatAbsent", "refuse"}
  BY <1>1 DEF Link!FirstStep
<1>6. Steps'
  <2>1. /\ link.op # "hardlink" => linkAt' # "evalTarget"
        /\ link.op = "symlink" => linkAt' = "assertTarget"
        /\ link.op = "hardlink" => linkAt' = "evalTarget"
    <3>1. link.op \in {"symlink", "hardlink"} => Link!Resolved(fs, link) = link.op
      <4>1. link.op # "if_exists" => Link!Resolved(fs, link) = link.op
        BY DEF Link!Resolved
      <4> QED
        BY <4>1
    <3>2. Link!Resolved(fs, link) = "hardlink" => link.op = "hardlink"
      BY DEF Link!Resolved
    <3>3. /\ Link!FirstStep("symlink") = "assertTarget" /\ Link!FirstStep("hardlink") = "evalTarget"
          /\ \A op : op # "hardlink" => Link!FirstStep(op) # "evalTarget"
      BY DEF Link!FirstStep
    <3> QED
      BY <1>1, <3>1, <3>2, <3>3
  <2> QED
    BY <1>1, <1>5, <2>1 DEF Steps, Own, Replacing
<1>7. Replaced' /\ PlantsInv'
  BY <1>1, <1>5 DEF Replaced, PlantsInv, Own, Replacing, Old, Path
<1>8. LossesInv'
  <2>1. Lost' => Lost
    BY <1>1, <1>3 DEF Lost, Link!Kept
  <2>2. Secure => Secure'
    BY <1>1 DEF Secure, Path
  <2> QED
    BY <2>1, <2>2, <1>1, <1>5 DEF LossesInv
<1> QED
  BY <1>2, <1>4, <1>6, <1>7, <1>8

\* The steps that look, and a kill.
LEMMA LooksKeep ==
    ASSUME Link!ConstantsOK, LinkInv,
           Link!refuse \/ Link!assertSymlinkTargetExists \/ Link!ensureSymlink \/
               Link!assertNoAsideBackup \/ Link!Kill \/ Link!Again
    PROVE  LinkInv'
<1>1. UNCHANGED <<link, fs, foreign, doomed, real, linkRuns>>
  BY DEF Link!refuse, Link!assertSymlinkTargetExists, Link!ensureSymlink, Link!assertNoAsideBackup,
     Link!Kill, Link!Again
<1>2. /\ linkAt' \in {"failed", "idle", "lstatSymlink", "done", "removeStale", "createNew",
                 "assertNoBackup", "moveAside"}
      /\ linkAt' = "lstatSymlink" => linkAt = "assertTarget"
      /\ linkAt' = "removeStale" => linkAt = "lstatSymlink" /\ Path.kind = "symlink" /\
             Path.to # link.to
      /\ linkAt' = "createNew" => linkAt = "lstatSymlink" /\ Path.kind = "none"
      /\ linkAt' = "assertNoBackup" => linkAt = "lstatSymlink" /\ Path.kind \notin {"none", "symlink"}
      /\ linkAt' = "moveAside" => linkAt = "assertNoBackup" /\ Old.kind = "none"
  BY DEF Link!refuse, Link!assertSymlinkTargetExists, Link!ensureSymlink, Link!assertNoAsideBackup,
     Link!Kill, Link!Again, Link!Fail, Link!Goto, Link!Done, Link!Exists, Path, Old
<1>3. Old.kind = "none" => Old.ino \notin doomed
  <2>1. EntryInv(Old) /\ 0 \notin doomed
    BY DEF LinkInv, LinkTypes, Identities, Old, Link!Names
  <2> QED
    BY <2>1, EntryFacts
<1>4. Steps'
  BY <1>1, <1>2, <1>3 DEF LinkInv, Steps, Own, Replacing, Path, Old
<1>5. Replaced'
  BY <1>1, <1>2 DEF LinkInv, Steps, Replaced, Own, Replacing, Path, Old
<1>6. Secure => Secure'
  BY <1>1 DEF Secure, Path
<1> QED
  BY <1>1, <1>2, <1>4, <1>5, <1>6, Stays DEF LinkInv, LinkTypes, Own

LEMMA HardlinkKeeps == ASSUME Link!ConstantsOK, LinkInv, Link!ensureHardlink PROVE LinkInv'
<1> USE DEF LinkInv
<1> DEFINE r == Link!Follow(fs, link.to)
<1>1. /\ linkAt = "evalTarget" /\ real' = r
      /\ UNCHANGED <<link, fs, foreign, doomed, linkRuns>>
      /\ linkAt' \in {"failed", "createNew", "done", "assertNoBackup"}
      /\ linkAt' # "failed" => Link!Stat(fs, link.to) = "ok"
      /\ linkAt' = "createNew" => Path.kind = "none"
      /\ linkAt' = "assertNoBackup" => Path.kind # "none" /\ Path.ino # fs[r].ino
  BY DEF Link!ensureHardlink, Link!Fail, Link!Goto, Link!Done, Path
<1> HIDE DEF r
<1>2. link.op = "hardlink"
  BY <1>1 DEF Steps
<1>3. linkAt' # "failed" =>
          /\ r \in {"target", "path", "old"} /\ fs[r].kind \notin {"none", "symlink"}
          /\ link.to = "target" \/ fs["via"].to \in {"target", "path"} \/ Old.kind # "none"
  BY <1>1, FollowsTo DEF r
<1>4. linkAt' \in {"createNew", "assertNoBackup"} => r # "path"
  BY <1>1, <1>3 DEF Path
<1>5. Steps'
  BY <1>1, <1>2 DEF Steps, Own, Replacing, Path, Old
<1>6. Replaced'
  BY <1>1, <1>3, <1>4 DEF Replaced, Own, Replacing, Path, Old
<1>7. Secure => Secure'
  BY <1>1, <1>2, FoundInPlace DEF Secure, Path, r
<1> QED
  BY <1>1, <1>5, <1>6, <1>7, Stays DEF LinkTypes, Own

LEMMA NoEntryFacts == EntryInv(Link!NoEntry) /\ Link!NoEntry.kind = "none" /\ Link!NoEntry.ino = 0
<1>1. Link!NoEntry \in [kind : {"none", "file", "dir", "symlink"}, ino : 0..99,
                    to : Link!Names \cup {""}, full : BOOLEAN]
  <2>1. "" \in Link!Names \cup {""} /\ FALSE \in BOOLEAN /\ 0 \in 0..99
    OBVIOUS
  <2> QED
    BY <2>1, Zenon DEF Link!NoEntry
<1>2. Link!NoEntry.kind = "none" /\ Link!NoEntry.ino = 0
  BY DEF Link!NoEntry
<1> QED
  BY <1>1, <1>2 DEF EntryInv, Link!IsEntry

LEMMA KnownByIdentity ==
    LinkTypes => \A m \in Link!Names : fs[m].ino = 0 <=> fs[m].kind = "none"
<1> SUFFICES ASSUME LinkTypes PROVE \A m \in Link!Names : fs[m].ino = 0 <=> fs[m].kind = "none"
  OBVIOUS
<1>1. \A m \in Link!Names : EntryInv(fs[m])
  BY DEF LinkTypes
<1>2. ASSUME NEW e, EntryInv(e) PROVE e.ino = 0 <=> e.kind = "none"
  <2>1. e.kind \in {"file", "dir"} => e.ino \in 1..99
    BY <1>2, EntryFacts
  <2>2. e.ino \in 1..99 => e.ino # 0
    OBVIOUS
  <2> QED
    BY <1>2, <2>1, <2>2, EntryFacts
<1> QED
  BY <1>1, <1>2

\* A step that takes the entry at one name away, which is also elsewhere or
\* not to be kept.
LEMMA RemovalKeeps ==
    ASSUME Link!ConstantsOK, LinkInv, NEW n \in {"path", "old"}, fs' = [fs EXCEPT ![n] = Link!NoEntry],
           UNCHANGED <<link, foreign, doomed, linkRuns, real>>
    PROVE  /\ LinkTypes' /\ Identities'
           /\ \A m \in Link!Names : fs'[m] = IF m = n THEN Link!NoEntry ELSE fs[m]
           /\ Link!NoEntry.kind = "none" /\ Link!NoEntry.ino = 0
<1>1. EntryInv(Link!NoEntry) /\ Link!NoEntry.kind = "none" /\ Link!NoEntry.ino = 0
  BY NoEntryFacts
<1>2. LinkTypes' /\ \A m \in Link!Names : fs'[m] = IF m = n THEN Link!NoEntry ELSE fs[m]
  BY <1>1, Replace DEF LinkInv, LinkTypes
<1>3. \A m \in Link!Names : fs[m].ino = 0 <=> fs[m].kind = "none"
  BY KnownByIdentity DEF LinkInv
<1>4. \A e \in Plants : e.ino # 0
  BY DEF Link!ConstantsOK, Link!IsEntry
<1>5. Identities'
  BY <1>1, <1>2, <1>3, <1>4 DEF LinkInv, Identities
<1> QED
  BY <1>1, <1>2, <1>5

LEMMA RepointKeeps == ASSUME Link!ConstantsOK, LinkInv, Link!repointSymlink PROVE LinkInv'
<1> USE DEF LinkInv
<1>1. /\ linkAt = "removeStale" /\ linkAt' = "createNew" /\ fs' = [fs EXCEPT !["path"] = Link!NoEntry]
      /\ UNCHANGED <<link, doomed, foreign, real, linkRuns>>
  BY DEF Link!repointSymlink, Link!Goto
<1>2. /\ LinkTypes' /\ Identities'
      /\ \A m \in Link!Names : fs'[m] = IF m = "path" THEN Link!NoEntry ELSE fs[m]
      /\ Link!NoEntry.kind = "none" /\ Link!NoEntry.ino = 0
  BY <1>1, RemovalKeeps
<1>3. Path.kind = "symlink" /\ Path.to # link.to /\ link.op # "hardlink"
  BY <1>1 DEF Steps
<1>4. ~Secure
  BY <1>3 DEF Secure
<1>5. Path'.kind = "none" /\ Old' = Old
  BY <1>2 DEF Path, Old, Link!Names
<1>6. Steps' /\ Replaced' /\ PlantsInv'
  BY <1>1, <1>3, <1>5 DEF Steps, Replaced, PlantsInv, Own, Replacing
<1>7. Lost' => Lost
  BY <1>1, <1>2, <1>3, NothingLost DEF Identities, Path, Link!Names
<1> QED
  BY <1>1, <1>2, <1>4, <1>6, <1>7 DEF LossesInv

\* While the entry at the path is replaced nothing is lost yet.
LEMMA NotYetLost ==
    ASSUME LinkInv, link.op \in {"symlink", "hardlink"},
           linkAt \in {"createNew", "create", "restore", "moveAside", "removeOriginal"}
    PROVE  ~Lost
<1> USE DEF LinkInv
<1>1. linkAt \in {"createNew", "create", "restore"} => Path.kind = "none"
  BY DEF Steps
<1>2. linkAt \in {"moveAside", "removeOriginal"} =>
          /\ link.op = "symlink" => Path.kind # "symlink"
          /\ link.op = "hardlink" => Path.ino # fs["target"].ino
  BY DEF Steps, Replaced, Replacing, Own
<1>3. ~Secure
  BY <1>1, <1>2 DEF Secure
<1> QED
  BY <1>3 DEF LossesInv

LEMMA RenameKeeps ==
    ASSUME Link!ConstantsOK, LinkInv, linkAt = "moveAside", linkAt' = "create",
               Link!CanRename("path", "old"), Link!ByRename,
           fs' = [fs EXCEPT !["old"] = fs["path"], !["path"] = Link!NoEntry],
           UNCHANGED <<link, doomed, foreign, real, linkRuns>>
    PROVE  LinkInv'
<1> USE DEF LinkInv
<1>1. EntryInv(Link!NoEntry) /\ Link!NoEntry.kind = "none" /\ Link!NoEntry.ino = 0
  BY NoEntryFacts
<1>2. /\ fs = [m \in Link!Names |-> fs[m]] /\ \A m \in Link!Names : EntryInv(fs[m])
      /\ \A m \in Link!Names : fs[m].ino = 0 <=> fs[m].kind = "none"
  BY KnownByIdentity DEF LinkTypes
<1>3. \A m \in Link!Names : fs'[m] = CASE m = "path" -> Link!NoEntry [] m =
          "old" -> Path [] OTHER -> fs[m]
  BY <1>2 DEF Path, Link!Names
<1>4. /\ fs'["path"] = Link!NoEntry /\ fs'["old"] = Path
      /\ fs'["target"] = fs["target"] /\ fs'["via"] = fs["via"]
      /\ fs' = [m \in Link!Names |-> fs'[m]]
  BY <1>2, <1>3 DEF Link!Names
<1>5. LinkTypes'
  BY <1>1, <1>2, <1>4 DEF LinkTypes, Link!Names, Path
<1>6. Identities'
  <2>1. \A e \in Plants : e.ino # 0
    BY DEF Link!ConstantsOK, Link!IsEntry
  <2>2. \A m \in Link!Names : fs'[m] = Link!NoEntry \/ \E n \in Link!Names : fs'[m] = fs[n]
    BY <1>4 DEF Path, Link!Names
  <2> QED
    BY <1>1, <1>2, <2>1, <2>2 DEF Identities
<1>7. Path.kind # "none" /\ Old.ino \notin doomed
  BY DEF Steps, Replacing
<1>8. Steps'
  BY <1>1, <1>4, <1>7 DEF Steps, Path, Old, Own, Replacing
<1>9. Replaced'
  BY <1>4 DEF Replaced, Own, Replacing
<1>10. PlantsInv'
  <2>1. ASSUME ~link.darwin, NEW e \in Plants, e.ino \in foreign, e.kind # "dir"
        PROVE  FALSE
    <3>1. Old = e
      BY <2>1 DEF PlantsInv
    <3>2. Path.kind = "dir"
      BY <2>1 DEF Link!ByRename, Path
    <3>3. Old.kind = "none"
      BY <2>1, <3>1, <3>2 DEF Link!CanRename, Path, Old
    <3> QED
      BY <3>1, <3>3 DEF Link!ConstantsOK
  <2> QED
    BY <2>1 DEF PlantsInv
<1>11. Lost' => Lost
  <2>1. ASSUME NEW ino \in doomed, Link!Kept(ino) PROVE Link!Kept(ino)'
    <3>1. PICK n \in Link!Names : fs[n].ino = ino
      BY <2>1 DEF Link!Kept
    <3>2. n # "old"
      BY <3>1, <1>7 DEF Old
    <3>3. fs'[IF n = "path" THEN "old" ELSE n].ino = ino
      BY <1>4, <3>1, <3>2 DEF Link!Names, Path
    <3> QED
      BY <3>3, <3>1 DEF Link!Kept, Link!Names
  <2> QED
    BY <2>1 DEF Lost
<1>12. link.op \in {"symlink", "hardlink"} => ~Lost
  BY NotYetLost
<1> QED
  BY <1>5, <1>6, <1>8, <1>9, <1>10, <1>11, <1>12 DEF LossesInv

LEMMA RemoveOriginalKeeps == ASSUME Link!ConstantsOK, LinkInv, Link!moveAsideHardlink PROVE LinkInv'
<1> USE DEF LinkInv
<1>1. /\ linkAt = "removeOriginal" /\ UNCHANGED <<link, doomed, foreign, real, linkRuns>>
  BY DEF Link!moveAsideHardlink
<1>2. Old = Path /\ Old.kind # "none"
  BY <1>1 DEF Steps, Own
<1>3. PICK n \in {"path", "old"} :
          /\ fs' = [fs EXCEPT ![n] = Link!NoEntry]
          /\ n = "path" => linkAt' = "create"
          /\ n = "old" => linkAt' = "failed"
  BY DEF Link!moveAsideHardlink, Link!Goto, Link!Fail
<1>4. /\ LinkTypes' /\ Identities'
      /\ \A m \in Link!Names : fs'[m] = IF m = n THEN Link!NoEntry ELSE fs[m]
      /\ Link!NoEntry.kind = "none" /\ Link!NoEntry.ino = 0
  BY <1>1, <1>3, RemovalKeeps
<1>5. /\ n = "path" => Path'.kind = "none" /\ Old' = Old
      /\ n = "old" => Path' = Path
      /\ fs'["target"] = fs["target"] /\ fs'["via"] = fs["via"]
  BY <1>4 DEF Path, Old, Link!Names
<1>6. Steps' /\ PlantsInv'
  BY <1>1, <1>2, <1>3, <1>5 DEF Steps, PlantsInv, Own, Replacing
<1>7. Replaced'
  BY <1>1, <1>3, <1>5 DEF Replaced, Own, Replacing
<1>8. Lost' => Lost
  <2>1. \E m \in Link!Names : m # n /\ fs[m].ino = fs[n].ino
    BY <1>2 DEF Path, Old, Link!Names
  <2> QED
    BY <1>1, <1>4, <2>1, NothingLost
<1>9. link.op \in {"symlink", "hardlink"} => ~Lost
  BY <1>1, NotYetLost
<1> QED
  BY <1>1, <1>3, <1>4, <1>6, <1>7, <1>8, <1>9 DEF LossesInv

\* The link is created.
LEMMA CreationKeeps ==
    ASSUME Link!ConstantsOK, LinkInv, linkAt \in {"createNew", "create"}, ~Link!CreateFails,
           fs' = [fs EXCEPT !["path"] = Link!NewEntry],
           linkAt' = (IF linkAt = "create" THEN "removeAside" ELSE "done"),
           UNCHANGED <<link, doomed, foreign, real, linkRuns>>
    PROVE  LinkInv'
<1> USE DEF LinkInv
<1>1. linkRuns \in Nat /\ link.to \in Link!Names
  BY DEF LinkTypes, Link!ConstantsOK, Link!Names
<1>2. Path.kind = "none" /\ Path.ino = 0
  BY KnownByIdentity DEF Steps, LinkTypes, Path, Link!Names
<1>3. link.op = "hardlink" =>
          /\ real \in {"target", "old"} /\ Link!NewEntry = fs[real] /\
                 fs[real].kind \notin {"none", "dir"}
          /\ linkAt = "create" => real = "target"
  BY DEF Replaced, Own, Link!NewEntry, Link!CreateFails
<1>4. link.op # "hardlink" =>
          /\ Link!NewEntry.kind = "symlink" /\ Link!NewEntry.to = link.to
          /\ Link!NewEntry.ino = 100 + linkRuns /\ EntryInv(Link!NewEntry)
  BY <1>1 DEF Link!NewEntry, EntryInv, Symlink
<1>5. EntryInv(Link!NewEntry) /\ Link!NewEntry.kind # "none"
  BY <1>3, <1>4 DEF LinkTypes, Link!Names
<1>6. LinkTypes' /\ \A m \in Link!Names : fs'[m] = IF m = "path" THEN Link!NewEntry ELSE fs[m]
  BY <1>1, <1>5, Replace
<1>7. Identities'
  <2>1. CASE link.op = "hardlink"
    <3>1. \A m \in Link!Names : \E n \in Link!Names : fs'[m] = fs[n]
      BY <1>3, <1>6, <2>1 DEF Link!Names
    <3> QED
      BY <3>1 DEF Identities
  <2>2. CASE link.op # "hardlink"
    <3>1. \A m \in Link!Names : fs[m].ino = 100 + linkRuns => fs[m].kind = "symlink"
      <4>1. ASSUME NEW m \in Link!Names, fs[m].ino = 100 + linkRuns PROVE fs[m].kind = "symlink"
        <5>1. EntryInv(fs[m])
          BY DEF LinkTypes
        <5>2. fs[m].ino \notin 1..99 /\ fs[m].ino # 0
          BY <1>1, <4>1
        <5> QED
          BY <5>1, <5>2, EntryFacts
      <4> QED
        BY <4>1
    <3>2. 100 + linkRuns \notin 1..99
      BY <1>1
    <3>3. \A e \in Plants : e.ino # 100 + linkRuns
      <4>1. \A e \in Plants : e.ino \in 0..99
        BY DEF Link!ConstantsOK, Link!IsEntry
      <4>2. 100 + linkRuns \notin 0..99
        BY <1>1
      <4> QED
        BY <4>1, <4>2
    <3>4. \A m, n \in Link!Names : fs'[m].ino = fs'[n].ino => fs'[m].kind = fs'[n].kind
      BY <1>4, <1>6, <2>2, <3>1 DEF Identities
    <3>5. \A n \in Link!Names : fs'[n].kind = "symlink" => fs'[n].ino \notin doomed
      BY ZenonT(60), <1>4, <1>6, <2>2, <3>2 DEF Identities
    <3> QED
      BY <1>4, <1>6, <2>2, <3>3, <3>4, <3>5 DEF Identities
  <2> QED
    BY <2>1, <2>2
<1>8. /\ Path' = Link!NewEntry /\ Old' = Old
      /\ fs'["target"] = fs["target"] /\ fs'["via"] = fs["via"]
  BY <1>6 DEF Path, Old, Link!Names
<1>9. Steps'
  BY <1>3, <1>4, <1>5, <1>8 DEF Steps, Own, Replacing
<1>10. Replaced'
  BY <1>3, <1>8 DEF Replaced, Own, Replacing
<1>11. PlantsInv'
  BY <1>8 DEF PlantsInv, Own
<1>12. Lost' => Lost
  <2>1. Path.ino \notin doomed
    BY <1>2 DEF Identities
  <2> QED
    BY <1>6, <2>1, NothingLost DEF Path
<1>13. link.op \in {"symlink", "hardlink"} => ~Lost
  BY NotYetLost
<1>14. link.op \in {"symlink", "hardlink"} /\ linkAt = "create" => Secure'
  <2>1. link.op = "symlink" => Secure'
    BY <1>4, <1>8 DEF Secure
  <2>2. ASSUME link.op = "hardlink", linkAt = "create" PROVE Secure'
    <3>1. /\ Link!NewEntry = fs["target"] /\ fs["target"].kind # "none" /\ real = "target"
          /\ link.to = "target" \/ fs["via"].to \in {"target", "path"}
      BY <2>2, <1>3 DEF Replaced, Own
    <3> QED
      BY <2>2, <3>1, <1>8 DEF Secure, LinkTypes
  <2> QED
    BY <2>1, <2>2
<1> QED
  BY <1>6, <1>7, <1>9, <1>10, <1>11, <1>12, <1>13, <1>14 DEF LossesInv

LEMMA RestoreKeeps == ASSUME Link!ConstantsOK, LinkInv, Link!restoreAside PROVE LinkInv'
<1> USE DEF LinkInv
<1>1. linkAt = "restore" /\ linkAt' = "failed" /\ UNCHANGED <<link, doomed, foreign, real, linkRuns>>
  BY DEF Link!restoreAside, Link!Fail
<1>2. CASE UNCHANGED fs
  <2>1. Steps' /\ Replaced'
    BY <1>1, <1>2 DEF Steps, Replaced, Own, Replacing
  <2> QED
    BY <1>1, <1>2, <2>1, Stays DEF LinkTypes, Own, Secure, Path
<1>3. CASE fs' = [fs EXCEPT !["path"] = fs["old"], !["old"] = Link!NoEntry]
  <2>1. EntryInv(Link!NoEntry) /\ Link!NoEntry.kind = "none" /\ Link!NoEntry.ino = 0
    BY NoEntryFacts
  <2>2. /\ fs = [m \in Link!Names |-> fs[m]] /\ \A m \in Link!Names : EntryInv(fs[m])
        /\ \A m \in Link!Names : fs[m].ino = 0 <=> fs[m].kind = "none"
    BY KnownByIdentity DEF LinkTypes
  <2>3. /\ fs'["path"] = Old /\ fs'["old"] = Link!NoEntry
        /\ fs'["target"] = fs["target"] /\ fs'["via"] = fs["via"]
        /\ fs' = [m \in Link!Names |-> fs'[m]]
    BY <1>3, <2>2 DEF Link!Names, Old
  <2>4. LinkTypes'
    BY <1>1, <2>1, <2>2, <2>3 DEF LinkTypes, Link!Names, Old
  <2>5. Identities'
    <3>1. \A e \in Plants : e.ino # 0
      BY DEF Link!ConstantsOK, Link!IsEntry
    <3>2. \A m \in Link!Names : fs'[m] = Link!NoEntry \/ \E n \in Link!Names : fs'[m] = fs[n]
      BY <2>3 DEF Old, Link!Names
    <3> QED
      BY <1>1, <2>1, <2>2, <3>1, <3>2 DEF Identities
  <2>6. Steps' /\ Replaced'
    BY <1>1 DEF Steps, Replaced, Own, Replacing
  <2>7. PlantsInv'
    BY <1>1 DEF PlantsInv, Own
  <2>8. Lost' => Lost
    <3>1. Path.ino \notin doomed
      BY <1>1, <2>2 DEF Steps, Identities, Path, Link!Names
    <3>2. ASSUME NEW ino \in doomed, Link!Kept(ino) PROVE Link!Kept(ino)'
      <4>1. PICK n \in Link!Names : fs[n].ino = ino
        BY <3>2 DEF Link!Kept
      <4>2. n # "path"
        BY <4>1, <3>1 DEF Path
      <4>3. fs'[IF n = "old" THEN "path" ELSE n].ino = ino
        BY <2>3, <4>1, <4>2 DEF Link!Names, Old
      <4> QED
        BY <4>3, <4>1 DEF Link!Kept, Link!Names
    <3> QED
      BY <1>1, <3>2 DEF Lost
  <2>9. link.op \in {"symlink", "hardlink"} => ~Lost
    BY <1>1, NotYetLost
  <2> QED
    BY <1>1, <2>4, <2>5, <2>6, <2>7, <2>8, <2>9 DEF LossesInv
<1> QED
  BY <1>2, <1>3 DEF Link!restoreAside

LEMMA AsideKeeps == ASSUME Link!ConstantsOK, LinkInv, Link!moveAsideNoReplace PROVE LinkInv'
<1> USE DEF LinkInv
<1>1. linkAt = "moveAside" /\ UNCHANGED <<link, doomed, foreign, real, linkRuns>>
  BY DEF Link!moveAsideNoReplace
<1>2. CASE Link!Fail /\ UNCHANGED fs
  <2>1. Steps' /\ Replaced'
    BY <1>1, <1>2 DEF Steps, Replaced, Own, Replacing, Link!Fail
  <2> QED
    BY <1>1, <1>2, <2>1, Stays DEF LinkTypes, Own, Secure, Path, Link!Fail
<1>3. CASE /\ Link!ByRename /\ Link!CanRename("path", "old") /\ linkAt' = "create"
           /\ fs' = [fs EXCEPT !["old"] = fs["path"], !["path"] = Link!NoEntry]
  BY <1>1, <1>3, RenameKeeps
<1>4. CASE ~Link!ByRename /\ ~Link!Exists(fs, "old") /\ fs' = [fs EXCEPT !["old"] = Path] /\
               linkAt' = "removeOriginal"
  <2>1. EntryInv(Path) /\ Path.kind # "none" /\ Old.kind = "none" /\ Old.ino = 0 /\ Path.kind # "dir"
    BY <1>1, <1>4, KnownByIdentity DEF Steps, Replacing, LinkTypes, Path, Old, Link!Names,
       Link!Exists, Link!ByRename
  <2>2. LinkTypes' /\ \A m \in Link!Names : fs'[m] = IF m = "old" THEN Path ELSE fs[m]
    BY <1>1, <1>4, <2>1, Replace DEF LinkTypes
  <2>3. Identities'
    <3>1. \A m \in Link!Names : \E n \in Link!Names : fs'[m] = fs[n]
      BY <2>2 DEF Link!Names, Path
    <3> QED
      BY <1>1, <3>1 DEF Identities
  <2>4. /\ Path' = Path /\ Old' = Path
        /\ fs'["target"] = fs["target"] /\ fs'["via"] = fs["via"]
    BY <2>2 DEF Path, Old, Link!Names
  <2>5. Steps'
    BY <1>1, <1>4, <2>1, <2>4 DEF Steps, Own, Replacing
  <2>6. Replaced'
    BY <1>1, <1>4, <2>2, <2>4 DEF Replaced, Own, Replacing
  <2>7. PlantsInv'
    BY <1>1, <2>1 DEF PlantsInv, Link!ConstantsOK
  <2>8. Lost' => Lost
    BY <1>1, <2>1, <2>2, NothingLost DEF Identities, Old
  <2>9. link.op \in {"symlink", "hardlink"} => ~Lost
    BY <1>1, NotYetLost
  <2> QED
    BY <1>1, <1>4, <2>2, <2>3, <2>5, <2>6, <2>7, <2>8, <2>9 DEF LossesInv
<1> QED
  BY <1>1, <1>2, <1>3, <1>4 DEF Link!moveAsideNoReplace, Link!Goto, Path

LEMMA CreateKeeps ==
    ASSUME Link!ConstantsOK, LinkInv, Link!createLink \/ Link!replaceWithLink PROVE LinkInv'
<1> USE DEF LinkInv
<1>1. /\ linkAt \in {"createNew", "create"} /\ UNCHANGED <<link, doomed, foreign, real, linkRuns>>
      /\ \/ /\ Link!CreateFails /\ UNCHANGED fs
            /\ linkAt' = IF linkAt = "create" THEN "restore" ELSE "failed"
         \/ /\ ~Link!CreateFails /\ fs' = [fs EXCEPT !["path"] = Link!NewEntry]
            /\ linkAt' = (IF linkAt = "create" THEN "removeAside" ELSE "done")
  BY DEF Link!createLink, Link!replaceWithLink, Link!Goto, Link!Fail, Link!Done
<1>2. CASE Link!CreateFails
  <2>1. Steps' /\ Replaced'
    BY <1>1, <1>2 DEF Steps, Replaced, Own, Replacing, Path, Old
  <2> QED
    BY <1>1, <1>2, <2>1, Stays DEF LinkTypes, Own, Secure, Path
<1> QED
  BY <1>1, <1>2, CreationKeeps

LEMMA RemoveAsideKeeps == ASSUME Link!ConstantsOK, LinkInv, Link!removeAside PROVE LinkInv'
<1> USE DEF LinkInv
<1>1. linkAt = "removeAside" /\ UNCHANGED <<link, doomed, foreign, real, linkRuns>>
  BY DEF Link!removeAside
<1>2. CASE UNCHANGED fs /\ linkAt' = "failed"
  <2>1. Steps' /\ Replaced'
    BY <1>1, <1>2 DEF Steps, Replaced, Own, Replacing
  <2> QED
    BY <1>1, <1>2, <2>1, Stays DEF LinkTypes, Own, Secure, Path
<1>3. CASE fs' = [fs EXCEPT !["old"] = Link!NoEntry] /\ linkAt' = "done"
  <2>1. /\ LinkTypes' /\ Identities'
        /\ \A m \in Link!Names : fs'[m] = IF m = "old" THEN Link!NoEntry ELSE fs[m]
    BY <1>1, <1>3, RemovalKeeps
  <2>2. Path' = Path /\ fs'["target"] = fs["target"] /\ fs'["via"] = fs["via"]
    BY <2>1 DEF Path, Link!Names
  <2>3. Steps' /\ Replaced'
    BY <1>1, <1>3 DEF Steps, Replaced, Own, Replacing
  <2>4. PlantsInv'
    BY <1>1 DEF PlantsInv, Own
  <2>5. link.op \in {"symlink", "hardlink"} => Secure
    BY <1>1 DEF LossesInv
  <2> QED
    BY <1>1, <1>3, <2>1, <2>2, <2>3, <2>4, <2>5 DEF LossesInv, Secure
<1> QED
  BY <1>2, <1>3 DEF Link!removeAside, Link!Fail, Link!Done

LEMMA AbsentKeeps == ASSUME Link!ConstantsOK, LinkInv, Link!ensureAbsent PROVE LinkInv'
<1> USE DEF LinkInv
<1>1. linkAt = "lstatAbsent" /\ UNCHANGED <<link, doomed, foreign, real, linkRuns>>
  BY DEF Link!ensureAbsent
<1>2. linkAt' \in {"done", "failed"}
  BY DEF Link!ensureAbsent, Link!Done, Link!Fail
<1>3. link.op \notin {"symlink", "hardlink"}
  BY <1>1 DEF Steps
<1>4. Steps' /\ Replaced'
  BY <1>1, <1>2, <1>3 DEF Steps, Replaced, Own, Replacing
<1>5. CASE UNCHANGED fs
  BY <1>1, <1>2, <1>4, <1>5, Stays DEF LinkTypes, Own, Secure, Path
<1>6. CASE fs' = [fs EXCEPT !["path"] = Link!NoEntry]
  <2>1. /\ LinkTypes' /\ Identities'
        /\ \A m \in Link!Names : fs'[m] = IF m = "path" THEN Link!NoEntry ELSE fs[m]
    BY <1>1, <1>6, RemovalKeeps
  <2>2. PlantsInv'
    BY <1>1, <1>2, <2>1 DEF PlantsInv, Own, Old, Link!Names
  <2> QED
    BY <1>1, <1>3, <1>4, <2>1, <2>2 DEF LossesInv
<1> QED
  BY <1>5, <1>6 DEF Link!ensureAbsent

LEMMA PlantKeeps == ASSUME Link!ConstantsOK, LinkInv, NEW e \in Plants, Link!Plant(e) PROVE LinkInv'
<1> USE DEF LinkInv
<1>1. /\ Old.kind = "none" /\ foreign = {} /\ fs' = [fs EXCEPT !["old"] = e] /\ foreign' = {e.ino}
      /\ UNCHANGED <<link, doomed, real, linkAt, linkRuns>>
  BY DEF Link!Plant, Link!Exists, Old
<1>2. EntryInv(e) /\ e.kind \in {"file", "dir"}
  BY DEF Link!ConstantsOK, EntryInv
<1>3. LinkTypes' /\ \A m \in Link!Names : fs'[m] = IF m = "old" THEN e ELSE fs[m]
  BY <1>1, <1>2, Replace DEF LinkTypes
<1>4. /\ e.ino \notin doomed /\ \A n \in Link!Names : fs[n].ino # e.ino
  BY <1>1 DEF Identities
<1>5. Identities'
  BY <1>1, <1>2, <1>3, <1>4 DEF Identities
<1>6. linkAt \notin Own
  BY <1>1 DEF Steps
<1>7. /\ Path' = Path /\ Old' = e
      /\ fs'["target"] = fs["target"] /\ fs'["via"] = fs["via"]
  BY <1>3 DEF Path, Old, Link!Names
<1>8. Steps'
  BY <1>1, <1>2, <1>4, <1>6, <1>7 DEF Steps, Own
<1>9. Replaced'
  BY <1>1, <1>2, <1>4, <1>6, <1>7 DEF Replaced, Own, Replacing, Link!Names, Path
<1>10. PlantsInv'
  BY <1>1, <1>6, <1>7 DEF PlantsInv, Link!ConstantsOK
<1>11. Lost' => Lost
  BY <1>1, <1>3, NothingLost, KnownByIdentity DEF Identities, LinkTypes, Old, Link!Names
<1> QED
  BY <1>1, <1>3, <1>5, <1>7, <1>8, <1>9, <1>10, <1>11 DEF LossesInv, Secure

LEMMA LinkKeeps == ASSUME Link!ConstantsOK, LinkInv, Link!Next PROVE LinkInv'
BY StartKeeps, LooksKeep, HardlinkKeeps, RepointKeeps, AsideKeeps, RemoveOriginalKeeps,
   CreateKeeps, RestoreKeeps, RemoveAsideKeeps, AbsentKeeps, PlantKeeps DEF Link!Next

LEMMA LinkRests == ASSUME LinkInv, UNCHANGED Link!vars PROVE LinkInv'
BY DEF Link!vars, LinkInv, LinkTypes, Identities, Steps, Replaced, LossesInv, PlantsInv, Lost,
   Link!Kept, Secure, Path, Old

LEMMA KeepsData == LinkInv => Link!DataKept
<1> SUFFICES ASSUME LinkInv PROVE Link!DataKept
  OBVIOUS
<1> USE DEF LinkInv
<1>1. Secure => Link!InPlace
  BY DEF Secure, Link!InPlace, Path
<1>2. ASSUME link.op \in {"symlink", "hardlink"}, NEW ino \in doomed PROVE Link!Kept(ino) \/
                 Link!InPlace
  BY <1>1, <1>2 DEF LossesInv, Lost
<1>3. ASSUME ~link.darwin, NEW e \in Plants, e.ino \in foreign PROVE Link!Kept(e.ino) \/ e.kind = "dir"
  BY <1>3 DEF PlantsInv, Link!Kept, Old, Link!Names
<1> QED
  BY <1>2, <1>3 DEF Link!DataKept

\* What the dry run said is still so at each step of an apply that nothing
\* interfered with.
Foresight ==
    /\ linkAt = "refuse" => foreseen = "error"
    /\ linkAt \in {"assertTarget", "lstatSymlink"} => foreseen = Link!PreviewSymlink(fs, link.to)
    /\ linkAt = "lstatSymlink" => Link!Stat(fs, link.to) = "ok"
    /\ linkAt = "evalTarget" => foreseen = Link!PreviewHardlink(fs, link.to)
    /\ linkAt = "lstatAbsent" => /\ foreseen = Link!PreviewAbsent(fs)
                                 /\ link.op = "absent" \/ Link!Stat(fs, link.to) = "missing"
    /\ linkAt = "assertNoBackup" => foreseen = Link!PreviewReplace(fs)
    /\ linkAt = "moveAside" => Old.kind = "none"
    /\ linkAt \in {"removeStale", "createNew", "moveAside"} \cup Own => foreseen = "would"
    /\ link.op = "hardlink" /\ linkAt \in {"createNew"} \cup Replacing \cup Own =>
           fs[real].kind # "none"
    /\ linkAt = "restore" => link.op = "hardlink" /\ fs[real].kind = "dir"

PreviewInv ==
    /\ linkAt = "done" => linkNote \in {"ok", "changed"}
    /\ linkAt \notin {"idle", "done"} => linkNote = "none"
    /\ calm => Foresight
    /\ Link!DryRunHolds

LEMMA PreviewStarts == Link!Init => PreviewInv
BY DEF Link!Init, PreviewInv, Link!DryRunHolds

\* A failure is the dry run's error, or one that DryRunHolds allows.
LEMMA FailureForeseen ==
    ASSUME PreviewInv, Link!Fail, linkAt \notin {"idle", "done"},
           calm' => \/ foreseen' = "error"
                    \/ Link!Stat(fs', link'.to) # "ok" \/ Link!Exists(fs', "old")
                    \/ link'.op = "hardlink" /\ fs'[real'].kind = "dir"
                    \/ link'.op = "absent" /\ fs'["path"].full
    PROVE  PreviewInv'
<1>1. linkAt' = "failed" /\ linkNote' = "none"
  BY DEF PreviewInv, Link!Fail
<1>2. Link!DryRunHolds'
  BY <1>1 DEF Link!DryRunHolds
<1>3. Foresight'
  BY <1>1 DEF Foresight, Own, Replacing
<1> QED
  BY <1>1, <1>2, <1>3 DEF PreviewInv

\* A step inside an apply.
LEMMA GoesOn ==
    ASSUME PreviewInv, NEW l, Link!Goto(l), linkAt \notin {"idle", "done"},
           l \notin {"idle", "done", "failed"}, calm' => Foresight'
    PROVE  PreviewInv'
<1>1. linkAt' = l /\ linkNote' = "none"
  BY DEF PreviewInv, Link!Goto
<1> QED
  BY <1>1 DEF PreviewInv, Link!DryRunHolds

\* An apply that ends well.
LEMMA EndForeseen ==
    ASSUME NEW st \in {"ok", "changed"}, Link!Done(st),
           calm' => foreseen' = (IF st = "ok" THEN "ok" ELSE "would")
    PROVE  PreviewInv'
<1>1. linkAt' = "done" /\ linkNote' = st
  BY DEF Link!Done
<1>2. Foresight'
  BY <1>1 DEF Foresight, Own, Replacing
<1>3. Link!DryRunHolds'
  BY <1>1 DEF Link!DryRunHolds
<1> QED
  BY <1>1, <1>2, <1>3 DEF PreviewInv

LEMMA StartForesees == ASSUME Link!ConstantsOK, LinkInv, Link!Start PROVE PreviewInv'
<1>1. /\ linkAt' = Link!FirstStep(Link!Resolved(fs, link)) /\ linkNote' = "none"
      /\ foreseen' = Link!DryRun(fs, link) /\ fs' = fs /\ link' = link
  BY DEF Link!Start
<1>2. link.op \in {"symlink", "hardlink", "if_exists", "absent"}
  BY DEF LinkInv, LinkTypes, Link!ConstantsOK
<1>3. Foresight'
  <2>1. CASE Link!Resolved(fs, link) = "symlink"
    <3>1. linkAt' = "assertTarget" /\ foreseen' = Link!PreviewSymlink(fs, link.to)
      BY <1>1, <2>1 DEF Link!FirstStep, Link!DryRun
    <3>2. Link!PreviewSymlink(fs, link.to)' = Link!PreviewSymlink(fs, link.to)
      BY <1>1
    <3> QED
      BY <3>1, <3>2 DEF Foresight, Own, Replacing
  <2>2. CASE Link!Resolved(fs, link) = "hardlink"
    <3>1. linkAt' = "evalTarget" /\ foreseen' = Link!PreviewHardlink(fs, link.to)
      BY <1>1, <2>2 DEF Link!FirstStep, Link!DryRun
    <3>2. Link!PreviewHardlink(fs, link.to)' = Link!PreviewHardlink(fs, link.to)
      BY <1>1
    <3> QED
      BY <3>1, <3>2 DEF Foresight, Own, Replacing
  <2>3. CASE Link!Resolved(fs, link) = "absent"
    <3>1. linkAt' = "lstatAbsent" /\ foreseen' = Link!PreviewAbsent(fs)
      BY <1>1, <2>3 DEF Link!FirstStep, Link!DryRun
    <3>2. Link!PreviewAbsent(fs)' = Link!PreviewAbsent(fs)
      BY <1>1
    <3>3. link.op = "absent" \/ Link!Stat(fs, link.to) = "missing"
      BY <1>2, <2>3 DEF Link!Resolved
    <3>4. (link.op = "absent" \/ Link!Stat(fs, link.to) = "missing")'
      BY <1>1, <3>3
    <3> QED
      BY <3>1, <3>2, <3>4 DEF Foresight, Own, Replacing
  <2>4. CASE Link!Resolved(fs, link) \notin {"symlink", "hardlink", "absent"}
    <3>1. linkAt' = "refuse" /\ foreseen' = "error"
      BY <1>1, <2>4 DEF Link!FirstStep, Link!DryRun
    <3> QED
      BY <3>1 DEF Foresight, Own, Replacing
  <2> QED
    BY <2>1, <2>2, <2>3, <2>4
<1>4. linkAt' \notin {"idle", "done", "failed"}
  BY <1>1 DEF Link!FirstStep
<1> QED
  BY <1>1, <1>3, <1>4 DEF PreviewInv, Link!DryRunHolds

\* The steps that look.
LEMMA LooksForeseen ==
    ASSUME Link!ConstantsOK, LinkInv, PreviewInv,
           Link!refuse \/ Link!assertSymlinkTargetExists \/ Link!ensureSymlink
              \/ Link!assertNoAsideBackup
    PROVE  PreviewInv'
<1>1. /\ linkAt \in {"refuse", "assertTarget", "lstatSymlink", "assertNoBackup"}
      /\ link' = link /\ fs' = fs /\ foreseen' = foreseen /\ calm' = calm /\ real' = real
  BY DEF Link!refuse, Link!assertSymlinkTargetExists, Link!ensureSymlink, Link!assertNoAsideBackup
<1>2. /\ Link!Stat(fs, link.to)' = Link!Stat(fs, link.to)
      /\ Link!PreviewSymlink(fs, link.to)' = Link!PreviewSymlink(fs, link.to)
      /\ Old' = Old
  BY <1>1 DEF Old
<1>3. CASE Link!refuse
  <2>1. Link!Fail /\ (calm => foreseen = "error")
    BY <1>3 DEF Link!refuse, PreviewInv, Foresight
  <2> QED
    BY <1>1, <2>1, FailureForeseen
<1>4. CASE Link!assertSymlinkTargetExists
  <2>1. /\ linkAt = "assertTarget"
        /\ IF Link!Stat(fs, link.to) = "ok" THEN Link!Goto("lstatSymlink") ELSE Link!Fail
    BY <1>4 DEF Link!assertSymlinkTargetExists
  <2>2. CASE Link!Stat(fs, link.to) = "ok"
    <3>1. calm' => Foresight'
      BY <1>1, <1>2, <2>1, <2>2 DEF Foresight, PreviewInv, Link!Goto, Own, Replacing
    <3> QED
      BY <1>1, <2>1, <2>2, <3>1, GoesOn
  <2>3. CASE Link!Stat(fs, link.to) # "ok"
    BY <1>1, <1>2, <2>1, <2>3, FailureForeseen
  <2> QED
    BY <2>2, <2>3
<1>5. CASE Link!ensureSymlink
  <2>1. /\ linkAt = "lstatSymlink" /\ link.op # "hardlink"
        /\ Path.kind \in {"none", "file", "dir", "symlink"}
    <3>1. linkAt = "lstatSymlink" /\ EntryInv(Path)
      BY <1>5 DEF Link!ensureSymlink, LinkInv, LinkTypes, Path, Link!Names
    <3>2. link.op # "hardlink"
      BY <3>1 DEF LinkInv, Steps
    <3>3. Path.kind \in {"none", "file", "dir", "symlink"}
      BY ZenonT(60), <3>1, EntryFacts
    <3> QED
      BY <3>1, <3>2, <3>3
  <2>2. calm => foreseen =
          IF Path.kind = "symlink" THEN IF Path.to = link.to THEN "ok" ELSE "would"
          ELSE IF Path.kind = "none" THEN "would" ELSE Link!PreviewReplace(fs)
    BY <2>1 DEF PreviewInv, Foresight, Link!PreviewSymlink, Link!Exists, Path
  <2>3. CASE Path.kind = "symlink" /\ Path.to = link.to
    <3>1. Link!Done("ok")
      BY <1>5, <2>3 DEF Link!ensureSymlink, Path
    <3> QED
      BY <1>1, <2>2, <2>3, <3>1, EndForeseen
  <2>4. CASE Path.kind = "symlink" /\ Path.to # link.to
    <3>1. Link!Goto("removeStale")
      BY <1>5, <2>4 DEF Link!ensureSymlink, Path
    <3>2. calm' => Foresight'
      BY <1>1, <2>1, <2>2, <2>4, <3>1 DEF Foresight, Link!Goto, Own, Replacing
    <3> QED
      BY <2>1, <3>1, <3>2, GoesOn
  <2>5. CASE Path.kind = "none"
    <3>1. Link!Goto("createNew")
      BY <1>5, <2>5 DEF Link!ensureSymlink, Path
    <3>2. calm' => Foresight'
      BY <1>1, <2>1, <2>2, <2>5, <3>1 DEF Foresight, Link!Goto, Own, Replacing
    <3> QED
      BY <2>1, <3>1, <3>2, GoesOn
  <2>6. CASE Path.kind \in {"file", "dir"}
    <3>1. Link!Goto("assertNoBackup")
      BY <1>5, <2>6 DEF Link!ensureSymlink, Path
    <3>2. calm => foreseen = Link!PreviewReplace(fs)
      BY <2>2, <2>6
    <3>3. calm' => foreseen' = Link!PreviewReplace(fs)'
      BY <1>1, <3>2
    <3>4. calm' => Foresight'
      BY <1>1, <2>1, <3>1, <3>3 DEF Foresight, Link!Goto, Own, Replacing
    <3> QED
      BY <2>1, <3>1, <3>4, GoesOn
  <2> QED
    BY <2>1, <2>3, <2>4, <2>5, <2>6
<1>6. CASE Link!assertNoAsideBackup
  <2>1. /\ linkAt = "assertNoBackup"
        /\ IF Link!Exists(fs, "old") THEN Link!Fail ELSE Link!Goto("moveAside")
    BY <1>6 DEF Link!assertNoAsideBackup
  <2>2. CASE Link!Exists(fs, "old")
    <3>1. Link!Exists(fs', "old") /\ Link!Fail
      BY <1>1, <2>1, <2>2
    <3> QED
      BY <2>1, <3>1, FailureForeseen
  <2>3. CASE ~Link!Exists(fs, "old")
    <3>1. Link!Goto("moveAside") /\ Old.kind = "none" /\ (calm => foreseen = "would")
      BY <2>1, <2>3 DEF Link!Exists, Old, PreviewInv, Foresight, Link!PreviewReplace
    <3>2. calm' => Foresight'
      BY <1>1, <1>2, <2>1, <3>1 DEF PreviewInv, Foresight, Link!Goto, Own, Replacing
    <3> QED
      BY <2>1, <3>1, <3>2, GoesOn
  <2> QED
    BY <2>2, <2>3
<1> QED
  BY <1>3, <1>4, <1>5, <1>6

LEMMA HardlinkForeseen ==
    ASSUME Link!ConstantsOK, LinkInv, PreviewInv, Link!ensureHardlink
    PROVE  PreviewInv'
<1> DEFINE r == Link!Follow(fs, link.to)
<1>1. /\ linkAt = "evalTarget" /\ real' = r
      /\ link' = link /\ fs' = fs /\ foreseen' = foreseen /\ calm' = calm
  BY DEF Link!ensureHardlink
<1>2. CASE Link!Stat(fs, link.to) # "ok"
  <2>1. Link!Fail
    BY <1>2 DEF Link!ensureHardlink
  <2>2. Link!Stat(fs', link'.to) # "ok"
    BY <1>1, <1>2
  <2> QED
    BY <1>1, <2>1, <2>2, FailureForeseen
<1>3. CASE Link!Stat(fs, link.to) = "ok"
  <2>1. r \in {"target", "path", "old"} /\ fs[r].kind \notin {"none", "symlink"}
    BY <1>3, FollowsTo DEF LinkInv
  <2>2. IF Path.kind = "none" THEN Link!Goto("createNew")
        ELSE IF Path.ino = fs[r].ino THEN Link!Done("ok") ELSE Link!Goto("assertNoBackup")
    BY <1>1, <1>3 DEF Link!ensureHardlink, Path
  <2>3. calm => foreseen = IF Path.kind # "none" /\ Path.ino = fs[r].ino THEN "ok"
                           ELSE IF Path.kind # "none" THEN Link!PreviewReplace(fs) ELSE "would"
    BY <1>1, <1>3 DEF PreviewInv, Foresight, Link!PreviewHardlink, Link!Exists, Path
  <2> HIDE DEF r
  <2>4. CASE Path.kind = "none"
    <3>1. calm' => Foresight'
      BY <1>1, <2>1, <2>2, <2>3, <2>4 DEF Foresight, Link!Goto, Own, Replacing
    <3> QED
      BY <1>1, <2>2, <2>4, <3>1, GoesOn
  <2>5. CASE Path.kind # "none" /\ Path.ino = fs[r].ino
    BY <1>1, <2>2, <2>3, <2>5, EndForeseen
  <2>6. CASE Path.kind # "none" /\ Path.ino # fs[r].ino
    <3>1. calm' => foreseen' = Link!PreviewReplace(fs)'
      BY <1>1, <2>3, <2>6
    <3>2. calm' => Foresight'
      BY <1>1, <2>1, <2>2, <2>6, <3>1 DEF Foresight, Link!Goto, Own, Replacing
    <3> QED
      BY <1>1, <2>2, <2>6, <3>2, GoesOn
  <2> QED
    BY <2>4, <2>5, <2>6
<1> QED
  BY <1>2, <1>3

\* What the target of a hard link holds while the entry at the path is
\* replaced.
LEMMA TargetStays ==
    ASSUME LinkInv, link.op = "hardlink", linkAt \in {"moveAside"} \cup Own,
           NEW e, NEW f,
           \/ fs' = [fs EXCEPT !["path"] = e]
           \/ fs' = [fs EXCEPT !["old"] = f]
           \/ fs' = [fs EXCEPT !["path"] = e, !["old"] = f]
           \/ fs' = [fs EXCEPT !["old"] = f, !["path"] = e]
    PROVE  fs'[real] = fs[real]
<1>1. real = "target" /\ fs = [n \in Link!Names |-> fs[n]] /\ "target" \in Link!Names
  BY DEF LinkInv, LinkTypes, Replaced, Link!Names
<1>2. fs'["target"] = fs["target"]
  BY <1>1
<1> QED
  BY <1>1, <1>2

LEMMA RepointForeseen ==
    ASSUME LinkInv, PreviewInv, Link!repointSymlink PROVE PreviewInv'
<1>1. /\ linkAt = "removeStale" /\ link' = link /\ foreseen' = foreseen /\ calm' = calm
      /\ Link!Goto("createNew") /\ link.op # "hardlink"
  BY DEF Link!repointSymlink, LinkInv, Steps
<1>2. calm' => Foresight'
  BY <1>1 DEF PreviewInv, Foresight, Link!Goto, Own, Replacing
<1> QED
  BY <1>1, <1>2, GoesOn

LEMMA AsideForeseen ==
    ASSUME LinkInv, PreviewInv, Link!moveAsideNoReplace PROVE PreviewInv'
<1>1. /\ linkAt = "moveAside" /\ link' = link /\ foreseen' = foreseen /\ calm' = calm
      /\ real' = real
  BY DEF Link!moveAsideNoReplace
<1>2. CASE Link!Fail /\ fs' = fs
  <2>1. Old.kind # "none"
    BY <1>2 DEF Link!moveAsideNoReplace, Link!CanRename, Link!Exists, Link!Fail, Link!Goto, Old
  <2>2. Link!Exists(fs', "old")
    BY <1>2, <2>1 DEF Link!Exists, Old
  <2> QED
    BY <1>1, <1>2, <2>2, FailureForeseen
<1>3. CASE /\ Link!Goto("create")
           /\ fs' = [fs EXCEPT !["old"] = fs["path"], !["path"] = Link!NoEntry]
  <2>1. link.op = "hardlink" => fs'[real] = fs[real]
    BY <1>1, <1>3, TargetStays
  <2>2. calm' => Foresight'
    BY <1>1, <1>3, <2>1 DEF PreviewInv, Foresight, Link!Goto, Own, Replacing
  <2> QED
    BY <1>1, <1>3, <2>2, GoesOn
<1>4. CASE Link!Goto("removeOriginal") /\ fs' = [fs EXCEPT !["old"] = fs["path"]]
  <2>1. link.op = "hardlink" => fs'[real] = fs[real]
    BY <1>1, <1>4, TargetStays
  <2>2. calm' => Foresight'
    BY <1>1, <1>4, <2>1 DEF PreviewInv, Foresight, Link!Goto, Own, Replacing
  <2> QED
    BY <1>1, <1>4, <2>2, GoesOn
<1> QED
  BY <1>2, <1>3, <1>4 DEF Link!moveAsideNoReplace

LEMMA RemoveOriginalForeseen ==
    ASSUME LinkInv, PreviewInv, Link!moveAsideHardlink PROVE PreviewInv'
<1>1. /\ linkAt = "removeOriginal" /\ link' = link /\ foreseen' = foreseen /\ real' = real
  BY DEF Link!moveAsideHardlink
<1>2. CASE /\ fs' = [fs EXCEPT !["path"] = Link!NoEntry] /\ Link!Goto("create") /\ calm' = calm
  <2>1. link.op = "hardlink" => fs'[real] = fs[real]
    BY <1>1, <1>2, TargetStays DEF Own
  <2>2. calm' => Foresight'
    BY <1>1, <1>2, <2>1 DEF PreviewInv, Foresight, Link!Goto, Own, Replacing
  <2> QED
    BY <1>1, <1>2, <2>2, GoesOn
<1>3. CASE Link!Fail /\ calm' = FALSE
  BY <1>1, <1>3, FailureForeseen
<1> QED
  BY <1>2, <1>3 DEF Link!moveAsideHardlink

LEMMA CreateForeseen ==
    ASSUME LinkInv, PreviewInv, Link!createLink \/ Link!replaceWithLink PROVE PreviewInv'
<1>1. /\ linkAt \in {"createNew", "create"} /\ link' = link /\ foreseen' = foreseen
      /\ calm' = calm /\ real' = real /\ (calm => foreseen = "would")
  BY DEF Link!createLink, Link!replaceWithLink, PreviewInv, Foresight, Own
<1>2. ASSUME Link!CreateFails, calm
      PROVE  link.op = "hardlink" /\ fs[real].kind = "dir"
  <2>1. Path.kind = "none"
    BY <1>1 DEF LinkInv, Steps
  <2> QED
    BY <1>1, <1>2, <2>1 DEF Link!CreateFails, Link!Exists, Path, PreviewInv, Foresight, Own
<1>3. CASE Link!CreateFails /\ fs' = fs /\ linkAt = "createNew"
  <2>1. Link!Fail
    BY <1>3 DEF Link!createLink, Link!replaceWithLink
  <2>2. calm' => link'.op = "hardlink" /\ fs'[real'].kind = "dir"
    BY <1>1, <1>2, <1>3
  <2> QED
    BY <1>1, <2>1, <2>2, FailureForeseen
<1>4. CASE Link!CreateFails /\ fs' = fs /\ linkAt = "create"
  <2>1. Link!Goto("restore")
    BY <1>4 DEF Link!createLink, Link!replaceWithLink
  <2>2. calm' => Foresight'
    BY <1>1, <1>2, <1>4, <2>1 DEF PreviewInv, Foresight, Link!Goto, Own, Replacing
  <2> QED
    BY <1>1, <2>1, <2>2, GoesOn
<1>5. CASE ~Link!CreateFails /\ linkAt = "createNew"
  <2>1. Link!Done("changed")
    BY <1>5 DEF Link!createLink, Link!replaceWithLink
  <2> QED
    BY <1>1, <2>1, EndForeseen
<1>6. CASE ~Link!CreateFails /\ linkAt = "create"
  <2>1. Link!Goto("removeAside") /\ fs' = [fs EXCEPT !["path"] = Link!NewEntry]
    BY <1>6 DEF Link!createLink, Link!replaceWithLink
  <2>2. link.op = "hardlink" => fs'[real] = fs[real]
    BY <1>6, <2>1, TargetStays DEF Own
  <2>3. calm' => Foresight'
    BY <1>1, <1>6, <2>1, <2>2 DEF PreviewInv, Foresight, Link!Goto, Own, Replacing
  <2> QED
    BY <1>1, <2>1, <2>3, GoesOn
<1>7. Link!CreateFails => fs' = fs
  BY DEF Link!createLink, Link!replaceWithLink
<1> QED
  BY <1>1, <1>3, <1>4, <1>5, <1>6, <1>7

LEMMA RestoreForeseen ==
    ASSUME LinkInv, PreviewInv, Link!restoreAside PROVE PreviewInv'
<1>1. /\ linkAt = "restore" /\ link' = link /\ foreseen' = foreseen
      /\ calm' = calm /\ real' = real /\ Link!Fail
  BY DEF Link!restoreAside
<1>2. calm => link.op = "hardlink" /\ fs[real].kind = "dir"
  BY <1>1 DEF PreviewInv, Foresight
<1>3. link.op = "hardlink" => fs'[real] = fs[real]
  <2>1. \/ fs' = fs
        \/ fs' = [fs EXCEPT !["path"] = fs["old"], !["old"] = Link!NoEntry]
    BY DEF Link!restoreAside
  <2> QED
    BY <1>1, <2>1, TargetStays DEF Own
<1> QED
  BY <1>1, <1>2, <1>3, FailureForeseen

LEMMA RemoveAsideForeseen ==
    ASSUME LinkInv, PreviewInv, Link!removeAside PROVE PreviewInv'
<1>1. /\ linkAt = "removeAside" /\ link' = link /\ foreseen' = foreseen
      /\ calm' = calm /\ (calm => foreseen = "would")
  BY DEF Link!removeAside, PreviewInv, Foresight, Own
<1>2. CASE Link!Fail /\ fs' = fs /\ Old.kind = "dir"
  <2>1. Link!Exists(fs', "old")
    BY <1>2 DEF Link!Exists, Old
  <2> QED
    BY <1>1, <1>2, <2>1, FailureForeseen
<1>3. CASE Link!Done("changed")
  BY <1>1, <1>3, EndForeseen
<1> QED
  BY <1>2, <1>3 DEF Link!removeAside, Old

LEMMA AbsentForeseen ==
    ASSUME LinkInv, PreviewInv, Link!ensureAbsent PROVE PreviewInv'
<1>1. /\ linkAt = "lstatAbsent" /\ link' = link /\ foreseen' = foreseen /\ calm' = calm
      /\ calm => foreseen = Link!PreviewAbsent(fs)
      /\ calm => link.op = "absent" \/ Link!Stat(fs, link.to) = "missing"
  BY DEF Link!ensureAbsent, PreviewInv, Foresight
<1>2. CASE ~Link!Exists(fs, "path")
  <2>1. Link!Done("ok") /\ (calm => foreseen = "ok")
    BY <1>1, <1>2 DEF Link!ensureAbsent, Link!PreviewAbsent
  <2> QED
    BY <1>1, <2>1, EndForeseen
<1>3. CASE Link!Exists(fs, "path") /\ Path.kind = "dir" /\ Path.full
  <2>1. Link!Fail /\ fs' = fs
    BY <1>3 DEF Link!ensureAbsent, Path
  <2>2. calm' => \/ link'.op = "absent" /\ fs'["path"].full
                 \/ Link!Stat(fs', link'.to) # "ok"
    BY <1>1, <1>3, <2>1 DEF Path
  <2> QED
    BY <1>1, <2>1, <2>2, FailureForeseen
<1>4. CASE Link!Exists(fs, "path") /\ ~(Path.kind = "dir" /\ Path.full)
  <2>1. Link!Done("changed") /\ (calm => foreseen = "would")
    BY <1>1, <1>4 DEF Link!ensureAbsent, Link!PreviewAbsent, Path
  <2> QED
    BY <1>1, <2>1, EndForeseen
<1> QED
  BY <1>2, <1>3, <1>4

LEMMA OthersForeseen ==
    ASSUME PreviewInv, (\E e \in Plants : Link!Plant(e)) \/ Link!Kill \/ Link!Again
    PROVE  PreviewInv'
<1>1. CASE \E e \in Plants : Link!Plant(e)
  BY <1>1 DEF PreviewInv, Link!Plant, Link!Running, Link!DryRunHolds
<1>2. CASE Link!Kill
  BY <1>2 DEF PreviewInv, Link!Kill, Link!Running, Link!DryRunHolds
<1>3. CASE Link!Again
  <2>1. linkAt' = "idle"
    BY <1>3 DEF Link!Again
  <2> QED
    BY <2>1 DEF PreviewInv, Foresight, Link!DryRunHolds, Own, Replacing
<1> QED
  BY <1>1, <1>2, <1>3

LEMMA PreviewKeeps ==
    ASSUME Link!ConstantsOK, LinkInv, PreviewInv, Link!Next PROVE PreviewInv'
BY StartForesees, LooksForeseen, HardlinkForeseen, RepointForeseen, AsideForeseen,
   RemoveOriginalForeseen, CreateForeseen, RestoreForeseen, RemoveAsideForeseen, AbsentForeseen,
   OthersForeseen DEF Link!Next

LEMMA PreviewRests == ASSUME PreviewInv, UNCHANGED Link!vars PROVE PreviewInv'
BY DEF Link!vars, PreviewInv, Foresight, Link!DryRunHolds, Old

LEMMA DryRunForesees == PreviewInv => Link!DryRunHolds
BY DEF PreviewInv

(***************************************************************************)
(* FileDecl                                                                *)
(***************************************************************************)
File ==
    [path : DeclPaths, content : {"", "text", "secret"}, source : {"", "src", "src.tmpl"},
     contentSet : BOOLEAN, param : {"", "given"}, template : BOOLEAN,
     data : {"", "json", "invalid"}, lines : BOOLEAN, absent : BOOLEAN,
     mode : {"default", "set", "private"}, modeSet : BOOLEAN, owner : {"", "svc"},
     check : {"", "checker"}, args : {0, 1}, checkSet : BOOLEAN, sensitive : BOOLEAN,
     name : {"", "id"}, preserve : BOOLEAN, misuse : BOOLEAN]

\* What the options keep to, whatever their order.
Shaped(f) ==
    /\ f \in File
    /\ f.source # "" => f.content = "" /\ f.contentSet
    /\ f.content # "" => f.contentSet
    /\ f.data # "" => f.template
    /\ ~f.checkSet => f.check = "" /\ f.args = 0
    /\ f.modeSet => f.mode = "set"

Contents == {"content", "empty", "source", "tmplSource"}

\* What one option does to the fields the probe shares with the file.
Touches(f, g, call) ==
    /\ g.lines = (f.lines \/ call = "line") /\ g.absent = (f.absent \/ call = "absent")
    /\ g.contentSet = (f.contentSet \/ call \in Contents)
    /\ call \notin Contents => g.content = f.content /\ g.source = f.source
    /\ g.path = f.path /\ g.preserve = f.preserve

\* The probe is what the file would be without the secret.
Probes ==
    /\ probe.lines = file.lines /\ probe.absent = file.absent
    /\ ~probe.contentSet => file.content = "secret" /\ file.source = ""

LEMMA OptionsShape ==
    ASSUME NEW f, Shaped(f), NEW call
    PROVE  Shaped(Decl!Option(f, call)) /\ Touches(f, Decl!Option(f, call), call)
<1> DEFINE g == Decl!Option(f, call)
<1> SUFFICES Shaped(g) /\ Touches(f, g, call)
  OBVIOUS
<1>1. f \in File
  BY DEF Shaped
<1>2. CASE call = "content"
  <2>1. g = [f EXCEPT !.content = "text", !.source = "", !.contentSet = TRUE]
    BY <1>2 DEF Decl!Option, Decl!SetContent
  <2> HIDE DEF g
  <2>2. g \in File
    BY <1>1, <2>1 DEF File
  <2>3. Touches(f, g, call)
    BY <1>1, <1>2, <2>1 DEF File, Touches, Contents
  <2>4. /\ g.content = "text" /\ g.source = "" /\ g.contentSet = TRUE
        /\ g.data = f.data /\ g.template = f.template /\ g.modeSet = f.modeSet /\ g.mode = f.mode
        /\ g.check = f.check /\ g.args = f.args /\ g.checkSet = f.checkSet
    BY <1>1, <2>1 DEF File
  <2>5. Shaped(g)
    BY <2>2, <2>4 DEF Shaped
  <2> QED
    BY <2>3, <2>5
<1>3. CASE call = "empty"
  <2>1. g = [f EXCEPT !.content = "", !.source = "", !.contentSet = TRUE]
    BY <1>3 DEF Decl!Option, Decl!SetContent
  <2> HIDE DEF g
  <2>2. g \in File
    BY <1>1, <2>1 DEF File
  <2>3. Touches(f, g, call)
    BY <1>1, <1>3, <2>1 DEF File, Touches, Contents
  <2>4. /\ g.content = "" /\ g.source = "" /\ g.contentSet = TRUE
        /\ g.data = f.data /\ g.template = f.template /\ g.modeSet = f.modeSet /\ g.mode = f.mode
        /\ g.check = f.check /\ g.args = f.args /\ g.checkSet = f.checkSet
    BY <1>1, <2>1 DEF File
  <2>5. Shaped(g)
    BY <2>2, <2>4 DEF Shaped
  <2> QED
    BY <2>3, <2>5
<1>4. CASE call = "source"
  <2>1. g = [f EXCEPT !.source = "src", !.content = "", !.contentSet = TRUE]
    BY <1>4 DEF Decl!Option, Decl!SetSource
  <2> HIDE DEF g
  <2>2. g \in File
    BY <1>1, <2>1 DEF File
  <2>3. Touches(f, g, call)
    BY <1>1, <1>4, <2>1 DEF File, Touches, Contents
  <2>4. /\ g.content = "" /\ g.source = "src" /\ g.contentSet = TRUE
        /\ g.data = f.data /\ g.template = f.template /\ g.modeSet = f.modeSet /\ g.mode = f.mode
        /\ g.check = f.check /\ g.args = f.args /\ g.checkSet = f.checkSet
    BY <1>1, <2>1 DEF File
  <2>5. Shaped(g)
    BY <2>2, <2>4 DEF Shaped
  <2> QED
    BY <2>3, <2>5
<1>5. CASE call = "tmplSource"
  <2>1. g = [f EXCEPT !.source = "src.tmpl", !.content = "", !.contentSet = TRUE]
    BY <1>5 DEF Decl!Option, Decl!SetSource
  <2> HIDE DEF g
  <2>2. g \in File
    BY <1>1, <2>1 DEF File
  <2>3. Touches(f, g, call)
    BY <1>1, <1>5, <2>1 DEF File, Touches, Contents
  <2>4. /\ g.content = "" /\ g.source = "src.tmpl" /\ g.contentSet = TRUE
        /\ g.data = f.data /\ g.template = f.template /\ g.modeSet = f.modeSet /\ g.mode = f.mode
        /\ g.check = f.check /\ g.args = f.args /\ g.checkSet = f.checkSet
    BY <1>1, <2>1 DEF File
  <2>5. Shaped(g)
    BY <2>2, <2>4 DEF Shaped
  <2> QED
    BY <2>3, <2>5
<1>6. CASE call = "param"
  <2>1. g = [f EXCEPT !.param = "given"]
    BY <1>6 DEF Decl!Option
  <2> HIDE DEF g
  <2> QED
    BY ZenonT(60), <1>1, <1>6, <2>1 DEF File, Shaped, Touches, Contents
<1>7. CASE call = "template"
  <2>1. g = [f EXCEPT !.template = TRUE]
    BY <1>7 DEF Decl!Option
  <2> HIDE DEF g
  <2> QED
    BY <1>1, <1>7, <2>1 DEF File, Shaped, Touches, Contents
<1>8. CASE call = "data"
  <2>1. g = [f EXCEPT !.data = "json", !.template = TRUE]
    BY <1>8 DEF Decl!Option, Decl!SetTemplateData
  <2> HIDE DEF g
  <2> QED
    BY ZenonT(60), <1>1, <1>8, <2>1 DEF File, Shaped, Touches, Contents
<1>9. CASE call = "badData"
  <2>1. g = [f EXCEPT !.data = "invalid", !.template = TRUE]
    BY <1>9 DEF Decl!Option, Decl!SetTemplateData
  <2> HIDE DEF g
  <2> QED
    BY ZenonT(60), <1>1, <1>9, <2>1 DEF File, Shaped, Touches, Contents
<1>10. CASE call = "validation"
  <2>1. g = [f EXCEPT !.check = "checker", !.args = 1, !.checkSet = TRUE]
    BY <1>10 DEF Decl!Option, Decl!SetValidation
  <2> HIDE DEF g
  <2> QED
    BY ZenonT(60), <1>1, <1>10, <2>1 DEF File, Shaped, Touches, Contents
<1>11. CASE call = "badValidation"
  <2>1. g = [f EXCEPT !.check = "checker", !.args = 0, !.checkSet = TRUE]
    BY <1>11 DEF Decl!Option, Decl!SetValidation
  <2> HIDE DEF g
  <2> QED
    BY ZenonT(60), <1>1, <1>11, <2>1 DEF File, Shaped, Touches, Contents
<1>12. CASE call = "line"
  <2>1. g = [f EXCEPT !.lines = TRUE]
    BY <1>12 DEF Decl!Option
  <2> HIDE DEF g
  <2> QED
    BY <1>1, <1>12, <2>1 DEF File, Shaped, Touches, Contents
<1>13. CASE call = "absent"
  <2>1. g = [f EXCEPT !.absent = TRUE]
    BY <1>13 DEF Decl!Option
  <2> HIDE DEF g
  <2> QED
    BY <1>1, <1>13, <2>1 DEF File, Shaped, Touches, Contents
<1>14. CASE call = "mode"
  <2>1. g = [f EXCEPT !.mode = "set", !.modeSet = TRUE]
    BY <1>14 DEF Decl!Option
  <2> HIDE DEF g
  <2> QED
    BY ZenonT(60), <1>1, <1>14, <2>1 DEF File, Shaped, Touches, Contents
<1>15. CASE call = "owner"
  <2>1. g = [f EXCEPT !.owner = "svc"]
    BY <1>15 DEF Decl!Option
  <2> HIDE DEF g
  <2> QED
    BY ZenonT(60), <1>1, <1>15, <2>1 DEF File, Shaped, Touches, Contents
<1>16. CASE call = "sensitive"
  <2>1. g = [f EXCEPT !.sensitive = TRUE]
    BY <1>16 DEF Decl!Option
  <2> HIDE DEF g
  <2> QED
    BY <1>1, <1>16, <2>1 DEF File, Shaped, Touches, Contents
<1>17. CASE call = "name"
  <2>1. g = [f EXCEPT !.name = "id"]
    BY <1>17 DEF Decl!Option
  <2> HIDE DEF g
  <2>2. g \in File
    BY <1>1, <2>1 DEF File
  <2>3. Touches(f, g, call)
    BY <1>1, <1>17, <2>1 DEF File, Touches, Contents
  <2>4. /\ g.content = f.content /\ g.source = f.source /\ g.contentSet = f.contentSet
        /\ g.data = f.data /\ g.template = f.template /\ g.modeSet = f.modeSet /\ g.mode = f.mode
        /\ g.check = f.check /\ g.args = f.args /\ g.checkSet = f.checkSet
    BY <1>1, <2>1 DEF File
  <2>5. Shaped(g)
    BY <2>2, <2>4 DEF Shaped
  <2> QED
    BY <2>3, <2>5
<1>18. CASE call \notin Contents \cup {"param", "template", "data", "badData", "validation",
                "badValidation", "line", "absent", "mode", "owner", "sensitive", "name"}
  <2>1. g = [f EXCEPT !.misuse = TRUE]
    BY <1>18 DEF Decl!Option, Contents
  <2> HIDE DEF g
  <2> QED
    BY <1>1, <1>18, <2>1 DEF File, Shaped, Touches, Contents
<1> QED
  BY <1>2, <1>3, <1>4, <1>5, <1>6, <1>7, <1>8, <1>9, <1>10, <1>11, <1>12, <1>13, <1>14, <1>15,
     <1>16, <1>17, <1>18 DEF Contents

\* The file a destination builds for a "file" op with content.
LEMMA ContentFile ==
    ASSUME NEW o, o.tmpl.data # "" => o.tmpl.template = TRUE, o.tmpl.template \in BOOLEAN,
           o.check = "" => o.args = 0
    PROVE  LET g == Decl!contentOptions(o)
           IN  /\ g.path = o.path /\ g.content = o.bytes /\ g.source = "" /\ g.contentSet = TRUE
               /\ g.param = (IF o.tmpl.template THEN o.tmpl.param ELSE "")
               /\ g.template = o.tmpl.template /\ (g.data = o.tmpl.data)
               /\ g.lines = FALSE /\ g.absent = FALSE /\ g.preserve = FALSE /\ g.misuse = FALSE
               /\ g.mode = o.mode /\ g.owner = o.owner /\ g.sensitive = o.sensitive /\ g.name = o.name
               /\ g.check = o.check /\ (o.check # "" => g.checkSet = TRUE /\ g.args = o.args)
               /\ (o.check = "" => g.checkSet = FALSE)
<1>1. CASE o.tmpl.data = "" /\ o.check = ""
  BY ZenonT(60), <1>1 DEF Decl!contentOptions, Decl!SetContent, Decl!Bare
<1>2. CASE o.tmpl.data # "" /\ o.check = ""
  BY ZenonT(60), <1>2 DEF Decl!contentOptions, Decl!SetContent, Decl!SetTemplateData, Decl!Bare
<1>3. CASE o.tmpl.data = "" /\ o.check # ""
  BY ZenonT(60), <1>3 DEF Decl!contentOptions, Decl!SetContent, Decl!SetValidation, Decl!Bare
<1>4. CASE o.tmpl.data # "" /\ o.check # ""
  BY ZenonT(60), <1>4 DEF Decl!contentOptions, Decl!SetContent, Decl!SetValidation, Decl!SetTemplateData,
     Decl!Bare
<1> QED
  BY <1>1, <1>2, <1>3, <1>4

\* What the constructors let through.
Declared(f) ==
    /\ Decl!Valid(f)
    /\ f.preserve => Decl!PreserveAllowed(f)

DoesSame(f, g) ==
    /\ Decl!Effect(g) = Decl!Effect(f) /\ g.name = f.name
    /\ f.checkSet => g.checkSet /\ g.args = 1

Rejects(o) == Decl!Refuses(o) \/ ~Decl!Valid(Decl!Apply(o))

\* What is recorded of a declared file.
LEMMA RecordedFile ==
    ASSUME NEW f, Shaped(f), Declared(f)
    PROVE  LET o == Decl!planDraft(f)
           IN  /\ o.kind = (IF f.preserve THEN "ensure_file" ELSE "file") /\ o.path = Decl!targetPath(f)
               /\ f.contentSet => o.bytes = Decl!Bytes(f)
               /\ ~f.contentSet => o.bytes = ""
               /\ o.hasContent = f.contentSet /\ o.tmpl.template = Decl!shouldRenderTemplate(f)
               /\ o.tmpl.param = (IF Decl!shouldRenderTemplate(f) THEN Decl!templateParam(f) ELSE "")
               /\ o.tmpl.data = f.data /\ o.lines = f.lines /\ o.absent = f.absent
               /\ f.preserve /\ ~f.modeSet => o.mode = ""
               /\ ~f.preserve \/ f.modeSet => o.mode = f.mode
               /\ ~f.absent => o.owner = f.owner
               /\ o.check = f.check /\ o.args = f.args /\ o.sensitive = f.sensitive
               /\ o.name = f.name
<1>1. f.preserve => ~f.absent
  BY DEF Declared, Decl!PreserveAllowed
<1>2. f.absent \in BOOLEAN /\ f.preserve \in BOOLEAN /\ f.contentSet \in BOOLEAN
  BY DEF Shaped, File
<1> QED
  BY <1>1, <1>2 DEF Decl!planDraft, Decl!templateDraft

\* A validation that was declared is one to the destination.
LEMMA ValidationTravels ==
    ASSUME NEW f, Shaped(f), Declared(f) PROVE Decl!validatePlanValidation(Decl!planDraft(f))
<1>1. CASE f.checkSet
  <2>1. /\ f.check # "" /\ ~f.absent /\ ~f.lines /\ f.contentSet /\ Decl!targetPath(f).abs /\ f.args = 1
    BY <1>1 DEF Declared, Decl!Valid, Decl!validateConfiguration
  <2> QED
    BY <2>1, RecordedFile DEF Decl!validatePlanValidation, Decl!validateConfiguration,
       Decl!targetPath, Decl!Bare
<1>2. CASE ~f.checkSet
  <2>1. f.check = "" /\ f.args = 0
    BY <1>2 DEF Shaped
  <2> QED
    <3> DEFINE o == Decl!planDraft(f)
    <3>1. o.check = "" /\ o.args = 0
      BY <2>1, RecordedFile
    <3>2. (o.check # "" \/ o.args # 0) = FALSE
      BY <3>1
    <3> HIDE DEF o
    <3>3. Decl!validatePlanValidation(o)
      BY <3>2 DEF Decl!validatePlanValidation, Decl!validateConfiguration, Decl!Bare
    <3> QED
      BY <3>3 DEF o
<1> QED
  BY <1>1, <1>2

\* The mode an ensured file asks for.
AskedMode(f) == IF f.modeSet THEN f.mode ELSE ""

Ensures(p, owner, mode) == [does |-> "ensure", path |-> p, owner |-> owner, mode |-> mode]

LEMMA EnsureMirrors ==
    ASSUME NEW f, Shaped(f), Declared(f), f.preserve
    PROVE  ~Rejects(Decl!planDraft(f)) /\ DoesSame(f, Decl!Apply(Decl!planDraft(f)))
<1> DEFINE o == Decl!planDraft(f)
           g == Decl!Apply(o)
<1>1. ~f.contentSet /\ ~f.lines /\ ~f.absent /\ ~f.checkSet
  BY DEF Declared, Decl!PreserveAllowed
<1>2. o.kind = "ensure_file"
  BY RecordedFile
<1>3. g = Decl!ensureOptions(o)
  BY <1>2 DEF Decl!Apply
<1>4. /\ g.path = o.path /\ g.preserve = TRUE /\ g.name = o.name /\ g.owner = o.owner
      /\ g.modeSet = (o.mode # "") /\ (o.mode # "" => g.mode = o.mode)
      /\ g.absent = FALSE /\ g.misuse = FALSE /\ g.lines = FALSE /\ g.contentSet = FALSE
      /\ g.checkSet = FALSE /\ g.source = ""
  BY ZenonT(60), <1>3 DEF Decl!ensureOptions, Decl!Bare
<1>5. ~Rejects(o)
  BY <1>2, <1>4 DEF Rejects, Decl!Refuses, Decl!Valid, Decl!validateConfiguration
<1> HIDE DEF o, g
<1>6. Decl!Effect(g) = Decl!Effect(f)
  <2>1. Decl!Effect(f) = Ensures(Decl!targetPath(f), f.owner, AskedMode(f))
    BY <1>1 DEF Decl!Effect, Ensures, AskedMode
  <2>2. Decl!Effect(g) = Ensures(Decl!targetPath(g), g.owner, AskedMode(g))
    BY <1>4 DEF Decl!Effect, Ensures, AskedMode
  <2>3. Decl!targetPath(g) = Decl!targetPath(f)
    <3>1. o.path = Decl!targetPath(f)
      BY RecordedFile DEF o
    <3>2. Decl!targetPath(g) = g.path
      BY <1>4 DEF Decl!targetPath
    <3> QED
      BY <1>4, <3>1, <3>2
  <2>4. f.modeSet => f.mode = "set"
    BY DEF Shaped
  <2>5. AskedMode(g) = AskedMode(f)
    <3>1. f.modeSet => o.mode = "set" /\ f.mode = "set"
      BY <2>4, RecordedFile DEF o
    <3>2. ~f.modeSet => o.mode = ""
      BY RecordedFile DEF o
    <3> QED
      BY <1>4, <3>1, <3>2 DEF AskedMode
  <2>6. g.owner = f.owner
    BY <1>1, <1>4, RecordedFile DEF o
  <2> QED
    BY <2>1, <2>2, <2>3, <2>5, <2>6
<1> QED
  BY <1>1, <1>4, <1>5, <1>6, RecordedFile DEF DoesSame, o, g

LEMMA AbsentMirrors ==
    ASSUME NEW f, Shaped(f), Declared(f), f.absent
    PROVE  ~Rejects(Decl!planDraft(f)) /\ DoesSame(f, Decl!Apply(Decl!planDraft(f)))
<1> DEFINE o == Decl!planDraft(f)
           g == Decl!Apply(o)
<1>1. ~f.checkSet /\ ~f.preserve
  BY DEF Declared, Decl!PreserveAllowed, Decl!Valid, Decl!validateConfiguration
<1>2. o.kind = "file" /\ o.absent
  BY <1>1, RecordedFile
<1>3. g = [Decl!Bare(o.path) EXCEPT !.absent = TRUE, !.name = o.name]
  BY <1>2 DEF Decl!Apply
<1>4. /\ g.path = o.path /\ g.absent = TRUE /\ g.name = o.name /\ g.misuse = FALSE
      /\ g.lines = FALSE /\ g.checkSet = FALSE /\ g.source = ""
  BY <1>3 DEF Decl!Bare
<1>5. ~Rejects(o)
  BY <1>2, <1>4, ValidationTravels DEF Rejects, Decl!Refuses, Decl!Valid,
     Decl!validateConfiguration
<1>6. Decl!Effect(g) = Decl!Effect(f)
  <2>1. o.path = Decl!targetPath(f)
    BY RecordedFile
  <2>2. Decl!targetPath(g) = o.path
    BY <1>4 DEF Decl!targetPath
  <2>3. Decl!Effect(f) = [does |-> "remove", path |-> Decl!targetPath(f)]
    BY DEF Decl!Effect
  <2>4. Decl!Effect(g) = [does |-> "remove", path |-> Decl!targetPath(g)]
    BY <1>4 DEF Decl!Effect
  <2> QED
    BY <2>1, <2>2, <2>3, <2>4
<1> QED
  BY <1>1, <1>4, <1>5, <1>6, RecordedFile DEF DoesSame

LEMMA LinesMirror ==
    ASSUME NEW f, Shaped(f), Declared(f), f.lines, ~f.absent
    PROVE  ~Rejects(Decl!planDraft(f)) /\ DoesSame(f, Decl!Apply(Decl!planDraft(f)))
<1> DEFINE o == Decl!planDraft(f)
           g == Decl!Apply(o)
<1>1. ~f.checkSet /\ ~f.preserve /\ ~f.contentSet /\ f.source = ""
  BY DEF Declared, Decl!PreserveAllowed, Decl!Valid, Decl!validateConfiguration, Shaped
<1>2. o.kind = "file" /\ o.lines /\ ~o.absent
  BY <1>1, RecordedFile
<1>3. g = Decl!lineOptions(o)
  BY <1>2 DEF Decl!Apply
<1>4. /\ g.path = o.path /\ g.lines = TRUE /\ g.name = o.name /\ g.owner = o.owner /\ g.mode = o.mode
      /\ g.absent = FALSE /\ g.preserve = FALSE /\ g.misuse = FALSE /\ g.contentSet = FALSE
      /\ g.checkSet = FALSE
  BY <1>3 DEF Decl!lineOptions, Decl!Bare
<1>5. ~Rejects(o)
  BY <1>2, <1>4, ValidationTravels DEF Rejects, Decl!Refuses, Decl!Valid,
     Decl!validateConfiguration
<1>6. Decl!targetPath(f) = f.path
  BY <1>1 DEF Decl!targetPath
<1>7. o.mode = f.mode /\ o.owner = f.owner /\ o.path = f.path /\ o.name = f.name
  BY <1>1, <1>6, RecordedFile
<1>8. Decl!Effect(g) = Decl!Effect(f)
  BY <1>1, <1>4, <1>7 DEF Decl!Effect
<1> QED
  BY <1>1, <1>4, <1>5, <1>7, <1>8 DEF DoesSame

\* A file with content.
LEMMA ContentMirrors ==
    ASSUME NEW f, Shaped(f), Declared(f), ~f.preserve, ~f.absent, ~f.lines, f.contentSet
    PROVE  LET g == Decl!Apply(Decl!planDraft(f))
           IN  /\ ~Rejects(Decl!planDraft(f)) /\ DoesSame(f, g)
               /\ g.sensitive = f.sensitive /\ Decl!Bytes(g) = Decl!Bytes(f)
<1> DEFINE o == Decl!planDraft(f)
           g == Decl!Apply(o)
<1>1. /\ o.kind = "file" /\ ~o.absent /\ ~o.lines /\ o.hasContent /\ o.bytes = Decl!Bytes(f)
      /\ o.path = Decl!targetPath(f) /\ o.tmpl.template = Decl!shouldRenderTemplate(f) /\
             o.tmpl.data = f.data
      /\ o.tmpl.param = (IF Decl!shouldRenderTemplate(f) THEN Decl!templateParam(f) ELSE "")
  BY RecordedFile
<1>2. /\ o.mode = f.mode /\ o.owner = f.owner /\ o.check = f.check /\ o.args = f.args
      /\ o.sensitive = f.sensitive /\ o.name = f.name
  BY RecordedFile
<1>3. /\ f.template \in BOOLEAN /\ f.contentSet \in BOOLEAN /\ f.checkSet \in BOOLEAN
      /\ f.data # "" => f.template = TRUE
      /\ ~f.checkSet => f.check = "" /\ f.args = 0
      /\ f.checkSet => f.check # "" /\ f.args = 1 /\ Decl!targetPath(f).abs
  BY DEF Shaped, File, Declared, Decl!Valid, Decl!validateConfiguration
<1>4. Decl!shouldRenderTemplate(f) \in BOOLEAN /\ (f.data # "" => Decl!shouldRenderTemplate(f) = TRUE)
  BY <1>3 DEF Decl!shouldRenderTemplate
<1>5. g = Decl!contentOptions(o)
  BY <1>1 DEF Decl!Apply
<1> HIDE DEF o, g
<1>6. /\ g.path = Decl!targetPath(f) /\ g.content = Decl!Bytes(f) /\ g.source = "" /\
             g.contentSet = TRUE
      /\ g.param = (IF Decl!shouldRenderTemplate(f) THEN Decl!templateParam(f) ELSE "")
      /\ g.template = Decl!shouldRenderTemplate(f) /\ g.data = f.data
      /\ g.lines = FALSE /\ g.absent = FALSE /\ g.preserve = FALSE /\ g.misuse = FALSE
      /\ g.mode = f.mode /\ g.owner = f.owner /\ g.sensitive = f.sensitive /\ g.name = f.name
      /\ g.check = f.check /\ (f.checkSet => g.checkSet = TRUE /\ g.args = 1)
      /\ (~f.checkSet => g.checkSet = FALSE)
  <2>1. o.tmpl.data # "" => o.tmpl.template = TRUE
    BY <1>1, <1>4
  <2>2. o.tmpl.template \in BOOLEAN
    BY <1>1, <1>4
  <2>3. o.check = "" => o.args = 0
    BY <1>2, <1>3
  <2>4. LET h == Decl!contentOptions(o)
        IN  /\ h.path = o.path /\ h.content = o.bytes /\ h.source = "" /\ h.contentSet = TRUE
            /\ h.param = (IF o.tmpl.template THEN o.tmpl.param ELSE "")
            /\ h.template = o.tmpl.template /\ (h.data = o.tmpl.data)
            /\ h.lines = FALSE /\ h.absent = FALSE /\ h.preserve = FALSE /\ h.misuse = FALSE
            /\ h.mode = o.mode /\ h.owner = o.owner /\ h.sensitive = o.sensitive /\ h.name = o.name
            /\ h.check = o.check /\ (o.check # "" => h.checkSet = TRUE /\ h.args = o.args)
            /\ (o.check = "" => h.checkSet = FALSE)
    BY <2>1, <2>2, <2>3, ContentFile
  <2>5. /\ g.path = o.path /\ g.content = o.bytes /\ g.source = "" /\ g.contentSet = TRUE
        /\ g.param = (IF o.tmpl.template THEN o.tmpl.param ELSE "")
        /\ g.template = o.tmpl.template /\ g.data = o.tmpl.data
        /\ g.lines = FALSE /\ g.absent = FALSE /\ g.preserve = FALSE /\ g.misuse = FALSE
        /\ g.mode = o.mode /\ g.owner = o.owner /\ g.sensitive = o.sensitive /\ g.name = o.name
        /\ g.check = o.check /\ (o.check # "" => g.checkSet = TRUE /\ g.args = o.args)
        /\ (o.check = "" => g.checkSet = FALSE)
    BY <1>5, <2>4
  <2> QED
    BY ZenonT(60), <1>1, <1>2, <1>3, <2>5
<1>7. Decl!targetPath(g) = Decl!targetPath(f) /\ Decl!Bytes(g) = Decl!Bytes(f)
  BY <1>6 DEF Decl!targetPath, Decl!Bytes
<1>8. ~Rejects(o)
  <2>1. Decl!validatePlanValidation(o)
    BY ValidationTravels DEF o
  <2>2. ~Decl!Refuses(o)
    BY <1>1, <2>1 DEF Decl!Refuses, Decl!fileContent
  <2>3. Decl!validateConfiguration(g)
    BY <1>3, <1>6, <1>7 DEF Decl!validateConfiguration
  <2>4. Decl!Valid(g)
    BY <1>6, <2>3 DEF Decl!Valid
  <2> QED
    BY <2>2, <2>4 DEF Rejects, g
<1>9. Decl!shouldRenderTemplate(g) = Decl!shouldRenderTemplate(f)
  <2>1. Decl!targetPath(f).tmpl => Decl!shouldRenderTemplate(f)
    BY DEF Decl!targetPath, Decl!shouldRenderTemplate
  <2> QED
    BY <1>4, <1>6, <2>1 DEF Decl!shouldRenderTemplate
<1>10. Decl!shouldRenderTemplate(f) => Decl!templateParam(g) = Decl!templateParam(f)
  BY <1>6 DEF Decl!templateParam, Decl!Bytes
<1>11. Decl!Effect(g) = Decl!Effect(f)
  BY <1>6, <1>7, <1>9, <1>10 DEF Decl!Effect
<1> QED
  BY <1>6, <1>7, <1>8, <1>11 DEF DoesSame, o, g

\* A "file" op that carries no content is refused.
LEMMA NoContentRefused ==
    ASSUME NEW f, Shaped(f), Declared(f), ~f.preserve, ~f.absent, ~f.lines, ~f.contentSet
    PROVE  Rejects(Decl!planDraft(f)) /\ Decl!Effect(f).does = "write"
<1>1. /\ Decl!planDraft(f).kind = "file" /\ ~Decl!planDraft(f).absent /\ ~Decl!planDraft(f).lines
      /\ Decl!planDraft(f).bytes = "" /\ ~Decl!planDraft(f).hasContent
  BY RecordedFile
<1>2. Decl!Refuses(Decl!planDraft(f))
  BY <1>1 DEF Decl!Refuses, Decl!fileContent
<1>3. Decl!Effect(f).does = "write"
  BY DEF Decl!Effect
<1> QED
  BY <1>2, <1>3 DEF Rejects

\* What the destination makes of a declared file.
LEMMA DestinationMirrors ==
    ASSUME NEW f, Shaped(f), Declared(f)
    PROVE  /\ Rejects(Decl!planDraft(f)) => ~f.contentSet /\ Decl!Effect(f).does = "write"
           /\ ~Rejects(Decl!planDraft(f)) => DoesSame(f, Decl!Apply(Decl!planDraft(f)))
<1>1. CASE f.preserve
  BY <1>1, EnsureMirrors
<1>2. CASE f.absent
  BY <1>2, AbsentMirrors
<1>3. CASE f.lines /\ ~f.absent
  BY <1>3, LinesMirror
<1>4. CASE ~f.preserve /\ ~f.absent /\ ~f.lines /\ f.contentSet
  BY <1>4, ContentMirrors
<1>5. CASE ~f.preserve /\ ~f.absent /\ ~f.lines /\ ~f.contentSet
  BY <1>5, NoContentRefused
<1> QED
  BY <1>1, <1>2, <1>3, <1>4, <1>5

\* A declared secret: content nobody replaced, marked as secret.
IsSecret(f) ==
    /\ ~f.preserve /\ ~f.absent /\ ~f.lines /\ f.contentSet
    /\ f.content = "secret" /\ f.source = "" /\ f.sensitive = TRUE

LEMMA SecretTravels ==
    ASSUME NEW f, Shaped(f), Declared(f), IsSecret(f)
    PROVE  LET g == Decl!Apply(Decl!planDraft(f)) IN g.sensitive /\ Decl!Bytes(g) = "secret"
<1>1. Decl!Bytes(f) = "secret"
  BY DEF IsSecret, Decl!Bytes
<1> QED
  BY <1>1, ContentMirrors DEF IsSecret

\* What holds of a declaration on its way to the destination.
DeclInv ==
    /\ Shaped(file) /\ Shaped(probe)
    /\ at = "building" => file.preserve = FALSE /\ (ctor = "PresentSecret" => Probes)
    /\ at \in {"declared", "recorded"} => Declared(file) /\ (ctor = "PresentSecret" => IsSecret(file))
    /\ at = "recorded" => planOp = Decl!planDraft(file)
    /\ Decl!PlanMirrorsFile

LEMMA BareShape ==
    ASSUME NEW p \in DeclPaths PROVE Shaped(Decl!Bare(p)) /\
               Shaped(Decl!SetContent(Decl!Bare(p), "secret"))
<1>1. Decl!Bare(p) \in File
  BY DEF Decl!Bare, File
<1>2. Shaped(Decl!Bare(p))
  BY <1>1 DEF Shaped, Decl!Bare
<1> DEFINE g == Decl!SetContent(Decl!Bare(p), "secret")
<1>3. g \in File
  BY <1>1 DEF Decl!SetContent, File
<1>4. Shaped(g)
  BY <1>3 DEF Shaped, Decl!SetContent, Decl!Bare
<1> QED
  BY <1>2, <1>4

LEMMA DeclStarts == Decl!Init => DeclInv
<1> SUFFICES ASSUME Decl!Init PROVE DeclInv
  OBVIOUS
<1>1. at = "building" /\ declPath \in DeclPaths /\ file = Decl!First(ctor, declPath) /\
          probe = Decl!Bare(declPath)
  BY DEF Decl!Init
<1>2. Shaped(probe) /\ Shaped(file)
  BY <1>1, BareShape DEF Decl!First
<1>3. file.preserve = FALSE /\ (ctor = "PresentSecret" => Probes)
  BY <1>1 DEF Decl!First, Decl!Bare, Decl!SetContent, Probes
<1> QED
  BY <1>1, <1>2, <1>3 DEF DeclInv, Decl!PlanMirrorsFile

LEMMA CallKeeps == ASSUME DeclInv, NEW name, Decl!Call(name) PROVE DeclInv'
<1>1. /\ at = "building" /\ at' = at /\ ctor' = ctor
      /\ file' = Decl!Option(file, name) /\ probe' = Decl!Option(probe, name)
  BY DEF Decl!Call
<1>2. Shaped(file) /\ Shaped(probe) /\ file.preserve = FALSE /\ (ctor = "PresentSecret" => Probes)
  BY <1>1 DEF DeclInv
<1>3. Shaped(file') /\ Touches(file, file', name) /\ Shaped(probe') /\ Touches(probe, probe', name)
  BY <1>1, <1>2, OptionsShape
<1>4. file'.preserve = FALSE
  BY <1>2, <1>3 DEF Touches
<1>5. Probes => Probes'
  <2> SUFFICES ASSUME Probes PROVE Probes'
    OBVIOUS
  <2>1. probe'.lines = file'.lines /\ probe'.absent = file'.absent
    BY <1>3 DEF Touches, Probes
  <2>2. ASSUME ~probe'.contentSet PROVE file'.content = "secret" /\ file'.source = ""
    <3>1. ~probe.contentSet /\ name \notin Contents
      BY <1>3, <2>2 DEF Touches
    <3> QED
      BY <1>3, <3>1 DEF Touches, Probes
  <2> QED
    BY <2>1, <2>2 DEF Probes
<1> QED
  BY <1>1, <1>2, <1>3, <1>4, <1>5 DEF DeclInv, Decl!PlanMirrorsFile

\* The constructors keep to the shape of the options.
LEMMA ConstructShape ==
    ASSUME NEW c, NEW f, NEW g, Shaped(f), f.preserve = FALSE, Decl!Accepted(c, f, g)
    PROVE  Shaped(Decl!Construct(c, f)) /\ Declared(Decl!Construct(c, f))
<1> DEFINE h == Decl!Construct(c, f)
<1>1. Decl!Valid(h) /\ (c = "PresentEnsure" => Decl!PreserveAllowed(f))
  BY DEF Decl!Accepted
<1>2. f \in File
  BY DEF Shaped
<1> SUFFICES Shaped(h) /\ (h.preserve => Decl!PreserveAllowed(h))
  BY <1>1 DEF Declared
<1>3. CASE c = "PresentEnsure"
  <2>1. h = [f EXCEPT !.preserve = TRUE]
    BY <1>3 DEF Decl!Construct
  <2>2. Decl!PreserveAllowed(f)
    BY <1>1, <1>3
  <2> HIDE DEF h
  <2>3. Shaped(h)
    BY <1>2, <2>1 DEF Shaped, File
  <2>4. Decl!PreserveAllowed(h)
    BY <1>2, <2>1, <2>2 DEF Decl!PreserveAllowed, File
  <2> QED
    BY <2>3, <2>4
<1>4. CASE c = "PresentSecret"
  <2>1. h = [f EXCEPT !.sensitive = TRUE, !.mode = IF f.modeSet THEN f.mode ELSE "private"]
    BY <1>2, <1>4 DEF Decl!Construct, Decl!buildSecret, File
  <2> HIDE DEF h
  <2>2. h \in File
    BY <1>2, <2>1 DEF File
  <2>3. /\ h.source = f.source /\ h.content = f.content /\ h.contentSet = f.contentSet
        /\ h.data = f.data /\ h.template = f.template /\ h.check = f.check /\ h.args = f.args
        /\ h.checkSet = f.checkSet /\ h.modeSet = f.modeSet /\ (f.modeSet => h.mode = f.mode)
        /\ h.preserve = f.preserve
    BY <1>2, <2>1 DEF File
  <2> QED
    BY <2>2, <2>3 DEF Shaped
<1>5. CASE c = "Absent"
  <2>1. h = Decl!Option(f, "absent")
    BY <1>5 DEF Decl!Construct
  <2>2. Shaped(h) /\ Touches(f, h, "absent")
    BY <2>1, OptionsShape
  <2> QED
    BY <2>2 DEF Touches
<1>6. CASE c \notin {"PresentEnsure", "PresentSecret", "Absent"}
  BY <1>6 DEF Decl!Construct
<1> QED
  BY <1>3, <1>4, <1>5, <1>6

LEMMA SecretDeclared ==
    ASSUME Shaped(file), file.preserve = FALSE, Probes, Decl!Accepted("PresentSecret", file, probe)
    PROVE  IsSecret(Decl!Construct("PresentSecret", file))
<1>1. ~probe.contentSet /\ ~probe.lines /\ ~probe.absent
  BY DEF Decl!Accepted, Decl!SecretAllowed
<1>2. file.content = "secret" /\ file.source = "" /\ ~file.lines /\ ~file.absent /\ file.contentSet
  BY <1>1 DEF Probes, Shaped
<1>3. Decl!Construct("PresentSecret", file) =
        [file EXCEPT !.sensitive = TRUE, !.mode = IF file.modeSet THEN @ ELSE "private"]
  BY DEF Decl!Construct, Decl!buildSecret
<1> QED
  BY ZenonT(60), <1>2, <1>3 DEF IsSecret, Shaped, File

LEMMA DeclareKeeps == ASSUME DeclInv, Decl!Declare PROVE DeclInv'
<1>1. Shaped(file) /\ Shaped(probe) /\ file.preserve = FALSE /\ (ctor = "PresentSecret" => Probes)
  BY DEF DeclInv, Decl!Declare
<1>2. probe' = probe /\ ctor' = ctor
  BY DEF Decl!Declare
<1>3. CASE Decl!Accepted(ctor, file, probe)
  <2>1. file' = Decl!Construct(ctor, file) /\ at' = "declared"
    BY <1>3 DEF Decl!Declare
  <2>2. Shaped(file') /\ Declared(file')
    BY <1>1, <1>3, <2>1, ConstructShape
  <2>3. ctor = "PresentSecret" => IsSecret(file')
    BY <1>1, <1>3, <2>1, SecretDeclared
  <2> QED
    BY <1>1, <1>2, <2>1, <2>2, <2>3 DEF DeclInv, Decl!PlanMirrorsFile
<1>4. CASE ~Decl!Accepted(ctor, file, probe)
  <2>1. file' = file /\ at' = "refused"
    BY <1>4 DEF Decl!Declare
  <2> QED
    BY <1>1, <1>2, <2>1 DEF DeclInv, Decl!PlanMirrorsFile
<1> QED
  BY <1>3, <1>4

LEMMA ToOpKeeps == ASSUME DeclInv, Decl!ToOp PROVE DeclInv'
<1>1. /\ Shaped(file) /\ Shaped(probe) /\ Declared(file)
      /\ ctor = "PresentSecret" => IsSecret(file)
  BY DEF DeclInv, Decl!ToOp
<1>2. file' = file /\ probe' = probe /\ ctor' = ctor
  BY DEF Decl!ToOp
<1>3. CASE Decl!Lowers(file)
  <2>1. planOp' = Decl!planDraft(file) /\ at' = "recorded"
    BY <1>3 DEF Decl!ToOp
  <2> QED
    BY <1>1, <1>2, <2>1 DEF DeclInv, Decl!PlanMirrorsFile
<1>4. CASE ~Decl!Lowers(file)
  <2>1. at' = "failed" /\ file.data = "invalid"
    BY <1>4 DEF Decl!ToOp, Decl!Lowers
  <2> QED
    BY <1>1, <1>2, <2>1 DEF DeclInv, Decl!PlanMirrorsFile
<1> QED
  BY <1>3, <1>4

LEMMA HandleKeeps == ASSUME DeclInv, Decl!Handle PROVE DeclInv'
<1>1. /\ Shaped(file) /\ Shaped(probe) /\ Declared(file) /\ planOp = Decl!planDraft(file)
      /\ ctor = "PresentSecret" => IsSecret(file)
  BY DEF DeclInv, Decl!Handle
<1>2. file' = file /\ probe' = probe /\ ctor' = ctor
  BY DEF Decl!Handle
<1>3. CASE Rejects(planOp)
  <2>1. at' = "failed"
    BY <1>3 DEF Decl!Handle, Rejects
  <2>2. ~file.contentSet /\ Decl!Effect(file).does = "write"
    BY <1>1, <1>3, DestinationMirrors
  <2> QED
    BY <1>1, <1>2, <2>1, <2>2 DEF DeclInv, Decl!PlanMirrorsFile
<1>4. CASE ~Rejects(planOp)
  <2>1. at' = "applied" /\ applied' = Decl!Apply(planOp)
    BY <1>4 DEF Decl!Handle, Rejects
  <2>2. DoesSame(file, applied')
    BY <1>1, <1>4, <2>1, DestinationMirrors
  <2>3. ctor = "PresentSecret" => applied'.sensitive /\ Decl!Bytes(applied') = "secret"
    BY <1>1, <2>1, SecretTravels
  <2>4. Decl!PlanMirrorsFile'
    BY <1>2, <2>1, <2>2, <2>3 DEF Decl!PlanMirrorsFile, DoesSame
  <2> QED
    BY <1>1, <1>2, <2>1, <2>4 DEF DeclInv
<1> QED
  BY <1>3, <1>4

LEMMA DeclKeeps == ASSUME DeclInv, Decl!Next PROVE DeclInv'
<1>1. ASSUME NEW name \in DeclNames, Decl!Call(name) PROVE DeclInv'
  BY <1>1, CallKeeps
<1> QED
  BY <1>1, DeclareKeeps, ToOpKeeps, HandleKeeps DEF Decl!Next

LEMMA DeclRests == ASSUME DeclInv, UNCHANGED Decl!vars PROVE DeclInv'
BY DEF Decl!vars, DeclInv, Probes, Decl!PlanMirrorsFile

LEMMA DeclMirrors == DeclInv => Decl!PlanMirrorsFile
BY DEF DeclInv

(***************************************************************************)
(* Services: the lists of actions                                          *)
(***************************************************************************)

\* The actions of a unit that is to run (to enable, to set flags, the verb of
\* its policy or "") and of one that is to go (to stop, the way to disable).
Verbs(e, f, r) ==
    IF e
    THEN IF f THEN IF r # "" THEN <<"enable", "flags", r>> ELSE <<"enable", "flags">>
              ELSE IF r # "" THEN <<"enable", r>> ELSE <<"enable">>
    ELSE IF f THEN IF r # "" THEN <<"flags", r>> ELSE <<"flags">>
              ELSE IF r # "" THEN <<r>> ELSE <<>>

Ends(s, d) ==
    IF s THEN IF d # "" THEN <<"stop", d>> ELSE <<"stop">>
         ELSE IF d # "" THEN <<d>> ELSE <<>>

\* Heads, tails and concatenations of lists this short.
LEMMA ShortLists ==
    ASSUME NEW a, NEW b, NEW c
    PROVE  /\ Head(<<a>>) = a /\ Tail(<<a>>) = <<>> /\ <<a>> # <<>>
           /\ Head(<<a, b>>) = a /\ Tail(<<a, b>>) = <<b>> /\ <<a, b>> # <<>>
           /\ Head(<<a, b, c>>) = a /\ Tail(<<a, b, c>>) = <<b, c>> /\ <<a, b, c>> # <<>>
OBVIOUS

\* What an action of a list leaves is the list of what is left to do.
LEMMA VerbsEmpty ==
    ASSUME NEW e \in BOOLEAN, NEW f \in BOOLEAN, NEW r
    PROVE  Verbs(e, f, r) = <<>> <=> e = FALSE /\ f = FALSE /\ r = ""
BY ShortLists DEF Verbs

LEMMA VerbsOrdered ==
    ASSUME NEW f \in BOOLEAN, NEW r
    PROVE  /\ Head(Verbs(TRUE, f, r)) = "enable" /\ Tail(Verbs(TRUE, f, r)) = Verbs(FALSE, f, r)
           /\ Head(Verbs(FALSE, TRUE, r)) = "flags"
           /\ Tail(Verbs(FALSE, TRUE, r)) = Verbs(FALSE, FALSE, r)
           /\ r # "" => Head(Verbs(FALSE, FALSE, r)) = r /\ Tail(Verbs(FALSE, FALSE, r)) = <<>>
<1>1. Head(Verbs(TRUE, f, r)) = "enable" /\ Tail(Verbs(TRUE, f, r)) = Verbs(FALSE, f, r)
  BY ShortLists DEF Verbs
<1>2. /\ Head(Verbs(FALSE, TRUE, r)) = "flags"
      /\ Tail(Verbs(FALSE, TRUE, r)) = Verbs(FALSE, FALSE, r)
  BY ShortLists DEF Verbs
<1>3. r # "" => Head(Verbs(FALSE, FALSE, r)) = r /\ Tail(Verbs(FALSE, FALSE, r)) = <<>>
  BY ShortLists DEF Verbs
<1> QED
  BY <1>1, <1>2, <1>3

LEMMA EndsOrdered ==
    ASSUME NEW d
    PROVE  /\ Head(Ends(TRUE, d)) = "stop" /\ Tail(Ends(TRUE, d)) = Ends(FALSE, d)
           /\ d # "" => Head(Ends(FALSE, d)) = d /\ Tail(Ends(FALSE, d)) = <<>>
           /\ Ends(TRUE, d) # <<>> /\ (Ends(FALSE, d) = <<>> <=> d = "")
BY ShortLists DEF Ends

\* The verb of Runtime and the one of DisableOp, "" for none.
Verb(h, flagged, input) ==
    IF unit.enableOnly THEN ""
    ELSE IF ~h.running THEN "start"
    ELSE IF ~unit.reload /\ ~unit.restart THEN ""
    ELSE IF ~flagged /\ Serve!Holds(input) THEN ""
    ELSE IF unit.reload THEN "reload"
    ELSE "restart"

Disables(h) ==
    IF ~Serve!Enabled(h) \/ h.state = "static" THEN ""
    ELSE IF h.state = "enabled-runtime" THEN "disable --runtime"
    ELSE "disable"

\* The flags among an enable and a verb, as sequence puts them.
LEMMA Concats ==
    ASSUME NEW a, NEW b
    PROVE  /\ <<>> \o <<>> = <<>> /\ <<>> \o <<a>> = <<a>> /\ <<a>> \o <<>> = <<a>>
           /\ <<a>> \o <<b>> = <<a, b>>
<1>1. /\ <<>> \in Seq({a, b}) /\ <<a>> \in Seq({a, b}) /\ <<b>> \in Seq({a, b})
      /\ <<a, b>> \in Seq({a, b})
  OBVIOUS
<1>2. <<>> \o <<>> = <<>> /\ <<>> \o <<a>> = <<a>> /\ <<a>> \o <<>> = <<a>>
  BY <1>1, ConcatEmptySeq
<1>3. /\ <<a>> \o <<b>> \in Seq({a, b}) /\ Len(<<a>> \o <<b>>) = 2
      /\ (<<a>> \o <<b>>)[1] = a /\ (<<a>> \o <<b>>)[2] = b
  BY <1>1
<1>4. <<a>> \o <<b>> = <<a, b>>
  <2>1. Len(<<a, b>>) = 2 /\ <<a, b>>[1] = a /\ <<a, b>>[2] = b
    OBVIOUS
  <2>2. \A i \in 1..2 : (<<a>> \o <<b>>)[i] = <<a, b>>[i]
    BY <1>3, <2>1
  <2> QED
    BY <1>1, <1>3, <2>1, <2>2, SeqEqual
<1> QED
  BY <1>2, <1>4

LEMMA FlaggedLists ==
    ASSUME NEW a, NEW b
    PROVE  /\ SubSeq(<<>>, 1, 0) \o <<"flags">> \o SubSeq(<<>>, 0 + 1, Len(<<>>)) = <<"flags">>
           /\ SubSeq(<<a>>, 1, 0) \o <<"flags">> \o SubSeq(<<a>>, 0 + 1, Len(<<a>>)) = <<"flags", a>>
           /\ SubSeq(<<a>>, 1, 1) \o <<"flags">> \o SubSeq(<<a>>, 1 + 1, Len(<<a>>)) = <<a, "flags">>
           /\ SubSeq(<<a, b>>, 1, 1) \o <<"flags">> \o SubSeq(<<a, b>>, 1 + 1, Len(<<a, b>>))
                  = <<a, "flags", b>>
<1>1. /\ Len(<<>>) = 0 /\ Len(<<a>>) = 1 /\ Len(<<a, b>>) = 2
      /\ <<a>> \in Seq({a, b}) /\ <<a, b>> \in Seq({a, b})
  OBVIOUS
<1>2. /\ SubSeq(<<>>, 1, 0) = <<>> /\ SubSeq(<<a>>, 1, 0) = <<>>
      /\ SubSeq(<<>>, 0 + 1, 0) = <<>> /\ SubSeq(<<a>>, 1 + 1, 1) = <<>>
  BY SubSeqEmpty
<1>3. SubSeq(<<a>>, 1, 1) = <<a>> /\ SubSeq(<<a>>, 0 + 1, 1) = <<a>>
  <2>1. SubSeq(<<a>>, 1, Len(<<a>>)) = <<a>>
    BY <1>1, SubSeqFull
  <2> QED
    BY <2>1, <1>1
<1>4. SubSeq(<<a, b>>, 1, 1) = <<a>> /\ SubSeq(<<a, b>>, 1 + 1, 2) = <<b>>
  <2>1. SubSeq(<<a, b>>, 1, 1) = <<a>> \o SubSeq(<<a, b>>, 1 + 1, 1)
    BY <1>1, SubSeqRecursiveFirst
  <2>2. SubSeq(<<a, b>>, 1 + 1, 2) = <<b>> \o SubSeq(<<a, b>>, 2 + 1, 2)
    BY <1>1, SubSeqRecursiveFirst
  <2>3. SubSeq(<<a, b>>, 1 + 1, 1) = <<>> /\ SubSeq(<<a, b>>, 2 + 1, 2) = <<>>
    BY SubSeqEmpty
  <2> QED
    BY <2>1, <2>2, <2>3, Concats
<1>5. /\ <<"flags">> \o <<a>> = <<"flags", a>> /\ <<a>> \o <<"flags">> = <<a, "flags">>
      /\ <<>> \o <<"flags">> = <<"flags">> /\ <<"flags">> \o <<>> = <<"flags">>
      /\ <<a, "flags">> \o <<>> = <<a, "flags">>
  <2>1. <<a, "flags">> \in Seq({a, "flags"})
    OBVIOUS
  <2> QED
    BY <2>1, Concats, ConcatEmptySeq
<1>6. <<a, "flags">> \o <<b>> = <<a, "flags", b>>
  <2> DEFINE s == <<a, "flags">> \o <<b>>
             T == {a, b, "flags"}
  <2>1. <<a, "flags">> \in Seq(T) /\ <<b>> \in Seq(T) /\ <<a, "flags", b>> \in Seq(T)
    OBVIOUS
  <2>2. s \in Seq(T) /\ Len(s) = 3 /\ s[1] = a /\ s[2] = "flags" /\ s[3] = b
    BY <2>1
  <2>3. /\ Len(<<a, "flags", b>>) = 3 /\ <<a, "flags", b>>[1] = a /\ <<a, "flags", b>>[2] = "flags"
        /\ <<a, "flags", b>>[3] = b
    OBVIOUS
  <2> HIDE DEF s, T
  <2>4. \A i \in 1..3 : s[i] = <<a, "flags", b>>[i]
    BY <2>2, <2>3
  <2>5. s = <<a, "flags", b>>
    BY <2>1, <2>2, <2>3, <2>4, SeqEqual
  <2> QED
    BY <2>5 DEF s
<1> QED
  BY <1>1, <1>2, <1>3, <1>4, <1>5, <1>6

(***************************************************************************)
(* Services: the invariant                                                 *)
(***************************************************************************)
\* The declaration was not refused.
IsDeclared == ~Serve!Refused(unit) /\ ~Serve!Unsupported(unit)

ServiceTypes ==
    /\ unit \in ServiceDecls /\ Serve!IsHost(host) /\ Serve!IsHost(prior)
    /\ asked \in BOOLEAN /\ intact \in BOOLEAN
    /\ unitAt \in {"idle", "act", "ok", "error", "refused"}
    /\ unitAt \in {"act", "ok"} => IsDeclared

\* The unit is as declared, as far as a later apply can tell.
Converged(h) ==
    /\ unit.absent => /\ h.state \notin {"enabled", "enabled-runtime"}
                      /\ unit.enableOnly \/ ~h.running
    /\ ~unit.absent => /\ Serve!Enabled(h) /\ (unit.enableOnly \/ h.running)
                       /\ Serve!hasFlags => h.flags = unit.flags

\* What is still to be done for an absent unit, and for one that is to run.
Removing ==
    \E s \in BOOLEAN, d \in {"", "disable", "disable --runtime"} :
        /\ todo = Ends(s, d) /\ todo # <<>>
        /\ s => ~unit.enableOnly
        /\ ~s => unit.enableOnly \/ ~host.running
        /\ d = "" => host.state \notin {"enabled", "enabled-runtime"}
        /\ d = "disable" => host.state = "enabled"
        /\ unit.enableOnly => host.running = prior.running /\ host.with = prior.with

Providing ==
    \E e, f \in BOOLEAN :
        /\ todo = Verbs(e, f, Verb(prior, Serve!flagsUpdate(prior), asked)) /\ todo # <<>>
        /\ ~e => Serve!Enabled(host)
        /\ f => Serve!hasFlags
        /\ ~f /\ Serve!hasFlags => ~e /\ host.flags = unit.flags
        /\ host.running = prior.running /\ host.with = prior.with

\* An apply that found the unit as a good one left it runs only what the
\* policy asks for.
Asked == (unit.restart \/ unit.reload) /\ (asked \/ ~unit.gated)

ServiceInv ==
    /\ ServiceTypes
    /\ unitAt = "act" /\ unit.absent => Removing
    /\ unitAt = "act" /\ ~unit.absent => Providing
    /\ Serve!ServiceAsDeclared /\ Serve!SecondApplyIdle
    /\ intact => /\ unitAt # "error" /\ (unitAt = "act" => Asked)
                 /\ unitAt = "idle" => Converged(host)

\* A good apply leaves a unit a later one has nothing to do with.
LEMMA AsDeclaredConverged ==
    ServiceTypes /\ unitAt = "ok" /\ Serve!ServiceAsDeclared => Converged(host)
BY DEF ServiceTypes, Serve!ServiceAsDeclared, Converged, Serve!Enabled

LEMMA ServiceStarts == Serve!ConstantsOK /\ Serve!Init => ServiceInv
BY DEF Serve!ConstantsOK, Serve!Init, ServiceInv, ServiceTypes, Serve!IsHost,
   Serve!ServiceAsDeclared, Serve!SecondApplyIdle

\* The list of an apply.
LEMMA ListOf ==
    ASSUME NEW h, NEW input, Serve!IsHost(h), IsDeclared, unit.absent \in BOOLEAN,
           unit.enableOnly \in BOOLEAN
    PROVE  Serve!sequence(Serve!actions(h, input), Serve!flagsUpdate(h)) =
             IF unit.absent THEN Ends(h.running /\ ~unit.enableOnly, Disables(h))
             ELSE Verbs(~Serve!Enabled(h), Serve!flagsUpdate(h), Verb(h, Serve!flagsUpdate(h), input))
<1>1. CASE unit.absent
  <2>1. ~Serve!hasFlags
    BY <1>1 DEF IsDeclared, Serve!Refused, Serve!hasFlags
  <2>2. Serve!actions(h, input) = Ends(h.running /\ ~unit.enableOnly, Disables(h))
    <3>1. Serve!DisableOp(h) = IF Disables(h) = "" THEN <<>> ELSE <<Disables(h)>>
      BY DEF Serve!DisableOp, Disables, Serve!Enabled, Serve!IsHost
    <3> QED
      BY <1>1, <3>1, Concats DEF Serve!actions, Ends
  <2> QED
    BY <1>1, <2>1, <2>2 DEF Serve!sequence, Serve!flagsUpdate
<1>2. CASE ~unit.absent
  <2> DEFINE r == Verb(h, Serve!flagsUpdate(h), input)
             e == ~Serve!Enabled(h)
             f == Serve!flagsUpdate(h)
  <2>1. (IF unit.enableOnly THEN <<>> ELSE Serve!Runtime(h, f, input))
          = IF r = "" THEN <<>> ELSE <<r>>
    BY DEF Verb, Serve!Runtime
  <2>2. r # "enable" /\ (r = "" \/ r \in {"start", "reload", "restart"})
    BY DEF Verb
  <2>3. Serve!actions(h, input) = Verbs(e, FALSE, r)
    BY <1>2, <2>1, Concats DEF Serve!actions, Verbs
  <2> HIDE DEF r
  <2>4. CASE ~f
    <3>1. e \in BOOLEAN
      BY DEF Serve!Enabled
    <3> QED
      BY <1>2, <2>3, <2>4, <3>1 DEF Serve!sequence, Verbs, r
  <2>5. CASE f
    <3>1. CASE e
      <4>1. Verbs(e, FALSE, r) # <<>> /\ Head(Verbs(e, FALSE, r)) = "enable"
        BY <3>1, ShortLists DEF Verbs
      <4>2. Serve!sequence(Verbs(e, FALSE, r), f) = Verbs(e, TRUE, r)
        BY <4>1, <3>1, <2>5, FlaggedLists DEF Serve!sequence, Verbs
      <4> QED
        BY <4>2, <2>3, <2>5, <1>2 DEF r
    <3>2. CASE ~e
      <4>1. Verbs(e, FALSE, r) # <<>> => Head(Verbs(e, FALSE, r)) # "enable"
        BY <3>2, <2>2, ShortLists DEF Verbs
      <4>2. Serve!sequence(Verbs(e, FALSE, r), f) = Verbs(e, TRUE, r)
        BY <4>1, <3>2, <2>5, FlaggedLists DEF Serve!sequence, Verbs
      <4> QED
        BY <4>2, <2>3, <2>5, <1>2 DEF r
    <3> QED
      BY <3>1, <3>2
  <2> QED
    BY <2>4, <2>5
<1> QED
  BY <1>1, <1>2

LEMMA DeclFields ==
    ASSUME Serve!ConstantsOK, ServiceTypes
    PROVE  /\ unit.absent \in BOOLEAN /\ unit.enableOnly \in BOOLEAN /\ unit.reload \in BOOLEAN
           /\ unit.restart \in BOOLEAN /\ unit.gated \in BOOLEAN
BY DEF Serve!ConstantsOK, ServiceTypes

\* The steps.
LEMMA ApplyKeeps ==
    ASSUME Serve!ConstantsOK, ServiceInv, NEW input \in BOOLEAN, Serve!Apply(input)
    PROVE  ServiceInv'
<1>1. /\ unitAt \in {"idle", "error"} /\ asked' = input /\ prior' = host /\ acted' = <<>>
      /\ unit' = unit /\ host' = host
  BY DEF Serve!Apply
<1> DEFINE list == Serve!sequence(Serve!actions(host, input), Serve!flagsUpdate(host))
           r == Verb(host, Serve!flagsUpdate(host), input)
<1>2. ServiceTypes
  BY DEF ServiceInv
<1>3. CASE Serve!Refused(unit) \/ Serve!Unsupported(unit)
  <2>1. unitAt' = "refused" /\ intact' = intact
    BY <1>3 DEF Serve!Apply, Serve!End
  <2> QED
    BY <1>1, <1>2, <2>1 DEF ServiceInv, ServiceTypes, Serve!ServiceAsDeclared, Serve!SecondApplyIdle
<1>4. CASE unitAt' = "error" /\ intact' = FALSE
  BY <1>1, <1>2, <1>4 DEF ServiceInv, ServiceTypes, Serve!ServiceAsDeclared, Serve!SecondApplyIdle
<1>5. CASE /\ IsDeclared /\ todo' = list /\ intact' = intact
           /\ IF list = <<>> THEN unitAt' = "ok" ELSE unitAt' = "act"
  <2>1. list = IF unit.absent THEN Ends(host.running /\ ~unit.enableOnly, Disables(host))
               ELSE Verbs(~Serve!Enabled(host), Serve!flagsUpdate(host), r)
    BY <1>2, <1>5, DeclFields, ListOf DEF ServiceTypes
  <2>2. Serve!IsHost(host) /\ IsDeclared'
    BY <1>1, <1>2, <1>5 DEF ServiceTypes, IsDeclared, Serve!Refused, Serve!Unsupported
  <2>3. ServiceTypes'
    BY <1>1, <1>2, <1>5, <2>2 DEF ServiceTypes
  <2>4. intact => Converged(host)
    BY <1>1 DEF ServiceInv
  <2> HIDE DEF list
  <2>5. CASE unit.absent
    <3> DEFINE s == host.running /\ ~unit.enableOnly
    <3>1. s \in BOOLEAN /\ Disables(host) \in {"", "disable", "disable --runtime"}
      BY <2>2 DEF Disables, Serve!IsHost
    <3>2. /\ Disables(host) = "" => host.state \notin {"enabled", "enabled-runtime"}
          /\ Disables(host) = "disable" => host.state = "enabled"
      BY <2>2 DEF Disables, Serve!IsHost, Serve!Enabled
    <3>3. s => ~unit.enableOnly
      OBVIOUS
    <3>4. ~s => unit.enableOnly \/ ~host.running
      BY <1>2, DeclFields
    <3>5. intact => list = <<>>
      <4>1. intact => ~s /\ Disables(host) = ""
        BY <2>4, <2>5, <2>2 DEF Converged, Disables, Serve!IsHost, Serve!Enabled
      <4> HIDE DEF s
      <4> QED
        BY <4>1, <2>1, <2>5 DEF Ends, s
    <3>6. list # <<>> => Removing'
      <4>1. todo' = Ends(s, Disables(host)) /\ host' = host /\ prior' = host /\ unit' = unit
        BY <1>1, <1>5, <2>1, <2>5
      <4> HIDE DEF s
      <4> QED
        BY <1>5, <3>1, <3>2, <3>3, <3>4, <4>1 DEF Removing
    <3>7. list = <<>> => ~s /\ Disables(host) = ""
      BY <2>1, <2>5, <3>1, EndsOrdered
    <3>8. list = <<>> => Serve!ServiceAsDeclared' /\ Serve!SecondApplyIdle'
      BY <1>1, <3>2, <3>4, <3>7, <2>5 DEF Serve!ServiceAsDeclared, Serve!SecondApplyIdle
    <3> QED
      BY <1>1, <1>5, <2>3, <2>5, <3>5, <3>6, <3>8 DEF ServiceInv, Serve!ServiceAsDeclared,
         Serve!SecondApplyIdle
  <2>6. CASE ~unit.absent
    <3>1. (~Serve!Enabled(host)) \in BOOLEAN /\ Serve!flagsUpdate(host) \in BOOLEAN
      BY DEF Serve!Enabled, Serve!flagsUpdate, Serve!hasFlags
    <3>2. list # <<>> => Providing'
      <4> SUFFICES ASSUME list # <<>> PROVE Providing'
        OBVIOUS
      <4>1. /\ todo' = Verbs(~Serve!Enabled(host), Serve!flagsUpdate(host), r) /\ todo' # <<>>
        BY <1>5, <2>1, <2>6
      <4>2. /\ Serve!flagsUpdate(host)' = Serve!flagsUpdate(host)
            /\ Serve!hasFlags' = Serve!hasFlags
            /\ Serve!flagsUpdate(prior)' = Serve!flagsUpdate(host)
            /\ Verb(prior, Serve!flagsUpdate(prior), asked)' = r
        BY <1>1 DEF Serve!flagsUpdate, Serve!hasFlags, Verb, Serve!Holds, Serve!Enabled
      <4>3. /\ Serve!flagsUpdate(host) => Serve!hasFlags
            /\ ~Serve!flagsUpdate(host) /\ Serve!hasFlags => Serve!Enabled(host) /\ host.flags = unit.flags
        BY DEF Serve!flagsUpdate
      <4> QED
        BY <1>1, <3>1, <4>1, <4>2, <4>3 DEF Providing, Serve!Enabled
    <3>3. list = <<>> <=> Serve!Enabled(host) /\ ~Serve!flagsUpdate(host) /\ r = ""
      <4> DEFINE e == ~Serve!Enabled(host)
                 f == Serve!flagsUpdate(host)
      <4>1. list = Verbs(e, f, r) /\ e \in BOOLEAN /\ f \in BOOLEAN
        BY <2>1, <2>6, <3>1
      <4> HIDE DEF e, f, r
      <4>2. list = <<>> <=> e = FALSE /\ f = FALSE /\ r = ""
        BY <4>1, VerbsEmpty
      <4> QED
        BY <4>1, <4>2 DEF e, f
    <3>4. list = <<>> => Serve!ServiceAsDeclared' /\ Serve!SecondApplyIdle'
      BY <1>1, <1>2, <2>2, <2>6, <3>3, DeclFields DEF Serve!ServiceAsDeclared,
         Serve!SecondApplyIdle, Serve!Enabled,
         Serve!flagsUpdate, Verb, Serve!hasFlags, Serve!IsHost
    <3>5. intact /\ list # <<>> => Asked'
      <4>1. intact => Serve!Enabled(host) /\ ~Serve!flagsUpdate(host)
        BY <2>4, <2>6 DEF Converged, Serve!flagsUpdate
      <4>2. intact /\ r # "" => (unit.restart \/ unit.reload) /\ (input \/ ~unit.gated)
        BY <2>4, <2>6, <4>1 DEF Converged, Verb, Serve!Holds
      <4>3. intact /\ r = "" => list = <<>>
        BY <3>3, <4>1
      <4> QED
        BY <1>1, <4>2, <4>3 DEF Asked
    <3> QED
      BY <1>1, <1>5, <2>3, <2>6, <3>2, <3>4, <3>5 DEF ServiceInv, Serve!ServiceAsDeclared,
         Serve!SecondApplyIdle
  <2> QED
    BY <2>5, <2>6
<1> QED
  BY <1>3, <1>4, <1>5 DEF Serve!Apply, Serve!End, IsDeclared

\* An action of an absent unit's list.
LEMMA RemoveKeeps ==
    ASSUME Serve!ConstantsOK, ServiceInv, unitAt = "act", unit.absent, Serve!Act
    PROVE  ServiceInv'
<1>1. PICK s \in BOOLEAN, d \in {"", "disable", "disable --runtime"} :
        /\ todo = Ends(s, d) /\ todo # <<>>
        /\ s => ~unit.enableOnly
        /\ ~s => unit.enableOnly \/ ~host.running
        /\ d = "" => host.state \notin {"enabled", "enabled-runtime"}
        /\ d = "disable" => host.state = "enabled"
        /\ unit.enableOnly => host.running = prior.running /\ host.with = prior.with
  BY DEF ServiceInv, Removing
<1>2. /\ host' \in Serve!Run(host, Head(todo)) /\ todo' = Tail(todo)
      /\ IF Tail(todo) = <<>> THEN unitAt' = "ok" ELSE unitAt' = unitAt
      /\ unit' = unit /\ asked' = asked /\ prior' = prior /\ intact' = intact
  BY DEF Serve!Act, Serve!End
<1>3. ServiceTypes /\ Serve!IsHost(host)
  BY DEF ServiceInv, ServiceTypes
<1>4. IsDeclared' /\ Asked' = Asked /\ (intact => Asked)
  BY <1>2, <1>3 DEF ServiceInv, ServiceTypes, IsDeclared, Serve!Refused, Serve!Unsupported, Asked
<1>5. Serve!SecondApplyIdle'
  BY <1>2, <1>4 DEF Serve!SecondApplyIdle, Asked
<1>6. CASE s
  <2>1. Head(todo) = "stop" /\ todo' = Ends(FALSE, d)
    BY <1>1, <1>2, <1>6, EndsOrdered
  <2>2. host' = [host EXCEPT !.running = FALSE, !.with = "none"]
    BY <1>2, <2>1 DEF Serve!Run
  <2>3. /\ host'.running = FALSE /\ host'.state = host.state /\ Serve!IsHost(host')
    BY <1>3, <2>2 DEF Serve!IsHost
  <2>4. ServiceTypes'
    BY <1>2, <1>3, <1>4, <2>3 DEF ServiceTypes, Serve!IsHost
  <2>5. todo' # <<>> => Removing'
    BY <1>1, <1>2, <1>6, <2>1, <2>3 DEF Removing
  <2>6. todo' = <<>> => Serve!ServiceAsDeclared'
    <3>1. todo' = <<>> => d = ""
      BY <2>1, EndsOrdered
    <3> QED
      BY <1>1, <1>2, <1>6, <2>3, <3>1 DEF Serve!ServiceAsDeclared
  <2> QED
    BY <1>2, <1>4, <1>5, <2>4, <2>5, <2>6 DEF ServiceInv, Serve!ServiceAsDeclared
<1>7. CASE ~s
  <2>1. d # "" /\ Head(todo) = d /\ todo' = <<>>
    BY <1>1, <1>2, <1>7, EndsOrdered
  <2>2. host' = [host EXCEPT !.state = IF d = "disable --runtime" \/ host.state = "enabled"
                                       THEN "disabled" ELSE host.state]
    BY <1>1, <1>2, <2>1 DEF Serve!Run
  <2>3. /\ host'.state = "disabled" /\ Serve!IsHost(host')
        /\ host'.running = host.running /\ host'.with = host.with
    BY <1>1, <1>3, <2>1, <2>2 DEF Serve!IsHost
  <2>4. ServiceTypes'
    BY <1>2, <1>3, <1>4, <2>3 DEF ServiceTypes, Serve!IsHost
  <2>5. Serve!ServiceAsDeclared'
    BY <1>1, <1>2, <1>7, <2>3 DEF Serve!ServiceAsDeclared
  <2> QED
    BY <1>2, <1>4, <1>5, <2>1, <2>4, <2>5 DEF ServiceInv
<1> QED
  BY <1>6, <1>7

\* An action of the list of a unit that is to run.
LEMMA ProvideKeeps ==
    ASSUME Serve!ConstantsOK, ServiceInv, unitAt = "act", ~unit.absent, Serve!Act
    PROVE  ServiceInv'
<1> DEFINE r == Verb(prior, Serve!flagsUpdate(prior), asked)
<1>1. PICK e \in BOOLEAN, f \in BOOLEAN :
        /\ todo = Verbs(e, f, r) /\ todo # <<>>
        /\ ~e => Serve!Enabled(host)
        /\ f => Serve!hasFlags
        /\ ~f /\ Serve!hasFlags => ~e /\ host.flags = unit.flags
        /\ host.running = prior.running /\ host.with = prior.with
  BY DEF ServiceInv, Providing
<1>2. /\ host' \in Serve!Run(host, Head(todo)) /\ todo' = Tail(todo)
      /\ IF Tail(todo) = <<>> THEN unitAt' = "ok" ELSE unitAt' = unitAt
      /\ unit' = unit /\ asked' = asked /\ prior' = prior /\ intact' = intact
  BY DEF Serve!Act, Serve!End
<1>3. ServiceTypes /\ Serve!IsHost(host)
  BY DEF ServiceInv, ServiceTypes
<1>4. IsDeclared' /\ Asked' = Asked /\ (intact => Asked)
  BY <1>2, <1>3 DEF ServiceInv, ServiceTypes, IsDeclared, Serve!Refused, Serve!Unsupported, Asked
<1>5. Serve!SecondApplyIdle'
  BY <1>2, <1>4 DEF Serve!SecondApplyIdle, Asked
<1>6. r' = r /\ Serve!hasFlags' = Serve!hasFlags
  BY <1>2 DEF Verb, Serve!flagsUpdate, Serve!hasFlags, Serve!Enabled, Serve!Holds
<1>7. ASSUME r = ""
      PROVE  \/ unit.enableOnly
             \/ prior.running /\ (unit.reload \/ ~unit.restart \/ ~Serve!flagsUpdate(prior))
  BY <1>7 DEF Verb
<1>8. ASSUME r = "", Serve!Enabled(host'), Serve!hasFlags => host'.flags = unit.flags,
             host'.running = prior.running, host'.with = prior.with
      PROVE  Serve!ServiceAsDeclared'
  BY <1>2, <1>7, <1>8 DEF Serve!ServiceAsDeclared, Serve!Enabled, Serve!flagsUpdate, Serve!hasFlags
<1> HIDE DEF r
<1>9. CASE e
  <2>1. Head(todo) = "enable" /\ todo' = Verbs(FALSE, f, r)
    <3>1. e = TRUE
      BY <1>9
    <3>2. todo = Verbs(TRUE, f, r)
      BY <1>1, <3>1
    <3>3. Head(todo) = "enable" /\ Tail(todo) = Verbs(FALSE, f, r)
      BY <3>2, VerbsOrdered
    <3> QED
      BY <3>3, <1>2
  <2>2. PICK g : host' = [host EXCEPT !.state = "enabled", !.flags = g]
    BY <1>2, <2>1 DEF Serve!Run
  <2>3. /\ host'.state = "enabled" /\ Serve!IsHost(host')
        /\ host'.running = host.running /\ host'.with = host.with
    BY <1>3, <2>2 DEF Serve!IsHost
  <2>4. ServiceTypes'
    BY <1>2, <1>3, <1>4, <2>3 DEF ServiceTypes, Serve!IsHost
  <2>5. todo' # <<>> => Providing'
    <3>1. \/ f
          \/ ~Serve!hasFlags
      BY <1>1, <1>9
    <3>2. Serve!Enabled(host')
      BY <2>3 DEF Serve!Enabled
    <3>3. todo' # <<>> =>
            /\ todo' = Verbs(FALSE, f, r') /\ todo' # <<>>
            /\ f => Serve!hasFlags'
            /\ ~f /\ Serve!hasFlags' => host'.flags = unit'.flags
            /\ host'.running = prior'.running /\ host'.with = prior'.with
      BY <1>1, <1>2, <1>6, <2>1, <2>3, <3>1
    <3> QED
      BY <3>2, <3>3 DEF Providing, r, Serve!Enabled
  <2>6. todo' = <<>> => Serve!ServiceAsDeclared'
    <3>1. todo' = <<>> => f = FALSE /\ r = ""
      BY <2>1, VerbsEmpty
    <3> QED
      BY <1>1, <1>8, <1>9, <2>3, <3>1 DEF Serve!Enabled
  <2> QED
    BY <1>2, <1>4, <1>5, <2>4, <2>5, <2>6 DEF ServiceInv, Serve!ServiceAsDeclared
<1>10. CASE ~e /\ f
  <2>1. Head(todo) = "flags" /\ todo' = Verbs(FALSE, FALSE, r)
    <3>1. todo = Verbs(FALSE, TRUE, r)
      BY <1>1, <1>10
    <3> QED
      BY <3>1, <1>2, VerbsOrdered
  <2>2. host' = [host EXCEPT !.flags = unit.flags]
    BY <1>2, <2>1 DEF Serve!Run
  <2>3. /\ host'.flags = unit.flags /\ Serve!IsHost(host') /\ host'.state = host.state
        /\ host'.running = host.running /\ host'.with = host.with
    BY <1>3, <2>2 DEF Serve!IsHost
  <2>4. ServiceTypes'
    BY <1>2, <1>3, <1>4, <2>3 DEF ServiceTypes, Serve!IsHost
  <2>5. Serve!Enabled(host')
    BY <1>1, <1>10, <2>3 DEF Serve!Enabled
  <2>6. todo' # <<>> => Providing'
    <3>1. todo' # <<>> =>
            /\ todo' = Verbs(FALSE, FALSE, r') /\ todo' # <<>>
            /\ Serve!hasFlags' => host'.flags = unit'.flags
            /\ host'.running = prior'.running /\ host'.with = prior'.with
      BY <1>1, <1>2, <1>6, <2>1, <2>3
    <3> QED
      BY <2>5, <3>1 DEF Providing, r, Serve!Enabled
  <2>7. todo' = <<>> => Serve!ServiceAsDeclared'
    <3>1. todo' = <<>> => r = ""
      BY <2>1, VerbsEmpty
    <3> QED
      BY <1>1, <1>8, <2>3, <2>5, <3>1
  <2> QED
    BY <1>2, <1>4, <1>5, <2>4, <2>6, <2>7 DEF ServiceInv, Serve!ServiceAsDeclared
<1>11. CASE ~e /\ ~f
  <2>1. r # "" /\ Head(todo) = r /\ todo' = <<>>
    <3>1. todo = Verbs(FALSE, FALSE, r)
      BY <1>1, <1>11
    <3>2. r # ""
      BY <1>1, <3>1, VerbsEmpty
    <3> QED
      BY <3>1, <3>2, <1>2, VerbsOrdered
  <2>2. /\ ~unit.enableOnly /\ r \in {"start", "reload", "restart"}
        /\ r = "start" <=> ~prior.running
        /\ r = "restart" => unit.restart /\ ~unit.reload
        /\ r = "reload" => unit.reload
    BY <1>3, <2>1 DEF r, Verb, ServiceTypes, Serve!IsHost
  <2>3. host' = IF r = "reload" THEN host ELSE [host EXCEPT !.running = TRUE, !.with = host.flags]
    BY <1>2, <2>1, <2>2 DEF Serve!Run
  <2>4. /\ Serve!IsHost(host') /\ host'.state = host.state /\ host'.flags = host.flags
        /\ IF r = "reload" THEN host'.running = host.running /\ host'.with = host.with
           ELSE host'.running = TRUE /\ host'.with = host.flags
    BY <1>3, <2>3 DEF Serve!IsHost
  <2>5. ServiceTypes'
    BY <1>2, <1>3, <1>4, <2>4 DEF ServiceTypes, Serve!IsHost
  <2>6. Serve!ServiceAsDeclared'
    BY <1>1, <1>2, <1>3, <1>11, <2>2, <2>4 DEF Serve!ServiceAsDeclared,
       Serve!Enabled, Serve!hasFlags, ServiceTypes, Serve!IsHost
  <2> QED
    BY <1>2, <1>4, <1>5, <2>1, <2>5, <2>6 DEF ServiceInv
<1> QED
  BY <1>9, <1>10, <1>11

\* The other steps.
LEMMA FailureKeeps ==
    ASSUME Serve!ConstantsOK, ServiceInv, Serve!ActFails
    PROVE  ServiceInv'
<1>1. /\ host' \in Serve!Broken(host, Head(todo)) /\ unitAt' = "error" /\ intact' = FALSE
      /\ unit' = unit /\ asked' = asked /\ prior' = prior
  BY DEF Serve!ActFails, Serve!End
<1>2. ServiceTypes
  BY DEF ServiceInv
<1>3. Serve!IsHost(host')
  BY <1>1, <1>2 DEF ServiceTypes, Serve!IsHost, Serve!Broken
<1> QED
  BY <1>1, <1>2, <1>3 DEF ServiceInv, ServiceTypes, Serve!IsHost,
   Serve!ServiceAsDeclared, Serve!SecondApplyIdle

LEMMA RestKeeps ==
    ASSUME Serve!ConstantsOK, ServiceInv, Serve!Rest
    PROVE  ServiceInv'
<1>1. /\ unitAt = "ok" /\ unitAt' = "idle" /\ intact' \in BOOLEAN
      /\ intact' => host' = host
      /\ host' = host \/ host' \in ServiceHosts
      /\ unit' = unit /\ asked' = asked /\ prior' = prior
  BY DEF Serve!Rest
<1>2. ServiceTypes /\ Converged(host)
  BY <1>1, AsDeclaredConverged DEF ServiceInv
<1>3. Serve!IsHost(host')
  BY <1>1, <1>2 DEF ServiceTypes, Serve!ConstantsOK, Serve!IsHost
<1>4. intact' => Converged(host)'
  BY <1>1, <1>2 DEF Converged, Serve!Enabled, Serve!hasFlags
<1> QED
  BY <1>1, <1>2, <1>3, <1>4 DEF ServiceInv, ServiceTypes, Serve!IsHost,
   Serve!ServiceAsDeclared, Serve!SecondApplyIdle

LEMMA ServiceKeeps == ASSUME Serve!ConstantsOK, ServiceInv, Serve!Next PROVE ServiceInv'
<1>1. CASE Serve!Act
  BY <1>1, RemoveKeeps, ProvideKeeps DEF Serve!Act
<1> QED
  BY <1>1, ApplyKeeps, FailureKeeps, RestKeeps DEF Serve!Next

LEMMA ServiceRests == ASSUME ServiceInv, UNCHANGED Serve!vars PROVE ServiceInv'
<1>1. /\ unit' = unit /\ host' = host /\ asked' = asked /\ todo' = todo /\ unitAt' = unitAt
      /\ prior' = prior /\ acted' = acted /\ intact' = intact
  BY DEF Serve!vars
<1>2. ServiceTypes' /\ Serve!ServiceAsDeclared' /\ Serve!SecondApplyIdle' /\ Asked' = Asked
  BY <1>1 DEF ServiceInv, ServiceTypes, IsDeclared, Serve!Refused, Serve!Unsupported, Asked,
     Serve!ServiceAsDeclared, Serve!SecondApplyIdle, Serve!hasFlags
<1>3. Removing' = Removing
  BY <1>1 DEF Removing
<1>4. Providing' = Providing
  BY <1>1 DEF Providing, Serve!Enabled, Serve!hasFlags, Verb, Serve!flagsUpdate, Serve!Holds
<1>5. Converged(host)' = Converged(host)
  BY <1>1 DEF Converged, Serve!Enabled, Serve!hasFlags
<1> QED
  BY <1>1, <1>2, <1>3, <1>4, <1>5 DEF ServiceInv

LEMMA ServicesHold == ServiceInv => Serve!ServiceAsDeclared /\ Serve!SecondApplyIdle
BY DEF ServiceInv
=============================================================================
