------------------------------ MODULE FileDecl ------------------------------
(***************************************************************************)
(* From a recipe's File declaration to the file applied on a destination   *)
(* (resource/file): the options are collected and checked, the resource is *)
(* lowered to a plan op, the op's bytes travel, and the destination's      *)
(* handler rebuilds a file from the op.  Everything the apply depends on   *)
(* has to survive that way, or be refused.                                 *)
(*                                                                         *)
(* An option call is a name out of Names, and takes effect on the file     *)
(* being built when it is made.  A path is [tmpl, abs]: whether it ends in *)
(* ".tmpl" and whether it is absolute.                                     *)
(***************************************************************************)
EXTENDS Naturals

CONSTANTS
    Constructors,   \* of "Present", "PresentEnsure", "PresentSecret", "Absent", "NewTarget"
    Paths,
    Names,          \* option calls
    MaxOptions      \* bound on the calls of one declaration

VARIABLES
    ctor, path,
    calls,          \* option calls made
    file,           \* the file they build
    probe,          \* what they build without the constructor's own content
    op,             \* the recorded op, or Nothing
    applied,        \* the file the destination's handler built, or Nothing
    at              \* "building", "refused", "declared", "recorded", "failed", "applied"

vars == <<ctor, path, calls, file, probe, op, applied, at>>

Nothing == [none |-> TRUE]

(***************************************************************************)
(* Options                                                                 *)
(***************************************************************************)
Bare(p) ==
    [path |-> p, content |-> "", source |-> "", contentSet |-> FALSE, param |-> "",
     template |-> FALSE, data |-> "", lines |-> FALSE, absent |-> FALSE, mode |-> "default",
     modeSet |-> FALSE, owner |-> "", check |-> "", args |-> 0, checkSet |-> FALSE,
     sensitive |-> FALSE, name |-> "", preserve |-> FALSE, misuse |-> FALSE]

SetContent(f, c) == [f EXCEPT !.content = c, !.source = "", !.contentSet = TRUE]
SetSource(f, s) == [f EXCEPT !.source = s, !.content = "", !.contentSet = TRUE]
SetTemplateData(f, d) == [f EXCEPT !.data = d, !.template = TRUE]
SetValidation(f, bin, n) == [f EXCEPT !.check = bin, !.args = n, !.checkSet = TRUE]

Option(f, call) ==
    CASE call = "content" -> SetContent(f, "text")
      [] call = "empty" -> SetContent(f, "")
      [] call = "source" -> SetSource(f, "src")
      [] call = "tmplSource" -> SetSource(f, "src.tmpl")
      [] call = "param" -> [f EXCEPT !.param = "given"]
      [] call = "template" -> [f EXCEPT !.template = TRUE]
      [] call = "data" -> SetTemplateData(f, "json")
      [] call = "badData" -> SetTemplateData(f, "invalid")
      [] call = "validation" -> SetValidation(f, "checker", 1)
      [] call = "badValidation" -> SetValidation(f, "checker", 0)
      [] call = "line" -> [f EXCEPT !.lines = TRUE]
      [] call = "absent" -> [f EXCEPT !.absent = TRUE]
      [] call = "mode" -> [f EXCEPT !.mode = "set", !.modeSet = TRUE]
      [] call = "owner" -> [f EXCEPT !.owner = "svc"]
      [] call = "sensitive" -> [f EXCEPT !.sensitive = TRUE]
      [] call = "name" -> [f EXCEPT !.name = "id"]
      [] OTHER -> [f EXCEPT !.misuse = TRUE]

shouldRenderTemplate(f) == f.template \/ f.path.tmpl \/ f.source = "src.tmpl"

\* A ".tmpl" source strips the suffix off the path it is written to.
targetPath(f) == IF f.source = "src.tmpl" THEN [f.path EXCEPT !.tmpl = FALSE] ELSE f.path

templateParam(f) ==
    CASE f.param # "" -> f.param [] f.param = "" /\ f.source # "" -> f.source [] OTHER -> f.content

validateConfiguration(f) ==
    f.checkSet => /\ f.check # "" /\ ~f.absent /\ ~f.lines /\ f.contentSet
                  /\ targetPath(f).abs /\ f.args = 1

\* The checks every file passes (line edits have their own, FileEdit).
Valid(f) == ~f.misuse /\ ~(f.lines /\ f.contentSet) /\ validateConfiguration(f)

(***************************************************************************)
(* Constructors                                                            *)
(***************************************************************************)
\* What a constructor starts from.
First(c, p) == IF c = "PresentSecret" THEN SetContent(Bare(p), "secret") ELSE Bare(p)

buildSecret(f) ==
    [f EXCEPT !.sensitive = TRUE, !.mode = IF f.modeSet THEN @ ELSE "private"]

SecretAllowed(f) ==
    ~(f.contentSet \/ shouldRenderTemplate(f) \/ f.lines \/ f.absent)

PreserveAllowed(f) == ~(f.contentSet \/ f.lines \/ f.absent \/ f.checkSet)
TargetAllowed(f) == PreserveAllowed(f) /\ ~f.template

Construct(c, f) ==
    CASE c = "PresentEnsure" -> [f EXCEPT !.preserve = TRUE]
      [] c = "PresentSecret" -> buildSecret(f)
      [] c = "Absent" -> Option(f, "absent")
      [] OTHER -> f

\* Whether the constructor takes the file f and the probe g.
Accepted(c, f, g) ==
    /\ Valid(Construct(c, f))
    /\ c = "PresentEnsure" => PreserveAllowed(f)
    /\ c = "PresentSecret" => SecretAllowed(g)
    /\ c = "NewTarget" => TargetAllowed(f)

(***************************************************************************)
(* The op                                                                  *)
(***************************************************************************)
\* The bytes of the content: literal, or read from the source as it is.
Bytes(f) == IF f.source # "" THEN f.source ELSE f.content

\* Mutant: only the suffixes say that the bytes are a template.
TemplateBySuffix(f) ==
    [template |-> FALSE, param |-> "", data |-> f.data]

templateDraft(f) ==
    [template |-> shouldRenderTemplate(f),
     param |-> IF shouldRenderTemplate(f) THEN templateParam(f) ELSE "", data |-> f.data]

planDraft(f) ==
    [kind |-> IF f.preserve THEN "ensure_file" ELSE "file", path |-> targetPath(f),
     bytes |-> IF f.contentSet THEN Bytes(f) ELSE "", hasContent |-> f.contentSet,
     tmpl |-> templateDraft(f), lines |-> f.lines, absent |-> f.absent /\ ~f.preserve,
     mode |-> IF f.preserve /\ ~f.modeSet THEN "" ELSE f.mode,
     owner |-> IF f.absent THEN "" ELSE f.owner, check |-> f.check, args |-> f.args,
     sensitive |-> f.sensitive, name |-> f.name]

\* Template data that is no JSON fails the lowering.
Lowers(f) == f.data # "invalid"

(***************************************************************************)
(* The destination                                                         *)
(***************************************************************************)
validatePlanValidation(o) ==
    validateConfiguration([Bare(o.path) EXCEPT !.check = o.check, !.args = o.args,
        !.checkSet = o.check # "" \/ o.args # 0, !.absent = o.absent, !.lines = o.lines,
        !.contentSet = o.hasContent])

\* An op without content, blob or the mark of an empty content is refused.
fileContent(o) == o.bytes # "" \/ o.hasContent

contentOptions(o) ==
    LET f == [SetContent(Bare(o.path), o.bytes) EXCEPT !.name = o.name, !.owner = o.owner,
                 !.mode = o.mode, !.modeSet = TRUE, !.sensitive = o.sensitive, !.template = o.tmpl.template,
                 !.param = IF o.tmpl.template THEN o.tmpl.param ELSE ""]
        g == IF o.check # "" \/ o.args # 0 THEN SetValidation(f, o.check, o.args) ELSE f
    IN IF o.tmpl.data # "" THEN SetTemplateData(g, o.tmpl.data) ELSE g

lineOptions(o) ==
    [Bare(o.path) EXCEPT !.lines = TRUE, !.name = o.name, !.owner = o.owner, !.mode = o.mode, !.modeSet = TRUE]

ensureOptions(o) ==
    [Bare(o.path) EXCEPT !.preserve = TRUE, !.name = o.name, !.owner = o.owner,
        !.mode = IF o.mode = "" THEN "default" ELSE o.mode, !.modeSet = o.mode # ""]

\* The handlers of "file" and "ensure_file": what they refuse, and the file
\* they build.
Refuses(o) ==
    /\ o.kind = "file"
    /\ ~validatePlanValidation(o) \/ (~o.absent /\ ~o.lines /\ ~fileContent(o))

Apply(o) ==
    CASE o.kind = "ensure_file" -> ensureOptions(o)
      [] o.kind = "file" /\ o.absent -> [Bare(o.path) EXCEPT !.absent = TRUE, !.name = o.name]
      [] o.kind = "file" /\ ~o.absent /\ o.lines -> lineOptions(o)
      [] OTHER -> contentOptions(o)

(***************************************************************************)
(* The specification                                                       *)
(***************************************************************************)
Init ==
    /\ ctor \in Constructors /\ path \in Paths
    /\ calls = 0 /\ file = First(ctor, path) /\ probe = Bare(path)
    /\ op = Nothing /\ applied = Nothing /\ at = "building"

Call(name) ==
    /\ at = "building" /\ calls < MaxOptions
    /\ calls' = calls + 1
    /\ file' = Option(file, name) /\ probe' = Option(probe, name)
    /\ UNCHANGED <<ctor, path, op, applied, at>>

\* A refused declaration registers nothing and records no draft.
Declare ==
    /\ at = "building"
    /\ IF Accepted(ctor, file, probe)
       THEN file' = Construct(ctor, file) /\ at' = "declared"
       ELSE at' = "refused" /\ UNCHANGED file
    /\ UNCHANGED <<ctor, path, calls, probe, op, applied>>

\* A publication target is not a resource: it is never recorded.
ToOp ==
    /\ at = "declared" /\ ctor # "NewTarget"
    /\ IF Lowers(file) THEN op' = planDraft(file) /\ at' = "recorded"
       ELSE at' = "failed" /\ UNCHANGED op
    /\ UNCHANGED <<ctor, path, calls, file, probe, applied>>

Handle ==
    /\ at = "recorded"
    /\ IF Refuses(op) \/ ~Valid(Apply(op))
       THEN at' = "failed" /\ UNCHANGED applied
       ELSE at' = "applied" /\ applied' = Apply(op)
    /\ UNCHANGED <<ctor, path, calls, file, probe, op>>

Next == (\E name \in Names : Call(name)) \/ Declare \/ ToOp \/ Handle

Spec == Init /\ [][Next]_vars

(***************************************************************************)
(* Properties                                                              *)
(***************************************************************************)
\* What an apply of the file does to the destination.
Effect(f) ==
    IF f.absent THEN [does |-> "remove", path |-> targetPath(f)]
      ELSE IF f.preserve THEN [does |-> "ensure", path |-> targetPath(f), owner |-> f.owner,
                        mode |-> IF f.modeSet THEN f.mode ELSE ""]
      ELSE IF f.lines THEN [does |-> "edit", path |-> f.path, owner |-> f.owner, mode |-> f.mode]
      ELSE [does |-> "write", path |-> targetPath(f), owner |-> f.owner, mode |-> f.mode,
                   bytes |-> Bytes(f), renders |-> shouldRenderTemplate(f),
                   param |-> IF shouldRenderTemplate(f) THEN templateParam(f) ELSE "",
                   data |-> IF shouldRenderTemplate(f) THEN f.data ELSE "",
                   check |-> f.check, hides |-> f.sensitive]

\* The destination does exactly what the declared file does when applied
\* directly ("mirroring the resource's own content/template/line-edit/mode/
\* ownership handling exactly", resource/file/planwire.go), under the same
\* report name; a secret never travels unmarked and a validator never gets
\* lost.  Only a file without content or template data without an encoding
\* is refused on the way.
PlanMirrorsFile ==
    /\ at = "applied" => Effect(applied) = Effect(file) /\ applied.name = file.name
    /\ at = "failed" => file.data = "invalid" \/ (~file.contentSet /\ Effect(file).does = "write")
    /\ (at = "applied" /\ ctor = "PresentSecret") => applied.sensitive /\ Bytes(applied) = "secret"
    /\ (at = "applied" /\ file.checkSet) => applied.checkSet /\ applied.args = 1
=============================================================================
