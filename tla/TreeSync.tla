------------------------------ MODULE TreeSync ------------------------------
(***************************************************************************)
(* The directory resource (resource/dir, internal/sourceexclude): a source *)
(* tree or glob copied into a destination directory, entry by entry in the *)
(* order of the walk, and what has no counterpart pruned; plain, absent    *)
(* and ensure_dir directories.  A run can be killed between two entries    *)
(* and is repeated.                                                        *)
(*                                                                         *)
(* A path is a sequence of names below the root, << >> the root itself.    *)
(* A tree maps paths to entries: [kind |-> "dir"], [kind |-> "file", data]  *)
(* or [kind |-> "link", to].  Render maps the names ending in .tmpl to     *)
(* the name they are written under.  The data of a rendered template holds *)
(* the path it was rendered for (its {{.Param}}).                          *)
(***************************************************************************)
EXTENDS Naturals, Sequences, SequencesExt, FiniteSets

CONSTANTS
    Sources,    \* source trees
    Dests,      \* destination trees to start from; << >> is the root's entry
    Decls,      \* declarations: [op, prune, hits, via]
    Walk,       \* the paths of every tree, in the order of a walk
    Render,     \* names ending in .tmpl -> the name they are rendered to
    Backup,     \* names -> the name with .old
    MaxRuns     \* bound on runs

VARIABLES
    decl,       \* op: "tree", "glob", "dir", "absent" or "ensure"; hits: the paths some
                \* exclusion pattern matches; via: "direct", "plan" or "oldplan"
    source, dest,
    start,      \* the destination when the run started
    foreseen,   \* the dry run before it: [err, notes]
    todo,       \* source paths still to copy
    notes,      \* paths noted as changed
    settled,    \* the last run ended well
    quiet,      \* so had the run before this one
    pc, runs

vars == <<decl, source, dest, start, foreseen, todo, notes, settled, quiet, pc, runs>>

Dir == [kind |-> "dir"]
File(data) == [kind |-> "file", data |-> data]
SymLink(to) == [kind |-> "link", to |-> to]

Has(tree, p) == p \in DOMAIN tree
KindOf(tree, p) == IF Has(tree, p) THEN tree[p].kind ELSE "none"
Put(tree, p, e) == [q \in DOMAIN tree \cup {p} |-> IF q = p THEN e ELSE tree[q]]
Below(p, q) == IsPrefix(p, q)
Without(tree, p) == [q \in {r \in DOMAIN tree : ~Below(p, r)} |-> tree[q]]

Templated(p) == p # << >> /\ Last(p) \in DOMAIN Render
Strip(p) == IF Templated(p) THEN Append(Front(p), Render[Last(p)]) ELSE p
Unstripped(p) == {q \in Range(Walk) : Templated(q) /\ Strip(q) = p}

(***************************************************************************)
(* Exclusions                                                              *)
(***************************************************************************)
\* A pattern matches the path or an ancestor of it, as it is or rendered.
Matches(hits, p) ==
    \E n \in 1..Len(p) : LET a == SubSeq(p, 1, n) IN a \in hits \/ Strip(a) \in hits

excluded(p) == Matches(decl.hits, p)

protected(p) == excluded(p) \/ \E q \in Unstripped(p) : excluded(q)

(***************************************************************************)
(* Where the source comes from                                             *)
(***************************************************************************)
\* A glob match counts if it is a file or leads to one.
GlobMatchCounts(tree, p) ==
    \/ KindOf(tree, p) = "file"
    \/ KindOf(tree, p) = "link" /\ KindOf(tree, tree[p].to) = "file"

\* What is packaged for a plan: no excluded entry; a glob's matches flat,
\* read through.
Packaged ==
    IF decl.op = "glob"
    THEN [p \in {q \in DOMAIN source : Len(q) = 1 /\ GlobMatchCounts(source, q) /\ ~excluded(q)} |->
             IF source[p].kind = "link" THEN source[source[p].to] ELSE source[p]]
    ELSE [p \in {q \in DOMAIN source : ~excluded(q)} |-> source[p]]

\* A glob operation of a plan recorded before the glob field is a tree sync.
Flavour == IF decl.op = "glob" /\ decl.via = "oldplan" THEN "tree" ELSE decl.op

From == IF decl.via = "direct" THEN source ELSE Packaged

Matched(tree) == {p \in DOMAIN tree : Len(p) = 1}

\* A blob that holds entries of which none counts is refused.
syncDirGlobGuard(tree) ==
    DOMAIN tree # {} => \E p \in Matched(tree) : GlobMatchCounts(tree, p)

(***************************************************************************)
(* One entry.  A step takes and returns [tree, notes, err].                *)
(***************************************************************************)
Refuse(s) == [s EXCEPT !.err = TRUE]
Note(s, p) == [s EXCEPT !.notes = @ \cup {p}]
Write(s, p, e, dry) == IF dry THEN Note(s, p) ELSE [Note(s, p) EXCEPT !.tree = Put(@, p, e)]

\* Every run unpacks its blobs to a directory of its own.
Unpacked(dry) == IF dry THEN runs + 1 ELSE runs

\* A plan renders for the declared directory; before schema 6 it carried
\* none and rendered for the directory the run's blob was unpacked to.
TemplateParam(p, dry) == <<IF decl.via = "oldplan" THEN Unpacked(dry) ELSE 0, p>>

Content(tree, p, dry) ==
    LET data == (IF tree[p].kind = "link" THEN tree[tree[p].to] ELSE tree[p]).data
    IN IF Templated(p) THEN <<data, TemplateParam(p, dry)>> ELSE <<data>>

\* A directory is in the way of the rename; a dry run only notes the change.
copySourceFile(s, tree, p, dry) ==
    LET target == Strip(p)
    IN CASE KindOf(s.tree, target) = "dir" -> IF dry THEN Note(s, target) ELSE Refuse(s)
         [] KindOf(s.tree, target) = "file" /\ s.tree[target] = File(Content(tree, p, dry)) -> s
         [] OTHER -> Write(s, target, File(Content(tree, p, dry)), dry)

copySourceDir(s, p, dry) ==
    CASE KindOf(s.tree, p) = "dir" -> s
      [] KindOf(s.tree, p) = "none" -> Write(s, p, Dir, dry)
      [] OTHER -> Refuse(s)

Aside(p) == Append(Front(p), Backup[Last(p)])

\* Whether a link's target exists, symlinks followed.
Leads(tree, to) ==
    \/ KindOf(tree, to) \in {"file", "dir"}
    \/ KindOf(tree, to) = "link" /\ KindOf(tree, tree[to].to) \in {"file", "dir"}

\* Mutant: the dry run asks the destination too.
AskTheDestination(s, tree, p, dry) ==
    LET to == tree[p].to
    IN IF ~Leads(s.tree, to) THEN Refuse(s)
         ELSE IF KindOf(s.tree, p) = "link" /\ s.tree[p].to = to THEN s
         ELSE IF KindOf(s.tree, p) \in {"file", "dir"} /\ ~dry /\ Has(s.tree, Aside(p)) THEN Refuse(s)
         ELSE Write(s, p, SymLink(to), dry)

\* link.Ensure on the destination; a dry run asks the source instead
\* whether the target exists, and does not look for a stale backup.
copySourceSymlink(s, tree, p, dry) ==
    LET to == tree[p].to
    IN IF dry /\ ~Has(tree, to) THEN Refuse(s)
         ELSE IF ~dry /\ ~Leads(s.tree, to) THEN Refuse(s)
         ELSE IF KindOf(s.tree, p) = "link" /\ s.tree[p].to = to THEN s
         ELSE IF KindOf(s.tree, p) \in {"file", "dir"} /\ ~dry /\ Has(s.tree, Aside(p)) THEN Refuse(s)
         ELSE Write(s, p, SymLink(to), dry)

copyEntry(s, tree, p, dry) ==
    IF s.err \/ excluded(p) THEN s
      ELSE IF Flavour = "glob" THEN IF GlobMatchCounts(tree, p) THEN copySourceFile(s, tree, p, dry) ELSE s
      ELSE IF tree[p].kind = "link" THEN copySourceSymlink(s, tree, p, dry)
      ELSE IF tree[p].kind = "dir" THEN copySourceDir(s, p, dry)
      ELSE copySourceFile(s, tree, p, dry)

Copied(tree) ==
    SelectSeq(Walk, LAMBDA p : Has(tree, p) /\ p # << >> /\ (Flavour = "glob" => Len(p) = 1))

(***************************************************************************)
(* Pruning                                                                 *)
(***************************************************************************)
sourceEntryExists(tree, p) == Has(tree, p) \/ \E q \in Unstripped(p) : Has(tree, q)

\* A protected entry keeps the directories it is in.
HoldsProtected(tree, p) == \E q \in DOMAIN tree : q # p /\ Below(p, q) /\ protected(q)

pruneTree(tree, from) ==
    {p \in DOMAIN tree \ {<< >>} :
        ~protected(p) /\ ~HoldsProtected(tree, p) /\ ~sourceEntryExists(from, p)}

KeepBasename(from) ==
    {Strip(p) : p \in {q \in Matched(from) : GlobMatchCounts(from, q) /\ ~excluded(q)}}

pruneGlob(tree, from) ==
    {p \in DOMAIN tree : Len(p) = 1 /\ tree[p].kind = "file" /\ ~protected(p)} \ KeepBasename(from)

Stale(tree, from) ==
    IF ~decl.prune THEN {}
      ELSE IF Flavour = "tree" THEN pruneTree(tree, from)
      ELSE IF Flavour = "glob" THEN pruneGlob(tree, from)
      ELSE {}

(***************************************************************************)
(* A dry run                                                               *)
(***************************************************************************)
ensureDirectorySelf(s, dry) ==
    CASE KindOf(s.tree, << >>) = "dir" -> s
      [] KindOf(s.tree, << >>) = "none" -> Write(s, << >>, Dir, dry)
      [] OTHER -> Refuse(s)

\* A directory with entries is removed only with prune.
RemoveFails(tree) == ~decl.prune /\ DOMAIN tree # {<< >>}

GuardFails(from) == decl.via = "plan" /\ Flavour = "glob" /\ ~syncDirGlobGuard(from)

\* An existing directory, or a symlink to one, satisfies ensure_dir as it is.
EnsureSatisfied(tree) == KindOf(tree, << >>) \in {"dir", "link"}

Fresh(tree) == [tree |-> tree, notes |-> {}, err |-> FALSE]

DryRun(tree, from) ==
    LET self == ensureDirectorySelf(Fresh(tree), TRUE)
        copied == FoldLeft(LAMBDA s, p : copyEntry(s, from, p, TRUE), self, Copied(from))
    IN IF decl.op = "absent" THEN IF Has(tree, << >>) THEN Note(Fresh(tree), << >>) ELSE Fresh(tree)
         ELSE IF decl.op = "ensure" THEN IF EnsureSatisfied(tree) THEN Fresh(tree) ELSE self
         ELSE IF GuardFails(from) THEN Refuse(Fresh(tree))
         ELSE IF decl.op = "dir" \/ self.err THEN self
         ELSE IF copied.err \/ ~Has(tree, << >>) THEN copied
         ELSE [copied EXCEPT !.notes = @ \cup Stale(tree, from)]

(***************************************************************************)
(* The runs                                                                *)
(***************************************************************************)
Init ==
    /\ decl \in Decls /\ source \in Sources /\ dest \in Dests
    /\ start = dest /\ foreseen = [err |-> FALSE, notes |-> {}] /\ todo = <<>> /\ notes = {}
    /\ settled = FALSE /\ quiet = FALSE /\ pc = "idle" /\ runs = 0

Take(s) == dest' = s.tree /\ notes' = s.notes

Current == [tree |-> dest, notes |-> notes, err |-> FALSE]

Finish(ok) == pc' = (IF ok THEN "done" ELSE "failed") /\ settled' = ok

Start ==
    /\ pc = "idle" /\ runs < MaxRuns
    /\ runs' = runs + 1
    /\ start' = dest /\ notes' = {}
    /\ LET s == DryRun(dest, From) IN foreseen' = [err |-> s.err, notes |-> s.notes]
    /\ quiet' = settled /\ settled' = FALSE
    /\ pc' = "self"
    /\ UNCHANGED <<decl, source, dest, todo>>

\* The root; a plan's glob blob is checked first.
Self ==
    /\ pc = "self" /\ decl.op \notin {"absent"}
    /\ LET s == ensureDirectorySelf(Current, FALSE)
       IN IF (decl.op = "ensure" /\ EnsureSatisfied(dest)) \/ GuardFails(From)
          THEN Finish(~GuardFails(From)) /\ UNCHANGED <<dest, notes, todo>>
          ELSE /\ Take(s)
               /\ IF s.err \/ decl.op \in {"dir", "ensure"}
                  THEN Finish(~s.err) /\ UNCHANGED todo
                  ELSE pc' = "copy" /\ todo' = Copied(From) /\ UNCHANGED settled
    /\ UNCHANGED <<decl, source, start, foreseen, quiet, runs>>

Copy ==
    /\ pc = "copy" /\ todo # <<>>
    /\ LET s == copyEntry(Current, From, Head(todo), FALSE)
       IN /\ Take(s)
          /\ IF s.err THEN Finish(FALSE) ELSE UNCHANGED <<pc, settled>>
    /\ todo' = Tail(todo)
    /\ UNCHANGED <<decl, source, start, foreseen, quiet, runs>>

CopyDone ==
    /\ pc = "copy" /\ todo = <<>>
    /\ pc' = "prune"
    /\ UNCHANGED <<decl, source, dest, start, foreseen, todo, notes, settled, quiet, runs>>

\* A stale directory goes with all it holds, or bottom up where an exclusion
\* could protect something in it.
Prune ==
    /\ pc = "prune"
    /\ \E p \in Stale(dest, From) :
           /\ IF decl.hits = {} THEN \A q \in Stale(dest, From) : q # p => ~Below(q, p)
              ELSE \A q \in Stale(dest, From) : q # p => ~Below(p, q)
           /\ dest' = Without(dest, p)
           /\ notes' = notes \cup {p}
    /\ UNCHANGED <<decl, source, start, foreseen, todo, settled, quiet, pc, runs>>

PruneDone ==
    /\ pc = "prune" /\ Stale(dest, From) = {}
    /\ Finish(TRUE)
    /\ UNCHANGED <<decl, source, dest, start, foreseen, todo, notes, quiet, runs>>

ensureAbsent ==
    /\ pc = "self" /\ decl.op = "absent"
    /\ IF Has(dest, << >>) /\ RemoveFails(dest)
       THEN Finish(FALSE) /\ UNCHANGED <<dest, notes>>
       ELSE /\ Finish(TRUE)
            /\ dest' = [p \in {} |-> Dir]
            /\ notes' = IF Has(dest, << >>) THEN {<< >>} ELSE {}
    /\ UNCHANGED <<decl, source, start, foreseen, todo, quiet, runs>>

Kill ==
    /\ pc \in {"self", "copy", "prune"}
    /\ pc' = "killed"
    /\ UNCHANGED <<decl, source, dest, start, foreseen, todo, notes, settled, quiet, runs>>

Again ==
    /\ pc \in {"done", "failed", "killed"} /\ runs < MaxRuns
    /\ pc' = "idle"
    /\ UNCHANGED <<decl, source, dest, start, foreseen, todo, notes, settled, quiet, runs>>

Next ==
    Start \/ Self \/ Copy \/ CopyDone \/ Prune \/ PruneDone \/ ensureAbsent \/ Kill \/ Again

Spec == Init /\ [][Next]_vars

(***************************************************************************)
(* Properties                                                              *)
(***************************************************************************)
Syncs == decl.op \in {"tree", "glob"}

\* Some pattern names the path or a directory it is in, as it is or rendered.
Named(p) == \E h \in decl.hits : Below(h, p) \/ Below(h, Strip(p))

\* The links of the source lead to entries of the source that are copied.
SelfContained ==
    \A p \in DOMAIN source :
        source[p].kind = "link" => Has(source, source[p].to) /\ ~Named(source[p].to)

WrittenTo(p) == \E q \in DOMAIN source : Strip(q) = p /\ ~Named(q)

LeftAlone(p) == ~WrittenTo(p) /\ \E q \in {p} \cup Unstripped(p) : Named(q)

\* After a run that ended well every source entry that is not excluded is at
\* the destination, with prune nothing else is, and the run after it has
\* nothing to do and does not fail, through a plan as well as directly
\* (dir.copySourceFile: a parameter that changes with every run would flap).
\* Plans recorded before schema 6 are left out, as they do flap.
SyncSettles ==
    /\ (pc = "done" /\ decl.op = "tree") =>
           /\ \A p \in DOMAIN source \ {<< >>} : Named(p) \/ KindOf(dest, Strip(p)) = source[p].kind
           /\ decl.prune => \A p \in DOMAIN dest \ {<< >>} :
                  \/ Has(source, p) \/ WrittenTo(p)
                  \/ \E q \in DOMAIN dest : Below(p, q) /\ LeftAlone(q)
    /\ (pc = "done" /\ decl.op = "absent") => dest = [p \in {} |-> Dir]
    /\ (quiet /\ SelfContained /\ decl.via # "oldplan") => notes = {} /\ pc # "failed"

\* A sync never touches an excluded path, at any depth; without prune nothing
\* but the paths it writes; a glob sync never a directory, a symlink or
\* anything in a directory.  Stopping halfway does not change that.
OthersKept ==
    \A p \in DOMAIN start :
        \/ decl.op = "absent"
        \/ Has(dest, p) /\ dest[p] = start[p]
        \/ /\ Syncs /\ ~LeftAlone(p)
           /\ decl.prune \/ WrittenTo(p)
           /\ Flavour = "glob" => WrittenTo(p) \/ (Len(p) = 1 /\ start[p].kind = "file")

\* A run that ended well was foreseen by the dry run before it: the same
\* changes, but for what is inside a removed directory.
PreviewHolds ==
    (pc = "done" /\ SelfContained) =>
        /\ ~foreseen.err
        /\ notes \subseteq foreseen.notes
        /\ \A p \in foreseen.notes : \E q \in notes : Below(q, p)

\* A source link whose target the source does not have is refused by the dry
\* run and the apply alike, "identical in both modes" (resource/dir/source.go).
PreviewRefusalStands == pc = "done" => ~foreseen.err
=============================================================================
