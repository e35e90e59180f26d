----------------------------- MODULE Resources ------------------------------
(***************************************************************************)
(* The modules about single resources as one: a behaviour is one of        *)
(* FileWrite, FileEdit, FileDecl, TreeSync, LinkApply, ServiceConverge,    *)
(* RcConf or RedactStream, as part says.  FileWrite has its own variables, *)
(* which stay as they are in the others; those of the others are the first *)
(* of x.                                                                   *)
(***************************************************************************)
EXTENDS FileWrite, Sequences

CONSTANTS
    \* FileEdit
    EditFiles, EditCalls, EditOwns, EditOverlap, MaxEdits,
    \* FileDecl
    Constructors, DeclPaths, DeclNames, MaxOptions,
    \* TreeSync
    SyncSources, SyncDests, SyncDecls, Walk, Render, Backup,
    \* LinkApply
    LinkWorlds, Links, Plants,
    \* ServiceConverge
    ServiceDecls, ServiceHosts, NoFlags, MaxApplies, MaxFails,
    \* RcConf
    RcCases, RcValues,
    \* RedactStream
    Characters, NL, Families, MinContainedLen, MinStrongLen, MaxSplitGuard, MaxWrite

VARIABLES part, x1, x2, x3, x4, x5, x6, x7, x8, x9, x10, x11

Edit == INSTANCE FileEdit WITH
    Files <- EditFiles, Calls <- EditCalls, MaxCalls <- MaxEdits, Owns <- EditOwns,
    Overlap <- EditOverlap,
    calls <- x1, edits <- x2, disk <- x3, read <- x4, at <- x5

Decl == INSTANCE FileDecl WITH
    Paths <- DeclPaths, Names <- DeclNames,
    ctor <- x1, path <- x2, calls <- x3, file <- x4, probe <- x5, op <- x6, applied <- x7,
    at <- x8

Sync == INSTANCE TreeSync WITH
    Sources <- SyncSources, Dests <- SyncDests, Decls <- SyncDecls,
    decl <- x1, source <- x2, dest <- x3, start <- x4, foreseen <- x5, todo <- x6, notes <- x7,
    settled <- x8, quiet <- x9, pc <- x10, runs <- x11

Link == INSTANCE LinkApply WITH
    Worlds <- LinkWorlds,
    link <- x1, fs <- x2, doomed <- x3, foreign <- x4, foreseen <- x5, calm <- x6, real <- x7,
    note <- x8, pc <- x9, runs <- x10

Service == INSTANCE ServiceConverge WITH
    Decls <- ServiceDecls, Hosts <- ServiceHosts,
    decl <- x1, host <- x2, changed <- x3, todo <- x4, note <- x5, pc <- x6, applies <- x7,
    fails <- x8, start <- x9, acted <- x10, calm <- x11

Rc == INSTANCE RcConf WITH
    Cases <- RcCases, Values <- RcValues,
    rcConf <- x1, override <- x2, defaults <- x3, sep <- x4, want <- x5, enabled <- x6, pc <- x7,
    before <- x8

Redact == INSTANCE RedactStream WITH
    family <- x1, forms <- x2, pending <- x3, relay <- x4, begun <- x5, leaked <- x6

\* What the proofs assume of the constants.
ASSUME WriteConstants == ConstantsOK
ASSUME LinkConstants == Link!ConstantsOK
ASSUME ServiceConstants == Service!ConstantsOK

(***************************************************************************)
(* The sum                                                                 *)
(***************************************************************************)
Unused(x) == x = "unused"
Unused11 == Unused(x11)
Unused9 == Unused(x9) /\ Unused(x10) /\ Unused11
Unused7 == Unused(x7) /\ Unused(x8) /\ Unused9
Unused6 == Unused(x6) /\ Unused7
Unused1 == Unused(x1) /\ Unused(x2) /\ Unused(x3) /\ Unused(x4) /\ Unused(x5) /\ Unused6

\* A file resource that rests.
Rests == Init /\ decl = (CHOOSE d \in Decls : TRUE) /\ path = NoEntry

SumInit ==
    \/ part = "write" /\ Init /\ Unused1
    \/ part = "edit" /\ Rests /\ Edit!Init /\ Unused6
    \/ part = "decl" /\ Rests /\ Decl!Init /\ Unused9
    \/ part = "sync" /\ Rests /\ Sync!Init
    \/ part = "link" /\ Rests /\ Link!Init /\ Unused11
    \/ part = "service" /\ Rests /\ Service!Init
    \/ part = "rc" /\ Rests /\ Rc!Init /\ Unused9
    \/ part = "redact" /\ Rests /\ Redact!Init /\ Unused7

xs == <<x1, x2, x3, x4, x5, x6, x7, x8, x9, x10, x11>>

From9 == <<x9, x10, x11>>
From7 == <<x7, x8, From9>>
From6 == <<x6, From7>>

SumNext ==
    \/ part = "write" /\ Next /\ UNCHANGED <<part, xs>>
    \/ part = "edit" /\ Edit!Next /\ UNCHANGED <<part, vars, From6>>
    \/ part = "decl" /\ Decl!Next /\ UNCHANGED <<part, vars, From9>>
    \/ part = "sync" /\ Sync!Next /\ UNCHANGED <<part, vars>>
    \/ part = "link" /\ Link!Next /\ UNCHANGED <<part, vars, x11>>
    \/ part = "service" /\ Service!Next /\ UNCHANGED <<part, vars>>
    \/ part = "rc" /\ Rc!Next /\ UNCHANGED <<part, vars, From9>>
    \/ part = "redact" /\ Redact!Next /\ UNCHANGED <<part, vars, From7>>

SumSpec == SumInit /\ [][SumNext]_<<part, vars, xs>>

-----------------------------------------------------------------------------
\* Resources converge: what was declared holds after one apply (a NetBSD
\* service starts with the flags declared), and a second one has nothing to
\* do (line edits, synced trees, services and timers).
AppliesSettle ==
    /\ part = "edit" => Edit!EditsSettle
    /\ part = "sync" => Sync!SyncSettles
    /\ part = "service" => Service!SecondApplyIdle
    /\ part = "rc" => Rc!FlagsTakeEffect

\* Resources share files and directories with others: lines, entries and
\* rc.conf statements nobody declared survive every apply, in order.
OthersKept ==
    /\ part = "edit" => Edit!OthersLinesKept
    /\ part = "sync" => Sync!OthersKept
    /\ part = "rc" => Rc!ForeignTextKept

\* What an apply reports is so: of a file, and of a service's state.
ReportsTrue ==
    /\ part = "write" => OutcomeTrue
    /\ part = "service" => Service!ServiceAsDeclared

\* The file a destination builds from a plan op does what the declared one
\* does (FileDecl).
PlanMirrorsFile == part = "decl" => Decl!PlanMirrorsFile

\* The dry run before a sync or a link foresees what the apply does
\* (TreeSync, LinkApply).
PreviewHolds == (part = "sync" => Sync!PreviewHolds) /\ (part = "link" => Link!DryRunHolds)

\* A source link without a target in the source is refused by the dry run
\* and the apply alike (TreeSync).
PreviewRefusalStands == part = "sync" => Sync!PreviewRefusalStands

\* An entry a link takes the place of is given up last (LinkApply).
DataKept == part = "link" => Link!DataKept

\* A link that was applied leads somewhere (LinkApply).
LinkLeadsSomewhere == part = "link" => Link!LinkLeadsSomewhere

\* No part of a registered secret goes out through a redacting writer,
\* however the output is cut into writes (RedactStream).
SecretsHidden == part = "redact" => Redact!SecretsHidden

\* What a redacting writer holds back is bounded (RedactStream).
PendingBounded == part = "redact" => Redact!PendingBounded
=============================================================================
