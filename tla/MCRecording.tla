---------------------------- MODULE MCRecording ----------------------------
(* Recipes of up to MaxTasks registrations out of a universe with every    *)
(* kind of task, alias, aggregate and body the recording tells apart.      *)
EXTENDS Naturals, Sequences

CONSTANT LowLevel   \* the recipes register resources without drafts

VARIABLES tasks, first, repo, failed, version, planDir, planFile, last, applied, declared, owed, torn

NoName == "none"

Names == <<"al", "all", "boom", "cert", "certs", "frag", "ghostly", "loop",
                 "lost", "odd", "pf", "raw", "renew", "site", "web">>

Candidate(n, k) ==
    [name |-> n, kind |-> k, method |-> NoName, target |-> NoName, members |-> <<>>,
     matches |-> {}, needs |-> <<>>, guard |-> NoName, opaque |-> NoName,
     privileged |-> FALSE, operational |-> FALSE, misuse |-> FALSE, body |-> <<>>]

Stmt(k, id) ==
    [k |-> k, id |-> id, names |-> <<>>, drafted |-> TRUE, blob |-> FALSE,
     unpackable |-> FALSE, watch |-> NoName]
Res(id) == Stmt("res", id)
ReloadStmt(w) == [Stmt("reload", "reload") EXCEPT !.watch = w]
RunOf(names) == [Stmt("run", NoName) EXCEPT !.names = names]
NeedOf(n) == [method |-> NoName, rel |-> NoName, full |-> n]

Singles == {
    [Candidate("pf", "task") EXCEPT !.body = <<[Res("pf") EXCEPT !.blob = TRUE]>>],
    [Candidate("web", "task") EXCEPT !.needs = <<NeedOf("pf")>>, !.guard = "h1",
        !.privileged = TRUE, !.method = "Web",
        !.body = <<Res("web"), ReloadStmt("web"), Res("conf"), ReloadStmt("conf")>>],
    [Candidate("al", "alias") EXCEPT !.target = "pf"],
    [Candidate("site", "task") EXCEPT !.guard = "h2",
        !.body = <<Res("s1"), RunOf(<<"web", "al">>), Stmt("require", "goos"),
                   Res("s2"), Stmt("end", "goos"), Res("s3"), ReloadStmt("s3")>>],
    [Candidate("cert", "task") EXCEPT !.operational = TRUE, !.body = <<Res("cert")>>],
    [Candidate("certs", "tasks") EXCEPT !.members = <<"cert", "pf">>],
    [Candidate("renew", "task") EXCEPT !.needs = <<[method |-> NoName, rel |-> "certs", full |-> "cert"]>>,
        !.body = <<[Res("renew") EXCEPT !.unpackable = TRUE], [Res("r2") EXCEPT !.drafted = FALSE]>>],
    [Candidate("all", "pattern") EXCEPT !.matches = {Names[i] : i \in DOMAIN Names}],
    [Candidate("loop", "task") EXCEPT 
        !.body = <<RunOf(<<"web">>), Res("r1"), ReloadStmt("r1"), RunOf(<<"all">>)>>],
    [Candidate("ghostly", "task") EXCEPT !.body = <<RunOf(<<"odd">>), Res("g")>>],
    [Candidate("odd", "task") EXCEPT !.opaque = "fails"],
    [Candidate("lost", "task") EXCEPT !.body = <<Res("l"), Stmt("reset", NoName), Stmt("misuse", NoName)>>],
    [Candidate("boom", "task") EXCEPT !.body = <<Res("b"), Stmt("panic", NoName)>>],
    [Candidate("frag", "task") EXCEPT !.opaque = "holds",
        !.body = <<Stmt("when", "w1"), Res("x"), Stmt("end", "w1"),
                   Stmt("when", "w2"), Res("x"), Stmt("end", "w2")>>],
    [Candidate("certs", "alias") EXCEPT !.target = "certs"] }

\* A struct registered with one broken companion: its other method's task
\* comes, with the need that names the broken one's.
Struct == <<
    [Candidate("pf", "task") EXCEPT !.misuse = TRUE],
    [Candidate("renew", "task") EXCEPT !.method = "Web", !.body = <<Res("renew")>>,
        !.needs = <<[method |-> "Web", rel |-> "web", full |-> NoName]>>]>>

MixedRecipes == {<<c>> : c \in Singles} \cup {Struct}

\* A body that registers through the low-level resource.Register, without a
\* draft, and then records another task.
LowLevelRecipes == {<<c>> : c \in {
    [Candidate("pf", "task") EXCEPT !.body = <<Res("pf")>>],
    [Candidate("raw", "task") EXCEPT
        !.body = <<[Res("r") EXCEPT !.drafted = FALSE], RunOf(<<"pf">>)>>] }}

LowLevelCalls == {<<<<"raw">>, "run">>}

MixedCalls == {<<<<"all">>, "run">>, <<<<"all">>, "push">>, <<<<"site", "pf">>, "plan">>,
            <<<<"web", "al">>, "plan">>, <<<<"certs", "web">>, "run">>}

INSTANCE Recording WITH
    NameOrder <- Names,
    Universe <- IF LowLevel THEN LowLevelRecipes ELSE MixedRecipes,
    Calls <- IF LowLevel THEN LowLevelCalls ELSE MixedCalls,
    TopIds <- {"pf"}, HeldHere <- {"h1"}, MaxTasks <- 4, MaxEdits <- 1
=============================================================================
