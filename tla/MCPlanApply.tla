---------------------------- MODULE MCPlanApply ----------------------------
(* Small plans for the plan engine. *)
EXTENDS PlanApply

Ids == {"a", "b", "c"}

\* Directory[/d], File[/d/f], File[${HOME}/t] and the same file expanded.
WatchIds == Ids \cup {"D", "F", "T", "X"}
Fired == [i \in WatchIds \cup {NoId} |->
            CASE i = "D" -> {"D", "F"} [] i = "T" -> {"T", "X"} [] OTHER -> {i}]

Facts == {"linux"}
Paths == {"/d", "/d/f", "/e"}
ParentChain == [p \in Paths |-> IF p = "/d/f" THEN <<"/d">> ELSE <<>>]

Res(id, deps, el) ==
    [kind |-> "op", id |-> id, deps |-> deps, gated |-> FALSE, watch |-> {},
     converges |-> FALSE, notes |-> {id}, elevate |-> el, cond |-> "linux", require |-> FALSE, valid |-> TRUE,
     paths |-> <<>>, makesDir |-> FALSE]
When(cond, req, el) ==
    [Res(NoId, {}, el) EXCEPT !.kind = "begin", !.cond = cond, !.require = req]
End(el) == [Res(NoId, {}, el) EXCEPT !.kind = "end"]
Gate(id, watch, deps, el) ==
    [Res(id, deps, el) EXCEPT !.gated = TRUE, !.watch = watch]
Service(id, watch, el) == [Gate(id, watch, {}, el) EXCEPT !.converges = TRUE]
SyncDir(id, files, el) == [Res(id, {}, el) EXCEPT !.notes = {id} \cup files]
Makes(id, p, deps, el) == [Res(id, deps, el) EXCEPT !.paths = <<p>>]
Dir(id, p, deps, el) == [Makes(id, p, deps, el) EXCEPT !.makesDir = TRUE]

\* root without a wrapper, a user without one, a user with sudo, a library
\* program that cannot start the elevated child.
Invoker(m, r, c) == [mode |-> m, root |-> r, cliHost |-> c]
AllInvokers == {Invoker("none", TRUE, TRUE), Invoker("none", FALSE, TRUE),
                Invoker("sudo", FALSE, TRUE), Invoker("doas", FALSE, FALSE)}
SudoUser == {Invoker("sudo", FALSE, TRUE)}

\* Three ops, up to two dependencies (cycles, self loops) or a circle of three,
\* any privileges.
Circle == [i \in Ids |-> IF i = "a" THEN {"b"} ELSE IF i = "b" THEN {"c"} ELSE {"a"}]
SumCard(d) == Cardinality(d["a"]) + Cardinality(d["b"]) + Cardinality(d["c"])
DepBodies ==
    {<<Res("a", d["a"], ea), Res("b", d["b"], eb), Res("c", d["c"], ec)>> :
        d \in {d \in [Ids -> SUBSET Ids] : SumCard(d) <= 2 \/ d = Circle}, ea, eb, ec \in BOOLEAN}

\* Nested and consecutive blocks, requirements in any of them, a path that
\* the plan itself creates as a condition, a second op with the id "a".
BlockBodies ==
    {<<Makes("a", "/e", {}, ea), When(c1, r1, FALSE), Res("b", db, eb),
       When(c2, r2, FALSE), Res("c", {"a"}, ec), End(FALSE), End(FALSE)>> :
        c1, c2 \in {"linux", "/e"}, r1, r2 \in BOOLEAN, ea, eb, ec \in BOOLEAN,
        db \in {{}, {"c"}}}
    \cup
    {<<When(c1, r1, FALSE), Makes("a", "/e", {}, ea), End(FALSE), Res("b", db, eb),
       When(c2, r2, ec), Res("a", {}, FALSE), End(ec)>> :
        c1, c2 \in {"linux", "/e"}, r1, r2 \in BOOLEAN, ea, eb, ec \in BOOLEAN,
        db \in {{}, {"a"}}}

\* Circular, empty and, as nothing in the program records them, unbalanced
\* plans and plans failing a per-op check.
OddBodies ==
    {<<Res("a", {"b"}, FALSE), Res("b", {"a"}, FALSE)>>,
     <<Res("a", {}, FALSE), End(FALSE)>>, <<When("linux", FALSE, FALSE), Res("a", {}, FALSE)>>,
     <<Res("a", {}, FALSE), [Res("b", {}, TRUE) EXCEPT !.valid = FALSE]>>, <<>>}

\* A gated op, declared before, between or after what it watches.
GateBodies ==
    {<<x, y, z>> : x \in {Res("a", {}, e) : e \in BOOLEAN},
                   y \in {Gate("b", w, d, e) : w \in SUBSET {"a", "c"},
                                               d \in {{}, {"a"}, {"a", "c"}}, e \in BOOLEAN},
                   z \in {Res("c", {}, e) : e \in BOOLEAN}
                         \cup {Res("a", {}, e) : e \in BOOLEAN}}
    \cup
    {<<When("linux", FALSE, FALSE), Res("a", {}, e), End(FALSE), Gate("b", {"a"}, {"a"}, FALSE),
       Gate("c", {"b"}, {"b"}, f)>> : e, f \in BOOLEAN}

\* A command or service that watches a directory, a file in it or a file at a
\* path token, in any privileges, and a command that watches that service.
CoverBodies ==
    {<<x, y, z, Gate("c", {"b"}, {}, TRUE)>> :
        x \in {Res("F", {}, e) : e \in BOOLEAN}
             \cup {[Res("T", {}, TRUE) EXCEPT !.notes = {"X"}]},
        y \in {Res("D", {}, TRUE), SyncDir("D", {"F"}, TRUE)},
        z \in {Gate("b", w, {}, TRUE) : w \in {{"D"}, {"F"}, {"T"}}}
             \cup {Service("b", w, TRUE) : w \in {{"D"}, {"F"}, {"T"}}}}

\* Directories declared after what they hold, with dependencies against that.
DirBodies ==
    {<<x, y, z>> : x \in {Makes("a", "/d/f", d, FALSE) : d \in SUBSET {"b", "c"}},
                   y \in {Dir("b", "/d", d, e) : d \in SUBSET {"a", "c"}, e \in BOOLEAN},
                   z \in {Dir("c", p, d, FALSE) : p \in {"/d", "/d/f"}, d \in SUBSET {"a"}}}

AllBodies == DepBodies \cup BlockBodies \cup OddBodies \cup GateBodies \cup CoverBodies \cup DirBodies
=============================================================================
