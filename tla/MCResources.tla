---------------------------- MODULE MCResources -----------------------------
(***************************************************************************)
(* The instance of Resources that is checked.                              *)
(***************************************************************************)
EXTENDS Resources

(***************************************************************************)
(* FileEdit                                                                *)
(***************************************************************************)
L(tag, who, val) == [ind |-> FALSE, tag |-> tag, who |-> who, val |-> val]
In(line) == [line EXCEPT !.ind = TRUE]
X == L("text", "x", "")
K(v) == L("text", "k", v)
B(n) == L("begin", n, "")
E(n) == L("end", n, "")
Add(l) == [opt |-> "add", arg |-> l]
Rem(l) == [opt |-> "remove", arg |-> l]
Key(k, l) == [opt |-> "keyed", arg |-> [key |-> k, line |-> l]]
Blk(n, ls) == [opt |-> "blocks", arg |-> [name |-> n, lines |-> ls]]
EditFile(ls, n, c) == [lines |-> ls, crlf |-> n, cut |-> c]
UpTo(n, S) == UNION {[1..k -> S] : k \in 0..n}

\* Every file of three lines and of four block markers, and the mixes of
\* line ends of shorter ones.
SmallFiles ==
    {EditFile(s, 0, FALSE) : s \in UpTo(3, {X, In(K("1")), K("2"), B("a"), In(E("a")), B("b"), E("b")})
                                 \cup [1..4 -> {B("a"), In(E("a")), B("b"), E("b")}]}
    \cup UNION {{EditFile(s, n, c) : n \in 0..Len(s) - (IF c THEN 1 ELSE 0)} :
                   c \in BOOLEAN, s \in UpTo(3, {X, K("2")}) \ {<<>>}}

LineCalls ==
    {Add(X), Add(In(X)), Rem(X), Rem(K("2")), Add(In(K("1"))),
     Key("k", K("1")), Key("k1", K("1")), Key("k", K("2")), Key("k1", K("2")),
     Blk("a", <<X>>), Blk("a", <<>>), Blk("b", <<In(K("2")), X>>), Blk("b", <<E("a")>>)}

K1 == <<"text", "k", "1">>
K2 == <<"text", "k", "2">>
KeysOwn == [k |-> {K1, K2}, k1 |-> {K1}]
KeysOverlap == {<<"k", "k">>, <<"k1", "k1">>, <<"k", "k1">>, <<"k1", "k">>}

(***************************************************************************)
(* FileWrite                                                               *)
(***************************************************************************)
WriteDecl(op, only, uidSet, mode, modeSet, check, dry, root) ==
    [op |-> op, only |-> only, uid |-> "svc", uidSet |-> uidSet, mode |-> mode,
     modeSet |-> modeSet, check |-> check, dry |-> dry, root |-> root]
Modes == {"plain", "setid", "noread"}
WriteDecls ==
    {WriteDecl("content", FALSE, us, s, TRUE, c, d, r) : us, c, d, r \in BOOLEAN, s \in Modes}
    \cup {WriteDecl("lines", o, us, s, TRUE, FALSE, d, r) :
             o, us, d, r \in BOOLEAN, s \in {"plain", "setid"}}
    \cup {WriteDecl("ensure", FALSE, us, s, ms, FALSE, d, r) : us, ms, d, r \in BOOLEAN, s \in Modes}
    \cup {WriteDecl("absent", FALSE, FALSE, "plain", FALSE, FALSE, d, TRUE) : d \in BOOLEAN}
Entry(k, data, uid, mode) == [kind |-> k, data |-> data, uid |-> uid, mode |-> mode, ours |-> FALSE]
Planted(k) == Entry(k, k, "other", "plain")

WriteEntries ==
    {Entry("none", "", "", "plain"), Planted("link"), Planted("fifo"), Planted("dir"),
     Entry("reg", "old", "user", "plain"), Entry("reg", "new", "user", "noread"),
     Entry("reg", "new", "svc", "plain"), Entry("reg", "new", "other", "setid")}

(***************************************************************************)
(* FileDecl                                                                *)
(***************************************************************************)
PathForms == [tmpl : BOOLEAN, abs : BOOLEAN]
OptionCalls ==
    {"content", "empty", "source", "tmplSource", "param", "template", "data", "badData",
     "validation", "badValidation", "line", "absent", "mode", "owner", "sensitive", "name",
     "misuse"}

(***************************************************************************)
(* TreeSync: a directory with a file, a file or template, a symlink.       *)
(***************************************************************************)
D == <<"d">>
DX == <<"d", "x">>
Y == <<"y">>
YT == <<"y.tmpl">>
Z == <<"z">>
ZO == <<"z.old">>
Folder == [kind |-> "dir"]
F(data) == [kind |-> "file", data |-> data]
To(p) == [kind |-> "link", to |-> p]
Tree(fs) == [p \in {f[1] : f \in fs} |-> (CHOOSE f \in fs : f[1] = p)[2]]
Root == <<<< >>, Folder>>
SyncDecl(o, p, h, v) == [op |-> o, prune |-> p, hits |-> h, via |-> v]

SmallTrees ==
    {Tree(a \cup b \cup c) :
        a \in {{}, {<<D, Folder>>, <<DX, F(1)>>}},
        b \in {{}, {<<Y, F(1)>>}, {<<YT, F(1)>>}},
        c \in {{}, {<<Z, To(Y)>>}, {<<Z, To(DX)>>}}}

FoundTrees ==
    {Tree({}), Tree({<<<< >>, To(<<"away">>)>>})}
    \cup {Tree({Root} \cup a \cup b \cup c) :
        a \in {{}, {<<D, Folder>>, <<DX, F(<<9>>)>>}, {<<D, F(<<9>>)>>}},
        b \in {{}, {<<Y, F(<<9>>)>>}, {<<Y, F(<<1>>)>>, <<YT, F(<<9>>)>>}},
        c \in {{}, {<<Z, F(<<9>>)>>}, {<<Z, Folder>>, <<ZO, F(<<9>>)>>}, {<<Z, To(Y)>>}}}

TreeWalk == <<D, DX, Y, YT, Z, ZO>>
TreeRender == [n \in {"y.tmpl"} |-> "y"]
TreeBackup == [n \in {"z"} |-> "z.old"]

DirDecls ==
    {SyncDecl(o, p, h, v) : o \in {"tree", "glob"}, p \in BOOLEAN,
                            h \in {{}, {DX}, {YT}, {D, Y}}, v \in {"direct", "plan"}}
    \cup {SyncDecl(o, p, {}, "oldplan") : o \in {"tree", "glob"}, p \in BOOLEAN}
    \cup {SyncDecl(o, p, {}, "plan") : o \in {"dir", "absent"}, p \in BOOLEAN}
    \cup {SyncDecl("ensure", FALSE, {}, "plan")}

(***************************************************************************)
(* LinkApply                                                               *)
(***************************************************************************)
Ent(k, i, to, full) == [kind |-> k, ino |-> i, to |-> to, full |-> full]
None == Ent("none", 0, "", FALSE)

LinkPlaces ==
    {[path |-> p, old |-> o, target |-> t, via |-> v] :
        p \in {None, Ent("file", 1, "", FALSE), Ent("dir", 2, "", FALSE), Ent("dir", 3, "", TRUE),
               Ent("symlink", 4, "target", FALSE), Ent("symlink", 4, "via", FALSE),
               Ent("file", 11, "", FALSE)},
        o \in {None, Ent("symlink", 12, "target", FALSE), Ent("dir", 13, "", FALSE)},
        t \in {None, Ent("file", 11, "", FALSE), Ent("dir", 14, "", TRUE)},
        v \in {None, Ent("symlink", 15, "target", FALSE), Ent("symlink", 15, "path", FALSE)}}

LinkDecls ==
    {[op |-> o, to |-> t, darwin |-> d] :
        o \in {"symlink", "hardlink", "if_exists", "absent"}, t \in {"target", "via"}, d \in BOOLEAN}

LinkPlants == {Ent("file", 21, "", FALSE), Ent("dir", 22, "", FALSE), Ent("dir", 23, "", TRUE)}

(***************************************************************************)
(* ServiceConverge: every declaration on every host.                       *)
(***************************************************************************)
ServiceDecl(k, m, a, e, rs, rl, g, f, u) ==
    [kind |-> k, manager |-> m, absent |-> a, enableOnly |-> e, restart |-> rs, reload |-> rl,
     gated |-> g, flags |-> f, user |-> u]

UnitDecls ==
    {ServiceDecl("service", m, a, e, rs, rl, g, f, u) :
        m \in {"systemd", "rcctl", "freebsd", "netbsd"}, a, e, rs, rl, g, u \in BOOLEAN,
        f \in {"undeclared", "-v", ""}}
    \cup {ServiceDecl("timer", "systemd", a, e, rs, FALSE, g, "undeclared", u) :
             a, e, rs, g, u \in BOOLEAN}

UnitHosts ==
    {[running |-> r, state |-> s, flags |-> f, with |-> IF r THEN w ELSE "none"] :
        r \in BOOLEAN, s \in {"enabled", "disabled", "static", "enabled-runtime", "masked"},
        f \in {"-v", ""}, w \in {"-v", ""}}

(***************************************************************************)
(* RcConf: every rc.conf of two statements, some of three, every override. *)
(***************************************************************************)
Stmt(f, v) == [form |-> f, val |-> v, multi |-> FALSE]
SureStmts == {Stmt("set", v) : v \in {"old", "new", "", "expand"}}
Stmts ==
    SureStmts
    \cup {[Stmt("set", v) EXCEPT !.multi = TRUE] : v \in {"old", "expand"}}
    \cup {Stmt(f, "old") : f \in {"set2", "export", "prefix", "redirect", "if", "brace", "and",
                                  "andnl", "then", "pipe", "sub", "func", "case"}}
    \cup {Stmt(f, "") : f \in {"mention", "inner", "for", "not", "dot", "command", "defaults",
                               "eval", "unset", "read", "copy", "other", "open"}}
FewStmts == {Stmt("set", "old"), Stmt("set", "expand"), Stmt("set2", "old"), Stmt("if", "old"),
             Stmt("dot", ""), Stmt("read", ""), Stmt("copy", "")}

RcCase(r, o, d, s, w, e) ==
    [rcConf |-> r, override |-> o, defaults |-> d, sep |-> s, want |-> w, enabled |-> e]
RcFiles ==
    {RcCase(r, <<>>, <<>>, s, "new", TRUE) :
        r \in [1..2 -> Stmts] \cup [1..3 -> FewStmts], s \in {"nl", ";"}}
    \cup {RcCase(r, o, d, "nl", w, e) :
        r \in {<<>>} \cup {<<s>> : s \in Stmts},
        o \in {<<>>} \cup {<<s>> : s \in SureStmts \cup {Stmt("if", "old"), Stmt("dot", ""),
                                     Stmt("unset", ""), Stmt("other", ""), Stmt("open", "")}},
        d \in {<<>>, <<Stmt("set", "old")>>, <<Stmt("set", "new")>>, <<Stmt("if", "new")>>,
               <<Stmt("eval", "")>>},
        w \in {"new", ""}, e \in BOOLEAN}

(***************************************************************************)
(* RedactStream: secrets that overlap themselves, one another and a line   *)
(* end.                                                                    *)
(***************************************************************************)
SecretFamilies ==
    {{<<"a", "b", "a", "b">>, <<"b", "a">>},
     {<<"a", "a">>},
     {<<"a", "a", "a", "b">>, <<"a", "a">>},
     {<<"a", "b", "a">>, <<"b", "a", "b">>, <<"a", "b", "a", "a">>},
     {<<"a", "b", "nl", "b", "a", "b">>, <<"a", "nl">>},
     {<<"a", "a", "b", "a", "a">>, <<"a", "b">>}}
=============================================================================
