---------------------------- MODULE MCUnitReload ----------------------------
(* Recipes of up to MaxDecls declarations around one unit a-b.service, a   *)
(* template t@.service inside a synced tree and the timers that use them.  *)
EXTENDS Naturals, Sequences

CONSTANT MaxDecls

VARIABLES phase, ops, scope, joiners, unwritten, unloaded, outdated, running, notes, todo, fails, applies

UnitName(stem, at, dash, type, d) == [stem |-> stem, at |-> at, dash |-> dash, type |-> type, d |-> d]
Svc(stem, at) == UnitName(stem, at, FALSE, "service", FALSE)
Conf == UnitName(<<"conf">>, "", FALSE, "", FALSE)
Place(at, parent, base) == [at |-> at, parent |-> parent, base |-> base]
AB == Svc(<<"a", "b">>, "")

UnitFiles == {"a", "p", "s", "u"}
UnitItems == UnitFiles \cup {"c", "T1i", "T2i", "T3i", "T4i"}

\* a: the unit a-b.service; p: a drop-in for every a-*.service; s: a file in
\* the tree that looks like a drop-in for every service and is none; c: what
\* the tree holds, the template; u: a unit of the user manager.
UnitPath ==
    [a |-> Place("unit", Conf, AB),
     p |-> Place("dropin", UnitName(<<"a">>, "", TRUE, "service", TRUE), Conf),
     s |-> Place("other", UnitName(<<>>, "", FALSE, "service", TRUE), Conf),
     c |-> Place("unit", Conf, Svc(<<"t">>, "@")),
     u |-> Place("unit", Conf, Svc(<<"u">>, ""))]

TimerOf(id, bus, related, deps, absent) ==
    [id |-> id, item |-> id \o "i", bus |-> bus, related |-> related, deps |-> deps, absent |-> absent]
Composed(id, bus, inputs) == [id |-> id, bus |-> bus, inputs |-> inputs]
ReloadOf(bus, gated, watch, deps) == [bus |-> bus, gated |-> gated, watch |-> watch, deps |-> deps]

INSTANCE UnitReload WITH
    Files <- UnitFiles, Trees <- {"tree"}, Items <- UnitItems, Path <- UnitPath,
    In <- [i \in {"a", "p", "s", "c", "u"} |-> IF i \in {"s", "c"} THEN "tree" ELSE "none"],
    BusOf <- [i \in UnitItems |-> IF i \in {"u", "T4i"} THEN "user" ELSE "system"],
    Buses <- {"system", "user"},
    Timers <- {TimerOf("T1", "system", {AB, Svc(<<"T1">>, "")}, {}, FALSE),
               TimerOf("T2", "system", {Svc(<<"t">>, "x")}, {}, FALSE),
               TimerOf("T3", "system", {}, {"system"}, TRUE),
               TimerOf("T4", "user", {AB}, {}, FALSE)},
    Compositions <- {Composed("C1", "system", {"a"}), Composed("C2", "system", {"p", "s"}),
                     Composed("C3", "user", {"u"}), Composed("C4", "system", {"tree"})},
    Reloads <- {ReloadOf("system", TRUE, {"tree"}, {}), ReloadOf("system", TRUE, {"p"}, {}),
                ReloadOf("system", FALSE, {}, {"a"}), ReloadOf("system", TRUE, {}, {})},
    MaxApplies <- 1, MaxFails <- 1
=============================================================================
