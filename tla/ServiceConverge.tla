--------------------------- MODULE ServiceConverge ---------------------------
(***************************************************************************)
(* One Service or Timer resource (resource/service, resource/timer): the   *)
(* declaration checks, the probes, the verbs they ask for, the place of    *)
(* the flags among them, and the commands run one by one on systemd,       *)
(* rcctl, FreeBSD or NetBSD, any of which may fail half way.               *)
(***************************************************************************)
EXTENDS Naturals, Sequences

CONSTANTS
    Decls,      \* [kind, manager, absent, enableOnly, restart, reload, gated, flags, user]
    Hosts,      \* [running, state, flags, with]: the unit as it may be found
    NoFlags,    \* the declaration has no WithFlags
    MaxApplies, MaxFails

VARIABLES
    decl, host,
    changed,    \* a watched resource noted a change in this apply
    todo,       \* the actions left
    note,       \* what the apply noted for the service
    pc,         \* "idle", "act", "ok", "error" or "refused"
    applies, fails,
    start,      \* history: the host at the start of the apply
    acted,      \* history: the actions this apply ran
    calm        \* history: nothing touched the host since the last good apply

vars == <<decl, host, changed, todo, note, pc, applies, fails, start, acted, calm>>

(***************************************************************************)
(* What the proofs assume of the constants: the shape of a declaration and *)
(* of a unit.                                                              *)
(***************************************************************************)
IsHost(h) ==
    /\ h = [running |-> h.running, state |-> h.state, flags |-> h.flags, with |-> h.with]
    /\ h.running \in BOOLEAN
    /\ h.state \in {"enabled", "disabled", "static", "enabled-runtime", "masked"}

ConstantsOK ==
    /\ \A d \in Decls : {d.absent, d.enableOnly, d.reload, d.restart, d.gated} \subseteq BOOLEAN
    /\ \A h \in Hosts : IsHost(h)

BSD == {"rcctl", "freebsd", "netbsd"}
hasFlags == decl.flags # NoFlags

\* declarationErr, checkFlagsDeclaration: a Timer takes the combination and
\* ignores the restart.
Refused(d) ==
    \/ d.kind = "service" /\ d.enableOnly /\ (d.restart \/ d.reload \/ d.gated)
    \/ d.flags # NoFlags /\ d.absent

\* What a backend cannot do: userSupport, checkFlagsSupport.
Unsupported(d) ==
    \/ d.user /\ d.manager \in BSD
    \/ d.flags # NoFlags /\ d.manager \notin BSD

-----------------------------------------------------------------------------
(* The probes.                                                             *)

Enabled(h) == h.state \notin {"disabled", "masked"}

\* A unit without an [Install] section is enabled for good; a runtime
\* enablement is undone at runtime.
DisableOp(h) ==
    CASE ~Enabled(h) \/ h.state = "static" -> <<>>
      [] h.state = "enabled-runtime" -> <<"disable --runtime">>
      [] OTHER -> <<"disable">>

\* A service still to be enabled always gets its flags set.
flagsUpdate(h) == hasFlags /\ (~Enabled(h) \/ h.flags # decl.flags)

Holds(input) == decl.gated /\ ~input

-----------------------------------------------------------------------------
(* What the probes ask for.                                                *)

Runtime(h, flagsChanged, input) ==
    IF ~h.running THEN <<"start">>
      ELSE IF ~decl.reload /\ ~decl.restart THEN <<>>
      ELSE IF ~flagsChanged /\ Holds(input) THEN <<>>
      ELSE IF decl.reload THEN <<"reload">>
      ELSE <<"restart">>

held(h, input) ==
    /\ ~decl.absent /\ ~decl.enableOnly /\ h.running
    /\ (decl.reload \/ decl.restart)
    /\ ~flagsUpdate(h) /\ Holds(input)

actions(h, input) ==
    IF decl.absent
    THEN (IF h.running /\ ~decl.enableOnly THEN <<"stop">> ELSE <<>>) \o DisableOp(h)
    ELSE (IF Enabled(h) THEN <<>> ELSE <<"enable">>)
         \o (IF decl.enableOnly THEN <<>> ELSE Runtime(h, flagsUpdate(h), input))

\* Mutant: the flags are set after the daemon was started.
FlagsLast(verbs, flags) == IF flags THEN Append(verbs, "flags") ELSE verbs

\* The flags come after an enable and before anything that starts the daemon.
sequence(verbs, flags) ==
    LET n == IF verbs # <<>> /\ Head(verbs) = "enable" THEN 1 ELSE 0
    IN  IF flags THEN SubSeq(verbs, 1, n) \o <<"flags">> \o SubSeq(verbs, n + 1, Len(verbs))
        ELSE verbs

-----------------------------------------------------------------------------
(* The managers, external.                                                 *)

\* rc scripts of OpenBSD and FreeBSD refuse a service that is not enabled,
\* and rcctl refuses flags for it.
CanDo(h, v) ==
    /\ v \in {"start", "stop", "restart", "reload"} /\ decl.manager \in {"rcctl", "freebsd"} => Enabled(h)
    /\ v = "flags" /\ decl.manager = "rcctl" => Enabled(h)
    /\ v = "enable" => h.state # "masked"

Run(h, v) ==
    CASE v = "start" -> {[h EXCEPT !.running = TRUE, !.with = h.flags]}
      [] v = "restart" -> {[h EXCEPT !.running = TRUE, !.with = h.flags]}
      [] v = "reload" -> {h}
      [] v = "stop" -> {[h EXCEPT !.running = FALSE, !.with = "none"]}
      \* rcctl enable keeps the flags or gives the defaults back
      [] v = "enable" -> {[h EXCEPT !.state = "enabled", !.flags = f] :
                             f \in IF decl.manager = "rcctl" THEN {h.flags, "default"} ELSE {h.flags}}
      [] v = "disable" -> {[h EXCEPT !.state = IF h.state = "enabled" THEN "disabled" ELSE h.state]}
      [] v = "disable --runtime" -> {[h EXCEPT !.state = "disabled"]}
      [] v = "flags" -> {[h EXCEPT !.flags = decl.flags]}

\* A restart that fails may have stopped the daemon.
Broken(h, v) == {h} \cup (IF v = "restart" THEN {[h EXCEPT !.running = FALSE, !.with = "none"]} ELSE {})

-----------------------------------------------------------------------------
Init ==
    /\ decl \in Decls /\ host \in Hosts
    /\ decl.manager \in BSD => host.state \in {"enabled", "disabled"}
    /\ changed = FALSE /\ todo = <<>> /\ note = "none" /\ pc = "idle"
    /\ applies = 0 /\ fails = 0 /\ start = host /\ acted = <<>> /\ calm = FALSE

End(how, what) == pc' = how /\ note' = what

\* applyWith: the checks, the probes, the list of actions; an empty list is
\* noted as held or ok (Converge).
Apply(input) ==
    /\ pc \in {"idle", "error"} /\ applies < MaxApplies
    /\ applies' = applies + 1 /\ changed' = input /\ start' = host /\ acted' = <<>>
    /\ IF Refused(decl) \/ Unsupported(decl)
       THEN End("refused", "none") /\ UNCHANGED <<todo, fails, calm>>
       ELSE \/ /\ fails < MaxFails /\ fails' = fails + 1   \* a probe fails
               /\ End("error", "none") /\ calm' = FALSE /\ UNCHANGED todo
            \/ LET list == sequence(actions(host, input), flagsUpdate(host))
               IN  /\ todo' = list /\ UNCHANGED <<fails, calm>>
                   /\ IF list = <<>> THEN End("ok", IF held(host, input) THEN "held" ELSE "ok")
                      ELSE End("act", "none")
    /\ UNCHANGED <<decl, host>>

\* One action of Converge.
Act ==
    /\ pc = "act" /\ CanDo(host, Head(todo))
    /\ host' \in Run(host, Head(todo))
    /\ todo' = Tail(todo) /\ acted' = Append(acted, Head(todo))
    /\ IF Tail(todo) = <<>> THEN End("ok", "changed") ELSE UNCHANGED <<pc, note>>
    /\ UNCHANGED <<decl, changed, applies, fails, start, calm>>

\* An action fails; the ones after it do not run and nothing is noted.
ActFails ==
    /\ pc = "act" /\ (fails < MaxFails \/ ~CanDo(host, Head(todo)))
    /\ host' \in Broken(host, Head(todo))
    /\ fails' = IF CanDo(host, Head(todo)) THEN fails + 1 ELSE fails
    /\ End("error", "none") /\ todo' = <<>> /\ calm' = FALSE
    /\ UNCHANGED <<decl, changed, applies, start, acted>>

\* Between two applies the host stays as it is, or somebody touches the unit.
Rest ==
    /\ pc = "ok" /\ pc' = "idle"
    /\ calm' \in BOOLEAN
    /\ IF calm' THEN UNCHANGED host
       ELSE host' \in {h \in Hosts : /\ decl.manager \in BSD => h.state \in {"enabled", "disabled"}
                                     /\ h.flags # "default"}
    /\ UNCHANGED <<decl, changed, todo, note, applies, fails, start, acted>>

Next == (\E input \in BOOLEAN : Apply(input)) \/ Act \/ ActFails \/ Rest

Spec == Init /\ [][Next]_vars

-----------------------------------------------------------------------------
(* Properties.                                                             *)

\* An apply that reports ok leaves the service as declared, whatever it was
\* and whatever failed before: enabled or not, running or not, with the
\* declared flags; a daemon this apply started, or restarted for new flags,
\* runs with them; and without a restart policy, or with WithEnableOnly, the
\* running daemon is the one that was there.
ServiceAsDeclared ==
    pc = "ok" =>
        /\ decl.absent => /\ host.state \notin {"enabled", "enabled-runtime"}
                          /\ decl.enableOnly \/ ~host.running
        /\ ~decl.absent => /\ host.state \notin {"disabled", "masked"}
                           /\ decl.enableOnly \/ host.running
                           /\ hasFlags => host.flags = decl.flags
        /\ ~decl.enableOnly /\ ~decl.absent =>
             /\ ~start.running => host.with = host.flags
             /\ decl.restart /\ ~decl.reload /\ hasFlags /\ start.flags # decl.flags =>
                   host.with = decl.flags
        /\ decl.enableOnly \/ (~decl.restart /\ ~decl.absent /\ start.running) =>
             host.running = start.running /\ host.with = start.with

\* A second apply has nothing to do: with the host as the first left it, only
\* a restart or reload that is not gated, or whose input changed, runs.
SecondApplyIdle ==
    pc = "ok" /\ calm =>
        \/ acted = <<>>
        \/ (decl.restart \/ decl.reload) /\ (changed \/ ~decl.gated)
=============================================================================
