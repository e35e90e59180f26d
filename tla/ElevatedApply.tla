--------------------------- MODULE ElevatedApply ---------------------------
(***************************************************************************)
(* The elevated apply (api/apply_chunks.go, internal/cli's cliApply,       *)
(* internal/logger's RunRelayed): the controller runs `gonf apply` behind  *)
(* sudo or doas, cancels it through a pipe on its stdin, kills the wrapper *)
(* once a grace is over, and relays its output.                            *)
(*                                                                         *)
(* Time is counted in ticks.  Reactions of the program take no time; the   *)
(* commands and validators of an op take up to the command timeout, and an *)
(* op's own in-process work may take for ever.                             *)
(***************************************************************************)
EXTENDS Integers

CONSTANTS
    Wrappers,       \* of "sudo", "sudo_pty", "opendoas", "doas" (OpenBSD's)
    CmdTimeout,     \* exec.DefaultTimeout of the controller
    BuiltinTimeout, \* exec.BuiltinDefaultTimeout
    CancelGrace,    \* exec.CancelGrace
    Overrun,        \* freezeBudget + verifyBudget + validator.WaitDelay
    MaxOps,         \* ops of the chunk
    MaxSlow         \* bound on in-process work of unknown length

ASSUME TimeoutAssumption == CmdTimeout \in Nat
ASSUME GraceAssumption == CancelGrace \in Nat \ {0}
ASSUME OverrunAssumption == Overrun \in 0..(2 * CancelGrace - 1)
ASSUME OpsAssumption == MaxOps \in Nat /\ MaxSlow \in Nat

Off == -1           \* a timer that is not running

VARIABLES
    wrapperKind,
    controller, \* "wait", "drain", "returned", "exited", "dead"
    ctx,        \* the controller's context: "live", "canceled", "deadline"
    interrupted,\* cmd.Cancel ran while the wrapper did
    pipe,       \* the cancel pipe: "open", "byte" (written, closed), "eof"
    grace,      \* ticks until the wrapper is killed
    wrapper,    \* "up", "exited", "killed"
    child,      \* "idle", "command", "validator", "slow"; "done", "stopped",
                \* "failed", "killed"
    childCtx,   \* "live", "canceled"
    watching,   \* the child's watchCancelPipe still reads
    left,       \* ticks by which the command or validator has ended
    ops,        \* ops left to apply
    reader,     \* of the child's output: "relay", "background", "cat", "none"
    lost,       \* a line of the child found no reader
    result,     \* what the elevated apply returned: "none", "ok", "error"
    slow        \* in-process work started so far

vars == <<wrapperKind, controller, ctx, interrupted, pipe, grace, wrapper, child,
          childCtx, watching, left, ops, reader, lost, result, slow>>
childVars == <<child, childCtx, watching, left, ops, lost, slow>>
pipes == <<pipe, reader>>

ChildRuns == child \in {"idle", "command", "validator", "slow"}
ControllerRuns == controller \in {"wait", "drain", "returned"}

Init ==
    /\ wrapperKind \in Wrappers
    /\ controller = "wait" /\ ctx = "live" /\ interrupted = FALSE
    /\ pipe = "open" /\ grace = Off
    /\ wrapper = "up"
    /\ child = "idle" /\ childCtx = "live" /\ watching = TRUE /\ left = Off
    /\ ops = MaxOps
    /\ reader = "relay" /\ lost = FALSE
    /\ result = "none" /\ slow = 0

(***************************************************************************)
(* The controller                                                          *)
(***************************************************************************)
\* The child's context is canceled: the command in flight gets SIGTERM, and
\* SIGKILL after the grace; a validator is left alone.
CancelChildCtx ==
    /\ childCtx' = "canceled"
    /\ left' = IF child = "command" /\ left > CancelGrace THEN CancelGrace ELSE left

\* The first SIGINT, SIGTERM or SIGHUP.  A terminal sends it to the child
\* too, or sudo relays it.
Interrupt ==
    /\ ControllerRuns /\ ctx = "live"
    /\ ctx' = "canceled"
    /\ \/ UNCHANGED <<childCtx, left>>
       \/ ChildRuns /\ CancelChildCtx
    /\ UNCHANGED <<wrapperKind, controller, interrupted, pipes, grace, wrapper, child,
                   watching, ops, lost, result, slow>>

\* DefaultChunkTimeout.
ChunkTimeout ==
    /\ controller = "wait" /\ ctx = "live"
    /\ ctx' = "deadline"
    /\ UNCHANGED <<wrapperKind, controller, interrupted, pipes, grace, wrapper, childVars, result>>

elevatedCancelGrace == CmdTimeout + 2 * CancelGrace

Sudo == wrapperKind \in {"sudo", "sudo_pty"}

CancelDue == controller = "wait" /\ ctx # "live" /\ pipe = "open"

\* cmd.Cancel: the byte, and for sudo SIGTERM, which it may relay.  A wrapper
\* that has been reaped by then leaves the result of Wait as it is.
CancelElevated ==
    /\ CancelDue
    /\ pipe' = "byte"
    /\ grace' = elevatedCancelGrace
    /\ interrupted' \in IF Sudo /\ wrapper # "up" THEN BOOLEAN ELSE {TRUE}
    /\ \/ UNCHANGED <<childCtx, left>>
       \/ Sudo /\ ChildRuns /\ CancelChildCtx
    /\ UNCHANGED <<wrapperKind, controller, ctx, wrapper, child, watching, ops, reader,
                   lost, result, slow>>

\* An unprivileged kill of OpenBSD's doas fails with EPERM.
CanSignal == wrapperKind # "doas"

KillDue == controller = "wait" /\ grace = 0 /\ wrapper = "up" /\ CanSignal

\* cmd.WaitDelay is over.  Behind a terminal of its own the child gets
\* SIGHUP; otherwise it goes on as an orphan.
KillWrapper ==
    /\ KillDue
    /\ wrapper' = "killed"
    /\ IF wrapperKind = "sudo_pty" /\ ChildRuns THEN CancelChildCtx ELSE UNCHANGED <<childCtx, left>>
    /\ UNCHANGED <<wrapperKind, controller, ctx, interrupted, pipes, grace, child, watching,
                   ops, lost, result, slow>>

\* cmd.Wait, and the error runElevatedCmd makes of it.
WaitReturns ==
    /\ controller = "wait" /\ wrapper # "up"
    /\ controller' = "drain"
    /\ result' = IF ~interrupted /\ wrapper = "exited" /\ child = "done" THEN "ok" ELSE "error"
    /\ UNCHANGED <<wrapperKind, ctx, interrupted, pipes, grace, wrapper, childVars>>

\* The pipe's end of file, or RelayWaitDelay and the hand-off to cat, or the
\* relay goes on in the background.  The deferred cleanup closes the pipe.
RelayEnds ==
    /\ controller = "drain"
    /\ IF ChildRuns THEN reader' \in {"cat", "background"} ELSE reader' = "none"
    /\ controller' = "returned"
    /\ pipe' = IF pipe = "open" THEN "eof" ELSE pipe
    /\ UNCHANGED <<wrapperKind, ctx, interrupted, grace, wrapper, childVars, result>>

ControllerExits ==
    /\ controller = "returned"
    /\ controller' = "exited"
    /\ reader' = IF reader = "cat" THEN "cat" ELSE "none"
    /\ UNCHANGED <<wrapperKind, ctx, interrupted, pipe, grace, wrapper, childVars, result>>

\* SIGKILL at any time, or a second interrupt.
ControllerDies ==
    /\ ControllerRuns
    /\ controller' = "dead"
    /\ reader' = IF reader = "cat" THEN "cat" ELSE "none"
    /\ pipe' = IF pipe = "open" THEN "eof" ELSE pipe
    /\ UNCHANGED <<wrapperKind, ctx, interrupted, grace, wrapper, childVars, result>>

(***************************************************************************)
(* The wrapper and the child                                               *)
(***************************************************************************)
WrapperExits ==
    /\ wrapper = "up" /\ ~ChildRuns
    /\ wrapper' = "exited"
    /\ UNCHANGED <<wrapperKind, controller, ctx, interrupted, pipes, grace, childVars, result>>

\* Mutant: end of file cancels as well.
watchCancelPipeEOF ==
    /\ ChildRuns /\ watching
    /\ pipe \in {"byte", "eof"}
    /\ watching' = FALSE
    /\ CancelChildCtx
    /\ UNCHANGED <<wrapperKind, controller, ctx, interrupted, pipes, grace, wrapper, child,
                   ops, lost, result, slow>>

watchCancelPipe ==
    /\ ChildRuns /\ watching
    /\ pipe \in {"byte", "eof"}
    /\ watching' = FALSE
    /\ IF pipe = "byte" THEN CancelChildCtx ELSE UNCHANGED <<childCtx, left>>
    /\ UNCHANGED <<wrapperKind, controller, ctx, interrupted, pipes, grace, wrapper, child,
                   ops, lost, result, slow>>

\* Mutant: the child runs under its built-in timeout.
childTimeoutBuiltin == BuiltinTimeout

\* elevatedApplyArgv forwards -cmd-timeout.
childTimeout == CmdTimeout

NextOp == child = "idle" /\ childCtx = "live" /\ ops > 0

\* A command stops within the grace of its timeout; a validator's process
\* tree is frozen, verified, killed and drained within the overrun.
StartWork ==
    /\ NextOp
    /\ \/ child' = "command" /\ left' = childTimeout + CancelGrace /\ UNCHANGED slow
       \/ child' = "validator" /\ left' = childTimeout + Overrun /\ UNCHANGED slow
       \/ child' = "slow" /\ slow < MaxSlow /\ slow' = slow + 1 /\ UNCHANGED left
    /\ UNCHANGED <<wrapperKind, controller, ctx, interrupted, pipes, grace, wrapper,
                   childCtx, watching, ops, lost, result>>

\* A command may have succeeded in spite of the cancel; a validator's
\* verdict is discarded then.
EndOp ==
    /\ \/ /\ ~(child = "validator" /\ childCtx = "canceled")
          /\ child' = "idle"
          /\ ops' = ops - 1
       \/ /\ child' = IF childCtx = "canceled" THEN "stopped" ELSE "failed"
          /\ UNCHANGED ops
    /\ left' = Off
    /\ UNCHANGED <<wrapperKind, controller, ctx, interrupted, pipes, grace, wrapper,
                   childCtx, watching, lost, result, slow>>

EndWork == child \in {"command", "validator"} /\ EndOp

EndSlow == child = "slow" /\ EndOp

\* applyBody returns: no line is left, or the context is done before one.
ChildExits ==
    /\ child = "idle"
    /\ \/ ops = 0 /\ child' = "done"
       \/ ops > 0 /\ childCtx = "canceled" /\ child' = "stopped"
    /\ UNCHANGED <<wrapperKind, controller, ctx, interrupted, pipes, grace, wrapper,
                   childCtx, watching, left, ops, lost, result, slow>>

sigpipeIgnored == TRUE

\* The child logs a line when nobody reads its output.
WriteUnread ==
    /\ ChildRuns /\ reader = "none"
    /\ lost' = TRUE
    /\ child' = IF sigpipeIgnored THEN child ELSE "killed"
    /\ UNCHANGED <<wrapperKind, controller, ctx, interrupted, pipes, grace, wrapper,
                   childCtx, watching, left, ops, result, slow>>

(***************************************************************************)
(* Time                                                                    *)
(***************************************************************************)
\* Nothing is due that happens at once.
Quiet ==
    /\ ~CancelDue /\ ~KillDue
    /\ ~(controller = "wait" /\ wrapper # "up")
    /\ ~(watching /\ pipe = "byte" /\ ChildRuns)
    /\ child # "idle" /\ left # 0
    /\ ~(wrapper = "up" /\ ~ChildRuns)

Down(timer) == IF timer \in {Off, 0} THEN timer ELSE timer - 1

Tick ==
    /\ Quiet
    /\ grace' = Down(grace)
    /\ left' = Down(left)
    /\ <<grace', left'>> # <<grace, left>>
    /\ UNCHANGED <<wrapperKind, controller, ctx, interrupted, pipes, wrapper, child, childCtx,
                   watching, ops, lost, result, slow>>

Program ==
    \/ CancelElevated \/ KillWrapper \/ WaitReturns \/ RelayEnds \/ ControllerExits
    \/ WrapperExits \/ watchCancelPipe \/ StartWork \/ EndWork \/ ChildExits \/ Tick

Environment == EndSlow \/ Interrupt \/ ChunkTimeout \/ ControllerDies \/ WriteUnread

Next == Program \/ Environment

Spec == Init /\ [][Next]_vars

\* The processes and the clock go on; in-process work may hang for ever.
FairSpec == Spec /\ WF_vars(Program)

(***************************************************************************)
(* Properties                                                              *)
(***************************************************************************)
\* The grace is long enough: when the wrapper is killed no command and no
\* validator runs in the child, whatever op it was in, and none starts later.
GraceSuffices == wrapper = "killed" => child \notin {"command", "validator"}

\* Only an interrupt or the chunk timeout stops the child; a controller that
\* vanishes, or that closes the pipe when it returns, does not.
StopOnlyOnRequest == childCtx = "canceled" => ctx # "live"

\* The child is never killed in the middle of an op: not by a wrapper that
\* was signalled, and not by a pipe nobody reads.
ChildNeverKilled == child # "killed"

\* The root child runs on until its plan is applied or it was asked to stop,
\* and stops between two ops (runElevatedApply, SIGPIPE in the child).
ChildRunsOn == StopOnlyOnRequest /\ ChildNeverKilled

\* The elevated apply returns without error only if the child applied every op.
OkMeansApplied == result = "ok" => child = "done" /\ ops = 0

\* How a canceled or timed-out apply ends, even if the child hangs in an op,
\* holding the output: the wrapper is killed and the output handed over.
\* Only OpenBSD's doas cannot be killed.
CancelIsOver ==
    \/ controller \in {"returned", "exited", "dead"}
    \/ wrapperKind = "doas" /\ child = "slow"
=============================================================================
