---------------------------- MODULE ToolExecution ----------------------------
(***************************************************************************)
(* ToolExecutor: one tool call at a time is authorized, prepared, executed *)
(* under a deadline, checked and committed.  A write that may have begun   *)
(* is rolled back when anything goes wrong, and when the turn is           *)
(* cancelled: then the recovery is shielded, otherwise it is not.  The     *)
(* recovery of a result that is refused runs inside the try, and a         *)
(* cancellation that hits it starts a second one, which is shielded.       *)
(*                                                                         *)
(* The registry accepts a write tool only with prepare, commit and         *)
(* rollback, or with a compensation; `effect` is what such a tool has done *)
(* to the outside.                                                         *)
(***************************************************************************)
EXTENDS Naturals

VARIABLES
  tool,             \* the kind of the tool that runs, or "none"
  step,             \* where _execute is
  wrote,            \* write_started
  shielded,         \* whether the recovery runs under asyncio.shield
  effect,           \* the write's effect
  result            \* what execute returned, until the caller takes it

toolVars == <<tool, step, wrote, shielded, effect, result>>

\* read_only; prepare, commit, rollback; compensate.
ToolKind == {"read", "transactional", "compensated"}

\* "revert" is the recovery inside the try, "recover" that of a handler.
Step == {"free", "resolve", "prepare", "execute", "commit", "revert", "recover"}

Recovering == step \in {"revert", "recover"}

\* "partial" while the tool or its recovery is at work, "stuck" when the
\* recovery raised, "torn" when it was cut.
Effect == {"none", "partial", "done", "kept", "undone", "stuck", "torn"}

\* Whether the ToolResult is a success, a failure, or TOOL_ROLLBACK_FAILED;
\* "cancelled" is CancelledError.
Result == {"none", "success", "failure", "rollback_failed", "cancelled"}

ToolInit ==
  /\ tool = "none" /\ step = "free" /\ wrote = FALSE /\ shielded = FALSE
  /\ effect = "none" /\ result = "none"

BeginTool(kind) ==
  /\ step = "free" /\ result = "none"
  /\ tool' = kind /\ step' = "resolve" /\ effect' = "none"
  /\ UNCHANGED <<wrote, shielded, result>>

\* execute returns or raises.
EndTool(r) ==
  /\ result' = r /\ step' = "free" /\ tool' = "none"
  /\ wrote' = FALSE /\ shielded' = FALSE

\* CREDENTIAL_REJECTED, TOOL_NOT_FOUND, TOOL_DISABLED, TOOL_DENIED or
\* TOOL_ARGUMENTS_INVALID: nothing was written.
Refuse ==
  /\ step = "resolve"
  /\ EndTool("failure")
  /\ UNCHANGED effect

Resolve ==
  /\ step = "resolve"
  /\ step' = IF tool = "transactional" THEN "prepare" ELSE "execute"
  /\ wrote' = (tool = "compensated")
  /\ UNCHANGED <<tool, shielded, effect, result>>

PrepareDone ==
  /\ step = "prepare"
  /\ step' = "execute" /\ wrote' = TRUE
  /\ UNCHANGED <<tool, shielded, effect, result>>

\* TOOL_PREPARE_FAILED: prepare has no effect of its own.
PrepareFails ==
  /\ step = "prepare"
  /\ EndTool("failure")
  /\ UNCHANGED effect

\* The tool writes while it runs; there may be steps of it between.
ExecuteWrites ==
  /\ step = "execute" /\ tool # "read" /\ effect \in {"none", "partial"}
  /\ effect' = IF effect = "none" THEN "partial" ELSE "done"
  /\ UNCHANGED <<tool, step, wrote, shielded, result>>

\* A safe, small, successful result; a transactional write is committed next.
ExecuteSucceeds ==
  /\ step = "execute" /\ (tool # "read" => effect = "done")
  /\ IF tool = "transactional"
       THEN step' = "commit" /\ UNCHANGED <<tool, wrote, shielded, effect, result>>
       ELSE /\ EndTool("success")
            /\ effect' = IF tool = "read" THEN effect ELSE "kept"

\* Mutant: recovery only for what a failing execute is known to have done.
RecoverIfDone(where) ==
  IF effect = "done"
    THEN step' = where /\ effect' = "partial" /\ UNCHANGED <<tool, wrote, shielded, result>>
    ELSE EndTool("failure") /\ UNCHANGED effect

\* recover_write: the rollback runs if the write may have begun.
RecoverWrite(where) ==
  IF wrote
    THEN step' = where /\ effect' = "partial" /\ UNCHANGED <<tool, wrote, shielded, result>>
    ELSE EndTool("failure") /\ UNCHANGED effect

\* An outcome that is no success, or a result over max_result_bytes.
ResultRejected ==
  /\ step = "execute"
  /\ RecoverWrite("revert")

\* TOOL_TIMEOUT, an error, a result with a credential; in commit, an error.
Fail ==
  /\ step \in {"execute", "commit"}
  /\ RecoverWrite("recover")

CommitDone ==
  /\ step = "commit"
  /\ effect' = "kept"
  /\ EndTool("success")

RecoverDone ==
  /\ Recovering
  /\ effect' = "undone"
  /\ EndTool(IF shielded THEN "cancelled" ELSE "failure")

\* TOOL_ROLLBACK_FAILED; nobody is told when the turn is cancelled.
RecoverFails ==
  /\ Recovering
  /\ effect' = "stuck"
  /\ EndTool(IF shielded THEN "cancelled" ELSE "rollback_failed")

ToolStep ==
  \/ Refuse \/ Resolve \/ PrepareDone \/ PrepareFails
  \/ ExecuteWrites \/ ExecuteSucceeds \/ ResultRejected \/ Fail
  \/ CommitDone \/ RecoverDone \/ RecoverFails

\* CancelledError in prepare, execute or commit: the recovery is shielded.
CancelRunning ==
  /\ step \in {"prepare", "execute", "commit"}
  /\ IF wrote
       THEN /\ step' = "recover" /\ shielded' = TRUE /\ effect' = "partial"
            /\ UNCHANGED <<tool, wrote, result>>
       ELSE EndTool("cancelled") /\ UNCHANGED effect

\* CancelledError in the recovery inside the try: the handler runs rollback or
\* compensate once more, shielded, over what the first has left.
CancelRevert ==
  /\ step = "revert"
  /\ step' = "recover" /\ shielded' = TRUE
  /\ UNCHANGED <<tool, wrote, effect, result>>

\* CancelledError in the recovery of a handler: an unshielded one is cut where it is; a
\* shielded one loses its waiter and may end before the event loop closes.
CancelRecovery ==
  /\ step = "recover"
  /\ effect' \in IF shielded THEN {"torn", "undone", "stuck"} ELSE {"torn"}
  /\ EndTool("cancelled")

CancelTool == CancelRunning \/ CancelRevert \/ CancelRecovery
=============================================================================
