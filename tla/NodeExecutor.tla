--------------------------- MODULE NodeExecutor ---------------------------
(***************************************************************************)
(* One node execution: daemon/src/engine/node-executor.ts, with the budget *)
(* ledger it records usage in and the task record its events move.         *)
(*                                                                         *)
(* An execution is a promise the engine waits for. Its phases:             *)
(*    running   node.started is logged; grants, secrets, sandbox, runtime  *)
(*    breaking  a usage record hit the hard limit, node.failed is due      *)
(*    closing   the outcome is logged; the sandbox is being released       *)
(*    settled   the promise is settled, the engine has not read it yet     *)
(* Events enter the log in the order they are appended and reach the task  *)
(* record in that order, so an append and its effect on the record are one *)
(* step here.                                                              *)
(***************************************************************************)
EXTENDS TaskStore

CONSTANTS HasBudget,  \* is the run given a BudgetLedger?
          MaxFaults,  \* bound: failures, budget breaks and errors of a run
          MaxRaises   \* bound: calls of budget.raise

VARIABLES exec,     \* phase of each node's execution
          outcome,  \* how each node's latest execution ended
          level,    \* the ledger's level: hard, or anything below (ok)
          task,     \* the TaskStore record of the run's task
          faults,   \* failures so far
          raises    \* raises so far

execVars == <<exec, outcome, level, task, faults, raises>>

Phase == {"idle", "running", "breaking", "closing", "settled"}

\* crash stands for every reason #retry treats as a crash: output_missing too
RetryReason == {"crash", "timeout"}
Outcome == {"none", "completed", "budget_paused", "cancelled", "error"} \cup RetryReason

ExecInit ==
    /\ exec = [n \in Nodes |-> "idle"]
    /\ outcome = [n \in Nodes |-> "none"]
    /\ level = "ok"
    /\ task = NewTask
    /\ faults = 0
    /\ raises = 0

NoFault == UNCHANGED <<faults, raises, level>>
Fault   == faults < MaxFaults /\ faults' = faults + 1

Close(n, how) ==
    /\ exec' = [exec EXCEPT ![n] = "closing"]
    /\ outcome' = [outcome EXCEPT ![n] = how]

----------------------------------------------------------------------------

\* Outputs published, node.completed logged. At a hard level only a node
\* that reported no usage gets this far.
Completes(n) ==
    /\ exec[n] = "running"
    /\ Close(n, "completed")
    /\ task' = NodeCompleted(task, n, Cardinality(Nodes))
    /\ NoFault

\* The runtime crashed, timed out or left an output out; or an append of what
\* #settle logs was refused, the one of the budget pause included: a crash.
Fails(n, attempt) ==
    /\ exec[n] \in {"running", "breaking"}
    /\ Fault
    /\ \E reason \in RetryReason :
          /\ exec[n] = "breaking" => reason = "crash"
          /\ Close(n, reason)
          /\ task' = NodeFailed(task, reason, attempt)
    /\ UNCHANGED <<level, raises>>

\* budget.record crosses or is past the hard limit; budget.exceeded is
\* logged once per arming.
BreaksBudget(n) ==
    /\ HasBudget
    /\ exec[n] = "running"
    /\ Fault
    /\ level' = "hard"
    /\ task' = IF level = "hard" THEN task ELSE BudgetExceeded(task)
    /\ exec' = [exec EXCEPT ![n] = "breaking"]
    /\ UNCHANGED <<outcome, raises>>

LogsBudgetPaused(n, attempt) ==
    /\ exec[n] = "breaking"
    /\ Close(n, "budget_paused")
    /\ task' = NodeFailed(task, "budget_paused", attempt)
    /\ NoFault

\* The abort signal wins the race against the runtime.
ObservesAbort(n, attempt, aborted) ==
    /\ aborted
    /\ exec[n] = "running"
    /\ Close(n, "cancelled")
    /\ task' = NodeFailed(task, "cancelled", attempt)
    /\ NoFault

\* Sandbox destroyed or pooled: execute() returns its outcome.
Releases(n) ==
    /\ exec[n] = "closing"
    /\ exec' = [exec EXCEPT ![n] = "settled"]
    /\ UNCHANGED <<outcome, task>>
    /\ NoFault

\* execute() rejects: before the runtime (grant, secret, sandbox create), at
\* the append of its node.failed, or while it releases the sandbox. None of
\* these logs an event.
Throws(n) ==
    /\ exec[n] \in {"running", "breaking", "closing"}
    /\ Fault
    /\ exec' = [exec EXCEPT ![n] = "settled"]
    /\ outcome' = [outcome EXCEPT ![n] = "error"]
    /\ UNCHANGED <<level, task, raises>>

\* budget.raise lifts the limit above what was used.
Raise ==
    /\ level = "hard"
    /\ raises < MaxRaises
    /\ level' = "ok"
    /\ raises' = raises + 1
    /\ UNCHANGED <<exec, outcome, task, faults>>

ExecTypeOK ==
    /\ exec \in [Nodes -> Phase]
    /\ outcome \in [Nodes -> Outcome]
    /\ level \in {"ok", "hard"}
    /\ task \in TaskRecord
    /\ faults \in 0..MaxFaults
    /\ raises \in 0..MaxRaises
============================================================================
