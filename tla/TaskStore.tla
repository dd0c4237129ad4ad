----------------------------- MODULE TaskStore -----------------------------
(***************************************************************************)
(* The daemon's view of one task: daemon/src/daemon/tasks.ts.              *)
(*                                                                         *)
(* The store changes only by events: every node.* and budget.* event that  *)
(* reaches the log is applied to the record by applyTaskEvent, both while  *)
(* the daemon runs and when it replays the log at start-up. The operators  *)
(* below are those transition functions, on a record that stands for       *)
(* TaskRecord.status and the two side maps doneNodes and failedAttempts.   *)
(***************************************************************************)
EXTENDS Naturals, FiniteSets

CONSTANT Nodes  \* the nodes of the task's workflow

TaskStatus == {"created", "running", "waiting_approval", "paused",
               "completed", "failed", "cancelled"}

Terminal == {"completed", "failed", "cancelled"}

IsTransitional(status) == status \notin Terminal

TaskRecord == [status : TaskStatus,
               doneNodes : SUBSET Nodes,     \* nodes with a node.completed event
               failedAttempt : Nat]          \* attempt of the latest failure

NewTask == [status |-> "created", doneNodes |-> {}, failedAttempt |-> 0]

----------------------------------------------------------------------------
(* One operator per mark* method.                                          *)

\* A retried node pulls a task back from failed, a late one does not.
MarkRunning(t, attempt) ==
    IF IsTransitional(t.status) \/ (t.status = "failed" /\ attempt > t.failedAttempt)
    THEN [t EXCEPT !.status = "running"]
    ELSE t

MarkWaitingApproval(t) ==
    IF IsTransitional(t.status) THEN [t EXCEPT !.status = "waiting_approval"] ELSE t

MarkPaused(t) ==
    IF IsTransitional(t.status) THEN [t EXCEPT !.status = "paused"] ELSE t

MarkCompleted(t) ==
    IF IsTransitional(t.status) THEN [t EXCEPT !.status = "completed"] ELSE t

\* Faulty variant: what is completed stays so.
MarkFailed_NotCompleted(t, attempt) ==
    IF t.status \in {"cancelled", "completed"} THEN t
    ELSE [t EXCEPT !.status = "failed", !.failedAttempt = attempt]

\* completed may be overruled by a failed final check; cancelled may not.
MarkFailed(t, attempt) ==
    IF t.status = "cancelled" THEN t
    ELSE [t EXCEPT !.status = "failed", !.failedAttempt = attempt]

MarkCancelled(t) == [t EXCEPT !.status = "cancelled"]

----------------------------------------------------------------------------
(* applyTaskEvent, one operator per event type it reacts to. "expected" is *)
(* the number of nodes expectedWorkflowNodes reads off the preset of the   *)
(* record; a record without a workflow preset is complete at its first     *)
(* node.completed, which is expected = 1.                                  *)

NodeStarted(t, attempt) == MarkRunning(t, attempt)

NodeCompleted(t, n, expected) ==
    LET u == [t EXCEPT !.doneNodes = @ \cup {n}]
    IN  IF Cardinality(u.doneNodes) >= expected THEN MarkCompleted(u) ELSE u

NodeFailed(t, reason, attempt) ==
    CASE reason = "budget_paused" -> MarkPaused(t)
      [] reason = "cancelled"     -> MarkCancelled(t)
      [] OTHER                    -> MarkFailed(t, attempt)

BudgetExceeded(t) == MarkPaused(t)

ApprovalRequested(t) == MarkWaitingApproval(t)
============================================================================
