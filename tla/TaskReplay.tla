----------------------------- MODULE TaskReplay -----------------------------
(***************************************************************************)
(* The task record of a workflow task twice: as the running daemon keeps   *)
(* it, and as replayTasks would rebuild it from the log written so far     *)
(* (daemon/src/daemon/tasks.ts, operations.ts workflowRun). Both follow    *)
(* the same events through the same operators; they differ in where the    *)
(* record comes from, and so in the node count they read off its preset.   *)
(***************************************************************************)
EXTENDS TaskStore

CONSTANT MaxAttempts  \* bound: dispatches of a node

VARIABLES live,     \* the record upserted by workflowRun
          rebuilt,  \* the record replayTasks would build
          running,  \* nodes whose terminal event is not logged yet
          attempts  \* node -> dispatches

vars == <<live, rebuilt, running, attempts>>

Init ==
    /\ live = NewTask
    /\ rebuilt = NewTask
    /\ running = {}
    /\ attempts = [n \in Nodes |-> 0]

\* expectedWorkflowNodes: workflowRun encodes the nodes in the preset of its
\* record. The rebuilt record is created, running, by the first node.started,
\* which is what NodeStarted makes of NewTask. The engine's node.started carries
\* no extra.preset, so that record has the preset '' and completes at its first
\* node.
LiveExpected == Cardinality(Nodes)
RebuiltExpected == 1

Started(n) ==
    /\ n \notin running \cup live.doneNodes
    /\ attempts[n] < MaxAttempts
    /\ running' = running \cup {n}
    /\ attempts' = [attempts EXCEPT ![n] = @ + 1]
    /\ live' = NodeStarted(live, attempts[n] + 1)
    /\ rebuilt' = NodeStarted(rebuilt, attempts[n] + 1)

Completed(n) ==
    /\ n \in running
    /\ running' = running \ {n}
    /\ live' = NodeCompleted(live, n, LiveExpected)
    /\ rebuilt' = NodeCompleted(rebuilt, n, RebuiltExpected)
    /\ UNCHANGED attempts

Failed(n) ==
    /\ n \in running
    /\ running' = running \ {n}
    /\ \E reason \in {"crash", "budget_paused", "cancelled"} :
          /\ live' = NodeFailed(live, reason, attempts[n])
          /\ rebuilt' = NodeFailed(rebuilt, reason, attempts[n])
    /\ UNCHANGED attempts

\* Logged by the ledger and by the approval board while nodes run.
SideEvent ==
    /\ running # {}
    /\ \/ live' = BudgetExceeded(live) /\ rebuilt' = BudgetExceeded(rebuilt)
       \/ live' = ApprovalRequested(live) /\ rebuilt' = ApprovalRequested(rebuilt)
    /\ UNCHANGED <<running, attempts>>

Next == (\E n \in Nodes : Started(n) \/ Completed(n) \/ Failed(n)) \/ SideEvent

Spec == Init /\ [][Next]_vars

----------------------------------------------------------------------------

\* A daemon that restarts shows a task that has settled as it was shown before
\* (tasks.ts:263-268): the record rebuilt from the log agrees with the live one
\* on every end, whatever the order of retries, failures and budget breaks. It
\* does not agree on the way there: without the preset the rebuilt record is
\* completed at its first node.
SettledTaskSurvives == live.status \in Terminal => rebuilt.status = live.status
=============================================================================
