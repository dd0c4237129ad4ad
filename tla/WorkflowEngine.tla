-------------------------- MODULE WorkflowEngine --------------------------
(***************************************************************************)
(* One run of the workflow engine: daemon/src/engine/workflow-engine.ts,   *)
(* composed with its gate (EngineGate), the executions it waits for        *)
(* (NodeExecutor) and the task record their events move (TaskStore).       *)
(*                                                                         *)
(* #loop is an async function; between two awaits it runs alone. Each      *)
(* action of the loop below is one such turn. Its first half is always the *)
(* same (take the settled entries), so the operators ...Now name what the  *)
(* sets are after that half, and the actions are the ways the turn ends.   *)
(***************************************************************************)
EXTENDS NodeExecutor, EngineGate, Sequences

CONSTANTS inputs,      \* node -> the nodes whose artifacts it reads
          parallel,    \* the nodes with parallel: true
          topoIndex,   \* node -> position in the topological order
          maxParallel, \* intent.constraints.max_parallel
          retryMax,    \* node -> retry.max
          retryOn,     \* node -> the reasons retry.on names (timeout: idempotent)
          feedback     \* sequence of [from, to, max_traversals]

\* parse.ts:155 refuses a workflow without nodes, topoSort one whose inputs
\* are cyclic.
ASSUME EngineAssumption ==
    /\ IsFiniteSet(Nodes) /\ Nodes # {}
    /\ inputs \in [Nodes -> SUBSET Nodes]
    /\ topoIndex \in [Nodes -> Nat]
    /\ \A m, n \in Nodes : topoIndex[m] = topoIndex[n] => m = n
    /\ \A n \in Nodes : \A i \in inputs[n] : topoIndex[i] < topoIndex[n]
    /\ parallel \subseteq Nodes
    /\ maxParallel \in Nat \ {0}
    /\ retryMax \in [Nodes -> Nat]
    /\ retryOn \in [Nodes -> SUBSET RetryReason]
    /\ feedback \in Seq([from : Nodes, to : Nodes, max_traversals : Nat])

VARIABLES loop,          \* where #loop awaits, or how it left
          pendingResume, \* a resume to consume when the suspension lands
          pausedOnce,    \* pausedNode has been set by an earlier suspension
          drainError,    \* #drain has met an executor error
          completed,     \* nodes completed and not reset
          outputs,       \* node -> the attempt whose outputs are recorded, 0 none
          used,          \* node -> the input versions its latest dispatch read
          attempts,      \* node -> dispatches so far
          traversals,    \* feedback edge -> times taken
          setbacks,      \* history: node -> results of it that were taken back
          failures,      \* failed nodes whose handling waits for the drain
          result         \* status of the WorkflowRunResult, once there is one

engineVars == <<loop, pendingResume, pausedOnce, drainError, completed, outputs,
                used, attempts, traversals, setbacks, failures, result>>

vars == <<engineVars, execVars, gate>>

\* gate: at gate.wait(); notify: at waitNotify; drain: in #drain for a budget
\* break; finalCheck: reading the evidence; suspended: left, status paused.
LoopState == {"gate", "notify", "drain", "finalCheck", "suspended", "over"}
Result == {"none", "completed", "failed", "cancelled", "rejected"}

Init ==
    /\ ExecInit
    /\ GateInit
    /\ loop = "gate"
    /\ pendingResume = FALSE
    /\ pausedOnce = FALSE
    /\ drainError = FALSE
    /\ completed = {}
    /\ outputs = [n \in Nodes |-> 0]
    /\ used = [n \in Nodes |-> [i \in Nodes |-> 0]]
    /\ attempts = [n \in Nodes |-> 0]
    /\ traversals = [e \in DOMAIN feedback |-> 0]
    /\ setbacks = [n \in Nodes |-> 0]
    /\ failures = <<>>
    /\ result = "none"

----------------------------------------------------------------------------
(* takeSettled: every settled entry leaves settled and inFlight, whether   *)
(* the turn gets to process it or not.                                     *)

Settled == {n \in Nodes : exec[n] = "settled"}
InFlight == {n \in Nodes : exec[n] # "idle"}
Ended(S, how) == {n \in S : outcome[n] \in how}
Before(S, n) == {m \in S : topoIndex[m] < topoIndex[n]}
IsFirst(S, n) == n \in S /\ Before(S, n) = {}

Taken == [n \in Nodes |-> IF exec[n] = "settled" THEN "idle" ELSE exec[n]]

\* The entries a turn stops at, and those a failure list takes.
Stops == Ended(Settled, {"error", "budget_paused"})
Failing == RetryReason \cup {"cancelled"}

InTopoOrder(S) ==
    CHOOSE seq \in [1..Cardinality(S) -> S] :
        \A i, j \in DOMAIN seq : i < j => topoIndex[seq[i]] < topoIndex[seq[j]]

CompletedWith(S) == completed \cup Ended(S, {"completed"})
OutputsWith(S) ==
    [n \in Nodes |-> IF n \in Ended(S, {"completed"}) THEN attempts[n] ELSE outputs[n]]
FailuresWith(S) == failures \o InTopoOrder(Ended(S, Failing))

Harvest(S) ==
    /\ completed' = CompletedWith(S)
    /\ outputs' = OutputsWith(S)
    /\ failures' = FailuresWith(S)

\* History: the run gives up what the nodes of S have ended with.
TakenBack(S) == [n \in Nodes |-> IF n \in S THEN setbacks[n] + 1 ELSE setbacks[n]]

CompletedNow == CompletedWith(Settled)
FailuresNow == FailuresWith(Settled)
InFlightNow == InFlight \ Settled

Ready == {n \in Nodes \ (CompletedNow \cup InFlightNow) : inputs[n] \subseteq CompletedNow}

----------------------------------------------------------------------------
(* How a run ends.                                                         *)

\* The run's promise rejects: the caller logs a failure of the engine.
Reject ==
    /\ loop' = "over"
    /\ result' = "rejected"
    /\ task' = MarkFailed(task, 0)

\* #finishCancelled. A failed entry it reaps is taken to have logged its own
\* terminal event, unless that event was a budget pause; the node.failed it
\* logs otherwise is about pausedNode or the first node not completed.
FinishCancelled ==
    LET reaped == Ended(Settled, Outcome \ {"none", "completed"})
        silent == IF reaped = {}
                  THEN ~pausedOnce /\ CompletedNow = Nodes
                  ELSE \E n \in reaped : IsFirst(reaped, n) /\ outcome[n] # "budget_paused"
    IN  /\ completed' = CompletedNow
        /\ outputs' = OutputsWith(Settled)
        /\ exec' = Taken
        /\ task' = IF silent THEN task ELSE MarkCancelled(task)
        /\ loop' = "over"
        /\ result' = "cancelled"
        /\ UNCHANGED <<failures, pausedOnce, drainError, used, attempts, traversals,
                       setbacks, outcome, level, faults, raises>>

----------------------------------------------------------------------------
(* The turns of #loop.                                                     *)

TurnAborted ==
    /\ loop = "gate"
    /\ WaitThrows
    /\ FinishCancelled
    /\ UNCHANGED <<gate, pendingResume>>

\* Every other turn starts at an open gate.
InTurn == loop = "gate" /\ WaitPasses

\* The first stop among the settled entries cuts the batch off.
TurnError ==
    /\ InTurn
    /\ \E n \in Ended(Stops, {"error"}) :
          IsFirst(Stops, n) /\ Harvest(Before(Settled, n))
    /\ exec' = Taken
    /\ Reject
    /\ UNCHANGED <<gate, pendingResume, pausedOnce, drainError, used, attempts,
                   traversals, setbacks, outcome, level, faults, raises>>

TurnBudgetPaused ==
    /\ InTurn
    /\ \E n \in Ended(Stops, {"budget_paused"}) :
          /\ IsFirst(Stops, n)
          /\ Harvest(Before(Settled, n))
          /\ setbacks' = TakenBack(Settled \ Before(Settled, n))
    /\ exec' = Taken
    /\ TryPauseGate
    /\ loop' = "drain"
    /\ UNCHANGED <<pendingResume, pausedOnce, drainError, used, attempts, traversals,
                   result, outcome, level, task, faults, raises>>

\* What a turn that takes entries and dispatches nothing leaves alone.
TakeOnly ==
    /\ exec' = Taken
    /\ UNCHANGED <<gate, pendingResume, pausedOnce, drainError, used, attempts,
                   outcome, level, faults, raises>>

TurnAwaitDrain ==
    /\ InTurn /\ Stops = {}
    /\ FailuresNow # <<>> /\ InFlightNow # {}
    /\ Harvest(Settled)
    /\ loop' = "notify"
    /\ TakeOnly
    /\ UNCHANGED <<traversals, setbacks, result, task>>

Retryable(n) == outcome[n] \in retryOn[n] /\ attempts[n] <= retryMax[n]

\* The first failure in the list that is not simply dispatched again.
Unretried == {i \in DOMAIN FailuresNow : ~Retryable(FailuresNow[i])}
Decisive(i) == i \in Unretried /\ \A j \in Unretried : i <= j

\* feedback.find: the first edge of the node with traversals left.
OpenEdges(n) == {e \in DOMAIN feedback :
                    feedback[e].from = n /\ traversals[e] < feedback[e].max_traversals}
IsNextEdge(n, e) == e \in OpenEdges(n) /\ \A d \in OpenEdges(n) : e <= d

\* Faulty variant: the reset stops at the target of the edge.
Downstream_TargetOnly(n) == {n}

\* downstreamOf: the least set that holds n and is closed under "reads from".
Downstream(n) ==
    {m \in Nodes : \A S \in SUBSET Nodes :
        (n \in S /\ \A k \in Nodes : inputs[k] \cap S # {} => k \in S) => m \in S}

\* Faulty variant: failures are handled while other nodes still run.
InFailureHandling_Undrained ==
    /\ InTurn /\ Stops = {}
    /\ FailuresNow # <<>>

InFailureHandling ==
    /\ InTurn /\ Stops = {}
    /\ FailuresNow # <<>> /\ InFlightNow = {}

TurnRetry ==
    /\ InFailureHandling
    /\ Unretried = {}
    /\ completed' = CompletedNow
    /\ outputs' = OutputsWith(Settled)
    /\ failures' = <<>>
    /\ TakeOnly
    /\ UNCHANGED <<loop, traversals, setbacks, result, task>>

\* Failures listed after the one that goes back are dropped.
TurnFeedback ==
    /\ InFailureHandling
    /\ \E i \in DOMAIN FailuresNow : Decisive(i) /\
         \E e \in DOMAIN feedback : IsNextEdge(FailuresNow[i], e) /\
            LET reset == Downstream(feedback[e].to)
                dropped == {FailuresNow[j] : j \in i..Len(FailuresNow)}
            IN  /\ traversals' = [traversals EXCEPT ![e] = @ + 1]
                /\ completed' = CompletedNow \ reset
                /\ outputs' = [n \in Nodes |-> IF n \in reset THEN 0
                                               ELSE OutputsWith(Settled)[n]]
                /\ setbacks' = TakenBack((reset \cap CompletedNow) \cup dropped)
    /\ failures' = <<>>
    /\ TakeOnly
    /\ UNCHANGED <<loop, result, task>>

TurnGiveUp ==
    /\ InFailureHandling
    /\ \E i \in DOMAIN FailuresNow : Decisive(i) /\ OpenEdges(FailuresNow[i]) = {}
    /\ completed' = CompletedNow
    /\ outputs' = OutputsWith(Settled)
    /\ failures' = <<>>
    /\ loop' = "over"
    /\ result' = "failed"
    /\ TakeOnly
    /\ UNCHANGED <<traversals, setbacks, task>>

----------------------------------------------------------------------------
(* Dispatch.                                                               *)

InDispatch == InTurn /\ Stops = {} /\ FailuresNow = <<>>

\* #dispatch of every node of a batch; their node.started are logged at once,
\* in order, before anything else of these executions.
Dispatch(batch) ==
    /\ Harvest(Settled)
    /\ attempts' = [n \in Nodes |-> IF n \in batch THEN attempts[n] + 1 ELSE attempts[n]]
    /\ used' = [n \in Nodes |-> IF n \in batch
                   THEN [i \in Nodes |-> IF i \in inputs[n] THEN OutputsWith(Settled)[i] ELSE 0]
                   ELSE used[n]]
    /\ exec' = [n \in Nodes |-> IF n \in batch THEN "running" ELSE Taken[n]]
    /\ outcome' = [n \in Nodes |-> IF n \in batch THEN "none" ELSE outcome[n]]
    /\ task' = [task EXCEPT !.status =
                  IF \E n \in batch : NodeStarted(task, attempts[n] + 1).status = "running"
                  THEN "running" ELSE @]
    /\ UNCHANGED <<loop, gate, pendingResume, pausedOnce, drainError, traversals,
                   setbacks, result, level, faults, raises>>

BatchAllowed == maxParallel > 1 /\ \E n \in parallel : IsFirst(Ready, n)

\* Faulty variant: one node too many.
Batch_OffByOne == {n \in Ready \cap parallel :
             /\ Before(Ready, n) \subseteq parallel
             /\ Cardinality(InFlightNow) + Cardinality(Before(Ready, n)) <= maxParallel}

\* The longest prefix of Ready that is parallel and fits under the limit.
Batch == {n \in Ready \cap parallel :
             /\ Before(Ready, n) \subseteq parallel
             /\ Cardinality(InFlightNow) + Cardinality(Before(Ready, n)) < maxParallel}

TurnDispatchBatch ==
    /\ InDispatch
    /\ BatchAllowed
    /\ Batch # {}
    /\ Dispatch(Batch)

TurnDispatchSerial ==
    /\ InDispatch
    /\ ~BatchAllowed
    /\ InFlightNow = {}
    /\ \E n \in Ready : IsFirst(Ready, n) /\ Dispatch({n})

\* Nothing fits: the turn ends where it began, at an open gate.
TurnSpin ==
    /\ InDispatch
    /\ BatchAllowed
    /\ Batch = {}
    /\ Harvest(Settled)
    /\ TakeOnly
    /\ UNCHANGED <<loop, traversals, setbacks, result, task>>

TurnWait ==
    /\ InDispatch
    /\ ~BatchAllowed
    /\ InFlightNow # {}
    /\ Harvest(Settled)
    /\ loop' = "notify"
    /\ TakeOnly
    /\ UNCHANGED <<traversals, setbacks, result, task>>

TurnAllDone ==
    /\ InDispatch
    /\ Ready = {} /\ InFlightNow = {}
    /\ Harvest(Settled)
    /\ loop' = "finalCheck"
    /\ TakeOnly
    /\ UNCHANGED <<traversals, setbacks, result, task>>

\* Faulty variant: a node that settles at an aborted gate wakes nobody.
Wake_OpenGateOnly ==
    /\ loop = "notify"
    /\ Settled # {}
    /\ gate # "aborted"
    /\ loop' = "gate"
    /\ UNCHANGED <<pendingResume, pausedOnce, drainError, completed, outputs, used,
                   attempts, traversals, setbacks, failures, result, execVars,
                   gate>>

\* signalNotify resolves the waiters of a loop that waits.
Wake ==
    /\ loop = "notify"
    /\ Settled # {}
    /\ loop' = "gate"
    /\ UNCHANGED <<pendingResume, pausedOnce, drainError, completed, outputs, used,
                   attempts, traversals, setbacks, failures, result, execVars,
                   gate>>

----------------------------------------------------------------------------
(* #drain after a budget break, and what #settle does when it is over.     *)

\* Faulty variant: the drain looks for failures, completions go unrecorded.
DrainTakes_FailuresOnly ==
    /\ loop = "drain"
    /\ Settled # {}
    /\ Harvest(Ended(Settled, Failing))
    /\ drainError' = (drainError \/ Ended(Settled, {"error"}) # {})
    /\ exec' = Taken
    /\ setbacks' = TakenBack(Ended(Settled, {"budget_paused"}))
    /\ UNCHANGED <<loop, gate, pendingResume, pausedOnce, used, attempts,
                   traversals, result, outcome, level, task, faults, raises>>

DrainTakes ==
    /\ loop = "drain"
    /\ Settled # {}
    /\ Harvest(Settled)
    /\ drainError' = (drainError \/ Ended(Settled, {"error"}) # {})
    /\ exec' = Taken
    /\ setbacks' = TakenBack(Ended(Settled, {"budget_paused"}))
    /\ UNCHANGED <<loop, gate, pendingResume, pausedOnce, used, attempts,
                   traversals, result, outcome, level, task, faults, raises>>

Drained == loop = "drain" /\ InFlight = {}

DrainRejects ==
    /\ Drained
    /\ drainError
    /\ Reject
    /\ UNCHANGED <<gate, pendingResume, pausedOnce, drainError, completed, outputs,
                   used, attempts, traversals, setbacks, failures, exec, outcome,
                   level, faults, raises>>

\* A resume that arrived while the break was landing runs the loop again.
DrainResumes ==
    /\ Drained
    /\ ~drainError
    /\ pendingResume
    /\ pendingResume' = FALSE
    /\ loop' = "gate"
    /\ TryResumeGate
    /\ UNCHANGED <<pausedOnce, drainError, completed, outputs, used, attempts,
                   traversals, setbacks, failures, result, execVars>>

\* Faulty variant: a cancel that landed during the drain is not noticed.
DrainCancels_Missed ==
    /\ Drained /\ ~drainError /\ ~pendingResume /\ WaitThrows
    /\ loop' = "suspended"
    /\ pausedOnce' = TRUE
    /\ UNCHANGED <<gate, pendingResume, drainError, completed, outputs, used,
                   attempts, traversals, setbacks, failures, result, execVars>>

DrainCancels ==
    /\ Drained
    /\ ~drainError
    /\ ~pendingResume
    /\ WaitThrows
    /\ FinishCancelled
    /\ UNCHANGED <<gate, pendingResume>>

\* Faulty variant: the suspension lands without a look at pendingResume.
DrainSuspends_ResumeDropped ==
    /\ Drained /\ ~drainError /\ ~WaitThrows
    /\ loop' = "suspended"
    /\ pausedOnce' = TRUE
    /\ UNCHANGED <<gate, pendingResume, drainError, completed, outputs, used,
                   attempts, traversals, setbacks, failures, result, execVars>>

DrainSuspends ==
    /\ Drained
    /\ ~drainError
    /\ ~pendingResume
    /\ ~WaitThrows
    /\ loop' = "suspended"
    /\ pausedOnce' = TRUE
    /\ UNCHANGED <<gate, pendingResume, drainError, completed, outputs, used,
                   attempts, traversals, setbacks, failures, result, execVars>>

----------------------------------------------------------------------------
(* Evidence and declared outputs, once every node is completed.            *)

FinalCheckPasses ==
    /\ loop = "finalCheck"
    /\ loop' = "over"
    /\ result' = "completed"
    /\ UNCHANGED <<pendingResume, pausedOnce, drainError, completed, outputs, used,
                   attempts, traversals, setbacks, failures, execVars, gate>>

\* Faulty variant: the failed check is only returned, no event is logged.
FinalCheckFails_Silent ==
    /\ loop = "finalCheck"
    /\ loop' = "over"
    /\ result' = "failed"
    /\ UNCHANGED <<pendingResume, pausedOnce, drainError, completed, outputs, used,
                   attempts, traversals, setbacks, failures, execVars, gate>>

\* #finalizeFailed logs a failure of the node whose artifact is at fault.
FinalCheckFails ==
    /\ loop = "finalCheck"
    /\ loop' = "over"
    /\ result' = "failed"
    /\ \E n \in Nodes : task' = NodeFailed(task, "evidence", attempts[n])
    /\ UNCHANGED <<pendingResume, pausedOnce, drainError, completed, outputs, used,
                   attempts, traversals, setbacks, failures, exec, outcome, level,
                   faults, raises, gate>>

----------------------------------------------------------------------------
(* The operator: task.pause, task.resume and task.cancel of a run that is  *)
(* still in the engine's table.                                            *)

Pause ==
    /\ loop # "over"
    /\ PauseGate
    /\ UNCHANGED <<engineVars, execVars>>

CancelRunning ==
    /\ loop \notin {"over", "suspended"}
    /\ AbortGate
    /\ UNCHANGED <<engineVars, execVars>>

CancelSuspended ==
    /\ loop = "suspended"
    /\ AbortGate
    /\ FinishCancelled
    /\ UNCHANGED pendingResume

ResumeSuspended ==
    /\ loop = "suspended"
    /\ loop' = "gate"
    /\ TryResumeGate
    /\ UNCHANGED <<pendingResume, pausedOnce, drainError, completed, outputs, used,
                   attempts, traversals, setbacks, failures, result, execVars>>

ResumePaused ==
    /\ loop \notin {"over", "suspended", "drain"}
    /\ ResumeGate
    /\ UNCHANGED <<engineVars, execVars>>

\* The break is landing (the drain), or the ledger says one may be about to.
ResumeLater ==
    /\ loop \notin {"over", "suspended"}
    /\ \/ gate = "paused" /\ loop = "drain"
       \/ gate # "paused" /\ level = "hard"
    /\ pendingResume' = TRUE
    /\ UNCHANGED <<loop, pausedOnce, drainError, completed, outputs, used, attempts,
                   traversals, setbacks, failures, result, execVars, gate>>

----------------------------------------------------------------------------

LoopStep ==
    \/ TurnAborted \/ TurnError \/ TurnBudgetPaused
    \/ TurnAwaitDrain \/ TurnRetry \/ TurnFeedback \/ TurnGiveUp
    \/ TurnDispatchBatch \/ TurnDispatchSerial \/ TurnSpin \/ TurnWait \/ TurnAllDone
    \/ Wake
    \/ DrainTakes \/ DrainRejects \/ DrainResumes \/ DrainCancels \/ DrainSuspends
    \/ FinalCheckPasses \/ FinalCheckFails

\* The loop has a microtask to run. Timers, I/O results and requests are
\* delivered only when there is none, so a loop that keeps coming back to an
\* open gate lets nothing else happen.
Runnable == \/ loop = "gate" /\ gate # "paused"
            \/ loop \in {"notify", "drain"} /\ Settled # {}
            \/ Drained

\* What the event loop delivers about node n.
RuntimeEnds(n) == Completes(n) \/ Fails(n, attempts[n]) \/ BreaksBudget(n) \/ Throws(n)
ExecutorStep(n) == \/ LogsBudgetPaused(n, attempts[n])
                   \/ ObservesAbort(n, attempts[n], gate = "aborted")
                   \/ Releases(n)

NodeStep(n) == (RuntimeEnds(n) \/ ExecutorStep(n)) /\ UNCHANGED <<engineVars, gate>>

Operator == \/ Pause \/ CancelRunning \/ CancelSuspended
            \/ ResumeSuspended \/ ResumePaused \/ ResumeLater
            \/ Raise /\ UNCHANGED <<engineVars, gate>>

\* A run that is over and whose executions have all returned.
Terminated == loop = "over" /\ (\A n \in Nodes : exec[n] \in {"idle", "settled"})
              /\ UNCHANGED vars

Next == \/ LoopStep
        \/ ~Runnable /\ (Operator \/ \E n \in Nodes : NodeStep(n))
        \/ Terminated

Spec == Init /\ [][Next]_vars

----------------------------------------------------------------------------
(* Safety.                                                                 *)

\* What a node reads is never reset under it: the inputs of a node that runs
\* or is completed are completed (dispatch guard, feedback reset and drain).
DependencyClosed ==
    \A n \in completed \cup InFlight : inputs[n] \subseteq completed

\* Every dispatch of a node is accounted for: the first one, the retries its
\* policy allows, and one for each result of it that was taken back, by a
\* feedback edge or by a budget break. A break does take results back: the turn
\* that finds it has taken the entries behind it too and forgets that they
\* completed, so that completed nodes run again after the resume
\* (workflow-engine.ts:341-352, though its line 12 says that the batch is not
\* torn). Nothing else makes a node run again: no other completion or failure
\* is lost or counted twice over failures that wait for others to finish,
\* drains, suspensions and resumes.
RerunsAreOwed == \A n \in Nodes : attempts[n] <= 1 + retryMax[n] + setbacks[n]

\* No result rests on an artifact that a rerun has replaced: whatever a node
\* that runs or is completed has read is what its input last published.
FreshInputs ==
    \A n \in completed \cup InFlight : \A i \in inputs[n] : used[n][i] = outputs[i]

\* intent.constraints.max_parallel bounds the executions in flight, whatever
\* mixture of retries, reruns and pauses brought them about.
WithinMaxParallel == Cardinality(InFlight) <= maxParallel

\* A node has been dispatched with an attempt above that of the last failure.
Overtaken == \E n \in Nodes : attempts[n] > task.failedAttempt

\* What a run reports is what the task record says, through every retry, rerun
\* and suspension. A run that reports completed has every node completed and a
\* record that says so. One that reports failed leaves a record that says so,
\* always if a final check failed, and after a failure of a node unless some
\* node was dispatched with a later attempt, which markRunning takes for a
\* retry of it. One that rejects leaves a failed record, or a cancelled one.
OutcomeIsVisible ==
    /\ result = "completed" => completed = Nodes /\ task.status = "completed"
    /\ result = "failed" => task.status = "failed" \/ (completed # Nodes /\ Overtaken)
    /\ result = "rejected" => task.status \in {"failed", "cancelled"}

\* A resume that arrives while a budget break is landing is not left behind
\* when the run is suspended.
ResumeIsConsumed == loop = "suspended" => ~pendingResume

----------------------------------------------------------------------------
(* Liveness. The loop's turns are microtasks and are always run; a node's  *)
(* execution gets its events delivered when the loop has nothing to run.   *)

ExecutorFair(n) == ~Runnable /\ ExecutorStep(n) /\ UNCHANGED <<engineVars, gate>>

FairSpec == /\ Spec
            /\ WF_vars(LoopStep)
            /\ \A n \in Nodes : WF_vars(ExecutorFair(n))

\* A runtime may hang for ever if it has no timeout; this one does not.
RuntimeReturns(n) == WF_vars(~Runnable /\ NodeStep(n))

\* A run whose runtimes return never just stops: it comes to an end or waits
\* for the operator.
RunSettles == (\A n \in Nodes : RuntimeReturns(n)) =>
                 []<>(loop \in {"over", "suspended"} \/ gate = "paused")

\* An accepted cancel ends the run, from any window it may fall into, and
\* even if the runtimes never return.
CancelSettles == gate = "aborted" ~> loop = "over"

============================================================================
