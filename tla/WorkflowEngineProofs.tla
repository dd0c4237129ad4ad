------------------------ MODULE WorkflowEngineProofs ------------------------
(***************************************************************************)
(* What the engine never does to the artifacts a run is built on, for      *)
(* every workflow, limit, retry policy and set of feedback edges: it never *)
(* runs a node on inputs that are missing and never lets a result rest on  *)
(* an artifact that was replaced; how many nodes it runs at once, what it  *)
(* reports in the end, and how often it runs a node.                       *)
(*                                                                         *)
(* The first two are inductive together. A node's outputs change when it   *)
(* completes, and then nobody has read them: a reader would need the node  *)
(* completed (DependencyClosed), and it was in flight (InFlightIsOpen).    *)
(* They are taken back by a feedback edge, and then every reader goes too: *)
(* the reset is closed under "reads from" and nothing is in flight.        *)
(*                                                                         *)
(* It keeps to max_parallel: a batch fills up what is in flight, and what  *)
(* is in flight only shrinks between two batches. And it reports what the  *)
(* task's record says: every way for a run to be failing has a node that   *)
(* is on record as failed, unless a later attempt has overtaken it.        *)
(*                                                                         *)
(* How often it runs a node follows from what happens to a result that is  *)
(* neither recorded nor waiting on the list of failures: it was allowed a  *)
(* retry, or the turn that let go of it is on record for taking it back.   *)
(***************************************************************************)
EXTENDS WorkflowEngine, FiniteSetTheorems, WellFoundedInduction, TLAPS

DataTypeOK ==
    /\ exec \in [Nodes -> Phase]
    /\ completed \subseteq Nodes
    /\ outputs \in [Nodes -> Nat]
    /\ used \in [Nodes -> [Nodes -> Nat]]
    /\ attempts \in [Nodes -> Nat]

\* A node in flight does not count as completed.
InFlightIsOpen == completed \cap InFlight = {}

EngineInv == DataTypeOK /\ DependencyClosed /\ InFlightIsOpen /\ FreshInputs

dataVars == <<exec, completed, outputs, used, attempts>>

----------------------------------------------------------------------------
(* The ways a step can touch the artifacts.                                *)

\* The settled entries are taken, those of S are accounted for.
Takes(S) ==
    /\ S \subseteq Settled
    /\ exec' = Taken
    /\ completed' = CompletedWith(S)
    /\ outputs' = OutputsWith(S)
    /\ UNCHANGED <<used, attempts>>

\* An execution moves on and stays in flight.
Proceeds ==
    /\ exec' \in [Nodes -> Phase]
    /\ \A n \in Nodes : exec'[n] = "idle" <=> exec[n] = "idle"
    /\ UNCHANGED <<completed, outputs, used, attempts>>

\* A feedback edge takes back what is downstream of m.
GoesBack(m) ==
    /\ InFlightNow = {}
    /\ exec' = Taken
    /\ completed' = CompletedNow \ Downstream(m)
    /\ outputs' = [n \in Nodes |-> IF n \in Downstream(m) THEN 0 ELSE OutputsWith(Settled)[n]]
    /\ UNCHANGED <<used, attempts>>

\* The nodes of a batch start on what their inputs have published.
Starts(batch) ==
    /\ batch \subseteq Ready
    /\ exec' = [n \in Nodes |-> IF n \in batch THEN "running" ELSE Taken[n]]
    /\ completed' = CompletedWith(Settled)
    /\ outputs' = OutputsWith(Settled)
    /\ attempts' = [n \in Nodes |-> IF n \in batch THEN attempts[n] + 1 ELSE attempts[n]]
    /\ used' = [n \in Nodes |-> IF n \in batch
                  THEN [i \in Nodes |-> IF i \in inputs[n] THEN OutputsWith(Settled)[i] ELSE 0]
                  ELSE used[n]]

\* What every way has in common once the settled entries of S are taken: who
\* was completed or in flight still is at most that, and nobody has read what
\* the completed nodes of S have just published.
LEMMA TakenFacts ==
    ASSUME EngineInv, NEW S, S \subseteq Settled
    PROVE  /\ Taken \in [Nodes -> Phase]
           /\ CompletedWith(S) \subseteq Nodes
           /\ OutputsWith(S) \in [Nodes -> Nat]
           /\ completed \subseteq CompletedWith(S)
           /\ CompletedWith(S) \subseteq completed \cup S
           /\ \A n \in Nodes : Taken[n] # "idle" <=> n \in InFlightNow
           /\ CompletedWith(S) \cap InFlightNow = {}
           /\ \A n \in completed \cup InFlight : \A i \in inputs[n] :
                  OutputsWith(S)[i] = outputs[i]
  <1> USE DEF EngineInv, DataTypeOK
  <1>1. Settled \subseteq Nodes /\ Settled \cap completed = {}
    BY DEF Settled, InFlightIsOpen, InFlight
  <1>2. Taken \in [Nodes -> Phase]
    BY DEF Taken, Phase
  <1>3. /\ CompletedWith(S) \subseteq Nodes
        /\ completed \subseteq CompletedWith(S)
        /\ CompletedWith(S) \subseteq completed \cup S
    BY <1>1 DEF CompletedWith, Ended
  <1>4. OutputsWith(S) \in [Nodes -> Nat]
    BY DEF OutputsWith
  <1>5. \A n \in Nodes : Taken[n] # "idle" <=> n \in InFlightNow
    BY DEF Taken, InFlightNow, InFlight, Settled
  <1>6. CompletedWith(S) \cap InFlightNow = {}
    BY <1>3 DEF InFlightNow, InFlightIsOpen
  <1>7. ASSUME NEW n \in completed \cup InFlight, NEW i \in inputs[n]
        PROVE  OutputsWith(S)[i] = outputs[i]
    <2>1. i \in completed /\ i \in Nodes
      BY <1>7 DEF DependencyClosed
    <2>2. i \notin Ended(S, {"completed"})
      BY <1>1, <2>1 DEF Ended
    <2> QED
      BY <2>1, <2>2 DEF OutputsWith
  <1> QED
    BY <1>2, <1>3, <1>4, <1>5, <1>6, <1>7

\* Taking the settled entries publishes what nobody has read.
LEMMA TakesInv == ASSUME EngineInv, NEW S, Takes(S) PROVE EngineInv'
  <1>1. S \subseteq Settled
    BY DEF Takes
  <1>2. /\ exec' \in [Nodes -> Phase] /\ completed' \subseteq Nodes
        /\ outputs' \in [Nodes -> Nat]
        /\ completed \subseteq completed' /\ completed' \subseteq completed \cup S
        /\ \A n \in Nodes : exec'[n] # "idle" <=> n \in InFlightNow
        /\ completed' \cap InFlightNow = {}
        /\ \A n \in completed \cup InFlight : \A i \in inputs[n] : outputs'[i] = outputs[i]
    BY <1>1, TakenFacts DEF Takes
  <1>3. DataTypeOK'
    BY <1>2 DEF Takes, EngineInv, DataTypeOK
  <1>4. InFlight' = InFlightNow /\ completed' \cup InFlight' \subseteq completed \cup InFlight
    BY <1>1, <1>2 DEF InFlight, InFlightNow, Settled
  <1>5. DependencyClosed'
    BY <1>2, <1>4 DEF EngineInv, DependencyClosed
  <1>6. InFlightIsOpen'
    BY <1>2, <1>4 DEF InFlightIsOpen
  <1>7. FreshInputs'
    BY <1>2, <1>4 DEF EngineInv, FreshInputs, Takes
  <1> QED
    BY <1>3, <1>5, <1>6, <1>7 DEF EngineInv

\* An execution that moves on touches no artifact.
LEMMA ProceedsInv == ASSUME EngineInv, Proceeds PROVE EngineInv'
  <1>1. DataTypeOK'
    BY DEF Proceeds, EngineInv, DataTypeOK
  <1>2. InFlight' = InFlight
    BY DEF Proceeds, InFlight
  <1> QED
    BY <1>1, <1>2 DEF Proceeds, EngineInv, DependencyClosed, InFlightIsOpen, FreshInputs

\* What reads from something downstream of m is downstream of m.
LEMMA DownstreamClosed ==
    ASSUME NEW m, NEW i \in Downstream(m), NEW n \in Nodes, i \in inputs[n]
    PROVE  n \in Downstream(m)
  <1>1. ASSUME NEW S \in SUBSET Nodes,
               m \in S /\ \A k \in Nodes : inputs[k] \cap S # {} => k \in S
        PROVE  n \in S
    <2>1. i \in S
      BY <1>1 DEF Downstream
    <2> QED
      BY <1>1, <2>1
  <1> QED
    BY <1>1 DEF Downstream

\* A feedback edge takes the readers with what they have read.
LEMMA GoesBackInv == ASSUME EngineInv, NEW m, GoesBack(m) PROVE EngineInv'
  <1>1. Settled \subseteq Settled /\ CompletedNow = CompletedWith(Settled)
    BY DEF CompletedNow
  <1>2. /\ Taken \in [Nodes -> Phase] /\ CompletedNow \subseteq Nodes
        /\ OutputsWith(Settled) \in [Nodes -> Nat]
        /\ CompletedNow \subseteq completed \cup InFlight
        /\ completed \subseteq CompletedNow
        /\ \A n \in Nodes : Taken[n] = "idle"
        /\ \A n \in completed \cup InFlight : \A i \in inputs[n] :
               OutputsWith(Settled)[i] = outputs[i]
    BY <1>1, TakenFacts DEF GoesBack, Settled, InFlight
  <1>3. DataTypeOK'
    BY <1>2 DEF GoesBack, EngineInv, DataTypeOK
  <1>4. InFlight' = {}
    BY <1>2 DEF GoesBack, InFlight
  <1>5. ASSUME NEW n \in completed', NEW i \in inputs[n]
        PROVE  /\ i \in completed' /\ outputs'[i] = outputs[i]
               /\ n \in completed \cup InFlight
    <2>1. n \in CompletedNow /\ n \notin Downstream(m) /\ n \in Nodes
      BY <1>2, <1>5 DEF GoesBack
    <2>2. i \notin Downstream(m)
      BY <1>5, <2>1, DownstreamClosed
    <2>3. i \in completed
      BY <1>2, <1>5, <2>1 DEF EngineInv, DependencyClosed
    <2>4. i \in CompletedNow /\ i \in Nodes
      BY <1>2, <2>3
    <2> QED
      BY <1>2, <1>5, <2>1, <2>2, <2>4 DEF GoesBack
  <1>6. DependencyClosed' /\ InFlightIsOpen'
    BY <1>4, <1>5 DEF DependencyClosed, InFlightIsOpen
  <1>7. FreshInputs'
    BY <1>4, <1>5 DEF EngineInv, FreshInputs, GoesBack
  <1> QED
    BY <1>3, <1>6, <1>7 DEF EngineInv

\* A batch starts on what is there.
LEMMA StartsInv == ASSUME EngineInv, NEW batch, Starts(batch) PROVE EngineInv'
  <1>1. Settled \subseteq Settled /\ CompletedNow = CompletedWith(Settled)
    BY DEF CompletedNow
  <1>2. /\ Taken \in [Nodes -> Phase] /\ CompletedNow \subseteq Nodes
        /\ OutputsWith(Settled) \in [Nodes -> Nat]
        /\ CompletedNow \subseteq completed \cup InFlight
        /\ completed \subseteq CompletedNow
        /\ \A n \in Nodes : Taken[n] # "idle" <=> n \in InFlightNow
        /\ CompletedNow \cap InFlightNow = {}
        /\ \A n \in completed \cup InFlight : \A i \in inputs[n] :
               OutputsWith(Settled)[i] = outputs[i]
    BY <1>1, TakenFacts DEF Settled, InFlight
  <1>3. completed' = CompletedNow /\ outputs' = OutputsWith(Settled)
    BY <1>1 DEF Starts
  <1>4. /\ batch \subseteq Nodes
        /\ \A n \in batch : n \notin CompletedNow /\ inputs[n] \subseteq CompletedNow
    BY DEF Starts, Ready
  <1>5. DataTypeOK'
    <2>1. exec' \in [Nodes -> Phase]
      BY <1>2 DEF Starts, Phase
    <2>2. attempts' \in [Nodes -> Nat]
      BY DEF Starts, EngineInv, DataTypeOK
    <2>3. used' \in [Nodes -> [Nodes -> Nat]]
      BY <1>2 DEF Starts, EngineInv, DataTypeOK
    <2> QED
      BY <1>2, <1>3, <2>1, <2>2, <2>3 DEF DataTypeOK
  <1>6. InFlight' = batch \cup InFlightNow
    BY <1>2, <1>4 DEF Starts, InFlight, InFlightNow
  <1>7. InFlightNow \subseteq InFlight
    BY DEF InFlightNow
  <1>8. DependencyClosed'
    BY <1>2, <1>3, <1>4, <1>6, <1>7 DEF EngineInv, DependencyClosed
  <1>9. InFlightIsOpen'
    BY <1>2, <1>3, <1>4, <1>6 DEF InFlightIsOpen
  <1>10. ASSUME NEW n \in completed' \cup InFlight', NEW i \in inputs[n]
         PROVE  used'[n][i] = outputs'[i]
    <2>1. i \in Nodes /\ n \in Nodes
      BY <1>2, <1>3, <1>8, <1>10, <1>4, <1>6, <1>7 DEF DependencyClosed, InFlight
    <2>2. CASE n \in batch
      BY <1>3, <1>10, <2>1, <2>2 DEF Starts
    <2>3. CASE n \notin batch
      <3>1. n \in completed \cup InFlight
        BY <1>2, <1>3, <1>6, <1>7, <1>10, <2>3
      <3>2. used'[n][i] = used[n][i]
        BY <2>1, <2>3 DEF Starts
      <3> QED
        BY <1>2, <1>3, <1>10, <3>1, <3>2 DEF EngineInv, FreshInputs
    <2> QED
      BY <2>2, <2>3
  <1>11. FreshInputs'
    BY <1>10 DEF FreshInputs
  <1> QED
    BY <1>5, <1>8, <1>9, <1>11 DEF EngineInv

----------------------------------------------------------------------------
(* Every action of the model touches the artifacts in one of these ways.   *)

\* The invariant of the data holds at first,
LEMMA InitInv == Init => EngineInv
  <1> SUFFICES ASSUME Init PROVE EngineInv
    OBVIOUS
  <1> USE DEF Init, ExecInit
  <1>1. DataTypeOK
    BY DEF DataTypeOK, Phase
  <1>2. completed \cup InFlight = {}
    BY DEF InFlight
  <1>3. DependencyClosed /\ InFlightIsOpen /\ FreshInputs
    BY <1>2 DEF DependencyClosed, InFlightIsOpen, FreshInputs
  <1> QED
    BY <1>1, <1>3 DEF EngineInv

\* The loop takes entries and dispatches nothing, or ends the run.
LEMMA TakingTurns ==
    ASSUME \/ TurnAborted \/ TurnError \/ TurnBudgetPaused \/ TurnAwaitDrain \/ TurnRetry
           \/ TurnGiveUp \/ TurnSpin \/ TurnWait \/ TurnAllDone
           \/ DrainTakes \/ DrainCancels \/ CancelSuspended
    PROVE  \E S : Takes(S)
  <1>1. CASE TurnAborted \/ DrainCancels \/ CancelSuspended
    <2>1. Takes(Settled)
      BY <1>1 DEF TurnAborted, DrainCancels, CancelSuspended, FinishCancelled, Takes, CompletedNow
    <2> QED
      BY <2>1
  <1>2. CASE TurnError
    <2> PICK n \in Ended(Stops, {"error"}) : Harvest(Before(Settled, n))
      BY <1>2 DEF TurnError
    <2>1. Takes(Before(Settled, n))
      BY <1>2 DEF TurnError, Harvest, Takes, Before
    <2> QED
      BY <2>1
  <1>3. CASE TurnBudgetPaused
    <2> PICK n \in Ended(Stops, {"budget_paused"}) : Harvest(Before(Settled, n))
      BY <1>3 DEF TurnBudgetPaused
    <2>1. Takes(Before(Settled, n))
      BY <1>3 DEF TurnBudgetPaused, Harvest, Takes, Before
    <2> QED
      BY <2>1
  <1>4. CASE TurnAwaitDrain \/ TurnSpin \/ TurnWait \/ TurnAllDone \/ DrainTakes
    <2>1. Takes(Settled)
      BY <1>4 DEF TurnAwaitDrain, TurnSpin, TurnWait, TurnAllDone, DrainTakes, Harvest, TakeOnly,
                  Takes
    <2> QED
      BY <2>1
  <1>5. CASE TurnRetry \/ TurnGiveUp
    <2>1. Takes(Settled)
      BY <1>5 DEF TurnRetry, TurnGiveUp, TakeOnly, Takes, CompletedNow
    <2> QED
      BY <2>1
  <1> QED
    BY <1>1, <1>2, <1>3, <1>4, <1>5

\* A dispatch starts ready nodes.
LEMMA DispatchingTurns ==
    ASSUME TurnDispatchBatch \/ TurnDispatchSerial PROVE \E batch : Starts(batch)
  <1>1. ASSUME NEW batch \in SUBSET Ready, Dispatch(batch) PROVE Starts(batch)
    BY <1>1 DEF Dispatch, Harvest, Starts
  <1>2. CASE TurnDispatchBatch
    BY <1>1, <1>2 DEF TurnDispatchBatch, Batch
  <1>3. CASE TurnDispatchSerial
    <2> PICK n \in Ready : Dispatch({n})
      BY <1>3 DEF TurnDispatchSerial
    <2> QED
      BY <1>1
  <1> QED
    BY <1>2, <1>3

\* A feedback edge is taken only when nothing is in flight.
LEMMA FeedbackTurn == ASSUME TurnFeedback PROVE \E m : GoesBack(m)
  <1> PICK e \in DOMAIN feedback :
             /\ completed' = CompletedNow \ Downstream(feedback[e].to)
             /\ outputs' = [n \in Nodes |-> IF n \in Downstream(feedback[e].to) THEN 0
                                            ELSE OutputsWith(Settled)[n]]
    BY DEF TurnFeedback
  <1>1. GoesBack(feedback[e].to)
    BY DEF TurnFeedback, InFailureHandling, TakeOnly, GoesBack
  <1> QED
    BY <1>1

\* What a node's execution does by itself keeps it in flight.
LEMMA NodeSteps == ASSUME EngineInv, NEW n \in Nodes, NodeStep(n) PROVE Proceeds
  <1> USE DEF NodeStep, RuntimeEnds, ExecutorStep, Completes, Fails, BreaksBudget, Throws,
              LogsBudgetPaused, ObservesAbort, Releases, Close
  <1>1. exec[n] # "idle" /\ \E phase \in Phase \ {"idle"} : exec' = [exec EXCEPT ![n] = phase]
    BY DEF Phase
  <1>2. UNCHANGED <<completed, outputs, used, attempts>>
    BY DEF engineVars
  <1> QED
    BY <1>1, <1>2 DEF Proceeds, EngineInv, DataTypeOK

\* and every step keeps it.
LEMMA EngineStep == EngineInv /\ [Next]_vars => EngineInv'
  <1> SUFFICES ASSUME EngineInv, [Next]_vars PROVE EngineInv'
    OBVIOUS
  <1>1. CASE \/ TurnAborted \/ TurnError \/ TurnBudgetPaused \/ TurnAwaitDrain \/ TurnRetry
             \/ TurnGiveUp \/ TurnSpin \/ TurnWait \/ TurnAllDone
             \/ DrainTakes \/ DrainCancels \/ CancelSuspended
    BY <1>1, TakingTurns, TakesInv
  <1>2. CASE TurnDispatchBatch \/ TurnDispatchSerial
    BY <1>2, DispatchingTurns, StartsInv
  <1>3. CASE TurnFeedback
    BY <1>3, FeedbackTurn, GoesBackInv
  <1>4. CASE \E n \in Nodes : NodeStep(n)
    BY <1>4, NodeSteps, ProceedsInv
  <1>5. CASE \/ Wake \/ DrainRejects \/ DrainResumes \/ DrainSuspends
             \/ FinalCheckPasses \/ FinalCheckFails
             \/ Pause \/ CancelRunning \/ ResumeSuspended \/ ResumePaused \/ ResumeLater
             \/ (Raise /\ UNCHANGED <<engineVars, gate>>) \/ Terminated \/ UNCHANGED vars
    <2>1. UNCHANGED dataVars
      BY <1>5 DEF Wake, DrainRejects, DrainResumes, DrainSuspends, FinalCheckPasses,
                  FinalCheckFails, Pause, CancelRunning, ResumeSuspended, ResumePaused,
                  ResumeLater, Raise, Terminated, vars, engineVars, execVars, dataVars
    <2>2. Proceeds
      BY <2>1 DEF Proceeds, dataVars, EngineInv, DataTypeOK
    <2> QED
      BY <2>2, ProceedsInv
  <1> QED
    BY <1>1, <1>2, <1>3, <1>4, <1>5 DEF Next, LoopStep, Operator

\* The artifacts of a run are consistent in every reachable state, for every workflow.
THEOREM EngineInvariant == Spec => []EngineInv
  BY InitInv, EngineStep, PTL DEF Spec

\* What a node that runs or is completed reads is completed, through retries,
\* feedback resets, budget breaks and cancels (workflow-engine.ts #loop).
THEOREM EngineDependencyClosed == Spec => []DependencyClosed
  <1>1. EngineInv => DependencyClosed
    BY DEF EngineInv
  <1> QED
    BY EngineInvariant, <1>1, PTL

\* No node that runs or is completed has read an artifact that was replaced.
THEOREM EngineFreshInputs == Spec => []FreshInputs
  <1>1. EngineInv => FreshInputs
    BY DEF EngineInv
  <1> QED
    BY EngineInvariant, <1>1, PTL

----------------------------------------------------------------------------

\* No resume is left behind by a suspension: the flag is set only while the
\* loop has not left, and a drain that finds it set does not suspend.
THEOREM EngineResumeIsConsumed == Spec => []ResumeIsConsumed
  <1>1. Init => ResumeIsConsumed
    BY DEF Init, ResumeIsConsumed
  <1>2. ResumeIsConsumed /\ [Next]_vars => ResumeIsConsumed'
    <2> SUFFICES ASSUME ResumeIsConsumed, [Next]_vars, loop' = "suspended"
                 PROVE  ~pendingResume'
      BY DEF ResumeIsConsumed
    <2> USE DEF ResumeIsConsumed
    <2>1. CASE DrainSuspends
      BY <2>1 DEF DrainSuspends
    <2>2. CASE Pause \/ (Raise /\ UNCHANGED <<engineVars, gate>>) \/ Terminated \/ UNCHANGED vars
               \/ (\E n \in Nodes : NodeStep(n))
      BY <2>2 DEF Pause, NodeStep, Terminated, vars, engineVars
    <2>3. CASE CancelRunning \/ ResumePaused \/ ResumeLater
      BY <2>3 DEF CancelRunning, ResumePaused, ResumeLater, engineVars
    <2>4. CASE CancelSuspended \/ ResumeSuspended
      BY <2>4 DEF CancelSuspended, FinishCancelled, ResumeSuspended
    <2>5. CASE \/ TurnAborted \/ TurnError \/ TurnBudgetPaused \/ TurnAwaitDrain \/ TurnRetry
               \/ TurnFeedback \/ TurnGiveUp \/ TurnDispatchBatch \/ TurnDispatchSerial
               \/ TurnSpin \/ TurnWait \/ TurnAllDone \/ Wake
      BY <2>5 DEF TurnAborted, FinishCancelled, TurnError, Reject, TurnBudgetPaused,
                  TurnAwaitDrain, TurnRetry, TurnFeedback, TurnGiveUp, TurnDispatchBatch,
                  TurnDispatchSerial, Dispatch, TurnSpin, TurnWait, TurnAllDone, Wake,
                  InFailureHandling, InDispatch, InTurn
    <2>6. CASE \/ DrainTakes \/ DrainRejects \/ DrainResumes \/ DrainCancels
               \/ FinalCheckPasses \/ FinalCheckFails
      BY <2>6 DEF DrainTakes, DrainRejects, Reject, DrainResumes, DrainCancels, FinishCancelled,
                  FinalCheckPasses, FinalCheckFails
    <2> QED
      BY <2>1, <2>2, <2>3, <2>4, <2>5, <2>6 DEF Next, LoopStep, Operator
  <1> QED
    BY <1>1, <1>2, PTL DEF Spec

----------------------------------------------------------------------------
(* The limit. What is in flight grows only by a dispatch. A batch is a     *)
(* prefix of the ready nodes: with its last node every other one is before *)
(* that node, whose place was counted against the limit.                   *)

\* A set of naturals that is not empty has a least element.
LEMMA LeastNatural ==
    ASSUME NEW T, T \subseteq Nat, T # {}
    PROVE  \E x \in T : \A y \in T : x <= y
  <1>1. IsWellFoundedOn(OpToRel(<, Nat), Nat)
    BY NatLessThanWellFounded, Zenon
  <1>2. PICK x \in T : \A y \in T : ~ (<<y, x>> \in OpToRel(<, Nat))
    BY <1>1, WFMin, Zenon
  <1>3. \A y \in T : ~ (y < x)
    BY <1>2 DEF OpToRel
  <1> QED
    BY <1>3

\* Of some nodes one is last in the topological order.
LEMMA LastOfNodes ==
    ASSUME NEW S, S \subseteq Nodes, S # {}
    PROVE  \E n \in S : \A m \in S : topoIndex[m] <= topoIndex[n]
  <1> DEFINE T == {k \in Nat : \E n \in S : k + Cardinality(Before(S, n)) = Cardinality(S)}
  <1>1. IsFiniteSet(S)
    BY EngineAssumption, FS_Subset
  <1>2. ASSUME NEW n \in S
        PROVE  /\ IsFiniteSet(Before(S, n)) /\ Cardinality(Before(S, n)) \in Nat
               /\ Cardinality(S) \in Nat /\ Cardinality(Before(S, n)) <= Cardinality(S)
               /\ Cardinality(S) - Cardinality(Before(S, n)) \in T
    <2>1. Before(S, n) \subseteq S
      BY DEF Before
    <2>2. /\ IsFiniteSet(Before(S, n)) /\ Cardinality(Before(S, n)) \in Nat
          /\ Cardinality(S) \in Nat /\ Cardinality(Before(S, n)) <= Cardinality(S)
      BY <1>1, <2>1, FS_Subset, FS_CardinalityType
    <2> QED
      BY <2>2
  <1>3. PICK k \in T : \A j \in T : k <= j
    <2>1. T # {}
      BY <1>2
    <2> HIDE DEF T
    <2>2. T \subseteq Nat
      BY DEF T
    <2> QED
      BY <2>1, <2>2, LeastNatural
  <1>4. PICK n \in S : k + Cardinality(Before(S, n)) = Cardinality(S)
    BY <1>3
  <1>5. ASSUME NEW m \in S, ~(topoIndex[m] <= topoIndex[n]) PROVE FALSE
    <2>1. topoIndex[n] \in Nat /\ topoIndex[m] \in Nat /\ topoIndex \in [Nodes -> Nat]
      BY EngineAssumption
    <2>2. Before(S, n) \cup {n} \subseteq Before(S, m) /\ n \notin Before(S, n)
      BY <1>5, <2>1 DEF Before
    <2>3. Cardinality(Before(S, n) \cup {n}) = Cardinality(Before(S, n)) + 1
      BY <1>2, <2>2, FS_AddElement
    <2>4. Cardinality(Before(S, n)) + 1 <= Cardinality(Before(S, m))
      BY <1>2, <2>2, <2>3, FS_Subset
    <2>5. k <= Cardinality(S) - Cardinality(Before(S, m))
      BY <1>2, <1>3
    <2> HIDE DEF T
    <2>6. k \in Nat
      BY <1>3 DEF T
    <2> QED
      BY <1>2, <1>4, <2>4, <2>5, <2>6
  <1> QED
    BY <1>5

\* A batch fits under the limit beside what is still in flight.
LEMMA BatchFits ==
    ASSUME Batch # {}
    PROVE  Cardinality(Batch \cup InFlightNow) <= maxParallel
  <1>1. Batch \subseteq Nodes /\ Ready \subseteq Nodes /\ Batch \subseteq Ready /\ InFlightNow \subseteq Nodes
    BY DEF Batch, Ready, InFlightNow, InFlight
  <1>2. PICK n \in Batch : \A m \in Batch : topoIndex[m] <= topoIndex[n]
    BY <1>1, LastOfNodes
  <1> DEFINE B == Before(Ready, n)
  <1>3. Cardinality(InFlightNow) + Cardinality(B) < maxParallel
    BY DEF Batch
  <1>4. Batch \subseteq B \cup {n} /\ n \notin B
    <2>1. \A m \in Batch : m = n \/ topoIndex[m] < topoIndex[n]
      BY <1>1, <1>2, EngineAssumption
    <2>2. ~(topoIndex[n] < topoIndex[n])
      BY <1>1, EngineAssumption
    <2> QED
      BY <1>1, <2>1, <2>2 DEF Before
  <1>5. IsFiniteSet(B) /\ IsFiniteSet(InFlightNow) /\ IsFiniteSet(Batch)
    <2>1. B \subseteq Nodes
      BY <1>1 DEF Before
    <2> QED
      BY <1>1, <2>1, EngineAssumption, FS_Subset
  <1> HIDE DEF B
  <1>6. /\ Cardinality(B) \in Nat /\ Cardinality(InFlightNow) \in Nat
        /\ Cardinality(B \cup {n}) = Cardinality(B) + 1 /\ IsFiniteSet(B \cup {n})
    BY <1>4, <1>5, FS_CardinalityType, FS_AddElement
  <1>7. Cardinality(Batch) <= Cardinality(B) + 1 /\ Cardinality(Batch) \in Nat
    BY <1>4, <1>5, <1>6, FS_Subset, FS_CardinalityType
  <1>8. /\ IsFiniteSet(Batch \cup InFlightNow)
        /\ Cardinality(Batch \cup InFlightNow)
             = Cardinality(Batch) + Cardinality(InFlightNow) - Cardinality(Batch \cap InFlightNow)
        /\ Cardinality(Batch \cap InFlightNow) \in Nat
    <2>1. IsFiniteSet(Batch \cap InFlightNow)
      BY <1>5, FS_Intersection
    <2> QED
      BY <1>5, <2>1, FS_Union, FS_CardinalityType
  <1>9. maxParallel \in Nat
    BY EngineAssumption
  <1> QED
    BY <1>3, <1>6, <1>7, <1>8, <1>9

\* What is in flight after a dispatch.
LEMMA InFlightAfterDispatch ==
    ASSUME NEW batch, batch \subseteq Nodes, Dispatch(batch)
    PROVE  InFlight' = batch \cup InFlightNow
  <1>1. \A n \in Nodes : exec'[n] = IF n \in batch THEN "running" ELSE Taken[n]
    BY DEF Dispatch
  <1>2. \A n \in Nodes : Taken[n] # "idle" <=> n \in InFlightNow
    BY DEF Taken, InFlightNow, InFlight, Settled
  <1> QED
    BY <1>1, <1>2 DEF InFlight, InFlightNow

\* Fewer executions fit where more did.
LEMMA FewerFit == ASSUME WithinMaxParallel, InFlight' \subseteq InFlight PROVE WithinMaxParallel'
  <1>1. IsFiniteSet(InFlight)
    <2>1. InFlight \subseteq Nodes
      BY DEF InFlight
    <2> QED
      BY <2>1, EngineAssumption, FS_Subset
  <1>2. /\ Cardinality(InFlight') <= Cardinality(InFlight)
        /\ Cardinality(InFlight') \in Nat /\ Cardinality(InFlight) \in Nat
    BY <1>1, FS_Subset, FS_CardinalityType
  <1>3. Cardinality(InFlight') <= maxParallel
    BY <1>2, EngineAssumption DEF WithinMaxParallel
  <1> QED
    BY <1>3 DEF WithinMaxParallel

\* A step of the model dispatches within the limit or adds nothing.
LEMMA LimitStep ==
    EngineInv /\ WithinMaxParallel /\ [Next]_vars => WithinMaxParallel'
  <1> SUFFICES ASSUME EngineInv, WithinMaxParallel, [Next]_vars PROVE WithinMaxParallel'
    OBVIOUS
  <1>1. ASSUME exec' = Taken PROVE InFlight' \subseteq InFlight
    BY <1>1 DEF InFlight, Taken
  <1>2. CASE \/ TurnAborted \/ TurnError \/ TurnBudgetPaused \/ TurnAwaitDrain \/ TurnRetry
             \/ TurnGiveUp \/ TurnSpin \/ TurnWait \/ TurnAllDone
             \/ DrainTakes \/ DrainCancels \/ CancelSuspended
    <2>1. PICK S : Takes(S)
      BY <1>2, TakingTurns
    <2> QED
      BY <1>1, <2>1, FewerFit DEF Takes
  <1>3. CASE TurnFeedback
    <2>1. PICK m : GoesBack(m)
      BY <1>3, FeedbackTurn
    <2> QED
      BY <1>1, <2>1, FewerFit DEF GoesBack
  <1>4. CASE TurnDispatchBatch
    <2>1. Batch \subseteq Nodes /\ Batch # {} /\ Dispatch(Batch)
      BY <1>4 DEF TurnDispatchBatch, Batch, Ready
    <2>2. InFlight' = Batch \cup InFlightNow
      BY <2>1, InFlightAfterDispatch
    <2>3. Cardinality(InFlight') <= maxParallel
      BY <2>1, <2>2, BatchFits
    <2> QED
      BY <2>3 DEF WithinMaxParallel
  <1>5. CASE TurnDispatchSerial
    <2>1. PICK n \in Nodes : Dispatch({n})
      BY <1>5 DEF TurnDispatchSerial, Ready
    <2>2. InFlight' = {n} \cup InFlightNow /\ InFlightNow = {}
      BY <1>5, <2>1, InFlightAfterDispatch DEF TurnDispatchSerial
    <2>3. Cardinality(InFlight') = 1
      BY <2>2, FS_Singleton
    <2>4. Cardinality(InFlight') <= maxParallel
      BY <2>3, EngineAssumption
    <2> QED
      BY <2>4 DEF WithinMaxParallel
  <1>6. CASE \E n \in Nodes : NodeStep(n)
    <2>1. Proceeds
      BY <1>6, NodeSteps
    <2>2. InFlight' = InFlight
      BY <2>1 DEF Proceeds, InFlight
    <2> QED
      BY <2>2, FewerFit
  <1>7. CASE \/ Wake \/ DrainRejects \/ DrainResumes \/ DrainSuspends
             \/ FinalCheckPasses \/ FinalCheckFails
             \/ Pause \/ CancelRunning \/ ResumeSuspended \/ ResumePaused \/ ResumeLater
             \/ (Raise /\ UNCHANGED <<engineVars, gate>>) \/ Terminated \/ UNCHANGED vars
    <2>1. exec' = exec
      BY <1>7 DEF Wake, DrainRejects, DrainResumes, DrainSuspends, FinalCheckPasses,
                  FinalCheckFails, Pause, CancelRunning, ResumeSuspended, ResumePaused,
                  ResumeLater, Raise, Terminated, vars, engineVars, execVars
    <2>2. InFlight' = InFlight
      BY <2>1 DEF InFlight
    <2> QED
      BY <2>2, FewerFit
  <1> QED
    BY <1>2, <1>3, <1>4, <1>5, <1>6, <1>7 DEF Next, LoopStep, Operator

\* The executions in flight never exceed intent.constraints.max_parallel, for
\* every workflow, through batches, retries, reruns and resumes (the dispatch
\* of #loop, workflow-engine.ts:405-432).
THEOREM EngineWithinMaxParallel == Spec => []WithinMaxParallel
  <1>1. Init => WithinMaxParallel
    <2> SUFFICES ASSUME Init PROVE WithinMaxParallel
      OBVIOUS
    <2>1. InFlight = {}
      BY DEF Init, ExecInit, InFlight
    <2>2. Cardinality(InFlight) = 0
      BY <2>1, FS_EmptySet
    <2>3. Cardinality(InFlight) <= maxParallel
      BY <2>2, EngineAssumption
    <2> QED
      BY <2>3 DEF WithinMaxParallel
  <1> QED
    BY <1>1, LimitStep, EngineInvariant, PTL DEF Spec

----------------------------------------------------------------------------
(* What a run reports is in the task record. The record is moved by events *)
(* and the engine by its own books, so the invariant relates the two while *)
(* the run is under way: a failed record has a node that must run again,   *)
(* and only a later attempt than its own moves the record on; a record of  *)
(* which every node has completed and none was reset is complete; a        *)
(* failure that waits to be handled has left a failed record, unless the   *)
(* dispatch of a later attempt has overtaken it.                           *)

Returned(n) == exec[n] \in {"closing", "settled"}

\* The nodes that count as completed once the loop has taken what is settled.
Finished == completed \cup {n \in Nodes : Returned(n) /\ outcome[n] = "completed"}

\* The failures that the loop has not taken.
Pending == {n \in Nodes : Returned(n) /\ outcome[n] \in Failing}

\* A node that can complete only by another dispatch.
Waiting(n) == exec[n] = "idle" \/ (Returned(n) /\ outcome[n] # "completed")

UnderWay ==
    /\ task.status = "cancelled" => gate = "aborted"
    /\ task.status = "failed" =>
          \E w \in Nodes \ completed : Waiting(w) /\ attempts[w] >= task.failedAttempt
    /\ Finished = Nodes => task.status \in {"completed", "cancelled"}
    /\ failures # <<>> \/ Pending # {} => task.status \in {"failed", "cancelled"} \/ Overtaken
    /\ failures # <<>> => \E n \in Nodes \ completed : exec[n] = "idle"

RecordCore ==
    /\ task \in TaskRecord
    /\ outcome \in [Nodes -> Outcome]
    /\ result = "none" <=> loop # "over"
    /\ Finished \subseteq task.doneNodes
    /\ loop # "over" => UnderWay

AllCompleted == completed = Nodes /\ InFlight = {} /\ task.status = "completed"

Reported ==
    /\ loop = "finalCheck" => AllCompleted
    /\ result = "completed" => AllCompleted
    /\ result = "failed" =>
          InFlight = {} /\ (task.status = "failed" \/ (completed # Nodes /\ Overtaken))
    /\ result = "rejected" => task.status \in {"failed", "cancelled"}

RecordInv == RecordCore /\ Reported

\* The only order of no nodes.
LEMMA NoneInTopoOrder == InTopoOrder({}) = <<>>
  <1>1. Cardinality({}) = 0
    BY FS_EmptySet
  <1>2. \A f, g \in [1..0 -> {}] : f = g
    OBVIOUS
  <1>3. <<>> \in [1..0 -> {}]
    <2>1. <<>> \in Seq({}) /\ DOMAIN <<>> = 1..0
      OBVIOUS
    <2> QED
      BY <2>1
  <1>4. \A i, j \in DOMAIN <<>> : i < j => topoIndex[<<>>[i]] < topoIndex[<<>>[j]]
    OBVIOUS
  <1> DEFINE Ordered(f) == \A i, j \in DOMAIN f : i < j => topoIndex[f[i]] < topoIndex[f[j]]
  <1>5. (CHOOSE f \in [1..0 -> {}] : Ordered(f)) \in [1..0 -> {}]
    <2>1. Ordered(<<>>)
      BY <1>4
    <2> HIDE DEF Ordered
    <2> QED
      BY <1>3, <2>1
  <1>6. InTopoOrder({}) = CHOOSE f \in [1..0 -> {}] : Ordered(f)
    BY <1>1 DEF InTopoOrder
  <1> HIDE DEF Ordered
  <1> QED
    BY <1>2, <1>3, <1>5, <1>6

\* A failure on the list was there or is among what was taken.
LEMMA ListedFailures ==
    ASSUME NEW S, FailuresWith(S) # <<>>
    PROVE  failures # <<>> \/ Ended(S, Failing) # {}
  <1> SUFFICES ASSUME failures = <<>>, Ended(S, Failing) = {} PROVE FALSE
    OBVIOUS
  <1>1. FailuresWith(S) = <<>> \o <<>>
    BY NoneInTopoOrder DEF FailuresWith
  <1> QED
    BY <1>1

\* Steps that leave the record alone and only take what is settled, or nothing.
Quiet ==
    /\ UNCHANGED <<task, result, outcome, attempts>>
    /\ loop' = "over" <=> loop = "over"
    /\ gate = "aborted" => gate' = "aborted"
    /\ \A n \in Nodes : exec'[n] = exec[n] \/ (n \in Settled /\ exec'[n] = "idle")
    /\ completed' \subseteq completed \cup Ended(Settled, {"completed"})
    /\ failures' # <<>> =>
          failures # <<>> \/ \E n \in Ended(Settled, Failing) : exec'[n] = "idle"

\* Taking makes nobody finish or fail who had not.
LEMMA NoneReturns ==
    ASSUME \A n \in Nodes : exec'[n] = exec[n] \/ (n \in Settled /\ exec'[n] = "idle"),
           outcome' = outcome,
           completed' \subseteq completed \cup Ended(Settled, {"completed"})
    PROVE  /\ Finished' \subseteq Finished
           /\ Pending' \subseteq Pending
  <1>1. \A n \in Nodes : Returned(n)' => Returned(n)
    BY DEF Returned
  <1>2. Ended(Settled, {"completed"}) \subseteq Finished
    BY DEF Ended, Settled, Finished, Returned
  <1>3. completed \subseteq Finished
    BY DEF Finished
  <1>4. Finished' \subseteq Finished
    BY <1>1, <1>2, <1>3 DEF Finished
  <1>5. Pending' \subseteq Pending
    BY <1>1 DEF Pending
  <1> QED
    BY <1>4, <1>5

\* A step that touches neither the record nor what it is compared with.
LEMMA QuietInv ==
    ASSUME EngineInv, RecordCore, Quiet PROVE RecordCore'
  <1>1. Finished' \subseteq Finished /\ Pending' \subseteq Pending
    BY NoneReturns DEF Quiet
  <1>2. /\ (task \in TaskRecord)' /\ (outcome \in [Nodes -> Outcome])'
        /\ (result = "none" <=> loop # "over")' /\ (Finished \subseteq task.doneNodes)'
    BY <1>1 DEF RecordCore, Quiet
  <1>3. ASSUME loop' # "over" PROVE UnderWay'
    <2>1. UnderWay /\ task' = task /\ attempts' = attempts /\ outcome' = outcome
      BY <1>3 DEF RecordCore, Quiet
    <2>2. (task.status = "cancelled" => gate = "aborted")'
      BY <2>1 DEF UnderWay, Quiet
    <2>3. ASSUME NEW w \in Nodes \ completed, Waiting(w)
          PROVE  w \in Nodes \ completed' /\ Waiting(w)'
      BY <2>3, <2>1 DEF Waiting, Returned, Quiet, Ended, Settled
    <2>4. (task.status = "failed" =>
              \E w \in Nodes \ completed : Waiting(w) /\ attempts[w] >= task.failedAttempt)'
      <3> SUFFICES ASSUME task'.status = "failed"
                   PROVE  \E w \in Nodes \ completed' : Waiting(w)' /\ attempts'[w] >= task'.failedAttempt
        OBVIOUS
      <3>1. PICK w \in Nodes \ completed : Waiting(w) /\ attempts[w] >= task.failedAttempt
        BY <2>1 DEF UnderWay
      <3> QED
        BY <2>1, <2>3, <3>1
    <2>5. (Finished = Nodes => task.status \in {"completed", "cancelled"})'
      <3>1. Finished \subseteq Nodes
        BY DEF Finished, EngineInv, DataTypeOK
      <3> QED
        BY <1>1, <2>1, <3>1 DEF UnderWay
    <2>6. Overtaken' = Overtaken
      BY <2>1 DEF Overtaken
    <2>7. (failures # <<>> \/ Pending # {} =>
              task.status \in {"failed", "cancelled"} \/ Overtaken)'
      <3>1. Ended(Settled, Failing) \subseteq Pending
        BY DEF Ended, Settled, Pending, Returned
      <3> QED
        BY <1>1, <2>1, <2>6, <3>1 DEF UnderWay, Quiet
    <2>8. (failures # <<>> => \E n \in Nodes \ completed : exec[n] = "idle")'
      <3> SUFFICES ASSUME failures' # <<>>
                   PROVE  \E n \in Nodes \ completed' : exec'[n] = "idle"
        OBVIOUS
      <3>1. CASE failures # <<>>
        <4>1. PICK n \in Nodes \ completed : exec[n] = "idle"
          BY <2>1, <3>1 DEF UnderWay
        <4> QED
          BY <4>1 DEF Quiet, Ended, Settled
      <3>2. CASE \E n \in Ended(Settled, Failing) : exec'[n] = "idle"
        <4>1. PICK n \in Ended(Settled, Failing) : exec'[n] = "idle"
          BY <3>2
        <4>2. n \in Nodes /\ n \notin completed /\ outcome[n] # "completed"
          BY <4>1 DEF Ended, Settled, Failing, RetryReason, EngineInv, InFlightIsOpen, InFlight
        <4> QED
          BY <4>1, <4>2 DEF Quiet, Ended
      <3> QED
        BY <3>1, <3>2 DEF Quiet
    <2> QED
      BY <2>2, <2>4, <2>5, <2>7, <2>8 DEF UnderWay
  <1> QED
    BY <1>2, <1>3 DEF RecordCore

\* The turns that take entries and go on.
LEMMA QuietTurns ==
    ASSUME \/ TurnBudgetPaused \/ TurnAwaitDrain \/ TurnRetry \/ TurnFeedback
           \/ TurnSpin \/ TurnWait \/ TurnAllDone \/ DrainTakes
    PROVE  Quiet /\ loop \in {"gate", "drain"}
  <1>1. ASSUME exec' = Taken
        PROVE  \A n \in Nodes : exec'[n] = exec[n] \/ (n \in Settled /\ exec'[n] = "idle")
    BY <1>1 DEF Taken, Settled
  <1>2. ASSUME NEW S, S \subseteq Settled, exec' = Taken, Harvest(S)
        PROVE  /\ completed' \subseteq completed \cup Ended(Settled, {"completed"})
               /\ failures' # <<>> =>
                     failures # <<>> \/ \E n \in Ended(Settled, Failing) : exec'[n] = "idle"
    <2>1. Ended(S, {"completed"}) \subseteq Ended(Settled, {"completed"})
      BY <1>2 DEF Ended
    <2>2. \A n \in Ended(S, Failing) : n \in Ended(Settled, Failing) /\ exec'[n] = "idle"
      BY <1>2 DEF Ended, Taken, Settled
    <2>3. failures' # <<>> => failures # <<>> \/ Ended(S, Failing) # {}
      BY <1>2, ListedFailures DEF Harvest
    <2> QED
      BY <1>2, <2>1, <2>2, <2>3 DEF Harvest, CompletedWith
  <1>3. CASE TurnBudgetPaused
    <2> PICK n \in Ended(Stops, {"budget_paused"}) : Harvest(Before(Settled, n))
      BY <1>3 DEF TurnBudgetPaused
    <2>1. Before(Settled, n) \subseteq Settled /\ exec' = Taken
      BY <1>3 DEF Before, TurnBudgetPaused
    <2>2. /\ completed' \subseteq completed \cup Ended(Settled, {"completed"})
          /\ failures' # <<>> =>
                failures # <<>> \/ \E k \in Ended(Settled, Failing) : exec'[k] = "idle"
      BY <1>2, <2>1
    <2> QED
      BY <1>1, <1>3, <2>1, <2>2 DEF Quiet, TurnBudgetPaused, InTurn, WaitPasses
  <1>4. CASE TurnAwaitDrain \/ TurnSpin \/ TurnWait \/ TurnAllDone
    <2>1. /\ exec' = Taken /\ Harvest(Settled) /\ loop = "gate" /\ loop' # "over"
          /\ UNCHANGED <<task, result, outcome, attempts, gate>>
      BY <1>4 DEF TurnAwaitDrain, TurnSpin, TurnWait, TurnAllDone, TakeOnly, InDispatch, InTurn
    <2>2. /\ completed' \subseteq completed \cup Ended(Settled, {"completed"})
          /\ failures' # <<>> =>
                failures # <<>> \/ \E k \in Ended(Settled, Failing) : exec'[k] = "idle"
      BY <1>2, <2>1
    <2> QED
      BY <1>1, <2>1, <2>2 DEF Quiet
  <1>5. CASE DrainTakes
    <2>1. /\ exec' = Taken /\ Harvest(Settled) /\ loop = "drain" /\ loop' = loop
          /\ UNCHANGED <<task, result, outcome, attempts, gate>>
      BY <1>5 DEF DrainTakes
    <2>2. /\ completed' \subseteq completed \cup Ended(Settled, {"completed"})
          /\ failures' # <<>> =>
                failures # <<>> \/ \E k \in Ended(Settled, Failing) : exec'[k] = "idle"
      BY <1>2, <2>1
    <2> QED
      BY <1>1, <2>1, <2>2 DEF Quiet
  <1>6. CASE TurnRetry \/ TurnFeedback
    <2>1. /\ exec' = Taken /\ failures' = <<>> /\ loop = "gate" /\ loop' = loop
          /\ completed' \subseteq CompletedNow
          /\ UNCHANGED <<task, result, outcome, attempts, gate>>
      BY <1>6 DEF TurnRetry, TurnFeedback, TakeOnly, InFailureHandling, InTurn
    <2>2. completed' \subseteq completed \cup Ended(Settled, {"completed"})
      BY <2>1 DEF CompletedNow, CompletedWith
    <2> QED
      BY <1>1, <2>1, <2>2 DEF Quiet
  <1> QED
    BY <1>3, <1>4, <1>5, <1>6

\* The turns that go on have nothing to report yet.
LEMMA NothingReported ==
    ASSUME RecordCore, result' = result, loop # "over", loop' # "finalCheck"
    PROVE  Reported'
  BY DEF RecordCore, Reported

\* The steps that touch neither the engine's books nor the record.
LEMMA StillSteps ==
    ASSUME EngineInv, RecordInv,
           \/ Wake \/ DrainResumes \/ DrainSuspends
           \/ Pause \/ CancelRunning \/ ResumeSuspended \/ ResumePaused \/ ResumeLater
           \/ (Raise /\ UNCHANGED <<engineVars, gate>>) \/ Terminated \/ UNCHANGED vars
    PROVE  RecordInv'
  <1>1. /\ UNCHANGED <<task, result, outcome, attempts, exec, completed, failures>>
        /\ loop' = "over" <=> loop = "over"
        /\ loop' = "finalCheck" => loop = "finalCheck"
        /\ gate = "aborted" => gate' = "aborted"
    <2>1. CASE \/ Wake \/ DrainResumes \/ DrainSuspends \/ ResumeSuspended
      BY <2>1 DEF Wake, DrainResumes, DrainSuspends, Drained, ResumeSuspended, TryResumeGate, execVars
    <2>2. CASE Pause \/ CancelRunning \/ ResumePaused \/ ResumeLater
      BY <2>2 DEF Pause, PauseGate, CancelRunning, AbortGate, ResumePaused, ResumeGate, ResumeLater,
                  engineVars, execVars
    <2>3. CASE (Raise /\ UNCHANGED <<engineVars, gate>>) \/ Terminated \/ UNCHANGED vars
      BY <2>3 DEF Raise, Terminated, vars, engineVars, execVars
    <2> QED
      BY <2>1, <2>2, <2>3
  <1>2. Quiet
    BY <1>1 DEF Quiet
  <1>3. RecordCore'
    BY <1>2, QuietInv DEF RecordInv
  <1>4. InFlight' = InFlight /\ Overtaken' = Overtaken
    BY <1>1 DEF InFlight, Overtaken
  <1>5. Reported'
    BY <1>1, <1>4 DEF RecordInv, Reported, AllCompleted
  <1> QED
    BY <1>3, <1>5 DEF RecordInv

\* With nothing ready and nothing in flight every node is completed: the first
\* one that is not would have all its inputs.
LEMMA NoneLeft ==
    ASSUME Ready = {}, InFlightNow = {} PROVE Nodes \subseteq CompletedNow
  <1> SUFFICES ASSUME Nodes \ CompletedNow # {} PROVE FALSE
    OBVIOUS
  <1> DEFINE T == {topoIndex[n] : n \in Nodes \ CompletedNow}
  <1>1. T \subseteq Nat /\ T # {}
    BY EngineAssumption
  <1>2. PICK k \in T : \A j \in T : k <= j
    <2> HIDE DEF T
    <2> QED
      BY <1>1, LeastNatural
  <1>3. PICK n \in Nodes \ CompletedNow : topoIndex[n] = k
    BY <1>2
  <1>4. ASSUME NEW i \in inputs[n] PROVE i \in CompletedNow
    <2>1. i \in Nodes /\ topoIndex[i] < topoIndex[n] /\ topoIndex[i] \in Nat /\ topoIndex[n] \in Nat
      BY EngineAssumption
    <2>2. topoIndex[i] \notin T
      BY <1>2, <1>3, <2>1
    <2> QED
      BY <2>1, <2>2
  <1>5. n \in Ready
    BY <1>4 DEF Ready
  <1> QED
    BY <1>5

\* The loop leaves for the final check with a completed record.
LEMMA AllDoneInv == ASSUME EngineInv, RecordInv, TurnAllDone PROVE RecordInv'
  <1>1. RecordCore'
    BY QuietTurns, QuietInv DEF RecordInv
  <1>2. /\ loop = "gate" /\ loop' = "finalCheck" /\ gate = "open" /\ result' = result
        /\ Ready = {} /\ InFlightNow = {} /\ exec' = Taken /\ completed' = CompletedNow
        /\ task' = task
    BY DEF TurnAllDone, TakeOnly, InDispatch, InTurn, WaitPasses, Harvest, CompletedNow
  <1>3. CompletedNow = Nodes
    <2>1. CompletedNow \subseteq Nodes
      BY DEF CompletedNow, CompletedWith, Ended, Settled, EngineInv, DataTypeOK
    <2> QED
      BY <1>2, <2>1, NoneLeft
  <1>4. InFlight' = {}
    BY <1>2 DEF InFlight, InFlightNow, Taken, Settled
  <1>5. Finished = Nodes
    BY <1>3 DEF Finished, CompletedNow, CompletedWith, Ended, Settled, Returned, EngineInv, DataTypeOK
  <1>6. task.status = "completed"
    BY <1>2, <1>5 DEF RecordInv, RecordCore, UnderWay
  <1>7. result' = "none"
    BY <1>2 DEF RecordInv, RecordCore
  <1>8. Reported'
    BY <1>2, <1>3, <1>4, <1>6, <1>7 DEF Reported, AllCompleted
  <1> QED
    BY <1>1, <1>8 DEF RecordInv

\* A dispatch moves a failed record on if it is an attempt later than the
\* failure, and the node that must run again always is.
LEMMA DispatchInv ==
    ASSUME EngineInv, RecordInv, NEW batch, batch \subseteq Ready, batch # {},
           Dispatch(batch), loop = "gate", FailuresNow = <<>>
    PROVE  RecordInv'
  <1>1. /\ task \in TaskRecord /\ outcome \in [Nodes -> Outcome] /\ result = "none"
        /\ Finished \subseteq task.doneNodes /\ UnderWay
    BY DEF RecordInv, RecordCore
  <1>2. /\ completed' = CompletedNow /\ failures' = <<>>
        /\ loop' = loop /\ gate' = gate /\ result' = result
    BY DEF Dispatch, Harvest, CompletedNow, FailuresNow
  <1>3. /\ \A n \in batch : exec'[n] = "running" /\ outcome'[n] = "none" /\ attempts'[n] = attempts[n] + 1
        /\ \A n \in Nodes \ batch : /\ exec'[n] = exec[n] \/ (n \in Settled /\ exec'[n] = "idle")
                                  /\ outcome'[n] = outcome[n] /\ attempts'[n] = attempts[n]
        /\ batch \subseteq Nodes /\ batch \cap CompletedNow = {}
    BY DEF Dispatch, Taken, Settled, Ready
  <1>4. outcome' \in [Nodes -> Outcome]
    BY <1>1 DEF Dispatch, Outcome
  <1> DEFINE later == \E n \in batch : attempts[n] + 1 > task.failedAttempt
  <1>5. /\ task.status \in TaskStatus /\ task.failedAttempt \in Nat
        /\ \A n \in Nodes : attempts[n] \in Nat
    BY <1>1 DEF TaskRecord, EngineInv, DataTypeOK
  <1>6. /\ task' \in TaskRecord
        /\ task'.doneNodes = task.doneNodes /\ task'.failedAttempt = task.failedAttempt
        /\ task'.status = task.status \/ task'.status = "running"
        /\ task.status \in {"completed", "cancelled"} => task'.status = task.status
        /\ task.status = "failed" => (task'.status = "running" <=> later)
    <2>1. ASSUME NEW n \in batch
          PROVE  NodeStarted(task, attempts[n] + 1).status = "running" <=>
                    \/ task.status \notin Terminal
                    \/ task.status = "failed" /\ attempts[n] + 1 > task.failedAttempt
      BY <1>1 DEF NodeStarted, MarkRunning, IsTransitional, Terminal, TaskRecord
    <2> DEFINE moves == \E n \in batch : NodeStarted(task, attempts[n] + 1).status = "running"
    <2>2. task' = [task EXCEPT !.status = IF moves THEN "running" ELSE @]
      BY DEF Dispatch
    <2>3. moves <=> task.status \notin Terminal \/ (task.status = "failed" /\ later)
      BY <2>1
    <2> HIDE DEF moves, later
    <2>4. "running" \in TaskStatus
      BY DEF TaskStatus
    <2> QED
      BY <1>1, <2>2, <2>3, <2>4 DEF TaskRecord, Terminal
  <1> HIDE DEF later
  <1>7. /\ Finished' \subseteq Finished /\ Finished' # Nodes /\ Pending' \subseteq Pending
    <2>1. CompletedNow \subseteq Finished
      BY DEF CompletedNow, CompletedWith, Ended, Finished, Returned, Settled
    <2>2. Finished' \subseteq Finished
      BY <1>2, <1>3, <2>1 DEF Finished, Returned
    <2>3. PICK n \in batch : TRUE
      OBVIOUS
    <2>4. n \notin Finished'
      BY <1>2, <1>3 DEF Finished, Returned
    <2>5. Pending' \subseteq Pending
      BY <1>3 DEF Pending, Returned
    <2> QED
      BY <1>3, <2>2, <2>4, <2>5
  <1>8. Overtaken => Overtaken'
    <2> SUFFICES ASSUME NEW n \in Nodes, attempts[n] > task.failedAttempt PROVE Overtaken'
      BY DEF Overtaken
    <2>1. attempts'[n] > task'.failedAttempt
      BY <1>3, <1>5, <1>6
    <2> QED
      BY <2>1 DEF Overtaken
  <1>9. later => Overtaken'
    <2> SUFFICES ASSUME NEW n \in batch, attempts[n] + 1 > task.failedAttempt PROVE Overtaken'
      BY DEF later
    <2> QED
      BY <1>3, <1>6 DEF Overtaken
  <1>10. UnderWay'
    <2>1. (task.status = "cancelled" => gate = "aborted")'
      BY <1>1, <1>2, <1>6 DEF UnderWay
    <2>2. (task.status = "failed" =>
              \E w \in Nodes \ completed : Waiting(w) /\ attempts[w] >= task.failedAttempt)'
      <3> SUFFICES ASSUME task'.status = "failed"
                   PROVE  \E w \in Nodes \ completed' : Waiting(w)' /\ attempts'[w] >= task'.failedAttempt
        OBVIOUS
      <3>1. task.status = "failed" /\ ~later
        BY <1>6
      <3>2. PICK w \in Nodes \ completed : Waiting(w) /\ attempts[w] >= task.failedAttempt
        BY <1>1, <3>1 DEF UnderWay
      <3>3. w \notin batch
        BY <1>5, <3>1, <3>2 DEF later
      <3>4. w \notin completed' /\ Waiting(w)'
        BY <1>2, <1>3, <3>2, <3>3 DEF CompletedNow, CompletedWith, Ended, Waiting, Returned, Settled
      <3> QED
        BY <1>3, <1>6, <3>2, <3>3, <3>4
    <2>3. (Finished = Nodes => task.status \in {"completed", "cancelled"})'
      BY <1>7
    <2>4. (failures # <<>> \/ Pending # {} =>
              task.status \in {"failed", "cancelled"} \/ Overtaken)'
      BY <1>1, <1>2, <1>6, <1>7, <1>8, <1>9 DEF UnderWay
    <2>5. (failures # <<>> => \E n \in Nodes \ completed : exec[n] = "idle")'
      BY <1>2
    <2> QED
      BY <2>1, <2>2, <2>3, <2>4, <2>5 DEF UnderWay
  <1>11. RecordCore'
    BY <1>1, <1>2, <1>4, <1>6, <1>7, <1>10 DEF RecordCore
  <1>12. Reported'
    BY <1>2, NothingReported DEF RecordInv
  <1> QED
    BY <1>11, <1>12 DEF RecordInv

\* A cancel, an executor error and a failure that is not handled end the run.
LEMMA EndsInv ==
    ASSUME EngineInv, RecordInv,
           TurnAborted \/ DrainCancels \/ CancelSuspended \/ TurnError \/ DrainRejects
    PROVE  RecordInv'
  <1>1. /\ task \in TaskRecord /\ outcome \in [Nodes -> Outcome] /\ Finished \subseteq task.doneNodes
    BY DEF RecordInv, RecordCore
  <1>2. CASE TurnAborted \/ DrainCancels \/ CancelSuspended
    <2>1. /\ exec' = Taken /\ outcome' = outcome /\ completed' = CompletedNow
          /\ loop' = "over" /\ result' = "cancelled"
          /\ task' = task \/ task' = MarkCancelled(task)
      BY <1>2 DEF TurnAborted, DrainCancels, CancelSuspended, FinishCancelled
    <2>2. Finished' \subseteq Finished
      BY <2>1, NoneReturns DEF Taken, Settled, CompletedNow, CompletedWith
    <2>3. task' \in TaskRecord /\ task'.doneNodes = task.doneNodes
      BY <1>1, <2>1 DEF MarkCancelled, TaskRecord, TaskStatus
    <2>4. RecordCore'
      BY <1>1, <2>1, <2>2, <2>3 DEF RecordCore
    <2>5. Reported'
      BY <2>1 DEF Reported
    <2> QED
      BY <2>4, <2>5 DEF RecordInv
  <1>3. CASE TurnError \/ DrainRejects
    <2>1. /\ outcome' = outcome /\ Reject
          /\ exec' = Taken \/ exec' = exec
          /\ completed' \subseteq completed \cup Ended(Settled, {"completed"})
      <3>1. CASE TurnError
        <4> PICK n \in Ended(Stops, {"error"}) : Harvest(Before(Settled, n))
          BY <3>1 DEF TurnError
        <4>1. completed' \subseteq completed \cup Ended(Settled, {"completed"})
          BY DEF Harvest, CompletedWith, Ended, Before
        <4> QED
          BY <3>1, <4>1 DEF TurnError
      <3>2. CASE DrainRejects
        BY <3>2 DEF DrainRejects
      <3> QED
        BY <1>3, <3>1, <3>2
    <2>2. Finished' \subseteq Finished
      BY <2>1, NoneReturns DEF Taken, Settled
    <2>3. /\ task' \in TaskRecord /\ task'.doneNodes = task.doneNodes
          /\ task'.status \in {"failed", "cancelled"}
      BY <1>1, <2>1 DEF Reject, MarkFailed, TaskRecord, TaskStatus
    <2>4. loop' = "over" /\ result' = "rejected"
      BY <2>1 DEF Reject
    <2>5. RecordCore'
      BY <1>1, <2>1, <2>2, <2>3, <2>4 DEF RecordCore
    <2>6. Reported'
      BY <2>3, <2>4 DEF Reported
    <2> QED
      BY <2>5, <2>6 DEF RecordInv
  <1> QED
    BY <1>2, <1>3

\* A run that gives up has a failure on record, or one that was overtaken.
LEMMA GiveUpInv == ASSUME EngineInv, RecordInv, TurnGiveUp PROVE RecordInv'
  <1>1. /\ loop = "gate" /\ gate = "open" /\ FailuresNow # <<>> /\ InFlightNow = {}
        /\ exec' = Taken /\ outcome' = outcome /\ completed' = CompletedNow /\ attempts' = attempts
        /\ task' = task /\ loop' = "over" /\ result' = "failed"
    BY DEF TurnGiveUp, TakeOnly, InFailureHandling, InTurn, WaitPasses
  <1>2. /\ task \in TaskRecord /\ outcome \in [Nodes -> Outcome]
        /\ Finished \subseteq task.doneNodes /\ UnderWay
    BY <1>1 DEF RecordInv, RecordCore
  <1>3. Finished' \subseteq Finished
    BY <1>1, NoneReturns DEF Taken, Settled, CompletedNow, CompletedWith
  <1>4. InFlight' = {}
    BY <1>1 DEF InFlight, InFlightNow, Taken, Settled
  <1>5. failures # <<>> \/ Ended(Settled, Failing) # {}
    BY <1>1, ListedFailures DEF FailuresNow
  <1>6. completed' # Nodes
    <2>1. CASE failures # <<>>
      <3>1. PICK n \in Nodes \ completed : exec[n] = "idle"
        BY <1>2, <2>1 DEF UnderWay
      <3> QED
        BY <1>1, <3>1 DEF CompletedNow, CompletedWith, Ended, Settled
    <2>2. CASE Ended(Settled, Failing) # {}
      <3>1. PICK n \in Settled : outcome[n] \in Failing
        BY <2>2 DEF Ended
      <3>2. n \in Nodes /\ n \notin completed /\ outcome[n] # "completed"
        BY <3>1 DEF Settled, Failing, RetryReason, EngineInv, InFlightIsOpen, InFlight
      <3> QED
        BY <1>1, <3>2 DEF CompletedNow, CompletedWith, Ended
    <2> QED
      BY <1>5, <2>1, <2>2
  <1>7. task.status = "failed" \/ Overtaken'
    <2>1. failures # <<>> \/ Pending # {}
      BY <1>5 DEF Ended, Settled, Pending, Returned
    <2>2. task.status = "failed" \/ Overtaken
      BY <1>1, <1>2, <2>1 DEF UnderWay
    <2> QED
      BY <1>1, <2>2 DEF Overtaken
  <1>8. RecordCore'
    BY <1>1, <1>2, <1>3 DEF RecordCore
  <1>9. Reported'
    BY <1>1, <1>4, <1>6, <1>7 DEF Reported
  <1> QED
    BY <1>8, <1>9 DEF RecordInv

\* A run that ends at the evidence check reports what the record says.
LEMMA FinalCheckInv ==
    ASSUME EngineInv, RecordInv, FinalCheckPasses \/ FinalCheckFails PROVE RecordInv'
  <1>1. /\ task \in TaskRecord /\ outcome \in [Nodes -> Outcome] /\ Finished \subseteq task.doneNodes
        /\ AllCompleted
    BY DEF RecordInv, RecordCore, Reported, FinalCheckPasses, FinalCheckFails
  <1>2. /\ UNCHANGED <<exec, outcome, completed, attempts>> /\ loop' = "over"
    BY DEF FinalCheckPasses, FinalCheckFails, execVars
  <1>3. Finished' = Finished /\ InFlight' = InFlight
    BY <1>2 DEF Finished, Returned, InFlight
  <1>4. CASE FinalCheckPasses
    <2>1. task' = task /\ result' = "completed"
      BY <1>4 DEF FinalCheckPasses, execVars
    <2>2. RecordCore'
      BY <1>1, <1>2, <1>3, <2>1 DEF RecordCore
    <2>3. Reported'
      BY <1>1, <1>2, <1>3, <2>1 DEF Reported, AllCompleted
    <2> QED
      BY <2>2, <2>3 DEF RecordInv
  <1>5. CASE FinalCheckFails
    <2>1. PICK n \in Nodes : task' = NodeFailed(task, "evidence", attempts[n])
      BY <1>5 DEF FinalCheckFails
    <2>2. task' = [task EXCEPT !.status = "failed", !.failedAttempt = attempts[n]]
      BY <1>1, <2>1 DEF NodeFailed, MarkFailed, AllCompleted
    <2>3. task' \in TaskRecord /\ task'.doneNodes = task.doneNodes /\ task'.status = "failed"
      BY <1>1, <2>2 DEF TaskRecord, TaskStatus, EngineInv, DataTypeOK
    <2>4. result' = "failed"
      BY <1>5 DEF FinalCheckFails
    <2>5. RecordCore'
      BY <1>1, <1>2, <1>3, <2>3, <2>4 DEF RecordCore
    <2>6. Reported'
      BY <1>1, <1>2, <1>3, <2>3, <2>4 DEF Reported, AllCompleted
    <2> QED
      BY <2>5, <2>6 DEF RecordInv
  <1> QED
    BY <1>4, <1>5

\* What the step of a node's execution may do to its record.
Tells(n) ==
    /\ task' \in TaskRecord
    /\ outcome' \in [Nodes -> Outcome]
    /\ Finished' \subseteq task'.doneNodes
    /\ task.status \in {"failed", "cancelled"} => task'.status \in {"failed", "cancelled"}
    /\ task'.status = "cancelled" => task.status = "cancelled" \/ gate = "aborted"
    /\ task'.status = "failed" =>
          \/ /\ task.status = "failed" /\ task'.failedAttempt = task.failedAttempt
             /\ Waiting(n) => Waiting(n)'
          \/ Waiting(n)' /\ task'.failedAttempt = attempts[n]
    /\ \/ Pending' \subseteq Pending /\ task'.failedAttempt = task.failedAttempt
       \/ task'.status \in {"failed", "cancelled"}
    /\ loop # "over" /\ Finished' = Nodes => task'.status \in {"completed", "cancelled"}

\* What an execution that moves on tells the record.
LEMMA NodeTells ==
    ASSUME EngineInv, RecordInv, NEW n \in Nodes, NodeStep(n)
    PROVE  Tells(n)
  <1>1. /\ task \in TaskRecord /\ outcome \in [Nodes -> Outcome] /\ exec \in [Nodes -> Phase]
        /\ Finished \subseteq task.doneNodes
        /\ loop # "over" => UnderWay
        /\ attempts[n] \in Nat /\ completed \subseteq Nodes /\ IsFiniteSet(Nodes)
    BY EngineAssumption DEF RecordInv, RecordCore, EngineInv, DataTypeOK
  <1>2. exec[n] # "idle" /\ n \notin completed /\ completed' = completed
    <2>1. exec[n] # "idle"
      BY DEF NodeStep, RuntimeEnds, ExecutorStep, Completes, Fails, BreaksBudget, Throws,
             LogsBudgetPaused, ObservesAbort, Releases
    <2> QED
      BY <2>1 DEF EngineInv, InFlightIsOpen, InFlight, NodeStep, engineVars
  <1>3. ASSUME \A m \in Nodes \ {n} : exec'[m] = exec[m] /\ outcome'[m] = outcome[m]
        PROVE  /\ Finished' \subseteq Finished \cup {n} /\ Finished \subseteq Finished' \cup {n}
               /\ n \in Finished' <=> (Returned(n)' /\ outcome'[n] = "completed")
               /\ n \in Finished <=> (Returned(n) /\ outcome[n] = "completed")
               /\ Pending' \subseteq Pending \cup {n}
               /\ n \in Pending' <=> (Returned(n)' /\ outcome'[n] \in Failing)
               /\ n \in Pending <=> (Returned(n) /\ outcome[n] \in Failing)
    BY <1>1, <1>2, <1>3 DEF Finished, Pending, Returned
  <1>4. CASE Completes(n)
    <2>1. /\ exec[n] = "running" /\ exec' = [exec EXCEPT ![n] = "closing"]
          /\ outcome' = [outcome EXCEPT ![n] = "completed"]
          /\ task' = NodeCompleted(task, n, Cardinality(Nodes))
      BY <1>4 DEF Completes, Close
    <2>2. /\ outcome' \in [Nodes -> Outcome] /\ "completed" \notin Failing
          /\ Returned(n)' /\ ~Returned(n) /\ outcome'[n] = "completed" /\ ~Waiting(n)
          /\ \A m \in Nodes \ {n} : exec'[m] = exec[m] /\ outcome'[m] = outcome[m]
      BY <1>1, <2>1 DEF Outcome, Returned, Waiting, Failing, RetryReason
    <2>3. Finished' = Finished \cup {n} /\ Pending' \subseteq Pending
      BY <1>3, <2>2
    <2> DEFINE u == [task EXCEPT !.doneNodes = @ \cup {n}]
    <2>4. u \in TaskRecord /\ u.doneNodes = task.doneNodes \cup {n} /\ u.status = task.status
          /\ u.failedAttempt = task.failedAttempt
      BY <1>1 DEF TaskRecord
    <2>5. /\ task' = MarkCompleted(u) \/ task' = u
          /\ Cardinality(u.doneNodes) >= Cardinality(Nodes) => task' = MarkCompleted(u)
      BY <2>1 DEF NodeCompleted
    <2> HIDE DEF u
    <2>6. /\ task' \in TaskRecord /\ task'.doneNodes = task.doneNodes \cup {n}
          /\ task'.failedAttempt = task.failedAttempt
          /\ task'.status = task.status \/ task'.status = "completed"
          /\ task.status \in Terminal => task'.status = task.status
          /\ task' = MarkCompleted(u) => task'.status \in Terminal
      BY <2>4, <2>5 DEF MarkCompleted, IsTransitional, TaskRecord, TaskStatus, Terminal
    <2>7. ASSUME loop # "over", Finished' = Nodes PROVE task'.status \in {"completed", "cancelled"}
      <3>1. task.status # "failed"
        <4> SUFFICES ASSUME task.status = "failed" PROVE FALSE
          OBVIOUS
        <4>1. PICK w \in Nodes \ completed : Waiting(w)
          BY <1>1, <2>7 DEF UnderWay
        <4>2. w # n /\ w \notin Finished
          BY <2>2, <4>1 DEF Waiting, Finished, Returned
        <4> QED
          BY <2>3, <2>7, <4>2
      <3>2. u.doneNodes = Nodes
        BY <1>1, <2>3, <2>4, <2>7 DEF TaskRecord
      <3>3. task' = MarkCompleted(u)
        <4>1. Cardinality(Nodes) \in Nat
          BY <1>1, FS_CardinalityType
        <4> QED
          BY <2>5, <3>2, <4>1
      <3> QED
        BY <2>6, <3>1, <3>3 DEF Terminal
    <2>8. Finished' \subseteq task'.doneNodes
      BY <1>1, <2>3, <2>6
    <2> QED
      BY <2>2, <2>3, <2>6, <2>7, <2>8 DEF Tells, Terminal
  <1>5. CASE Fails(n, attempts[n])
    <2>1. PICK reason \in RetryReason : Close(n, reason) /\ task' = NodeFailed(task, reason, attempts[n])
      BY <1>5 DEF Fails
    <2>2. exec[n] \in {"running", "breaking"}
      BY <1>5 DEF Fails
    <2>3. /\ outcome' \in [Nodes -> Outcome] /\ Returned(n)' /\ ~Returned(n)
          /\ outcome'[n] = reason /\ reason # "completed" /\ Waiting(n)'
          /\ \A m \in Nodes \ {n} : exec'[m] = exec[m] /\ outcome'[m] = outcome[m]
      BY <1>1, <2>1, <2>2 DEF Close, Outcome, RetryReason, Returned, Waiting
    <2>4. Finished' \subseteq Finished /\ n \notin Finished'
      BY <1>3, <2>3
    <2>5. task' = MarkFailed(task, attempts[n])
      BY <2>1 DEF NodeFailed, RetryReason
    <2>6. /\ task' \in TaskRecord /\ task'.doneNodes = task.doneNodes
          /\ task'.status \in {"failed", "cancelled"}
          /\ task'.status = "cancelled" => task.status = "cancelled"
          /\ task'.status = "failed" => task'.failedAttempt = attempts[n]
      BY <1>1, <2>5 DEF MarkFailed, TaskRecord, TaskStatus
    <2> QED
      BY <1>1, <2>3, <2>4, <2>6 DEF Tells
  <1>6. CASE BreaksBudget(n)
    <2>1. /\ exec[n] = "running" /\ exec' = [exec EXCEPT ![n] = "breaking"] /\ outcome' = outcome
          /\ task' = task \/ task' = MarkPaused(task)
      BY <1>6 DEF BreaksBudget, BudgetExceeded
    <2>2. /\ ~Returned(n)' /\ ~Returned(n) /\ ~Waiting(n)
          /\ \A m \in Nodes \ {n} : exec'[m] = exec[m] /\ outcome'[m] = outcome[m]
      BY <1>1, <2>1 DEF Returned, Waiting
    <2>3. Finished' \subseteq Finished /\ n \notin Finished' /\ Pending' \subseteq Pending
      BY <1>3, <2>2
    <2>4. /\ task' \in TaskRecord /\ task'.doneNodes = task.doneNodes
          /\ task'.failedAttempt = task.failedAttempt
          /\ task'.status \in Terminal => task'.status = task.status
          /\ task.status \in Terminal => task'.status = task.status
      BY <1>1, <2>1 DEF MarkPaused, IsTransitional, TaskRecord, TaskStatus, Terminal
    <2> QED
      BY <1>1, <2>1, <2>2, <2>3, <2>4 DEF Tells, Terminal
  <1>7. CASE LogsBudgetPaused(n, attempts[n])
    <2>1. /\ exec[n] = "breaking" /\ exec' = [exec EXCEPT ![n] = "closing"]
          /\ outcome' = [outcome EXCEPT ![n] = "budget_paused"]
          /\ task' = MarkPaused(task)
      BY <1>7 DEF LogsBudgetPaused, Close, NodeFailed
    <2>2. /\ outcome' \in [Nodes -> Outcome] /\ "budget_paused" \notin Failing
          /\ ~Returned(n) /\ ~Waiting(n) /\ outcome'[n] = "budget_paused"
          /\ \A m \in Nodes \ {n} : exec'[m] = exec[m] /\ outcome'[m] = outcome[m]
      BY <1>1, <2>1 DEF Outcome, Returned, Waiting, Failing, RetryReason
    <2>3. Finished' \subseteq Finished /\ n \notin Finished' /\ Pending' \subseteq Pending
      BY <1>3, <2>2
    <2>4. /\ task' \in TaskRecord /\ task'.doneNodes = task.doneNodes
          /\ task'.failedAttempt = task.failedAttempt
          /\ task'.status \in Terminal => task'.status = task.status
          /\ task.status \in Terminal => task'.status = task.status
      BY <1>1, <2>1 DEF MarkPaused, IsTransitional, TaskRecord, TaskStatus, Terminal
    <2> QED
      BY <1>1, <2>2, <2>3, <2>4 DEF Tells, Terminal
  <1>8. CASE ObservesAbort(n, attempts[n], gate = "aborted")
    <2>1. /\ gate = "aborted" /\ exec[n] = "running" /\ exec' = [exec EXCEPT ![n] = "closing"]
          /\ outcome' = [outcome EXCEPT ![n] = "cancelled"]
          /\ task' = MarkCancelled(task)
      BY <1>8 DEF ObservesAbort, Close, NodeFailed
    <2>2. /\ outcome' \in [Nodes -> Outcome] /\ ~Returned(n) /\ outcome'[n] = "cancelled"
          /\ \A m \in Nodes \ {n} : exec'[m] = exec[m] /\ outcome'[m] = outcome[m]
      BY <1>1, <2>1 DEF Outcome, Returned
    <2>3. Finished' \subseteq Finished
      BY <1>3, <2>2
    <2>4. task' \in TaskRecord /\ task'.doneNodes = task.doneNodes /\ task'.status = "cancelled"
      BY <1>1, <2>1 DEF MarkCancelled, TaskRecord, TaskStatus
    <2> QED
      BY <1>1, <2>1, <2>2, <2>3, <2>4 DEF Tells
  <1>9. CASE Releases(n)
    <2>1. /\ exec[n] = "closing" /\ exec' = [exec EXCEPT ![n] = "settled"]
          /\ outcome' = outcome /\ task' = task
      BY <1>9 DEF Releases
    <2>2. /\ Returned(n)' /\ Returned(n)
          /\ Waiting(n)' <=> Waiting(n)
          /\ \A m \in Nodes \ {n} : exec'[m] = exec[m] /\ outcome'[m] = outcome[m]
      BY <1>1, <2>1 DEF Returned, Waiting
    <2>3. Finished' = Finished /\ Pending' \subseteq Pending
      BY <1>3, <2>1, <2>2
    <2> QED
      BY <1>1, <2>1, <2>2, <2>3 DEF Tells, UnderWay
  <1>10. CASE Throws(n)
    <2>1. /\ exec' = [exec EXCEPT ![n] = "settled"]
          /\ outcome' = [outcome EXCEPT ![n] = "error"] /\ task' = task
      BY <1>10 DEF Throws
    <2>2. /\ outcome' \in [Nodes -> Outcome] /\ "error" \notin Failing
          /\ Returned(n)' /\ outcome'[n] = "error" /\ Waiting(n)'
          /\ \A m \in Nodes \ {n} : exec'[m] = exec[m] /\ outcome'[m] = outcome[m]
      BY <1>1, <2>1 DEF Outcome, Returned, Waiting, Failing, RetryReason
    <2>3. Finished' \subseteq Finished /\ n \notin Finished' /\ Pending' \subseteq Pending
      BY <1>3, <2>2
    <2> QED
      BY <1>1, <2>1, <2>2, <2>3 DEF Tells
  <1> QED
    BY <1>4, <1>5, <1>6, <1>7, <1>8, <1>9, <1>10 DEF NodeStep, RuntimeEnds, ExecutorStep

\* No execution is under way in a run that has completed or failed, and those
\* of a run that rejected do not bring its record back.
LEMMA NodeInv ==
    ASSUME EngineInv, RecordInv, NEW n \in Nodes, NodeStep(n)
    PROVE  RecordInv'
  <1>1. Tells(n)
    BY NodeTells
  <1>2. UNCHANGED <<completed, failures, loop, result, gate, attempts>>
    BY DEF NodeStep, engineVars
  <1>3. /\ n \in InFlight
        /\ \A m \in Nodes \ {n} : exec'[m] = exec[m] /\ outcome'[m] = outcome[m]
    <2> USE DEF NodeStep, RuntimeEnds, ExecutorStep, Completes, Fails, BreaksBudget, Throws,
                LogsBudgetPaused, ObservesAbort, Releases, Close
    <2>1. n \in InFlight
      BY DEF InFlight
    <2>2. \E phase, how : /\ exec' = [exec EXCEPT ![n] = phase]
                          /\ outcome' = [outcome EXCEPT ![n] = how] \/ outcome' = outcome
      OBVIOUS
    <2> QED
      BY <2>1, <2>2 DEF EngineInv, DataTypeOK, RecordInv, RecordCore
  <1>4. ASSUME loop # "over" PROVE UnderWay'
    <2>1. UnderWay
      BY <1>4 DEF RecordInv, RecordCore
    <2>2. (task.status = "cancelled" => gate = "aborted")'
      BY <1>1, <1>2, <2>1 DEF Tells, UnderWay
    <2>3. (task.status = "failed" =>
              \E w \in Nodes \ completed : Waiting(w) /\ attempts[w] >= task.failedAttempt)'
      <3> SUFFICES ASSUME task'.status = "failed"
                   PROVE  \E w \in Nodes \ completed' : Waiting(w)' /\ attempts'[w] >= task'.failedAttempt
        OBVIOUS
      <3>1. CASE /\ task.status = "failed" /\ task'.failedAttempt = task.failedAttempt
                 /\ Waiting(n) => Waiting(n)'
        <4>1. PICK w \in Nodes \ completed : Waiting(w) /\ attempts[w] >= task.failedAttempt
          BY <2>1, <3>1 DEF UnderWay
        <4>2. Waiting(w)'
          BY <1>3, <3>1, <4>1 DEF Waiting, Returned
        <4> QED
          BY <1>2, <3>1, <4>1, <4>2
      <3>2. CASE Waiting(n)' /\ task'.failedAttempt = attempts[n]
        <4>1. n \notin completed
          BY <1>3 DEF EngineInv, InFlightIsOpen
        <4>2. attempts[n] \in Nat
          BY DEF EngineInv, DataTypeOK
        <4> QED
          BY <1>2, <3>2, <4>1, <4>2
      <3> QED
        BY <1>1, <3>1, <3>2 DEF Tells
    <2>4. (Finished = Nodes => task.status \in {"completed", "cancelled"})'
      BY <1>1, <1>4 DEF Tells
    <2>5. (failures # <<>> \/ Pending # {} =>
              task.status \in {"failed", "cancelled"} \/ Overtaken)'
      BY <1>1, <1>2, <2>1 DEF Tells, UnderWay, Overtaken
    <2>6. (failures # <<>> => \E m \in Nodes \ completed : exec[m] = "idle")'
      <3> SUFFICES ASSUME failures # <<>>
                   PROVE  \E m \in Nodes \ completed : exec'[m] = "idle"
        BY <1>2
      <3>1. PICK m \in Nodes \ completed : exec[m] = "idle"
        BY <2>1 DEF UnderWay
      <3> QED
        BY <1>3, <3>1 DEF InFlight
    <2> QED
      BY <2>2, <2>3, <2>4, <2>5, <2>6 DEF UnderWay
  <1>5. RecordCore'
    BY <1>1, <1>2, <1>4 DEF Tells, RecordInv, RecordCore
  <1>6. loop # "finalCheck" /\ result # "completed" /\ result # "failed"
    BY <1>3 DEF RecordInv, Reported, AllCompleted
  <1>7. Reported'
    BY <1>1, <1>2, <1>6 DEF Tells, RecordInv, Reported
  <1> QED
    BY <1>5, <1>7 DEF RecordInv

\* Record and run agree at first,
LEMMA RecordInit == Init => RecordInv
  <1> SUFFICES ASSUME Init PROVE RecordInv
    OBVIOUS
  <1>1. /\ exec = [n \in Nodes |-> "idle"] /\ outcome = [n \in Nodes |-> "none"]
        /\ task = NewTask /\ loop = "gate" /\ result = "none"
        /\ completed = {} /\ failures = <<>>
    BY DEF Init, ExecInit
  <1>2. /\ task \in TaskRecord /\ task.status = "created" /\ outcome \in [Nodes -> Outcome]
    BY <1>1 DEF NewTask, TaskRecord, TaskStatus, Outcome
  <1>3. Finished = {} /\ Pending = {}
    BY <1>1 DEF Finished, Pending, Returned
  <1>4. UnderWay
    BY <1>1, <1>2, <1>3, EngineAssumption DEF UnderWay
  <1> QED
    BY <1>1, <1>2, <1>3, <1>4 DEF RecordInv, RecordCore, Reported

\* and after every step.
LEMMA RecordStep == EngineInv /\ RecordInv /\ [Next]_vars => RecordInv'
  <1> SUFFICES ASSUME EngineInv, RecordInv, [Next]_vars PROVE RecordInv'
    OBVIOUS
  <1>1. CASE \/ TurnBudgetPaused \/ TurnAwaitDrain \/ TurnRetry \/ TurnFeedback
             \/ TurnSpin \/ TurnWait \/ DrainTakes
    <2>1. Quiet /\ loop \in {"gate", "drain"}
      BY <1>1, QuietTurns
    <2>2. RecordCore'
      BY <2>1, QuietInv DEF RecordInv
    <2>3. result' = result /\ loop' # "finalCheck"
      BY <1>1 DEF TurnBudgetPaused, TurnAwaitDrain, TurnRetry, TurnFeedback, TurnSpin, TurnWait,
                  DrainTakes, InDispatch, InFailureHandling, InTurn
    <2>4. Reported'
      BY <2>1, <2>3, NothingReported DEF RecordInv
    <2> QED
      BY <2>2, <2>4 DEF RecordInv
  <1>2. CASE TurnAllDone
    BY <1>2, AllDoneInv
  <1>3. CASE TurnDispatchBatch
    <2>1. /\ Batch \subseteq Ready /\ Batch # {} /\ Dispatch(Batch)
          /\ loop = "gate" /\ FailuresNow = <<>>
      BY <1>3 DEF TurnDispatchBatch, Batch, InDispatch, InTurn
    <2> QED
      BY <2>1, DispatchInv
  <1>4. CASE TurnDispatchSerial
    <2>1. PICK n \in Ready : Dispatch({n})
      BY <1>4 DEF TurnDispatchSerial
    <2>2. loop = "gate" /\ FailuresNow = <<>> /\ {n} \subseteq Ready /\ {n} # {}
      BY <1>4 DEF TurnDispatchSerial, InDispatch, InTurn
    <2> QED
      BY <2>1, <2>2, DispatchInv
  <1>5. CASE TurnAborted \/ DrainCancels \/ CancelSuspended \/ TurnError \/ DrainRejects
    BY <1>5, EndsInv
  <1>6. CASE TurnGiveUp
    BY <1>6, GiveUpInv
  <1>7. CASE FinalCheckPasses \/ FinalCheckFails
    BY <1>7, FinalCheckInv
  <1>8. CASE \E n \in Nodes : NodeStep(n)
    BY <1>8, NodeInv
  <1>9. CASE \/ Wake \/ DrainResumes \/ DrainSuspends
             \/ Pause \/ CancelRunning \/ ResumeSuspended \/ ResumePaused \/ ResumeLater
             \/ (Raise /\ UNCHANGED <<engineVars, gate>>) \/ Terminated \/ UNCHANGED vars
    BY <1>9, StillSteps
  <1> QED
    BY <1>1, <1>2, <1>3, <1>4, <1>5, <1>6, <1>7, <1>8, <1>9 DEF Next, LoopStep, Operator

\* What a run reports is in the task record, for every workflow: completed only
\* with every node completed and the record complete, failed and rejected with
\* a record that says so, save for a failure that the dispatch of a later
\* attempt of another node has overtaken (#loop, #finalizeFailed, tasks.ts).
THEOREM EngineOutcomeIsVisible == Spec => []OutcomeIsVisible
  <1>1. RecordInv => OutcomeIsVisible
    BY DEF RecordInv, Reported, AllCompleted, OutcomeIsVisible
  <1> QED
    BY <1>1, RecordInit, RecordStep, EngineInvariant, PTL DEF Spec

----------------------------------------------------------------------------
(* How often a node runs. The list of failures is read by its members, so  *)
(* first: the taken failures are put on it, all of them and nothing else.  *)

Ascending(seq) == \A i, j \in DOMAIN seq : i < j => topoIndex[seq[i]] < topoIndex[seq[j]]

\* Some nodes can be put in topological order.
Sortable(S) == \E seq \in [1..Cardinality(S) -> S] : Ascending(seq)

\* A node behind all the others keeps the order.
LEMMA OneMoreSorted ==
    ASSUME NEW S, S \subseteq Nodes, NEW n \in S, \A m \in S : topoIndex[m] <= topoIndex[n],
           NEW c \in Nat, c # 0, Cardinality(S) = c, Cardinality(S \ {n}) = c - 1,
           Sortable(S \ {n})
    PROVE  Sortable(S)
  <1>1. PICK g \in [1..(c - 1) -> S \ {n}] : Ascending(g)
    BY DEF Sortable
  <1> DEFINE f == [i \in 1..c |-> IF i = c THEN n ELSE g[i]]
  <1>2. f \in [1..c -> S] /\ DOMAIN f = 1..c
    OBVIOUS
  <1>3. ASSUME NEW i \in 1..c, NEW j \in 1..c, i < j
        PROVE  topoIndex[f[i]] < topoIndex[f[j]]
    <2>1. i \in 1..(c - 1) /\ f[i] = g[i] /\ g[i] \in S /\ g[i] # n /\ g[i] \in Nodes /\ n \in Nodes
      BY <1>3
    <2>2. CASE j = c
      <3>1. topoIndex[g[i]] # topoIndex[n] /\ topoIndex[g[i]] \in Nat /\ topoIndex[n] \in Nat
        BY <2>1, EngineAssumption
      <3> QED
        BY <2>1, <2>2, <3>1
    <2>3. CASE j # c
      <3>1. j \in 1..(c - 1) /\ f[j] = g[j]
        BY <2>3
      <3> QED
        BY <1>1, <1>3, <2>1, <3>1 DEF Ascending
    <2> QED
      BY <2>2, <2>3
  <1> HIDE DEF f
  <1>4. Ascending(f)
    BY <1>2, <1>3 DEF Ascending
  <1> QED
    BY <1>2, <1>4 DEF Sortable

\* Every set of nodes can be put in topological order.
LEMMA NodesSortable == ASSUME NEW S, S \subseteq Nodes PROVE Sortable(S)
  <1> DEFINE Sizes == {c \in Nat : \E X \in SUBSET Nodes : Cardinality(X) = c /\ ~Sortable(X)}
  <1>1. ASSUME NEW X \in SUBSET Nodes PROVE IsFiniteSet(X) /\ Cardinality(X) \in Nat
    BY <1>1, EngineAssumption, FS_Subset, FS_CardinalityType
  <1> SUFFICES ASSUME ~Sortable(S) PROVE FALSE
    OBVIOUS
  <1>2. Sizes # {}
    BY <1>1
  <1>3. PICK c \in Sizes : \A d \in Sizes : c <= d
    <2> HIDE DEF Sizes
    <2>1. Sizes \subseteq Nat
      BY DEF Sizes
    <2> QED
      BY <1>2, <2>1, LeastNatural
  <1>4. PICK X \in SUBSET Nodes : Cardinality(X) = c /\ ~Sortable(X)
    BY <1>3
  <1>5. X # {}
    <2> SUFFICES ASSUME X = {} PROVE FALSE
      OBVIOUS
    <2>1. Cardinality(X) = 0
      BY FS_EmptySet
    <2>2. <<>> \in [1..0 -> X]
      OBVIOUS
    <2>3. Ascending(<<>>)
      BY DEF Ascending
    <2> QED
      BY <1>4, <2>1, <2>2, <2>3 DEF Sortable
  <1>6. PICK n \in X : \A m \in X : topoIndex[m] <= topoIndex[n]
    BY <1>5, LastOfNodes
  <1>7. /\ c \in Nat /\ c # 0 /\ Cardinality(X \ {n}) = c - 1
        /\ X \ {n} \in SUBSET Nodes
    BY <1>1, <1>4, <1>5, FS_RemoveElement, FS_EmptySet
  <1>8. Sortable(X \ {n})
    <2> SUFFICES ASSUME ~Sortable(X \ {n}) PROVE FALSE
      OBVIOUS
    <2>1. c - 1 \in Sizes
      BY <1>7
    <2> HIDE DEF Sizes
    <2> QED
      BY <1>3, <1>7, <2>1
  <1>9. Sortable(X)
    BY <1>4, <1>6, <1>7, <1>8, OneMoreSorted
  <1> QED
    BY <1>4, <1>9

\* The order of a set of nodes names each of them.
LEMMA TopoOrderNames ==
    ASSUME NEW S, S \subseteq Nodes
    PROVE  /\ InTopoOrder(S) \in Seq(S)
           /\ \A n \in S : \E i \in DOMAIN InTopoOrder(S) : InTopoOrder(S)[i] = n
  <1> DEFINE c == Cardinality(S)
             f == CHOOSE seq \in [1..c -> S] : Ascending(seq)
  <1>1. IsFiniteSet(S) /\ c \in Nat
    BY EngineAssumption, FS_Subset, FS_CardinalityType
  <1>2. InTopoOrder(S) = f
    BY DEF InTopoOrder, Ascending
  <1>3. f \in [1..c -> S] /\ Ascending(f)
    BY NodesSortable DEF Sortable
  <1> HIDE DEF f, c
  <1>4. ASSUME NEW i \in 1..c, NEW j \in 1..c, f[i] = f[j] PROVE i = j
    <2>1. topoIndex[f[i]] \in Nat /\ topoIndex[f[j]] \in Nat
      BY <1>3, EngineAssumption
    <2>2. ~(topoIndex[f[i]] < topoIndex[f[j]]) /\ ~(topoIndex[f[j]] < topoIndex[f[i]])
      BY <1>4, <2>1
    <2>3. ~(i < j) /\ ~(j < i)
      BY <1>3, <2>2 DEF Ascending
    <2> QED
      BY <1>1, <2>3
  <1>5. f \in Injection(1..c, S)
    BY <1>3, <1>4 DEF Injection, IsInjective
  <1>6. Cardinality(1..c) = c
    BY <1>1, FS_Interval
  <1>7. f \in Surjection(1..c, S)
    BY <1>1, <1>5, <1>6, FS_Injection DEF c
  <1> QED
    BY <1>1, <1>2, <1>3, <1>7 DEF Surjection

\* The nodes on the list of failures.
Members(seq) == {seq[i] : i \in DOMAIN seq}

\* Taking the entries of S puts its failures on the list.
LEMMA FailuresListed ==
    ASSUME failures \in Seq(Nodes), NEW S, S \subseteq Nodes
    PROVE  /\ FailuresWith(S) \in Seq(Nodes)
           /\ Members(FailuresWith(S)) = Members(failures) \cup Ended(S, Failing)
  <1> DEFINE X == Ended(S, Failing)
             t == InTopoOrder(X)
  <1>1. X \subseteq Nodes /\ X \subseteq S
    BY DEF Ended
  <1>2. t \in Seq(X) /\ \A n \in X : \E i \in DOMAIN t : t[i] = n
    BY <1>1, TopoOrderNames
  <1>3. FailuresWith(S) = failures \o t
    BY DEF FailuresWith
  <1> HIDE DEF X, t
  <1>4. t \in Seq(Nodes)
    BY <1>1, <1>2
  <1>5. FailuresWith(S) \in Seq(Nodes)
    BY <1>3, <1>4
  <1>6. Members(t) = X
    BY <1>2 DEF Members
  <1>7. Members(failures \o t) = Members(failures) \cup Members(t)
    <2>1. /\ DOMAIN (failures \o t) = 1..(Len(failures) + Len(t))
          /\ DOMAIN failures = 1..Len(failures) /\ DOMAIN t = 1..Len(t)
          /\ Len(failures) \in Nat /\ Len(t) \in Nat
          /\ \A i \in 1..Len(failures) : (failures \o t)[i] = failures[i]
          /\ \A i \in 1..Len(t) : (failures \o t)[Len(failures) + i] = t[i]
      BY <1>4
    <2>2. ASSUME NEW x \in Members(failures \o t) PROVE x \in Members(failures) \cup Members(t)
      <3>1. PICK i \in 1..(Len(failures) + Len(t)) : x = (failures \o t)[i]
        BY <2>1 DEF Members
      <3>2. CASE i <= Len(failures)
        BY <2>1, <3>1, <3>2 DEF Members
      <3>3. CASE i > Len(failures)
        <4>1. i - Len(failures) \in 1..Len(t) /\ i = Len(failures) + (i - Len(failures))
          BY <2>1, <3>3
        <4>2. x = t[i - Len(failures)]
          BY <2>1, <3>1, <4>1
        <4> QED
          BY <2>1, <4>1, <4>2 DEF Members
      <3> QED
        BY <2>1, <3>2, <3>3
    <2>3. ASSUME NEW x \in Members(failures) PROVE x \in Members(failures \o t)
      <3>1. PICK i \in 1..Len(failures) : x = failures[i]
        BY <2>1 DEF Members
      <3>2. i \in 1..(Len(failures) + Len(t)) /\ x = (failures \o t)[i]
        BY <2>1, <3>1
      <3> QED
        BY <2>1, <3>2 DEF Members
    <2>4. ASSUME NEW x \in Members(t) PROVE x \in Members(failures \o t)
      <3>1. PICK i \in 1..Len(t) : x = t[i]
        BY <2>1 DEF Members
      <3>2. Len(failures) + i \in 1..(Len(failures) + Len(t))
            /\ x = (failures \o t)[Len(failures) + i]
        BY <2>1, <3>1
      <3> QED
        BY <2>1, <3>2 DEF Members
    <2> QED
      BY <2>2, <2>3, <2>4
  <1> QED
    BY <1>3, <1>5, <1>6, <1>7 DEF X

\* Idle, and its last result neither recorded nor on the list of failures.
Open(n) == exec[n] = "idle" /\ n \notin completed /\ n \notin Members(failures)

\* One more dispatch of n is within what it is owed.
Owed(n) == attempts[n] <= retryMax[n] + setbacks[n]

\* The run can still dispatch.
GoesOn == loop # "over" /\ ~drainError

RerunsTypeOK ==
    /\ failures \in Seq(Nodes)
    /\ setbacks \in [Nodes -> Nat]
    /\ outcome \in [Nodes -> Outcome]
    /\ \A n \in Nodes : exec[n] \in {"closing", "settled"} => outcome[n] # "none"
    /\ drainError => loop \in {"drain", "over"}

RerunsInv == /\ RerunsTypeOK
             /\ RerunsAreOwed
             /\ GoesOn => \A n \in Nodes : Open(n) => Owed(n)

\* A turn that dispatches nothing keeps it if the nodes it opens are owed a
\* dispatch: by a retry, or because it took back what they ended with.
LEMMA NothingDispatched ==
    ASSUME EngineInv, RerunsInv, RerunsTypeOK', attempts' = attempts,
           \A n \in Nodes : setbacks'[n] >= setbacks[n],
           GoesOn' => /\ GoesOn
                      /\ \A n \in Nodes : Open(n)' =>
                            Open(n) \/ Owed(n) \/ setbacks'[n] = setbacks[n] + 1
    PROVE  RerunsInv'
  <1>1. ASSUME NEW n \in Nodes
        PROVE  /\ attempts[n] \in Nat /\ retryMax[n] \in Nat
               /\ setbacks[n] \in Nat /\ setbacks'[n] \in Nat
    BY EngineAssumption DEF EngineInv, DataTypeOK, RerunsInv, RerunsTypeOK
  <1>2. RerunsAreOwed'
    BY <1>1 DEF RerunsInv, RerunsAreOwed
  <1>3. ASSUME GoesOn', NEW n \in Nodes, Open(n)' PROVE Owed(n)'
    <2>1. CASE Open(n) \/ Owed(n)
      BY <1>1, <1>3, <2>1 DEF RerunsInv, Owed
    <2>2. CASE setbacks'[n] = setbacks[n] + 1
      BY <1>1, <2>2 DEF RerunsInv, RerunsAreOwed, Owed
    <2> QED
      BY <1>3, <2>1, <2>2
  <1> QED
    BY <1>2, <1>3 DEF RerunsInv

\* What is taken back is counted once.
LEMMA TakenBackCounts ==
    ASSUME RerunsTypeOK, NEW S
    PROVE  /\ TakenBack(S) \in [Nodes -> Nat]
           /\ \A n \in Nodes : TakenBack(S)[n] >= setbacks[n]
           /\ \A n \in Nodes : n \in S => TakenBack(S)[n] = setbacks[n] + 1
  BY DEF TakenBack, RerunsTypeOK

\* A node that is open once the entries of S are taken was open before, or
\* its entry was taken and is neither a completion nor a failure of S.
LEMMA OpenedByTaking ==
    ASSUME EngineInv, RerunsInv, NEW S, S \subseteq Settled, exec' = Taken, Harvest(S)
    PROVE  /\ failures' \in Seq(Nodes)
           /\ \A n \in Nodes : Open(n)' =>
                 \/ Open(n)
                 \/ n \in Settled \ S
                 \/ n \in Ended(S, {"error", "budget_paused"})
  <1>1. S \subseteq Nodes
    BY DEF Settled
  <1>2. failures' \in Seq(Nodes) /\ Members(failures') = Members(failures) \cup Ended(S, Failing)
    BY <1>1, FailuresListed DEF Harvest, RerunsInv, RerunsTypeOK
  <1>3. ASSUME NEW n \in Nodes, Open(n)', ~Open(n), n \in S
        PROVE  n \in Ended(S, {"error", "budget_paused"})
    <2>1. outcome[n] \in Outcome \ {"none"}
      BY <1>3 DEF Settled, RerunsInv, RerunsTypeOK
    <2>2. n \notin Ended(S, {"completed"}) /\ n \notin Ended(S, Failing)
      BY <1>2, <1>3 DEF Open, Harvest, CompletedWith
    <2> QED
      BY <1>3, <2>1, <2>2 DEF Ended, Outcome, Failing
  <1>4. ASSUME NEW n \in Nodes, Open(n)', n \notin Settled PROVE Open(n)
    BY <1>2, <1>4 DEF Open, Taken, Settled, Harvest, CompletedWith
  <1> QED
    BY <1>2, <1>3, <1>4

\* The turns that record all they take.
LEMMA RecordingTurns ==
    ASSUME EngineInv, RerunsInv, TurnAwaitDrain \/ TurnSpin \/ TurnWait \/ TurnAllDone
    PROVE  RerunsInv'
  <1>1. /\ Stops = {} /\ exec' = Taken /\ Harvest(Settled) /\ loop = "gate" /\ loop' # "over"
        /\ UNCHANGED <<outcome, attempts, setbacks, drainError>>
    BY DEF TurnAwaitDrain, TurnSpin, TurnWait, TurnAllDone, TakeOnly, InDispatch, InTurn
  <1>2. Settled \subseteq Settled /\ Ended(Settled, {"error", "budget_paused"}) = {}
    BY <1>1 DEF Stops
  <1>3. failures' \in Seq(Nodes) /\ \A n \in Nodes : Open(n)' => Open(n)
    BY <1>1, <1>2, OpenedByTaking
  <1>4. RerunsTypeOK'
    BY <1>1, <1>3 DEF RerunsInv, RerunsTypeOK, Taken, Settled
  <1>5. \A n \in Nodes : setbacks'[n] >= setbacks[n]
    BY <1>1 DEF RerunsInv, RerunsTypeOK
  <1> QED
    BY <1>1, <1>3, <1>4, <1>5, NothingDispatched DEF GoesOn

\* A budget break takes back what is at the break or behind it.
LEMMA BreakTurn == ASSUME EngineInv, RerunsInv, TurnBudgetPaused PROVE RerunsInv'
  <1> PICK k \in Ended(Stops, {"budget_paused"}) :
             /\ IsFirst(Stops, k) /\ Harvest(Before(Settled, k))
             /\ setbacks' = TakenBack(Settled \ Before(Settled, k))
    BY DEF TurnBudgetPaused
  <1> DEFINE ahead == Before(Settled, k)
  <1>1. /\ exec' = Taken /\ loop = "gate" /\ loop' = "drain"
        /\ UNCHANGED <<outcome, attempts, drainError>>
    BY DEF TurnBudgetPaused, InTurn
  <1>2. ahead \subseteq Settled
    BY DEF Before
  <1>3. Ended(ahead, {"error", "budget_paused"}) = {}
    BY DEF IsFirst, Before, Stops, Ended
  <1>4. /\ failures' \in Seq(Nodes)
        /\ \A n \in Nodes : Open(n)' => Open(n) \/ n \in Settled \ ahead
    BY <1>1, <1>2, <1>3, OpenedByTaking
  <1> HIDE DEF ahead
  <1>5. /\ setbacks' \in [Nodes -> Nat]
        /\ \A n \in Nodes : setbacks'[n] >= setbacks[n]
        /\ \A n \in Nodes : n \in Settled \ ahead => setbacks'[n] = setbacks[n] + 1
    BY TakenBackCounts DEF RerunsInv, ahead
  <1>6. RerunsTypeOK'
    BY <1>1, <1>4, <1>5 DEF RerunsInv, RerunsTypeOK, Taken, Settled
  <1> QED
    BY <1>1, <1>4, <1>5, <1>6, NothingDispatched DEF GoesOn

\* The drain takes back the results of the nodes that break in it; an error in
\* it is the end of the run.
LEMMA DrainTurn == ASSUME EngineInv, RerunsInv, DrainTakes PROVE RerunsInv'
  <1>1. /\ exec' = Taken /\ Harvest(Settled) /\ loop = "drain" /\ loop' = "drain"
        /\ drainError' = (drainError \/ Ended(Settled, {"error"}) # {})
        /\ setbacks' = TakenBack(Ended(Settled, {"budget_paused"}))
        /\ UNCHANGED <<outcome, attempts>>
    BY DEF DrainTakes
  <1>2. /\ failures' \in Seq(Nodes)
        /\ \A n \in Nodes : Open(n)' => Open(n) \/ n \in Ended(Settled, {"error", "budget_paused"})
    <2>1. Settled \subseteq Settled
      OBVIOUS
    <2> QED
      BY <1>1, <2>1, OpenedByTaking
  <1>3. /\ setbacks' \in [Nodes -> Nat]
        /\ \A n \in Nodes : setbacks'[n] >= setbacks[n]
        /\ \A n \in Nodes : n \in Ended(Settled, {"budget_paused"}) => setbacks'[n] = setbacks[n] + 1
    BY <1>1, TakenBackCounts DEF RerunsInv
  <1>4. RerunsTypeOK'
    BY <1>1, <1>2, <1>3 DEF RerunsInv, RerunsTypeOK, Taken, Settled
  <1>5. ASSUME GoesOn', NEW n \in Nodes, Open(n)' PROVE Open(n) \/ setbacks'[n] = setbacks[n] + 1
    <2>1. n \notin Ended(Settled, {"error"})
      BY <1>1, <1>5 DEF GoesOn
    <2>2. Open(n) \/ n \in Ended(Settled, {"budget_paused"})
      BY <1>2, <1>5, <2>1 DEF Ended
    <2> QED
      BY <1>3, <2>2
  <1>6. GoesOn' => GoesOn
    BY <1>1 DEF GoesOn
  <1> QED
    BY <1>1, <1>3, <1>4, <1>5, <1>6, NothingDispatched

\* The failures that are handled: a node that is open afterwards was open
\* before, was completed, or was on the list.
LEMMA OpenedByHandling ==
    ASSUME EngineInv, RerunsInv, InFailureHandling, exec' = Taken, failures' = <<>>
    PROVE  /\ Members(FailuresNow) \subseteq Nodes
           /\ \A n \in Nodes : Open(n)' =>
                 \/ Open(n)
                 \/ n \in Members(FailuresNow)
                 \/ n \in CompletedNow
  <1>1. Settled \subseteq Nodes
    BY DEF Settled
  <1>2. /\ FailuresNow \in Seq(Nodes)
        /\ Members(FailuresNow) = Members(failures) \cup Ended(Settled, Failing)
    BY <1>1, FailuresListed DEF FailuresNow, RerunsInv, RerunsTypeOK
  <1>3. Members(FailuresNow) \subseteq Nodes
    BY <1>2 DEF Members
  <1>4. ASSUME NEW n \in Nodes, Open(n)', n \in Settled
        PROVE  n \in Members(FailuresNow) \/ n \in CompletedNow
    <2>1. outcome[n] \in Outcome \ {"none"}
      BY <1>4 DEF Settled, RerunsInv, RerunsTypeOK
    <2>2. n \notin Ended(Settled, {"error", "budget_paused"})
      BY DEF InFailureHandling, Stops
    <2>3. n \in Ended(Settled, Failing) \/ n \in Ended(Settled, {"completed"})
      BY <1>4, <2>1, <2>2 DEF Ended, Outcome, Failing
    <2> QED
      BY <1>2, <2>3 DEF CompletedNow, CompletedWith
  <1>5. ASSUME NEW n \in Nodes, Open(n)', n \notin Settled
        PROVE  Open(n) \/ n \in Members(FailuresNow) \/ n \in CompletedNow
    BY <1>2, <1>5 DEF Open, Taken, Settled, CompletedNow, CompletedWith
  <1> QED
    BY <1>3, <1>4, <1>5

\* A retry is one that the policy allows.
LEMMA RetryTurn == ASSUME EngineInv, RerunsInv, TurnRetry PROVE RerunsInv'
  <1>1. /\ InFailureHandling /\ Unretried = {} /\ exec' = Taken /\ failures' = <<>>
        /\ completed' = CompletedNow /\ loop' = loop
        /\ UNCHANGED <<outcome, attempts, setbacks, drainError>>
    BY DEF TurnRetry, TakeOnly
  <1>2. ASSUME NEW n \in Nodes, Open(n)' PROVE Open(n) \/ Owed(n)
    <2>1. n \notin CompletedNow
      BY <1>1, <1>2 DEF Open
    <2>2. ASSUME n \in Members(FailuresNow) PROVE Owed(n)
      <3>1. PICK i \in DOMAIN FailuresNow : n = FailuresNow[i]
        BY <2>2 DEF Members
      <3>2. Retryable(n)
        BY <1>1, <3>1 DEF Unretried
      <3>3. attempts[n] \in Nat /\ retryMax[n] \in Nat /\ setbacks[n] \in Nat
        BY EngineAssumption DEF EngineInv, DataTypeOK, RerunsInv, RerunsTypeOK
      <3> QED
        BY <3>2, <3>3 DEF Retryable, Owed
    <2> QED
      BY <1>1, <1>2, <2>1, <2>2, OpenedByHandling
  <1>3. RerunsTypeOK'
    BY <1>1 DEF RerunsInv, RerunsTypeOK, Taken, Settled
  <1>4. \A n \in Nodes : setbacks'[n] >= setbacks[n]
    BY <1>1 DEF RerunsInv, RerunsTypeOK
  <1> QED
    BY <1>1, <1>2, <1>3, <1>4, NothingDispatched DEF GoesOn

\* A feedback edge takes back the completions it resets and the failures it
\* does not get to.
LEMMA ReworkTurn == ASSUME EngineInv, RerunsInv, TurnFeedback PROVE RerunsInv'
  <1> PICK i \in DOMAIN FailuresNow : Decisive(i) /\
         \E e \in DOMAIN feedback :
            LET reset == Downstream(feedback[e].to)
                dropped == {FailuresNow[j] : j \in i..Len(FailuresNow)}
            IN  /\ completed' = CompletedNow \ reset
                /\ setbacks' = TakenBack((reset \cap CompletedNow) \cup dropped)
    BY DEF TurnFeedback
  <1> DEFINE dropped == {FailuresNow[j] : j \in i..Len(FailuresNow)}
  <1>1. PICK reset : /\ completed' = CompletedNow \ reset
                     /\ setbacks' = TakenBack((reset \cap CompletedNow) \cup dropped)
    OBVIOUS
  <1>2. /\ InFailureHandling /\ exec' = Taken /\ failures' = <<>> /\ loop' = loop
        /\ UNCHANGED <<outcome, attempts, drainError>>
    BY DEF TurnFeedback, TakeOnly
  <1>3. FailuresNow \in Seq(Nodes)
    <2>1. Settled \subseteq Nodes
      BY DEF Settled
    <2> QED
      BY <2>1, FailuresListed DEF FailuresNow, RerunsInv, RerunsTypeOK
  <1>4. ASSUME NEW n \in Members(FailuresNow) PROVE Retryable(n) \/ n \in dropped
    <2>1. PICK j \in DOMAIN FailuresNow : n = FailuresNow[j]
      BY <1>4 DEF Members
    <2>2. i \in Nat /\ j \in Nat /\ DOMAIN FailuresNow = 1..Len(FailuresNow)
      BY <1>3
    <2>3. CASE j \in Unretried
      <3>1. i <= j
        BY <2>3 DEF Decisive
      <3>2. j \in i..Len(FailuresNow)
        BY <2>1, <2>2, <3>1
      <3> QED
        BY <2>1, <3>2
    <2>4. CASE j \notin Unretried
      BY <2>1, <2>4 DEF Unretried
    <2> QED
      BY <2>3, <2>4
  <1> HIDE DEF dropped
  <1>5. /\ setbacks' \in [Nodes -> Nat]
        /\ \A n \in Nodes : setbacks'[n] >= setbacks[n]
        /\ \A n \in Nodes : n \in (reset \cap CompletedNow) \cup dropped =>
               setbacks'[n] = setbacks[n] + 1
    BY <1>1, TakenBackCounts DEF RerunsInv
  <1>6. ASSUME NEW n \in Nodes, Open(n)'
        PROVE  Open(n) \/ Owed(n) \/ setbacks'[n] = setbacks[n] + 1
    <2>1. Open(n) \/ n \in Members(FailuresNow) \/ n \in CompletedNow
      BY <1>2, <1>6, OpenedByHandling
    <2>2. n \notin CompletedNow \/ n \in reset
      BY <1>1, <1>6 DEF Open
    <2>3. ASSUME Retryable(n) PROVE Owed(n)
      <3>1. attempts[n] \in Nat /\ retryMax[n] \in Nat /\ setbacks[n] \in Nat
        BY EngineAssumption DEF EngineInv, DataTypeOK, RerunsInv, RerunsTypeOK
      <3> QED
        BY <2>3, <3>1 DEF Retryable, Owed
    <2> QED
      BY <1>4, <1>5, <2>1, <2>2, <2>3
  <1>7. RerunsTypeOK'
    <2>1. setbacks' \in [Nodes -> Nat]
      BY <1>5
    <2>2. ASSUME NEW n \in Nodes, exec'[n] \in {"closing", "settled"} PROVE outcome'[n] # "none"
      BY <1>2, <2>2 DEF Taken, RerunsInv, RerunsTypeOK
    <2>3. failures' \in Seq(Nodes)
      BY <1>2
    <2>4. outcome' \in [Nodes -> Outcome] /\ (drainError => loop \in {"drain", "over"})'
      BY <1>2 DEF RerunsInv, RerunsTypeOK
    <2> QED
      BY <2>1, <2>2, <2>3, <2>4 DEF RerunsTypeOK
  <1> QED
    BY <1>2, <1>5, <1>6, <1>7, NothingDispatched DEF GoesOn

\* A node that is dispatched was open.
LEMMA DispatchOwed ==
    ASSUME EngineInv, RerunsInv, NEW batch, batch \subseteq Ready, InDispatch, Dispatch(batch)
    PROVE  RerunsInv'
  <1>1. /\ Stops = {} /\ Harvest(Settled) /\ FailuresNow = <<>> /\ loop' = loop
        /\ loop # "over" /\ UNCHANGED <<setbacks, drainError>>
        /\ attempts' = [n \in Nodes |-> IF n \in batch THEN attempts[n] + 1 ELSE attempts[n]]
        /\ exec' = [n \in Nodes |-> IF n \in batch THEN "running" ELSE Taken[n]]
        /\ outcome' = [n \in Nodes |-> IF n \in batch THEN "none" ELSE outcome[n]]
    BY DEF InDispatch, InTurn, Dispatch
  <1>2. Settled \subseteq Nodes /\ failures \in Seq(Nodes)
    BY DEF Settled, RerunsInv, RerunsTypeOK
  <1>3. /\ failures' = <<>> /\ Members(<<>>) = {}
        /\ Members(failures) = {} /\ Ended(Settled, Failing) = {}
    <2>1. Members(<<>>) = {}
      BY DEF Members
    <2>2. failures' = FailuresNow
      BY <1>1 DEF Harvest, FailuresNow
    <2> QED
      BY <1>1, <1>2, <2>1, <2>2, FailuresListed DEF FailuresNow
  <1>4. ASSUME NEW n \in Nodes, n \in Settled PROVE n \in CompletedNow
    <2>1. outcome[n] \in Outcome \ {"none"}
      BY <1>4 DEF Settled, RerunsInv, RerunsTypeOK
    <2>2. n \notin Ended(Settled, {"error", "budget_paused"})
      BY <1>1 DEF Stops
    <2>3. n \in Ended(Settled, {"completed"})
      BY <1>3, <1>4, <2>1, <2>2 DEF Ended, Outcome, Failing
    <2> QED
      BY <2>3 DEF CompletedNow, CompletedWith
  <1>5. ASSUME NEW n \in Nodes, n \notin CompletedNow, Taken[n] = "idle" PROVE Open(n)
    <2>1. n \notin Settled /\ n \notin completed
      BY <1>4, <1>5 DEF CompletedNow, CompletedWith
    <2>2. exec[n] = "idle"
      BY <1>5, <2>1 DEF Taken, Settled
    <2> QED
      BY <1>3, <2>1, <2>2 DEF Open
  <1>6. ASSUME NEW n \in batch PROVE n \in Nodes /\ Open(n)
    <2>1. n \in Nodes /\ n \notin CompletedNow /\ n \notin InFlightNow
      BY DEF Ready
    <2>2. Taken[n] = "idle"
      BY <2>1 DEF InFlightNow, InFlight, Taken, Settled
    <2> QED
      BY <1>5, <2>1, <2>2
  <1>7. ASSUME NEW n \in Nodes
        PROVE  attempts[n] \in Nat /\ retryMax[n] \in Nat /\ setbacks[n] \in Nat
    BY EngineAssumption DEF EngineInv, DataTypeOK, RerunsInv, RerunsTypeOK
  <1>8. RerunsTypeOK'
    BY <1>1, <1>3 DEF RerunsInv, RerunsTypeOK, Taken, Outcome
  <1>9. ASSUME GoesOn PROVE \A n \in Nodes : (n \in batch \/ Open(n)) => Owed(n)
    BY <1>6, <1>9 DEF RerunsInv
  <1>10. ASSUME ~GoesOn PROVE FALSE
    BY <1>1, <1>10 DEF GoesOn, RerunsInv, RerunsTypeOK, InDispatch, InTurn
  <1>11. RerunsAreOwed'
    BY <1>1, <1>7, <1>9, <1>10 DEF RerunsInv, RerunsAreOwed, Owed
  <1>12. ASSUME NEW n \in Nodes, Open(n)' PROVE Owed(n)'
    <2>1. n \notin batch /\ Taken[n] = "idle" /\ n \notin CompletedNow
      BY <1>1, <1>12 DEF Open, Harvest, CompletedNow
    <2>2. Owed(n)
      BY <1>5, <1>9, <1>10, <2>1
    <2> QED
      BY <1>1, <2>1, <2>2 DEF Owed
  <1> QED
    BY <1>8, <1>11, <1>12 DEF RerunsInv

\* The dispatches are of ready nodes.
LEMMA DispatchTurn ==
    ASSUME EngineInv, RerunsInv, TurnDispatchBatch \/ TurnDispatchSerial PROVE RerunsInv'
  <1>1. CASE TurnDispatchBatch
    BY <1>1, DispatchOwed DEF TurnDispatchBatch, Batch
  <1>2. CASE TurnDispatchSerial
    <2> PICK n \in Ready : Dispatch({n})
      BY <1>2 DEF TurnDispatchSerial
    <2> QED
      BY <1>2, DispatchOwed DEF TurnDispatchSerial
  <1> QED
    BY <1>1, <1>2

\* In a run that is over nothing is dispatched any more.
LEMMA LastTurns ==
    ASSUME EngineInv, RerunsInv,
           \/ TurnAborted \/ TurnError \/ TurnGiveUp \/ DrainCancels \/ CancelSuspended
    PROVE  RerunsInv'
  <1>1. /\ loop' = "over" /\ exec' = Taken
        /\ UNCHANGED <<outcome, attempts, setbacks>>
    BY DEF TurnAborted, TurnError, TurnGiveUp, DrainCancels, CancelSuspended, FinishCancelled,
           Reject, TakeOnly
  <1>2. failures' \in Seq(Nodes)
    <2>1. CASE TurnAborted \/ DrainCancels \/ CancelSuspended
      BY <2>1 DEF TurnAborted, DrainCancels, CancelSuspended, FinishCancelled, RerunsInv,
                  RerunsTypeOK
    <2>2. CASE TurnError
      <3> PICK n \in Ended(Stops, {"error"}) : Harvest(Before(Settled, n))
        BY <2>2 DEF TurnError
      <3>1. Before(Settled, n) \subseteq Nodes
        BY DEF Before, Settled
      <3> QED
        BY <3>1, FailuresListed DEF Harvest, RerunsInv, RerunsTypeOK
    <2>3. CASE TurnGiveUp
      BY <2>3 DEF TurnGiveUp
    <2> QED
      BY <2>1, <2>2, <2>3
  <1>3. RerunsTypeOK'
    BY <1>1, <1>2 DEF RerunsInv, RerunsTypeOK, Taken, Settled
  <1>4. \A n \in Nodes : setbacks'[n] >= setbacks[n]
    BY <1>1 DEF RerunsInv, RerunsTypeOK
  <1> QED
    BY <1>1, <1>3, <1>4, NothingDispatched DEF GoesOn

\* Neither an execution nor the operator touches what was dispatched.
LEMMA OtherSteps ==
    ASSUME EngineInv, RerunsInv,
           \/ Wake \/ DrainRejects \/ DrainResumes \/ DrainSuspends
           \/ FinalCheckPasses \/ FinalCheckFails
           \/ Pause \/ CancelRunning \/ ResumeSuspended \/ ResumePaused \/ ResumeLater
           \/ (Raise /\ UNCHANGED <<engineVars, gate>>) \/ Terminated \/ UNCHANGED vars
    PROVE  RerunsInv'
  <1>1. /\ UNCHANGED <<exec, outcome, attempts, setbacks, completed, failures, drainError>>
        /\ GoesOn' => GoesOn
        /\ (drainError => loop \in {"drain", "over"})'
    <2>1. CASE \/ Wake \/ FinalCheckPasses \/ FinalCheckFails \/ ResumeSuspended
      BY <2>1 DEF Wake, FinalCheckPasses, FinalCheckFails, ResumeSuspended, execVars, GoesOn,
                  RerunsInv, RerunsTypeOK
    <2>2. CASE DrainRejects \/ DrainResumes \/ DrainSuspends
      BY <2>2 DEF DrainRejects, DrainResumes, DrainSuspends, Drained, Reject, execVars, GoesOn
    <2>3. CASE \/ Pause \/ CancelRunning \/ ResumePaused \/ ResumeLater
               \/ (Raise /\ UNCHANGED <<engineVars, gate>>) \/ Terminated \/ UNCHANGED vars
      BY <2>3 DEF Pause, CancelRunning, ResumePaused, ResumeLater, Raise, Terminated, vars,
                  engineVars, execVars, GoesOn, RerunsInv, RerunsTypeOK
    <2> QED
      BY <2>1, <2>2, <2>3
  <1>2. RerunsTypeOK'
    BY <1>1 DEF RerunsInv, RerunsTypeOK
  <1>3. \A n \in Nodes : Open(n)' => Open(n)
    BY <1>1 DEF Open, Members
  <1>4. \A n \in Nodes : setbacks'[n] >= setbacks[n]
    BY <1>1 DEF RerunsInv, RerunsTypeOK
  <1> QED
    BY <1>1, <1>2, <1>3, <1>4, NothingDispatched

\* An execution has an outcome from the moment it is about to return.
LEMMA ExecutionStep == ASSUME EngineInv, RerunsInv, NEW n \in Nodes, NodeStep(n) PROVE RerunsInv'
  <1>1. Proceeds /\ UNCHANGED <<engineVars, gate>>
    BY NodeSteps DEF NodeStep
  <1>2. /\ UNCHANGED <<attempts, setbacks, completed, failures, drainError, loop>>
        /\ \A m \in Nodes : exec'[m] = "idle" <=> exec[m] = "idle"
    BY <1>1 DEF engineVars, Proceeds
  <1>3. \E phase \in Phase :
           /\ exec' = [exec EXCEPT ![n] = phase]
           /\ \/ outcome' = outcome /\ (phase \in {"closing", "settled"} => exec[n] = "closing")
              \/ \E how \in Outcome \ {"none"} : outcome' = [outcome EXCEPT ![n] = how]
    BY DEF NodeStep, RuntimeEnds, ExecutorStep, Completes, Fails, BreaksBudget, Throws,
           LogsBudgetPaused, ObservesAbort, Releases, Close, Phase, Outcome, RetryReason
  <1>4. RerunsTypeOK'
    <2>1. PICK phase \in Phase :
             /\ exec' = [exec EXCEPT ![n] = phase]
             /\ \/ outcome' = outcome /\ (phase \in {"closing", "settled"} => exec[n] = "closing")
                \/ \E how \in Outcome \ {"none"} : outcome' = [outcome EXCEPT ![n] = how]
      BY <1>3
    <2>2. exec \in [Nodes -> Phase] /\ outcome \in [Nodes -> Outcome]
      BY DEF RerunsInv, RerunsTypeOK, EngineInv, DataTypeOK
    <2>3. outcome' \in [Nodes -> Outcome]
      BY <2>1, <2>2
    <2>4. ASSUME NEW m \in Nodes, exec'[m] \in {"closing", "settled"} PROVE outcome'[m] # "none"
      <3>1. exec[m] \in {"closing", "settled"} => outcome[m] # "none"
        BY DEF RerunsInv, RerunsTypeOK
      <3>2. CASE m # n
        <4>1. exec'[m] = exec[m] /\ outcome'[m] = outcome[m]
          BY <2>1, <2>2, <3>2
        <4> QED
          BY <2>4, <3>1, <4>1
      <3>3. CASE m = n
        BY <2>1, <2>2, <2>4, <3>1, <3>3
      <3> QED
        BY <3>2, <3>3
    <2> QED
      BY <1>2, <2>3, <2>4 DEF RerunsInv, RerunsTypeOK
  <1>5. \A m \in Nodes : Open(m)' => Open(m)
    BY <1>2 DEF Open
  <1>6. \A m \in Nodes : setbacks'[m] >= setbacks[m]
    BY <1>2 DEF RerunsInv, RerunsTypeOK
  <1> QED
    BY <1>2, <1>4, <1>5, <1>6, NothingDispatched DEF GoesOn

\* At first every node is owed its first run,
LEMMA RerunsInit == Init => RerunsInv
  <1> SUFFICES ASSUME Init PROVE RerunsInv
    OBVIOUS
  <1>1. \A n \in Nodes : retryMax[n] \in Nat
    BY EngineAssumption
  <1> QED
    BY <1>1 DEF Init, ExecInit, RerunsInv, RerunsTypeOK, RerunsAreOwed, Open, Owed, GoesOn, Outcome

\* and every step keeps the account.
LEMMA RerunsStep == EngineInv /\ RerunsInv /\ [Next]_vars => RerunsInv'
  <1> SUFFICES ASSUME EngineInv, RerunsInv, [Next]_vars PROVE RerunsInv'
    OBVIOUS
  <1>1. CASE TurnAwaitDrain \/ TurnSpin \/ TurnWait \/ TurnAllDone
    BY <1>1, RecordingTurns
  <1>2. CASE TurnBudgetPaused
    BY <1>2, BreakTurn
  <1>3. CASE DrainTakes
    BY <1>3, DrainTurn
  <1>4. CASE TurnRetry
    BY <1>4, RetryTurn
  <1>5. CASE TurnFeedback
    BY <1>5, ReworkTurn
  <1>6. CASE TurnDispatchBatch \/ TurnDispatchSerial
    BY <1>6, DispatchTurn
  <1>7. CASE TurnAborted \/ TurnError \/ TurnGiveUp \/ DrainCancels \/ CancelSuspended
    BY <1>7, LastTurns
  <1>8. CASE \/ Wake \/ DrainRejects \/ DrainResumes \/ DrainSuspends
             \/ FinalCheckPasses \/ FinalCheckFails
             \/ Pause \/ CancelRunning \/ ResumeSuspended \/ ResumePaused \/ ResumeLater
             \/ (Raise /\ UNCHANGED <<engineVars, gate>>) \/ Terminated \/ UNCHANGED vars
    BY <1>8, OtherSteps
  <1>9. CASE \E n \in Nodes : NodeStep(n)
    BY <1>9, ExecutionStep
  <1> QED
    BY <1>1, <1>2, <1>3, <1>4, <1>5, <1>6, <1>7, <1>8, <1>9 DEF Next, LoopStep, Operator

\* A node is dispatched once, once more for every retry its policy allows, and
\* once more for every result of it that a feedback edge or a budget break took
\* back: no other completion or failure gets lost, in whatever order nodes
\* settle and the operator calls (workflow-engine.ts #loop, #drain).
THEOREM EngineRerunsAreOwed == Spec => []RerunsAreOwed
  <1>1. RerunsInv => RerunsAreOwed
    BY DEF RerunsInv
  <1> QED
    BY EngineInvariant, RerunsInit, RerunsStep, <1>1, PTL DEF Spec

============================================================================
