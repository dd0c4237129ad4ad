---------------------------- MODULE EngineGate ----------------------------
(***************************************************************************)
(* The gate every dispatch passes: daemon/src/engine/gate.ts.              *)
(*                                                                         *)
(*     open --pause--> paused --resume--> open,   any --abort--> aborted   *)
(*                                                                         *)
(* wait() is a guard of the loop that waits: it passes at an open gate,    *)
(* blocks at a paused one and throws GateAborted at an aborted one, so a   *)
(* wake-up needs no variable of its own. aborted is also the state of the  *)
(* AbortSignal the running nodes hold.                                     *)
(***************************************************************************)
VARIABLE gate

GateState == {"open", "paused", "aborted"}

GateInit == gate = "open"

PauseGate  == gate = "open" /\ gate' = "paused"
ResumeGate == gate = "paused" /\ gate' = "open"
AbortGate  == gate # "aborted" /\ gate' = "aborted"

\* The calls whose Boolean result the caller ignores.
TryPauseGate  == gate' = IF gate = "open" THEN "paused" ELSE gate
TryResumeGate == gate' = IF gate = "paused" THEN "open" ELSE gate

WaitPasses == gate = "open"
WaitThrows == gate = "aborted"
===========================================================================
