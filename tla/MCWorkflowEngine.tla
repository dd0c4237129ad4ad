------------------------- MODULE MCWorkflowEngine -------------------------
(* Small workflows for the engine.                                         *)
EXTENDS WorkflowEngine, TLC

CONSTANTS a, b, c, d

(* Fork: a and b are roots, c and d read a; everything is parallel. With   *)
(* maxParallel = 2 the ready set outgrows the limit in some schedules. c   *)
(* sends a failure back to a, once; a is retried once.                     *)
ForkInputs == a :> {} @@ b :> {} @@ c :> {a} @@ d :> {a}
ForkTopoIndex == a :> 1 @@ b :> 2 @@ c :> 3 @@ d :> 4
ForkParallel == {a, b, c, d}
ForkRetryMax == a :> 1 @@ b :> 0 @@ c :> 0 @@ d :> 0
ForkRetryOn == a :> {"crash"} @@ b :> {} @@ c :> {} @@ d :> {}
ForkFeedback == <<[from |-> c, to |-> a, max_traversals |-> 1]>>

(* Chain: a serial root, then b parallel to c; both read a. b is retried   *)
(* on a crash and may send its failure back to a.                          *)
ChainInputs == a :> {} @@ b :> {a} @@ c :> {a}
ChainTopoIndex == a :> 1 @@ b :> 2 @@ c :> 3
ChainParallel == {b, c}
ChainRetryMax == a :> 0 @@ b :> 1 @@ c :> 0
ChainRetryOn == a :> {} @@ b :> {"crash"} @@ c :> {}
ChainFeedback == <<[from |-> b, to |-> a, max_traversals |-> 1]>>

(* Roots: a serial root beside two parallel ones.                          *)
RootsInputs == a :> {} @@ b :> {} @@ c :> {}
============================================================================
