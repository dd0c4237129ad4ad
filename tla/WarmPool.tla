------------------------------ MODULE WarmPool ------------------------------
(***************************************************************************)
(* The pool of snapshots inside the gate: daemon/src/provision/            *)
(* warm-pool.ts, over a provider that can snapshot. A request acquires a   *)
(* sandbox (slot, then restore or create), uses it, and releases it        *)
(* (snapshot or not, destroy, give the slot back).                         *)
(***************************************************************************)
EXTENDS ResourceGate, SequencesExt

CONSTANTS signature,  \* request -> specSignature of its SandboxSpec
          capacity,   \* snapshot references the pool may hold
          MaxFaults   \* bound: provider calls that throw, and drains

VARIABLES stage,      \* what a request whose phase is "in" does
          sandboxes,  \* the requests whose sandbox exists
          pool,       \* #pool: references, each named by the request it froze
          restored,   \* request -> the entry its sandbox was restored from
          faults      \* provider calls that threw

poolVars == <<stage, sandboxes, pool, restored, faults>>
vars == <<gateVars, poolVars>>

Stage == {"none", "restoring", "creating", "using", "snapshotting", "pooling", "destroying"}

NoEntry == "cold"

ASSUME PoolAssumption ==
    /\ capacity \in Nat \ {0}
    /\ MaxFaults \in Nat

Init ==
    /\ GateInit
    /\ stage = [r \in Request |-> "none"]
    /\ sandboxes = {}
    /\ pool = <<>>
    /\ restored = [r \in Request |-> NoEntry]
    /\ faults = 0

Enter(r, s) == stage' = [stage EXCEPT ![r] = s]
Fault == faults < MaxFaults /\ faults' = faults + 1

----------------------------------------------------------------------------
(* acquire, after the gate.                                                *)

\* #vacate, in the catch of acquire and the finally of release: no await lies
\* between the end of the provider's call and the release of the slot.
Vacate(r) == Release(r) /\ Enter(r, "none")

\* findIndex: the first entry with the request's signature.
Matches(r) == {i \in DOMAIN pool : signature[pool[i]] = signature[r]}
FirstMatch(r, i) == i \in Matches(r) /\ \A j \in Matches(r) : i <= j

TakeEntry(r) ==
    /\ at[r] = "in" /\ stage[r] = "none"
    /\ \E i \in DOMAIN pool :
          /\ FirstMatch(r, i)
          /\ restored' = [restored EXCEPT ![r] = pool[i]]
          /\ pool' = RemoveAt(pool, i)
    /\ Enter(r, "restoring")
    /\ UNCHANGED <<gateVars, sandboxes, faults>>

StartCold(r) ==
    /\ at[r] = "in" /\ stage[r] = "none"
    /\ Matches(r) = {}
    /\ Enter(r, "creating")
    /\ UNCHANGED <<gateVars, sandboxes, pool, restored, faults>>

\* restore or create has returned a handle.
Provided(r) ==
    /\ stage[r] \in {"restoring", "creating"}
    /\ sandboxes' = sandboxes \cup {r}
    /\ Enter(r, "using")
    /\ UNCHANGED <<gateVars, pool, restored, faults>>

\* It throws: the entry is gone, the slot is given back.
ProvideFails(r) ==
    /\ stage[r] \in {"restoring", "creating"}
    /\ Fault
    /\ Vacate(r)
    /\ UNCHANGED <<sandboxes, pool, restored>>

----------------------------------------------------------------------------
(* release.                                                                *)

\* An unhealthy sandbox, or a full pool: destroy.
Discard(r) ==
    /\ stage[r] = "using"
    /\ Enter(r, "destroying")
    /\ UNCHANGED <<gateVars, sandboxes, pool, restored, faults>>

\* Faulty variant: no look at the capacity.
Freeze_Always(r) ==
    /\ stage[r] = "using"
    /\ Enter(r, "snapshotting")
    /\ UNCHANGED <<gateVars, sandboxes, pool, restored, faults>>

Freeze(r) ==
    /\ stage[r] = "using"
    /\ Len(pool) < capacity
    /\ Enter(r, "snapshotting")
    /\ UNCHANGED <<gateVars, sandboxes, pool, restored, faults>>

Frozen(r) ==
    /\ stage[r] = "snapshotting"
    /\ Enter(r, "pooling")
    /\ UNCHANGED <<gateVars, sandboxes, pool, restored, faults>>

FreezeFails(r) ==
    /\ stage[r] = "snapshotting"
    /\ Fault
    /\ Enter(r, "destroying")
    /\ UNCHANGED <<gateVars, sandboxes, pool, restored>>

\* destroy has returned; the entry of a frozen sandbox joins the pool now.
Destroyed(r) ==
    /\ stage[r] \in {"pooling", "destroying"}
    /\ sandboxes' = sandboxes \ {r}
    /\ pool' = IF stage[r] = "pooling" THEN Append(pool, r) ELSE pool
    /\ Vacate(r)
    /\ UNCHANGED <<restored, faults>>

\* Faulty variant: a destroy that throws keeps its slot.
DestroyFails_NotVacated(r) ==
    /\ stage[r] \in {"pooling", "destroying"}
    /\ Fault
    /\ Enter(r, "none")
    /\ Goto(r, "failed")
    /\ UNCHANGED <<inUse, queue, owner, emitFaults, sandboxes, pool, restored>>

\* It throws: the sandbox is left to the reconciler, the slot is given back.
DestroyFails(r) ==
    /\ stage[r] \in {"pooling", "destroying"}
    /\ Fault
    /\ Vacate(r)
    /\ UNCHANGED <<sandboxes, pool, restored>>

Drain ==
    /\ pool # <<>>
    /\ Fault
    /\ pool' = <<>>
    /\ UNCHANGED <<gateVars, stage, sandboxes, restored>>

----------------------------------------------------------------------------

Occupy(r) == (Acquire(r) \/ GateStep(r) \/ EmitThrows(r)) /\ UNCHANGED poolVars

PoolStep(r) ==
    \/ TakeEntry(r) \/ StartCold(r) \/ Provided(r) \/ ProvideFails(r)
    \/ Discard(r) \/ Freeze(r) \/ Frozen(r) \/ FreezeFails(r)
    \/ Destroyed(r) \/ DestroyFails(r)

\* Every request has returned.
Terminated == (\A r \in Request : at[r] \in {"done", "failed"}) /\ UNCHANGED vars

Next == (\E r \in Request : Occupy(r) \/ PoolStep(r)) \/ Drain \/ Terminated

Spec == Init /\ [][Next]_vars

\* Emits and provider calls return, and a node that holds a sandbox releases
\* it in the end: an execution has a timeout or is cancelled.
FairSpec ==
    Spec /\ \A r \in Request : WF_vars((GateStep(r) /\ UNCHANGED poolVars) \/ PoolStep(r))

----------------------------------------------------------------------------
\* The sandboxes in use never exceed the slots, whatever mixture of cold
\* starts, restores and failures they come from (one whose destroy threw is
\* an orphan and not counted).
Serving == {r \in sandboxes : stage[r] # "none"}
SandboxesWithinSlots == Cardinality(Serving) <= slots

\* As long as no emit throws, a request that has ended keeps no slot, whether
\* it ended well or a provider call of it threw.
SlotsReturned ==
    emitFaults = 0 => \A r \in owner : at[r] \notin {"leaving", "done", "failed"}

\* warm-pool.ts:31 calls capacity an upper limit of entries. Releases that
\* overlap pass the check (line 169) before any of them has added its entry, so
\* what holds is the capacity and one entry for each further slot.
PoolOverrunBounded == Len(pool) <= capacity + slots - 1
=============================================================================
