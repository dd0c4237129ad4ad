---------------------------- MODULE ResourceGate ----------------------------
(***************************************************************************)
(* The FIFO semaphore that bounds concurrent sandboxes:                    *)
(* daemon/src/provision/pool.ts, class ResourceGate.                       *)
(*                                                                         *)
(* A request is one call of acquire and the release that pairs with it.    *)
(* Each await of those two methods is a phase of the request:              *)
(*    enqueuing  in the queue, sandbox.queued is being logged              *)
(*    waiting    logged, waits for a release to hand it a slot             *)
(*    entering   holds a slot, sandbox.acquired is being logged            *)
(*    in         acquire has returned, the caller uses the slot            *)
(*    leaving    has given the slot back, sandbox.released is being logged *)
(* An emit that throws makes acquire throw where it stands (failed).       *)
(***************************************************************************)
EXTENDS Naturals, Sequences, FiniteSets

CONSTANTS Request,      \* the calls of acquire of one run of the daemon
          slots,        \* how many of them may hold a slot
          MaxEmitFaults \* bound: emits that throw

ASSUME GateAssumption ==
    /\ IsFiniteSet(Request)
    /\ slots \in Nat \ {0}
    /\ MaxEmitFaults \in Nat

VARIABLES inUse,      \* the counter #inUse
          queue,      \* #queue: the waiters, first in first out
          owner,      \* the requests a slot is counted for
          at,         \* phase of each request
          emitFaults  \* emits that threw

gateVars == <<inUse, queue, owner, at, emitFaults>>

GatePhase == {"new", "enqueuing", "waiting", "entering", "in", "leaving", "done", "failed"}

GateInit ==
    /\ inUse = 0
    /\ queue = <<>>
    /\ owner = {}
    /\ at = [r \in Request |-> "new"]
    /\ emitFaults = 0

Goto(r, phase) == at' = [at EXCEPT ![r] = phase]

----------------------------------------------------------------------------

\* Faulty variant: one slot too many.
AcquireFree_OffByOne(r) ==
    /\ at[r] = "new"
    /\ inUse <= slots
    /\ inUse' = inUse + 1
    /\ owner' = owner \cup {r}
    /\ Goto(r, "entering")
    /\ UNCHANGED <<queue, emitFaults>>

AcquireFree(r) ==
    /\ at[r] = "new"
    /\ inUse < slots
    /\ inUse' = inUse + 1
    /\ owner' = owner \cup {r}
    /\ Goto(r, "entering")
    /\ UNCHANGED <<queue, emitFaults>>

\* The waiter enters the queue before the first await, so that a release
\* during the emit finds it.
AcquireFull(r) ==
    /\ at[r] = "new"
    /\ inUse >= slots
    /\ queue' = Append(queue, r)
    /\ Goto(r, "enqueuing")
    /\ UNCHANGED <<inUse, owner, emitFaults>>

QueuedLogged(r) ==
    /\ at[r] = "enqueuing"
    /\ Goto(r, "waiting")
    /\ UNCHANGED <<inUse, queue, owner, emitFaults>>

\* waiter.granted: release has counted the slot for this request already.
Woken(r) ==
    /\ at[r] = "waiting"
    /\ r \in owner
    /\ Goto(r, "entering")
    /\ UNCHANGED <<inUse, queue, owner, emitFaults>>

AcquiredLogged(r) ==
    /\ at[r] = "entering"
    /\ Goto(r, "in")
    /\ UNCHANGED <<inUse, queue, owner, emitFaults>>

\* Faulty variant: the counter goes down now, the head of the queue is woken
\* by a later release only.
Release_NoHandover(r) ==
    /\ at[r] = "in"
    /\ owner' = owner \ {r}
    /\ inUse' = inUse - 1
    /\ UNCHANGED queue
    /\ Goto(r, "leaving")
    /\ UNCHANGED emitFaults

\* Faulty variant: the slot goes to the request that came last.
Release_LastFirst(r) ==
    /\ at[r] = "in"
    /\ queue # <<>>
    /\ owner' = (owner \ {r}) \cup {queue[Len(queue)]}
    /\ queue' = SubSeq(queue, 1, Len(queue) - 1)
    /\ Goto(r, "leaving")
    /\ UNCHANGED <<inUse, emitFaults>>

\* The slot goes to the head of the queue in the same synchronous section.
Release(r) ==
    /\ at[r] = "in"
    /\ IF queue = <<>>
       THEN /\ owner' = owner \ {r}
            /\ inUse' = inUse - 1
            /\ UNCHANGED queue
       ELSE /\ owner' = (owner \ {r}) \cup {Head(queue)}
            /\ queue' = Tail(queue)
            /\ UNCHANGED inUse
    /\ Goto(r, "leaving")
    /\ UNCHANGED emitFaults

ReleasedLogged(r) ==
    /\ at[r] = "leaving"
    /\ Goto(r, "done")
    /\ UNCHANGED <<inUse, queue, owner, emitFaults>>

\* The log refuses an event: acquire throws with its slot counted or its
\* waiter queued, release throws with its slot already handed on.
EmitThrows(r) ==
    /\ at[r] \in {"enqueuing", "entering", "leaving"}
    /\ emitFaults < MaxEmitFaults
    /\ emitFaults' = emitFaults + 1
    /\ Goto(r, "failed")
    /\ UNCHANGED <<inUse, queue, owner>>

\* What the gate does for r by itself, between the caller's two calls.
GateStep(r) == QueuedLogged(r) \/ Woken(r) \/ AcquiredLogged(r) \/ ReleasedLogged(r)

Acquire(r) == AcquireFree(r) \/ AcquireFull(r)

GateNext == \E r \in Request : Acquire(r) \/ GateStep(r) \/ Release(r) \/ EmitThrows(r)

GateSpec == GateInit /\ [][GateNext]_gateVars

----------------------------------------------------------------------------
GateTypeOK ==
    /\ inUse \in Nat
    /\ queue \in Seq(Request)
    /\ owner \in SUBSET Request
    /\ at \in [Request -> GatePhase]
    /\ emitFaults \in 0..MaxEmitFaults

\* Where a waiter can be: queued and without a slot, or past the queue.
QueueOrder ==
    /\ \A i, j \in DOMAIN queue : queue[i] = queue[j] => i = j
    /\ \A i \in DOMAIN queue : /\ queue[i] \notin owner
                               /\ at[queue[i]] \in {"enqueuing", "waiting", "failed"}
    /\ \A r \in owner : at[r] \notin {"new", "leaving", "done"}

\* The counter is the number of requests a slot is counted for, never exceeds
\* the limit, and counts everyone who is past acquire: no interleaving of
\* releases, wake-ups and newcomers over-issues a slot (pool.ts:91-95).
SlotsAccounted ==
    /\ inUse = Cardinality(owner)
    /\ inUse <= slots
    /\ \A r \in Request : at[r] \in {"entering", "in"} => r \in owner

\* No slot is free while a request queues: a newcomer cannot find one.
NoIdleSlot == queue # <<>> => inUse = slots

\* A slot that is issued goes to the request that has queued longest, or to a
\* newcomer when none queues.
FirstComeFirstServed ==
    [][\A r \in owner' \ owner : queue = <<>> \/ r = Head(queue)]_gateVars

Semaphore == INSTANCE AbstractGate WITH holders <- owner

\* The gate implements the bounded semaphore.
ImplementsSemaphore == Semaphore!Spec
=============================================================================
