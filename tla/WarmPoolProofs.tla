--------------------------- MODULE WarmPoolProofs ---------------------------
(***************************************************************************)
(* The gate keeps its promises for every set of requests and every number  *)
(* of slots, emits that throw included. The pool uses the gate as the gate *)
(* is meant to be used, so what is proved of the gate holds of the pool;   *)
(* and a sandbox serves a request only while the request owns a slot.      *)
(***************************************************************************)
EXTENDS WarmPool, FiniteSetTheorems, TLAPS

----------------------------------------------------------------------------
(* The gate.                                                               *)

(* SlotsAccounted and NoIdleSlot are inductive once one knows where waiters *)
(* can be: a release that hands a slot over must not hand it to a request   *)
(* that has one already.                                                    *)
GateInv ==
    /\ GateTypeOK
    /\ SlotsAccounted
    /\ NoIdleSlot
    /\ QueueOrder

\* The set of owners is finite, so counting it behaves as expected.
LEMMA OwnersFinite == ASSUME GateTypeOK PROVE IsFiniteSet(owner)
  BY GateAssumption, FS_Subset DEF GateTypeOK

\* Initially nobody owns a slot and nobody queues.
LEMMA GateInitInv == GateInit => GateInv
  <1> SUFFICES ASSUME GateInit PROVE GateInv
    OBVIOUS
  <1>1. GateTypeOK
    BY GateAssumption DEF GateInit, GateTypeOK, GatePhase
  <1>2. SlotsAccounted
    BY GateAssumption, FS_EmptySet DEF GateInit, SlotsAccounted
  <1>3. NoIdleSlot /\ QueueOrder
    BY DEF GateInit, NoIdleSlot, QueueOrder
  <1> QED
    BY <1>1, <1>2, <1>3 DEF GateInv

\* A request that finds a slot free takes it and nobody else's.
LEMMA AcquireFreeInv ==
    ASSUME GateInv, NEW r \in Request, AcquireFree(r) PROVE GateInv'
  <1> USE DEF AcquireFree, Goto
  <1>1. GateTypeOK'
    BY DEF GateInv, GateTypeOK, GatePhase
  <1>2. r \notin owner
    BY DEF GateInv, QueueOrder
  <1>3. Cardinality(owner') = Cardinality(owner) + 1
    BY <1>2, OwnersFinite, FS_AddElement DEF GateInv
  <1>4. SlotsAccounted'
    BY <1>3, GateAssumption DEF GateInv, GateTypeOK, SlotsAccounted
  <1>5. NoIdleSlot'
    BY DEF GateInv, GateTypeOK, SlotsAccounted, NoIdleSlot
  <1>6. QueueOrder'
    BY DEF GateInv, GateTypeOK, QueueOrder
  <1> QED
    BY <1>1, <1>4, <1>5, <1>6 DEF GateInv

\* A request that finds none joins the queue once.
LEMMA AcquireFullInv ==
    ASSUME GateInv, NEW r \in Request, AcquireFull(r) PROVE GateInv'
  <1> USE DEF AcquireFull, Goto
  <1>1. GateTypeOK'
    BY DEF GateInv, GateTypeOK, GatePhase
  <1>2. SlotsAccounted'
    BY DEF GateInv, GateTypeOK, SlotsAccounted
  <1>3. NoIdleSlot'
    BY GateAssumption DEF GateInv, GateTypeOK, SlotsAccounted, NoIdleSlot
  <1>4. QueueOrder'
    BY SMTT(30) DEF GateInv, GateTypeOK, QueueOrder
  <1> QED
    BY <1>1, <1>2, <1>3, <1>4 DEF GateInv

\* A release gives the slot to the head of the queue, or frees it when the
\* queue is empty; the number of owners changes with the counter.
LEMMA ReleaseInv ==
    ASSUME GateInv, NEW r \in Request, Release(r) PROVE GateInv'
  <1> USE DEF Release, Goto
  <1>1. r \in owner
    BY DEF GateInv, SlotsAccounted
  <1>2. Cardinality(owner \ {r}) = Cardinality(owner) - 1 /\ IsFiniteSet(owner \ {r})
    BY <1>1, OwnersFinite, FS_RemoveElement DEF GateInv
  <1>3. Cardinality(owner) \in Nat /\ Cardinality(owner \ {r}) \in Nat
    BY <1>2, OwnersFinite, FS_CardinalityType DEF GateInv
  <1>4. CASE queue = <<>>
    <2>1. GateTypeOK'
      BY <1>2, <1>3, <1>4 DEF GateInv, GateTypeOK, GatePhase, SlotsAccounted
    <2>2. SlotsAccounted'
      <3>1. owner' = owner \ {r} /\ inUse' = inUse - 1
        BY <1>4
      <3>2. inUse' = Cardinality(owner')
        BY <1>2, <3>1 DEF GateInv, SlotsAccounted
      <3>3. inUse' <= slots
        BY <3>1, GateAssumption DEF GateInv, GateTypeOK, SlotsAccounted
      <3>4. \A s \in Request : at'[s] \in {"entering", "in"} => s \in owner'
        BY <3>1 DEF GateInv, GateTypeOK, SlotsAccounted
      <3> QED
        BY <3>2, <3>3, <3>4 DEF SlotsAccounted
    <2>3. NoIdleSlot' /\ QueueOrder'
      BY <1>4 DEF GateInv, GateTypeOK, NoIdleSlot, QueueOrder
    <2> QED
      BY <2>1, <2>2, <2>3 DEF GateInv
  <1>5. CASE queue # <<>>
    <2> DEFINE h == Head(queue)
    <2>1. /\ h \in Request /\ h = queue[1] /\ 1 \in DOMAIN queue
          /\ h \notin owner /\ h # r
      BY <1>1, <1>5 DEF GateInv, GateTypeOK, QueueOrder
    <2>2. GateTypeOK'
      BY <1>5, <2>1 DEF GateInv, GateTypeOK, GatePhase
    <2>3. Cardinality(owner') = Cardinality(owner)
      <3>1. owner' = (owner \ {r}) \cup {h}
        BY <1>5
      <3>2. h \notin owner \ {r}
        BY <2>1
      <3>3. Cardinality((owner \ {r}) \cup {h}) = Cardinality(owner \ {r}) + 1
        BY <1>2, <3>2, FS_AddElement
      <3> HIDE DEF h
      <3> QED
        BY <1>2, <1>3, <3>1, <3>3
    <2>4. SlotsAccounted'
      BY <1>5, <2>1, <2>3 DEF GateInv, GateTypeOK, SlotsAccounted
    <2>5. NoIdleSlot'
      BY <1>5 DEF GateInv, NoIdleSlot
    <2>6. QueueOrder'
      <3>1. /\ Len(queue') = Len(queue) - 1
            /\ \A i \in DOMAIN queue' : i + 1 \in DOMAIN queue /\ queue'[i] = queue[i + 1]
        BY <1>5 DEF GateInv, GateTypeOK
      <3>2. \A i \in DOMAIN queue' : queue'[i] # h /\ queue'[i] # r /\ i \in Nat
        BY <2>1, <3>1 DEF GateInv, GateTypeOK, QueueOrder
      <3>3. \A i, j \in DOMAIN queue' : queue'[i] = queue'[j] => i = j
        BY <3>1, <3>2 DEF GateInv, GateTypeOK, QueueOrder
      <3>4. \A i \in DOMAIN queue' : /\ queue'[i] \notin owner'
                                     /\ at'[queue'[i]] \in {"enqueuing", "waiting", "failed"}
        BY <1>5, <3>1, <3>2 DEF GateInv, GateTypeOK, QueueOrder
      <3>5. \A s \in owner' : at'[s] \notin {"new", "leaving", "done"}
        BY <1>5, <2>1 DEF GateInv, GateTypeOK, QueueOrder
      <3> QED
        BY <3>3, <3>4, <3>5 DEF QueueOrder
    <2> QED
      BY <2>2, <2>4, <2>5, <2>6 DEF GateInv
  <1> QED
    BY <1>4, <1>5

\* The other steps move one request and no slot.
LEMMA QuietStepInv ==
    ASSUME GateInv, NEW r \in Request, GateStep(r) \/ EmitThrows(r) PROVE GateInv'
  <1> USE DEF GateStep, QueuedLogged, Woken, AcquiredLogged, ReleasedLogged, EmitThrows, Goto
  <1>1. GateTypeOK'
    BY GateAssumption DEF GateInv, GateTypeOK, GatePhase
  <1>2. SlotsAccounted'
    BY DEF GateInv, GateTypeOK, SlotsAccounted
  <1>3. NoIdleSlot'
    BY DEF GateInv, NoIdleSlot
  <1>4. QueueOrder'
    BY DEF GateInv, GateTypeOK, QueueOrder
  <1> QED
    BY <1>1, <1>2, <1>3, <1>4 DEF GateInv

\* Every step of the gate keeps its invariant.
LEMMA GateStepsInv == GateInv /\ [GateNext]_gateVars => GateInv'
  <1> SUFFICES ASSUME GateInv, [GateNext]_gateVars PROVE GateInv'
    OBVIOUS
  <1>1. CASE GateNext
    <2> PICK r \in Request : Acquire(r) \/ GateStep(r) \/ Release(r) \/ EmitThrows(r)
      BY <1>1 DEF GateNext
    <2> QED
      BY AcquireFreeInv, AcquireFullInv, ReleaseInv, QuietStepInv DEF Acquire
  <1>2. CASE UNCHANGED gateVars
    BY <1>2 DEF gateVars, GateInv, GateTypeOK, SlotsAccounted, NoIdleSlot, QueueOrder
  <1> QED
    BY <1>1, <1>2

\* The inductive invariant holds in every reachable state of the gate.
THEOREM GateInvariant == GateSpec => []GateInv
  BY GateInitInv, GateStepsInv, PTL DEF GateSpec

\* The gate never over-issues a slot, whoever releases, wakes or arrives when
\* (pool.ts release and acquire).
THEOREM GateNeverOverissues == GateSpec => []SlotsAccounted
  <1>1. GateInv => SlotsAccounted
    BY DEF GateInv
  <1> QED
    BY GateInvariant, <1>1, PTL

\* While a request queues, every slot is taken.
THEOREM GateNeverIdles == GateSpec => []NoIdleSlot
  <1>1. GateInv => NoIdleSlot
    BY DEF GateInv
  <1> QED
    BY GateInvariant, <1>1, PTL

----------------------------------------------------------------------------

\* A slot goes to the head of the queue, or to a newcomer if nobody queues:
\* by NoIdleSlot a newcomer finds a free slot only at an empty queue.
THEOREM GateIsFair == GateSpec => FirstComeFirstServed
  <1> DEFINE Fair == \A r \in owner' \ owner : queue = <<>> \/ r = Head(queue)
  <1>1. GateInv /\ [GateNext]_gateVars => [Fair]_gateVars
    <2> SUFFICES ASSUME GateInv, GateNext, NEW s \in owner' \ owner
                 PROVE  queue = <<>> \/ s = Head(queue)
      OBVIOUS
    <2> PICK r \in Request : Acquire(r) \/ GateStep(r) \/ Release(r) \/ EmitThrows(r)
      BY DEF GateNext
    <2>1. CASE AcquireFree(r)
      BY <2>1 DEF AcquireFree, GateInv, GateTypeOK, NoIdleSlot
    <2>2. CASE Release(r)
      BY <2>2 DEF Release
    <2>3. CASE AcquireFull(r) \/ GateStep(r) \/ EmitThrows(r)
      BY <2>3 DEF AcquireFull, GateStep, QueuedLogged, Woken, AcquiredLogged,
                  ReleasedLogged, EmitThrows
    <2> QED
      BY <2>1, <2>2, <2>3 DEF Acquire
  <1> QED
    BY GateInvariant, <1>1, PTL DEF GateSpec, FirstComeFirstServed

\* Every step of the gate is a step of the bounded semaphore or leaves its
\* holders alone.
THEOREM GateIsSemaphore == GateSpec => ImplementsSemaphore
  <1>1. GateInit => Semaphore!Init
    BY DEF GateInit, Semaphore!Init
  <1>2. GateInv /\ [GateNext]_gateVars => [Semaphore!Next]_owner
    <2> SUFFICES ASSUME GateInv, GateNext, owner' # owner PROVE Semaphore!Next
      BY DEF gateVars
    <2> PICK r \in Request : Acquire(r) \/ GateStep(r) \/ Release(r) \/ EmitThrows(r)
      BY DEF GateNext
    <2>1. CASE AcquireFree(r)
      <3>1. Semaphore!Take(r)
        <4>1. r \notin owner /\ owner' = owner \cup {r}
          BY <2>1 DEF AcquireFree, GateInv, QueueOrder
        <4>2. Cardinality(owner) < slots
          BY <2>1 DEF AcquireFree, GateInv, SlotsAccounted
        <4>3. Semaphore!Cardinality(owner) = Cardinality(owner)
          BY DEF Semaphore!Cardinality, Cardinality
        <4> QED
          BY <4>1, <4>2, <4>3 DEF Semaphore!Take
      <3> QED
        BY <3>1 DEF Semaphore!Next
    <2>2. CASE Release(r)
      <3>1. r \in owner
        BY <2>2 DEF Release, GateInv, SlotsAccounted
      <3>2. CASE queue = <<>>
        <4>1. Semaphore!GiveBack(r)
          BY <2>2, <3>1, <3>2 DEF Release, Semaphore!GiveBack
        <4> QED
          BY <4>1 DEF Semaphore!Next
      <3>3. CASE queue # <<>>
        <4>1. Head(queue) \in Request /\ Head(queue) \notin owner
          BY <3>3 DEF GateInv, GateTypeOK, QueueOrder
        <4>2. Semaphore!HandOver(r, Head(queue))
          BY <2>2, <3>1, <3>3, <4>1 DEF Release, Semaphore!HandOver
        <4> QED
          BY <4>1, <4>2 DEF Semaphore!Next
      <3> QED
        BY <3>2, <3>3
    <2>3. CASE AcquireFull(r) \/ GateStep(r) \/ EmitThrows(r)
      BY <2>3 DEF AcquireFull, GateStep, QueuedLogged, Woken, AcquiredLogged,
                  ReleasedLogged, EmitThrows
    <2> QED
      BY <2>1, <2>2, <2>3 DEF Acquire
  <1> QED
    BY GateInvariant, <1>1, <1>2, PTL DEF GateSpec, ImplementsSemaphore, Semaphore!Spec

----------------------------------------------------------------------------
(* The pool.                                                               *)

\* Every step of the pool is a step of the gate or leaves the gate alone.
LEMMA PoolStepsAreGateSteps == [Next]_vars => [GateNext]_gateVars
  <1> SUFFICES ASSUME [Next]_vars PROVE [GateNext]_gateVars
    OBVIOUS
  <1>1. ASSUME NEW r \in Request, Occupy(r) PROVE GateNext
    BY <1>1 DEF Occupy, GateNext
  <1>2. ASSUME NEW r \in Request, PoolStep(r) PROVE [GateNext]_gateVars
    <2>1. CASE ProvideFails(r) \/ Destroyed(r) \/ DestroyFails(r)
      <3>1. Release(r)
        BY <2>1 DEF ProvideFails, Destroyed, DestroyFails, Vacate
      <3> QED
        BY <3>1 DEF GateNext
    <2>2. CASE TakeEntry(r) \/ StartCold(r) \/ Provided(r) \/ Discard(r)
               \/ Freeze(r) \/ Frozen(r) \/ FreezeFails(r)
      BY <2>2 DEF TakeEntry, StartCold, Provided, Discard, Freeze, Frozen, FreezeFails
    <2> QED
      BY <1>2, <2>1, <2>2 DEF PoolStep
  <1>3. CASE Drain \/ Terminated \/ UNCHANGED vars
    BY <1>3 DEF Drain, Terminated, vars
  <1> QED
    BY <1>1, <1>2, <1>3 DEF Next

\* The pool implements the gate.
THEOREM PoolUsesGate == Spec => GateSpec
  <1>1. Init => GateInit
    BY DEF Init
  <1> QED
    BY <1>1, PoolStepsAreGateSteps, PTL DEF Spec, GateSpec

\* Around the pool too, slots are never over-issued (warm-pool.ts acquire and
\* release over pool.ts).
THEOREM PoolNeverOverissues == Spec => []SlotsAccounted
  BY PoolUsesGate, GateNeverOverissues, PTL

\* Around the pool too, slots go out in the order of arrival.
THEOREM PoolIsFair == Spec => FirstComeFirstServed
  BY PoolUsesGate, GateIsFair, PTL

\* Around the pool too, the gate is a bounded semaphore.
THEOREM PoolIsSemaphore == Spec => ImplementsSemaphore
  BY PoolUsesGate, GateIsSemaphore, PTL

----------------------------------------------------------------------------

\* A request does something with a sandbox only between its two gate calls,
\* and fails at the gate only when an emit threw.
StageInv ==
    /\ stage \in [Request -> Stage]
    /\ sandboxes \subseteq Request
    /\ \A r \in Request : stage[r] # "none" => at[r] = "in"
    /\ \A r \in Request : at[r] = "failed" => emitFaults > 0

\* StageInv needs the types of the gate's variables only.
LEMMA StageStep == GateTypeOK /\ StageInv /\ [Next]_vars => StageInv'
  <1> SUFFICES ASSUME GateTypeOK, StageInv, [Next]_vars PROVE StageInv'
    OBVIOUS
  <1> USE DEF StageInv, GateTypeOK, Goto, Enter
  <1>1. ASSUME NEW r \in Request, Occupy(r) PROVE StageInv'
    <2>1. CASE Acquire(r)
      BY <1>1, <2>1 DEF Occupy, Acquire, AcquireFree, AcquireFull, poolVars
    <2>2. CASE GateStep(r)
      BY <1>1, <2>2 DEF Occupy, GateStep, QueuedLogged, Woken, AcquiredLogged,
                        ReleasedLogged, poolVars
    <2>3. CASE EmitThrows(r)
      BY <1>1, <2>3 DEF Occupy, EmitThrows, poolVars
    <2> QED
      BY <1>1, <2>1, <2>2, <2>3 DEF Occupy
  <1>2. ASSUME NEW r \in Request, PoolStep(r) PROVE StageInv'
    <2>1. CASE ProvideFails(r) \/ Destroyed(r) \/ DestroyFails(r)
      <3>1. Release(r) /\ stage' = [stage EXCEPT ![r] = "none"] /\ sandboxes' \subseteq sandboxes
        BY <2>1 DEF ProvideFails, Destroyed, DestroyFails, Vacate
      <3> QED
        BY <3>1 DEF Release, Stage
    <2>2. CASE TakeEntry(r) \/ StartCold(r) \/ Provided(r) \/ Discard(r)
               \/ Freeze(r) \/ Frozen(r) \/ FreezeFails(r)
      <3>1. /\ at[r] = "in" /\ UNCHANGED <<at, emitFaults>>
            /\ sandboxes' \subseteq sandboxes \cup {r}
            /\ \E s \in Stage : stage' = [stage EXCEPT ![r] = s]
        BY <2>2 DEF TakeEntry, StartCold, Provided, Discard, Freeze, Frozen, FreezeFails,
                    gateVars, Stage
      <3> QED
        BY <3>1
    <2> QED
      BY <1>2, <2>1, <2>2 DEF PoolStep
  <1>3. CASE Drain \/ Terminated \/ UNCHANGED vars
    BY <1>3 DEF Drain, Terminated, vars, gateVars, poolVars
  <1> QED
    BY <1>1, <1>2, <1>3 DEF Next

\* The stage of a request fits the phase it is in at the gate.
THEOREM StageInvariant == Spec => []StageInv
  <1>1. Init => StageInv
    BY DEF Init, GateInit, StageInv, Stage
  <1>2. GateInv => GateTypeOK
    BY DEF GateInv
  <1> QED
    BY <1>1, <1>2, PoolUsesGate, GateInvariant, StageStep, PTL DEF Spec

\* The sandboxes that serve a request are no more than the slots, whether they
\* were created or restored and whatever fails on the way (warm-pool.ts).
THEOREM PoolBoundsSandboxes == Spec => []SandboxesWithinSlots
  <1>1. GateInv /\ StageInv => SandboxesWithinSlots
    <2> SUFFICES ASSUME GateInv, StageInv PROVE Cardinality(Serving) <= slots
      BY DEF SandboxesWithinSlots
    <2>1. Serving \subseteq owner
      BY DEF Serving, StageInv, GateInv, SlotsAccounted
    <2>2. IsFiniteSet(owner) /\ Cardinality(owner) <= slots
      BY OwnersFinite DEF GateInv, SlotsAccounted
    <2>3. /\ Cardinality(Serving) <= Cardinality(owner)
          /\ Cardinality(Serving) \in Nat /\ Cardinality(owner) \in Nat
      BY <2>1, <2>2, FS_Subset, FS_CardinalityType
    <2> QED
      BY <2>2, <2>3, GateAssumption
  <1> QED
    BY <1>1, PoolUsesGate, GateInvariant, StageInvariant, PTL

\* As long as no emit throws, a request that has ended has given its slot
\* back: the promise of warm-pool.ts:110-113.
THEOREM PoolReturnsSlots == Spec => []SlotsReturned
  <1>1. GateInv /\ StageInv => SlotsReturned
    BY DEF GateInv, GateTypeOK, QueueOrder, StageInv, SlotsReturned
  <1> QED
    BY <1>1, PoolUsesGate, GateInvariant, StageInvariant, PTL

----------------------------------------------------------------------------
(* The capacity of the pool.                                               *)

\* The requests that have found room in the pool and not yet used it.
Joining == {r \in Request : stage[r] \in {"snapshotting", "pooling"}}

\* Len(pool) alone is not inductive: an entry is added long after the capacity
\* was looked at. The entries still to come have to be counted in.
PoolInv ==
    /\ pool \in Seq(Request)
    /\ Len(pool) + Cardinality(Joining) <= capacity + slots - 1

\* A set of requests is finite, and smaller than one that includes it.
LEMMA RequestSets ==
    ASSUME NEW S \in SUBSET Request, NEW T \in SUBSET S
    PROVE  /\ IsFiniteSet(S) /\ IsFiniteSet(T)
           /\ Cardinality(S) \in Nat /\ Cardinality(T) \in Nat
           /\ Cardinality(T) <= Cardinality(S)
  BY GateAssumption, FS_Subset, FS_CardinalityType

\* A step that brings no entry and no newcomer keeps the bound.
LEMMA NoneJoins ==
    ASSUME PoolInv, pool' \in Seq(Request), Len(pool') <= Len(pool), Joining' \subseteq Joining
    PROVE  PoolInv'
  <1>1. Joining \in SUBSET Request /\ Joining' \in SUBSET Joining
    BY DEF Joining
  <1>2. /\ Cardinality(Joining) \in Nat /\ Cardinality(Joining') \in Nat
        /\ Cardinality(Joining') <= Cardinality(Joining)
    BY <1>1, RequestSets
  <1>3. Len(pool) \in Nat /\ Len(pool') \in Nat
    BY DEF PoolInv
  <1> QED
    BY <1>2, <1>3, GateAssumption, PoolAssumption DEF PoolInv

\* A pool that an entry is taken from is shorter by one.
LEMMA TakenShorter ==
    ASSUME pool \in Seq(Request), NEW i \in DOMAIN pool
    PROVE  RemoveAt(pool, i) \in Seq(Request) /\ Len(RemoveAt(pool, i)) <= Len(pool)
  <1> DEFINE k == Len(pool)
             front == SubSeq(pool, 1, i - 1)
             back == SubSeq(pool, i + 1, k)
  <1>1. k \in Nat /\ i \in 1..k
    OBVIOUS
  <1>2. front \in Seq(Request) /\ Len(front) = i - 1
    BY <1>1
  <1>3. back \in Seq(Request) /\ Len(back) = k - i
    BY <1>1
  <1>4. RemoveAt(pool, i) = front \o back
    BY DEF RemoveAt
  <1> HIDE DEF front, back, k
  <1>5. front \o back \in Seq(Request) /\ Len(front \o back) = (i - 1) + (k - i)
    BY <1>2, <1>3
  <1> QED
    BY <1>1, <1>4, <1>5 DEF k

\* Every step keeps the bound on the pool.
LEMMA PoolStepInv ==
    ASSUME GateInv, GateInv', StageInv, StageInv', PoolInv, [Next]_vars
    PROVE  PoolInv'
  <1> USE DEF Enter
  <1>1. ASSUME NEW r \in Request, Freeze(r) PROVE PoolInv'
    <2>1. Len(pool) < capacity /\ pool' = pool
      BY <1>1 DEF Freeze
    <2>2. Joining' \subseteq owner'
      BY DEF Joining, StageInv, GateInv, SlotsAccounted
    <2>3. owner' \in SUBSET Request /\ Cardinality(owner') <= slots
      BY DEF GateInv, GateTypeOK, SlotsAccounted
    <2>4. /\ Cardinality(Joining') \in Nat /\ Cardinality(owner') \in Nat
          /\ Cardinality(Joining') <= Cardinality(owner')
      BY <2>2, <2>3, RequestSets
    <2>5. Len(pool) \in Nat
      BY DEF PoolInv
    <2> QED
      BY <2>1, <2>3, <2>4, <2>5, GateAssumption, PoolAssumption DEF PoolInv
  <1>2. ASSUME NEW r \in Request, Destroyed(r), stage[r] = "pooling" PROVE PoolInv'
    <2>1. pool' = Append(pool, r) /\ stage' = [stage EXCEPT ![r] = "none"]
      BY <1>2 DEF Destroyed, Vacate
    <2>2. r \in Joining /\ Joining' = Joining \ {r}
      BY <1>2, <2>1 DEF Joining, StageInv
    <2>3. IsFiniteSet(Joining) /\ Cardinality(Joining) \in Nat
      BY RequestSets DEF Joining
    <2>4. Cardinality(Joining') = Cardinality(Joining) - 1
      BY <2>2, <2>3, FS_RemoveElement
    <2>5. pool' \in Seq(Request) /\ Len(pool') = Len(pool) + 1 /\ Len(pool) \in Nat
      BY <2>1 DEF PoolInv
    <2> QED
      BY <2>3, <2>4, <2>5, GateAssumption, PoolAssumption DEF PoolInv
  <1>3. ASSUME NEW r \in Request, TakeEntry(r) PROVE PoolInv'
    <2>1. PICK i \in DOMAIN pool : pool' = RemoveAt(pool, i)
      BY <1>3 DEF TakeEntry
    <2>2. pool' \in Seq(Request) /\ Len(pool') <= Len(pool)
      BY <2>1, TakenShorter DEF PoolInv
    <2>3. Joining' \subseteq Joining
      BY <1>3 DEF TakeEntry, Joining, StageInv
    <2> QED
      BY <2>2, <2>3, NoneJoins
  <1>4. CASE Drain
    <2>1. pool' = <<>> /\ stage' = stage
      BY <1>4 DEF Drain
    <2>2. pool' \in Seq(Request) /\ Len(pool') <= Len(pool) /\ Joining' \subseteq Joining
      BY <2>1 DEF PoolInv, Joining
    <2> QED
      BY <2>2, NoneJoins
  <1>5. ASSUME pool' = pool, Joining' \subseteq Joining PROVE PoolInv'
    BY <1>5, NoneJoins DEF PoolInv
  <1>6. ASSUME NEW r \in Request,
               \/ StartCold(r) \/ Provided(r) \/ ProvideFails(r) \/ Discard(r) \/ Frozen(r)
               \/ FreezeFails(r) \/ DestroyFails(r) \/ (Destroyed(r) /\ stage[r] # "pooling")
        PROVE  PoolInv'
    <2>1. pool' = pool
      BY <1>6 DEF StartCold, Provided, ProvideFails, Discard, Frozen, FreezeFails, DestroyFails,
                  Destroyed
    <2>2. Joining' \subseteq Joining
      BY <1>6 DEF StartCold, Provided, ProvideFails, Discard, Frozen, FreezeFails, DestroyFails,
                  Destroyed, Vacate, Joining, StageInv
    <2> QED
      BY <2>1, <2>2, <1>5
  <1>7. CASE UNCHANGED poolVars
    BY <1>5, <1>7 DEF poolVars, Joining
  <1> QED
    BY <1>1, <1>2, <1>3, <1>4, <1>6, <1>7 DEF Next, PoolStep, Occupy, Terminated, vars

\* However the releases overlap, the pool outgrows its capacity by one entry for
\* each slot but one, and never by more (warm-pool.ts:31, 169).
THEOREM PoolStaysNearCapacity == Spec => []PoolOverrunBounded
  <1>1. Init => PoolInv
    <2> SUFFICES ASSUME Init PROVE PoolInv
      OBVIOUS
    <2>1. Joining = {} /\ pool = <<>>
      BY DEF Init, Joining
    <2>2. Cardinality(Joining) = 0
      BY <2>1, FS_EmptySet
    <2> QED
      BY <2>1, <2>2, GateAssumption, PoolAssumption DEF PoolInv
  <1>2. PoolInv => PoolOverrunBounded
    <2> SUFFICES ASSUME PoolInv PROVE PoolOverrunBounded
      OBVIOUS
    <2>1. Cardinality(Joining) \in Nat
      BY RequestSets DEF Joining
    <2>2. Len(pool) \in Nat
      BY DEF PoolInv
    <2> QED
      BY <2>1, <2>2, GateAssumption, PoolAssumption DEF PoolInv, PoolOverrunBounded
  <1> QED
    BY <1>1, <1>2, PoolUsesGate, GateInvariant, StageInvariant, PoolStepInv, PTL DEF Spec
=============================================================================
