----------------------------- MODULE Recovery ------------------------------
(***************************************************************************)
(* What a restart does about the sandboxes of the life before: daemon/src/ *)
(* events/recover.ts, the reconciler of daemon/wiring.ts and its call in   *)
(* daemon/daemon.ts, over the events that the executions of nodes leave    *)
(* (engine/node-executor.ts, with the pool of provision/warm-pool.ts) and  *)
(* the provider's own knowledge (Provider.tla).                            *)
(*                                                                         *)
(* A sandbox is created before, and destroyed before, the log says so. One *)
(* that is restored from the pool was never created as far as the log is   *)
(* concerned, and one that goes there was never destroyed. The log may     *)
(* refuse the events an execution waits for, which ends the execution.     *)
(*                                                                         *)
(* Bounds: the sandboxes, the capabilities, MaxStarts starts of the daemon *)
(* and MaxProviderFaults failures of the provider. Time is the length of   *)
(* the log.                                                                *)
(***************************************************************************)
EXTENDS Documents, SequencesExt, Provider

CONSTANTS Caps, MaxStarts

VARIABLES journal,   \* the log: sequence of [type, id, at, ttl, duration]
          holders,   \* sandbox -> what an execution of this life does with it
          entries,   \* the pool: sandboxes whose snapshot may be restored
          up,        \* "down", "recovering" or "serving"
          todo,      \* resources the recovery has still to look at
          report,    \* what daemon.recovered will tell
          starts,
          unlogged,  \* history: sandboxes the log was never told of
          excused,   \* history: sandboxes a call of the provider failed on in this life
          refused    \* history: sandboxes whose execution an append ended in this life

vars == <<providerVars, journal, holders, entries, up, todo, report, starts, unlogged,
          excused, refused>>

Entry(type, id, ttl, duration) ==
    [type |-> type, id |-> id, at |-> Len(journal), ttl |-> ttl, duration |-> duration]

Plain(type, id) == Entry(type, id, Absent, Absent)

----------------------------------------------------------------------------
(* recover.ts *)

\* An absolute time holds; a duration counts from when the event was written.
TtlDeadline(e) ==
    CASE e.ttl # Absent -> IF e.ttl = Bad THEN Absent ELSE e.ttl
      [] e.ttl = Absent /\ e.duration \in Unset -> Absent
      [] OTHER -> e.at + e.duration

Resource(kind, e) == [kind |-> kind, id |-> e.id, deadline |-> TtlDeadline(e)]

\* The map of what is live: a kind and an id have at most one place.
PlacesOf(live, kind, id) == {i \in DOMAIN live : live[i].kind = kind /\ live[i].id = id}

Without(live, kind, id) ==
    IF PlacesOf(live, kind, id) = {} THEN live
    ELSE RemoveAt(live, CHOOSE i \in PlacesOf(live, kind, id) : TRUE)

\* A resource seen again keeps its place and takes its latest event.
Upsert(live, r) ==
    IF PlacesOf(live, r.kind, r.id) = {} THEN Append(live, r)
    ELSE [i \in DOMAIN live |-> IF i \in PlacesOf(live, r.kind, r.id) THEN r ELSE live[i]]

InFlightAfter(live, e) ==
    CASE e.type = "sandbox.created" -> Upsert(live, Resource("sandbox", e))
      [] e.type = "sandbox.destroyed" -> Without(live, "sandbox", e.id)
      [] e.type = "grant.granted" -> Upsert(live, Resource("grant", e))
      [] e.type = "grant.revoked" -> Without(live, "grant", e.id)
      [] OTHER -> live

CollectInFlight(events) == FoldLeft(InFlightAfter, <<>>, events)

Expired(resources, now) ==
    {i \in DOMAIN resources : resources[i].deadline # Absent /\ resources[i].deadline <= now}

----------------------------------------------------------------------------
(* The life of a sandbox: node-executor.ts and the pool *)

Init ==
    /\ ProviderInit
    /\ journal = <<>> /\ holders = [s \in Sandboxes |-> "none"] /\ entries = {}
    /\ up = "down" /\ todo = <<>> /\ report = Absent
    /\ starts = 0 /\ unlogged = {} /\ excused = {} /\ refused = {}

Holds(s, stage) == holders' = [holders EXCEPT ![s] = stage]

\* The provider's names are random: none is used twice.
Fresh(s) == holders[s] = "none" /\ s \notin unlogged
                /\ \A i \in DOMAIN journal : journal[i].id # s

Serving(s, stage) == up = "serving" /\ holders[s] = stage

Excuse(s) == excused' = excused \cup {s}

Rest == <<todo, report, starts, up>>

\* provider.create, directly or by a pool that has nothing to restore.
Create(s) ==
    /\ up = "serving" /\ Fresh(s)
    /\ Register(s)
    /\ unlogged' = unlogged \cup {s}
    /\ Holds(s, "creating")
    /\ UNCHANGED <<journal, entries, excused, refused, Rest>>

\* A create that throws ends the execution.
Launched(s) ==
    /\ Serving(s, "creating")
    /\ \/ Launch(s) /\ UNCHANGED <<holders, excused>>
       \/ record[s] = "provisioning" /\ RunFails /\ Holds(s, "none") /\ Excuse(s)
    /\ UNCHANGED <<journal, entries, unlogged, refused, Rest>>

\* The append of an event that execute() waits for rejects outside its try:
\* the execution is over, and what it has not done yet it never does.
AppendRefused(s) ==
    /\ Holds(s, "none")
    /\ refused' = refused \cup {s}
    /\ UNCHANGED <<providerVars, journal, entries, unlogged, excused, Rest>>

LogCreated(s) ==
    /\ Serving(s, "creating") /\ record[s] = "running"
    /\ \/ /\ journal' = Append(journal, Plain("sandbox.created", s))
          /\ unlogged' = unlogged \ {s}
          /\ Holds(s, "running")
          /\ UNCHANGED <<providerVars, entries, excused, refused, Rest>>
       \/ AppendRefused(s)

\* The node's own end is logged before anything is destroyed, node.failed
\* outside the try as well; the event itself is nothing to the recovery.
LogFailed(s) == Serving(s, "running") /\ AppendRefused(s)

\* A hit of the pool is not logged as a creation; the entry is gone whatever
\* becomes of the restore.
Reuse(s) ==
    /\ up = "serving" /\ Fresh(s)
    /\ \E ref \in entries :
          /\ entries' = entries \ {ref}
          /\ \/ RestoreRun(ref, s) /\ Holds(s, "running") /\ UNCHANGED excused
             \/ (RestoreUnconfirmed(ref, s) \/ RunFails) /\ Excuse(s) /\ UNCHANGED holders
    /\ unlogged' = unlogged \cup {s}
    /\ UNCHANGED <<journal, refused, Rest>>

\* The sandbox of a completed node is frozen for the pool, in two calls; if
\* one throws, it is destroyed like any other.
Freeze(s) ==
    /\ \/ Serving(s, "running") /\ Stop(s) /\ Holds(s, "stopped")
       \/ Serving(s, "stopped") /\ SnapshotCreate(s) /\ Holds(s, "frozen")
       \/ /\ Serving(s, "running") \/ Serving(s, "stopped")
          /\ snapshotCapable /\ RunFails /\ Holds(s, "discarding")
    /\ UNCHANGED <<journal, entries, unlogged, excused, refused, Rest>>

\* Faulty variant: the log is told first.
Destroy_LogFirst(s) ==
    /\ Serving(s, "running")
    /\ journal' = Append(journal, Plain("sandbox.destroyed", s))
    /\ Holds(s, "destroying")
    /\ UNCHANGED <<providerVars, entries, unlogged, excused, refused, Rest>>

\* provider.destroy, and then the event or, without one, the entry of the
\* pool; if it throws, the execution is over and the sandbox stays.
Destroy(s) ==
    /\ up = "serving" /\ holders[s] \in {"running", "discarding", "frozen"}
    /\ \/ /\ RunRemove(s)
          /\ IF holders[s] = "frozen"
             THEN entries' = entries \cup {s} /\ Holds(s, "none")
             ELSE Holds(s, "destroying") /\ UNCHANGED entries
          /\ UNCHANGED excused
       \/ RunFails /\ Excuse(s) /\ Holds(s, "none") /\ UNCHANGED entries
    /\ UNCHANGED <<journal, unlogged, refused, Rest>>

LogDestroyed(s) ==
    /\ Serving(s, "destroying")
    /\ \/ /\ journal' = Append(journal, Plain("sandbox.destroyed", s))
          /\ Holds(s, "none")
          /\ UNCHANGED <<providerVars, entries, unlogged, excused, refused, Rest>>
       \/ AppendRefused(s)

\* Grants share the log; a grant may end by a time or after a while.
Grant(cap, ttl, duration) ==
    /\ up = "serving" /\ \A i \in DOMAIN journal : journal[i].id # cap
    /\ journal' = Append(journal, Entry("grant.granted", cap, ttl, duration))
    /\ UNCHANGED <<providerVars, holders, entries, unlogged, excused, refused, Rest>>

Revoke(cap) ==
    /\ up = "serving" /\ \E i \in DOMAIN CollectInFlight(journal) :
                            CollectInFlight(journal)[i].id = cap
    /\ journal' = Append(journal, Plain("grant.revoked", cap))
    /\ UNCHANGED <<providerVars, holders, entries, unlogged, excused, refused, Rest>>

----------------------------------------------------------------------------
(* A crash and a start *)

Crash ==
    /\ up # "down"
    /\ up' = "down"
    /\ ProviderDies
    /\ holders' = [s \in Sandboxes |-> "none"]
    /\ entries' = {} /\ excused' = {} /\ refused' = {}
    /\ todo' = <<>> /\ report' = Absent
    /\ UNCHANGED <<journal, starts, unlogged>>

\* A first start has nothing to recover from.
Start ==
    /\ up = "down" /\ starts < MaxStarts
    /\ starts' = starts + 1
    /\ journal' = Append(journal, Plain("daemon.started", Absent))
    /\ IF journal = <<>>
       THEN up' = "serving" /\ UNCHANGED <<todo, report>>
       ELSE /\ up' = "recovering"
            /\ todo' = CollectInFlight(journal')
            /\ report' = [inFlight |-> Len(todo'), corrected |-> 0,
                          expired |-> Cardinality(Expired(todo', Len(journal')))]
    /\ UNCHANGED <<providerVars, holders, entries, unlogged, excused, refused>>

\* sandboxReconciler: what the provider lists is destroyed, what it does not
\* list is taken for absent; a destroy that fails counts as done. The provider
\* of this life lists nothing of the life before.
Reconciled(s) == IF s \in Listed THEN RunRemove(s) \/ RunFails ELSE UNCHANGED providerVars

Reconcile ==
    /\ up = "recovering" /\ todo # <<>>
    /\ todo' = Tail(todo)
    /\ IF Head(todo).kind = "sandbox"
       THEN /\ Reconciled(Head(todo).id)
            /\ journal' = Append(journal, Plain("correction", Absent))
            /\ report' = [report EXCEPT !.corrected = @ + 1]
       ELSE UNCHANGED <<providerVars, journal, report>>
    /\ UNCHANGED <<holders, entries, up, starts, unlogged, excused, refused>>

Recovered ==
    /\ up = "recovering" /\ todo = <<>>
    /\ journal' = Append(journal, Plain("daemon.recovered", Absent))
    /\ up' = "serving"
    /\ UNCHANGED <<providerVars, holders, entries, todo, report, starts, unlogged, excused,
                   refused>>

Next ==
    \/ \E s \in Sandboxes :
          \/ Create(s) \/ Launched(s) \/ LogCreated(s) \/ Reuse(s)
          \/ LogFailed(s) \/ Freeze(s) \/ Destroy(s) \/ LogDestroyed(s)
    \/ \E cap \in Caps :
          \/ \E ttl \in {Absent, Bad, 1}, duration \in {Absent, 9} : Grant(cap, ttl, duration)
          \/ Revoke(cap)
    \/ Crash \/ Start \/ Reconcile \/ Recovered

Spec == Init /\ [][Next]_vars

----------------------------------------------------------------------------
(* Properties *)

\* A crash may come at any moment: every machine on the host whose creation
\* the log was told of is found in the log as in flight by the next start,
\* and by every later one, for a restart only notes it (recover.ts:2-11). And
\* within one life no machine the provider knows is left behind by an execution
\* that is over, but for a call of the provider that failed on it or an append
\* that the log refused it; what counts as removed is gone. The refused append
\* is an exception the code does not mean to make: it promises to destroy the
\* sandbox on every path (node-executor.ts:12-13), but waits for the appends of
\* sandbox.created and node.failed outside its try (187, 269). Not found again
\* are the machines the log was never told of: those whose creation a crash or
\* a failed call or append kept out of it, and those restored from the pool.
SandboxesAccounted ==
    \A s \in Sandboxes :
        /\ host[s] # "none" /\ s \notin unlogged =>
              \E i \in DOMAIN CollectInFlight(journal) :
                  /\ CollectInFlight(journal)[i].kind = "sandbox"
                  /\ CollectInFlight(journal)[i].id = s
        /\ host[s] # "none" /\ holders[s] = "none" =>
              record[s] = "unknown" \/ s \in excused \cup refused
        /\ record[s] = "removed" => host[s] = "none"
=============================================================================
