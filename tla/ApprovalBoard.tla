--------------------------- MODULE ApprovalBoard ---------------------------
(***************************************************************************)
(* Capability requests of one agent: the approval board                    *)
(* (daemon/src/approval/board.ts), the grants it issues                    *)
(* (capability/executor.ts), the operations that call it and log the       *)
(* grants (daemon/operations.ts, daemon/wiring.ts) and the restart that    *)
(* rebuilds all of it from the event log (daemon/daemon.ts, tasks.ts).     *)
(*                                                                         *)
(* Between two appends to the log a handler runs alone, so a step is what  *)
(* happens from one append to the next. The log serves appends in order:   *)
(* "writes" is that queue, each entry with what its handler still needs.   *)
(***************************************************************************)
EXTENDS Naturals, FiniteSets, SequencesExt

CONSTANTS Request,      \* reqIds
          Key,          \* (cap, scope) pairs
          keyOf,        \* request -> the key it asks for
          AutoRequest,  \* requests the policy layers let through
          Baseline,     \* keys of the preset's baseline grants
          MaxWrites,    \* bound: appends under way when a call comes in
          MaxCrashes,   \* bound: restarts without a stop
          MaxEmitFaults \* bound: appends the log refuses

ASSUME BoardAssumption ==
    /\ keyOf \in [Request -> Key]
    /\ AutoRequest \subseteq Request
    /\ Baseline \subseteq Key /\ IsFiniteSet(Baseline)
    /\ MaxWrites \in Nat \ {0}
    /\ MaxCrashes \in Nat
    /\ MaxEmitFaults \in Nat

VARIABLES record,    \* #records: request -> status, none when there is no record
          held,      \* the grants of the GrantExecutor
          manifest,  \* the grants of the TaskStore's manifest (grants.of)
          expired,   \* requests whose grant's ttl is over
          writes,    \* appends under way
          log,       \* events on disk
          crashes, emitFaults,
          early      \* history: decided while requested was being logged

vars == <<record, held, manifest, expired, writes, log, crashes, emitFaults, early>>

Status == {"none", "pending", "granted", "denied"}
BaselineSource == "baseline"

\* A grant is from "escalation:<reqId>" (board.ts:5) or from "baseline", never both.
ASSUME SourceAssumption == BaselineSource \notin Request

Grants == [key : Key, source : Request \cup {BaselineSource}]
GrantOf(r) == [key |-> keyOf[r], source |-> r]

Keys(S) == {g.key : g \in S}

\* GrantExecutor.grant; a GrantDuplicate is the board's alreadyHeld.
AddGrant(S, g) == IF g.key \in Keys(S) THEN S ELSE S \cup {g}
DropKey(S, k) == {g \in S : g.key # k}

----------------------------------------------------------------------------
(* Events and what a restart makes of them.                                *)

Requested(r) == [type |-> "approval.requested", req |-> r]
Decided(r, s) == [type |-> "approval.decided", req |-> r, status |-> s]
Granted(g) == [type |-> "grant.granted", grant |-> g]
Revoked(k) == [type |-> "grant.revoked", key |-> k]

\* restoreFromEvents; a decision without its request is skipped.
ReplayRecord(rec, e) ==
    CASE e.type = "approval.requested" -> [rec EXCEPT ![e.req] = "pending"]
      [] e.type = "approval.decided" /\ rec[e.req] # "none" -> [rec EXCEPT ![e.req] = e.status]
      [] OTHER -> rec

\* The start-up loop over grants: baseline grants are not restored.
ReplayHeld(S, e) ==
    CASE e.type = "grant.granted" /\ e.grant.source # BaselineSource -> AddGrant(S, e.grant)
      [] e.type = "grant.revoked" -> DropKey(S, e.key)
      [] OTHER -> S

\* replayTasks.
ReplayManifest(S, e) ==
    CASE e.type = "grant.granted" -> S \cup {e.grant}
      [] e.type = "grant.revoked" -> DropKey(S, e.key)
      [] OTHER -> S

NoRecords == [r \in Request |-> "none"]
BaselineGrants == [key : Baseline, source : {BaselineSource}]

RecordIn(events) == FoldLeft(ReplayRecord, NoRecords, events)
HeldIn(events) == FoldLeft(ReplayHeld, {}, events)
ManifestIn(events) == FoldLeft(ReplayManifest, {}, events)

Init ==
    /\ record = NoRecords
    /\ held = BaselineGrants
    /\ manifest = BaselineGrants
    /\ expired = {}
    /\ writes = <<>>
    /\ log = SetToSeq({Granted(g) : g \in BaselineGrants})
    /\ crashes = 0
    /\ emitFaults = 0
    /\ early = {}

----------------------------------------------------------------------------
(* Calls.                                                                  *)

Admitted == Len(writes) < MaxWrites

Set(r, status) == record' = [record EXCEPT ![r] = status]

\* Faulty variant: the grant is logged with the decision still to come.
Issue_GrantFirst(r, before, queue) ==
    /\ held' = AddGrant(held, GrantOf(r))
    /\ Set(r, "granted")
    /\ writes' = queue \o <<[event |-> Granted(GrantOf(r)), rest |-> {}, snap |-> held'],
                           [event |-> Decided(r, "granted"), snap |-> held', before |-> before]>>
    /\ expired' = IF keyOf[r] \in Keys(held) THEN expired ELSE expired \ {r}

\* A grant with its ttl, the status and the decided event, in that order, with
\* no await that lets another handler in. before: the manifest the operation has read.
Issue(r, before, queue) ==
    /\ held' = AddGrant(held, GrantOf(r))
    /\ Set(r, "granted")
    /\ writes' = Append(queue, [event |-> Decided(r, "granted"),
                                snap |-> held', before |-> before])
    /\ expired' = IF keyOf[r] \in Keys(held) THEN expired ELSE expired \ {r}

\* approvals.submit up to its append: the record is there from now on.
Submit(r) ==
    /\ Admitted
    /\ record[r] = "none"
    /\ Set(r, "pending")
    /\ writes' = Append(writes, [event |-> Requested(r), before |-> manifest])
    /\ UNCHANGED <<held, manifest, expired, log, crashes, emitFaults, early>>

BeingSubmitted(r) == \E i \in DOMAIN writes : writes[i].event = Requested(r)

NoteEarly(r) == early' = IF BeingSubmitted(r) THEN early \cup {r} ELSE early

\* Faulty variant: what is denied may still be approved.
Approve_AnyStatus(r) ==
    /\ Admitted
    /\ record[r] # "none"
    /\ Issue(r, manifest, writes)
    /\ NoteEarly(r)
    /\ UNCHANGED <<manifest, log, crashes, emitFaults>>

\* approvals.decide granted.
Approve(r) ==
    /\ Admitted
    /\ record[r] = "pending"
    /\ Issue(r, manifest, writes)
    /\ NoteEarly(r)
    /\ UNCHANGED <<manifest, log, crashes, emitFaults>>

\* Faulty variant: the decision is not logged.
Deny_Unlogged(r) ==
    /\ Admitted
    /\ record[r] = "pending"
    /\ Set(r, "denied")
    /\ NoteEarly(r)
    /\ UNCHANGED <<held, manifest, expired, writes, log, crashes, emitFaults>>

\* approvals.decide denied.
Deny(r) ==
    /\ Admitted
    /\ record[r] = "pending"
    /\ Set(r, "denied")
    /\ writes' = Append(writes, [event |-> Decided(r, "denied")])
    /\ NoteEarly(r)
    /\ UNCHANGED <<held, manifest, expired, log, crashes, emitFaults>>

\* The ttl of a grant passes.
Expire(r) ==
    /\ GrantOf(r) \in held
    /\ r \notin expired
    /\ expired' = expired \cup {r}
    /\ UNCHANGED <<record, held, manifest, writes, log, crashes, emitFaults, early>>

----------------------------------------------------------------------------
(* reclaimExpired: one revoke after the other, each waits for the log.     *)

\* Faulty variant: the sweep looks at the TaskStore's manifest.
ExpiredKeys_OfManifest == {g.key : g \in {h \in manifest : h.source \in expired}}

ExpiredKeys == {g.key : g \in {h \in held : h.source \in expired}}

\* The next key of the sweep that is still there; whoever holds it by now.
Sweep(keys, queue) ==
    IF keys \cap Keys(held) = {}
    THEN UNCHANGED held /\ writes' = queue
    ELSE \E k \in keys \cap Keys(held) :
            /\ held' = DropKey(held, k)
            /\ writes' = Append(queue, [event |-> Revoked(k), rest |-> keys \ {k}])

Reclaim ==
    /\ Admitted
    /\ ExpiredKeys # {}
    /\ Sweep(ExpiredKeys, writes)
    /\ UNCHANGED <<record, manifest, expired, log, crashes, emitFaults, early>>

----------------------------------------------------------------------------
(* The append at the head of the queue is done and its handler goes on.    *)

Landed(type) ==
    /\ writes # <<>>
    /\ Head(writes).event.type = type
    /\ log' = Append(log, Head(writes).event)
    /\ UNCHANGED <<crashes, emitFaults, early>>

\* The rest of submit, over whatever the record says by now.
RequestedLogged ==
    /\ Landed("approval.requested")
    /\ LET w == Head(writes)
           r == w.event.req
       IN  IF r \in AutoRequest
           THEN Issue(r, w.before, Tail(writes))
           ELSE Set(r, "pending") /\ writes' = Tail(writes) /\ UNCHANGED <<held, expired>>
    /\ UNCHANGED manifest

\* emitEscalationGrants: one event per grant of the snapshot the earlier
\* manifest did not have, then the snapshot becomes the manifest.
LogGrants(grants, snap) ==
    IF grants = {}
    THEN manifest' = snap /\ writes' = Tail(writes)
    ELSE /\ \E g \in grants :
              writes' = Append(Tail(writes), [event |-> Granted(g), rest |-> grants \ {g},
                                              snap |-> snap])
         /\ UNCHANGED manifest

NewGrants(snap, before) ==
    {g \in snap : g.key \notin Keys(before) /\ g.source # BaselineSource}

DecidedLogged ==
    /\ Landed("approval.decided")
    /\ LET w == Head(writes)
       IN  IF w.event.status = "granted"
           THEN LogGrants(NewGrants(w.snap, w.before), w.snap)
           ELSE writes' = Tail(writes) /\ UNCHANGED manifest
    /\ UNCHANGED <<record, held, expired>>

GrantedLogged ==
    /\ Landed("grant.granted")
    /\ LogGrants(Head(writes).rest, Head(writes).snap)
    /\ UNCHANGED <<record, held, expired>>

\* syncRevoke, then the sweep goes on.
RevokedLogged ==
    /\ Landed("grant.revoked")
    /\ manifest' = DropKey(manifest, Head(writes).event.key)
    /\ Sweep(Head(writes).rest, Tail(writes))
    /\ UNCHANGED <<record, expired>>

Logged == RequestedLogged \/ DecidedLogged \/ GrantedLogged \/ RevokedLogged

\* The append throws and its handler with it; submit takes its record back.
EmitThrows ==
    /\ writes # <<>>
    /\ emitFaults < MaxEmitFaults
    /\ emitFaults' = emitFaults + 1
    /\ LET e == Head(writes).event
       IN  record' = IF e.type = "approval.requested"
                     THEN [record EXCEPT ![e.req] = "none"] ELSE record
    /\ writes' = Tail(writes)
    /\ UNCHANGED <<held, manifest, expired, log, crashes, early>>

\* The append under way may or may not have reached the disk.
CrashRestart ==
    /\ crashes < MaxCrashes
    /\ crashes' = crashes + 1
    /\ \/ UNCHANGED log
       \/ writes # <<>> /\ log' = Append(log, Head(writes).event)
    /\ record' = RecordIn(log')
    /\ held' = HeldIn(log')
    /\ manifest' = ManifestIn(log')
    /\ writes' = <<>>
    /\ UNCHANGED <<expired, emitFaults, early>>

----------------------------------------------------------------------------

Next ==
    \/ \E r \in Request : Submit(r) \/ Approve(r) \/ Deny(r) \/ Expire(r)
    \/ Reclaim \/ Logged \/ EmitThrows \/ CrashRestart

Spec == Init /\ [][Next]_vars

\* The reclaim timer keeps firing, and an append returns or throws.
FairSpec == Spec /\ WF_vars(Reclaim) /\ WF_vars(Logged)

----------------------------------------------------------------------------
Quiet == writes = <<>>

DecisionsOf(r) == {i \in DOMAIN log : log[i].type = "approval.decided" /\ log[i].req = r}

\* A request that is not decided while it is being submitted has one decision
\* in the audit log for all time, across failed appends, crashes and restarts.
DecidedOnce == \A r \in Request \ early : Cardinality(DecisionsOf(r)) <= 1

\* board.ts:110-112: the record that submit sets before its first await leaves
\* no window for duplicate approval events, whenever the decision comes.
NeverDecidedTwice == \A r \in Request : Cardinality(DecisionsOf(r)) <= 1

\* As long as the log takes every append: the log shows an approval before
\* each grant that escalates, and what is denied holds no grant, now or after a
\* restart.
GrantsFollowDecisions ==
    emitFaults = 0 =>
        /\ \A i \in DOMAIN log :
              log[i].type = "grant.granted" /\ log[i].grant.source # BaselineSource =>
                  \E j \in 1..(i - 1) : log[j] = Decided(log[i].grant.source, "granted")
        /\ \A r \in Request \ early : record[r] = "denied" => GrantOf(r) \notin held

\* With nothing under way, a restart would rebuild the board it replaces.
BoardSurvivesRestart ==
    Quiet /\ emitFaults = 0 /\ early = {} => RecordIn(log) = record

\* docs/neoba-design-v0.2.md:219: a grant whose ttl is over is taken back, even
\* when a sweep fails half-way or the daemon restarts.
ExpiredIsReclaimed ==
    \A r \in Request : (r \in expired /\ GrantOf(r) \in held) ~> (GrantOf(r) \notin held)
=============================================================================
