---------------------------- MODULE EventStream ----------------------------
(***************************************************************************)
(* GET /events/stream: handleEventStream of daemon/src/daemon/http.ts over *)
(* append, replay and onEvent of events/log.ts.                            *)
(*                                                                         *)
(* A stream subscribes, replays the log, shard by shard, and then goes on  *)
(* with what is published. The tasks of one shard run one at a time, so    *)
(* an append is one step, with what it publishes, and so is the load of a  *)
(* shard; what is loaded is sent event by event, and the rest of the       *)
(* daemon runs in between.                                                 *)
(*                                                                         *)
(* Bound: MaxEvents events.                                                *)
(***************************************************************************)
EXTENDS Documents, SequencesExt

CONSTANTS Shards, Owners, MaxEvents

VARIABLES shardFiles,  \* shard -> sequence of [no, owner]
          appended,    \* events appended so far
          viewer,      \* whose events the stream shows; Absent shows all
          stage,       \* "closed", "listing", "replaying" or "live"
          subscribed,
          toLoad,      \* shards that are still to be loaded
          loaded,      \* the loaded events that are still to be sent
          seen, sent,
          replayBroke  \* history: a shard could not be read

vars == <<shardFiles, appended, viewer, stage, subscribed, toLoad, loaded, seen, sent,
          replayBroke>>

Init ==
    /\ shardFiles = [s \in Shards |-> <<>>] /\ appended = 0
    /\ viewer = Absent /\ stage = "closed" /\ subscribed = FALSE
    /\ toLoad = {} /\ loaded = <<>> /\ seen = {} /\ sent = <<>> /\ replayBroke = FALSE

InScope(e) == viewer \in {Absent, e.owner}

\* An event in scope is sent unless it was sent before.
Send(e) ==
    IF InScope(e) /\ e.no \notin seen
    THEN sent' = Append(sent, e.no) /\ seen' = seen \cup {e.no}
    ELSE UNCHANGED <<sent, seen>>

AppendEvent(shard, owner) ==
    /\ appended < MaxEvents
    /\ appended' = appended + 1
    /\ LET e == [no |-> appended', owner |-> owner]
       IN  /\ shardFiles' = [shardFiles EXCEPT ![shard] = Append(@, e)]
           /\ IF subscribed THEN Send(e) ELSE UNCHANGED <<sent, seen>>
    /\ UNCHANGED <<viewer, stage, subscribed, toLoad, loaded, replayBroke>>

\* Faulty variant: the stream subscribes when the replay is over.
Open_Late(who) ==
    /\ stage = "closed" /\ sent = <<>>
    /\ viewer' = who
    /\ stage' = "listing"
    /\ UNCHANGED <<shardFiles, appended, subscribed, toLoad, loaded, seen, sent, replayBroke>>

\* The stream subscribes before it reads anything.
Open(who) ==
    /\ stage = "closed" /\ sent = <<>>
    /\ viewer' = who
    /\ stage' = "listing"
    /\ subscribed' = TRUE
    /\ UNCHANGED <<shardFiles, appended, toLoad, loaded, seen, sent, replayBroke>>

\* The shards of this moment; one that comes later is heard of live.
ListShards ==
    /\ stage = "listing"
    /\ stage' = "replaying"
    /\ toLoad' = {s \in Shards : shardFiles[s] # <<>>}
    /\ UNCHANGED <<shardFiles, appended, viewer, subscribed, loaded, seen, sent, replayBroke>>

LoadShard(s) ==
    /\ stage = "replaying" /\ loaded = <<>> /\ s \in toLoad
    /\ toLoad' = toLoad \ {s}
    /\ loaded' = shardFiles[s]
    /\ UNCHANGED <<shardFiles, appended, viewer, stage, subscribed, seen, sent, replayBroke>>

ReplayEvent ==
    /\ stage = "replaying" /\ loaded # <<>>
    /\ Send(Head(loaded))
    /\ loaded' = Tail(loaded)
    /\ UNCHANGED <<shardFiles, appended, viewer, stage, subscribed, toLoad, replayBroke>>

\* The replay is over, or a shard could not be read: the stream goes on live,
\* and forgets what it sent.
ReplayEnds ==
    /\ stage = "replaying" /\ loaded = <<>>
    /\ replayBroke' = (toLoad # {})
    /\ stage' = "live"
    /\ toLoad' = {} /\ seen' = {}
    /\ UNCHANGED <<shardFiles, appended, viewer, subscribed, loaded, sent>>

\* The reader goes away, at any time.
Close ==
    /\ stage # "closed" /\ subscribed
    /\ stage' = "closed" /\ subscribed' = FALSE
    /\ toLoad' = {} /\ loaded' = <<>> /\ seen' = {} /\ sent' = <<>> /\ replayBroke' = FALSE
    /\ UNCHANGED <<shardFiles, appended, viewer>>

Next ==
    \/ \E shard \in Shards, owner \in Owners : AppendEvent(shard, owner)
    \/ \E who \in Owners \cup {Absent} : Open(who)
    \/ ListShards \/ (\E s \in Shards : LoadShard(s)) \/ ReplayEvent \/ ReplayEnds \/ Close

Spec == Init /\ [][Next]_vars

----------------------------------------------------------------------------
(* Properties *)

\* Whatever is appended while the log is replayed: a reader gets no event
\* twice, none of another owner, and, once the replay is over without an error,
\* every event there is (http.ts:343-350).
EachEventOnce ==
    LET mine == {e.no : e \in {f \in UNION {Range(shardFiles[s]) : s \in Shards} : InScope(f)}}
    IN  /\ IsInjective(sent)
        /\ Range(sent) \subseteq mine
        /\ stage = "live" /\ ~replayBroke => Range(sent) = mine
=============================================================================
