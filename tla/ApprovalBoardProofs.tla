------------------------ MODULE ApprovalBoardProofs ------------------------
(***************************************************************************)
(* The board decides each request once, grants only what was approved and  *)
(* is rebuilt by a restart as it was, for every set of requests and keys,  *)
(* every policy, and any number of restarts and refused appends.           *)
(*                                                                         *)
(* Each request is at one point of one life (Life): what is in memory, the *)
(* append about it that waits, if any, and what the log has of it fit      *)
(* together. The three replays of a restart are folds over the log; the    *)
(* lemmas of Folding say what one more event does to them. Grants are held *)
(* only when their approval is in the log or waits in the queue before     *)
(* whatever logs them (GrantsInv).                                         *)
(***************************************************************************)
EXTENDS ApprovalBoard, FiniteSetTheorems, SequenceTheorems, TLAPS

OfRecords == INSTANCE Folding WITH Op <- ReplayRecord, Base <- NoRecords
OfHeld == INSTANCE Folding WITH Op <- ReplayHeld, Base <- {}
OfManifest == INSTANCE Folding WITH Op <- ReplayManifest, Base <- {}

----------------------------------------------------------------------------
(* Types.                                                                  *)

RequestedEvent == {Requested(r) : r \in Request}
ApprovedEvent == {Decided(r, "granted") : r \in Request}
DeniedEvent == {Decided(r, "denied") : r \in Request}
GrantedEvent == {Granted(g) : g \in Grants}
RevokedEvent == {Revoked(k) : k \in Key}
Event == RequestedEvent \cup ApprovedEvent \cup DeniedEvent \cup GrantedEvent \cup RevokedEvent

Write ==
    [event : RequestedEvent, before : SUBSET Grants]
    \cup [event : ApprovedEvent, snap : SUBSET Grants, before : SUBSET Grants]
    \cup [event : DeniedEvent]
    \cup [event : GrantedEvent, rest : SUBSET Grants, snap : SUBSET Grants]
    \cup [event : RevokedEvent, rest : SUBSET Key]

BoardTypeOK ==
    /\ record \in [Request -> Status]
    /\ held \subseteq Grants /\ manifest \subseteq Grants /\ expired \subseteq Request
    /\ writes \in Seq(Write) /\ log \in Seq(Event)
    /\ crashes \in Nat /\ emitFaults \in Nat /\ early \subseteq Request

\* What kind of event an event of a type is.
LEMMA EventCases ==
    ASSUME NEW e \in Event
    PROVE  /\ e.type \in {"approval.requested", "approval.decided", "grant.granted", "grant.revoked"}
           /\ e.type = "approval.requested" => e.req \in Request /\ e = Requested(e.req)
           /\ e.type = "approval.decided" =>
                  /\ e.req \in Request /\ e.status \in {"granted", "denied"}
                  /\ e = Decided(e.req, e.status)
           /\ e.type = "grant.granted" => e.grant \in Grants /\ e = Granted(e.grant)
           /\ e.type = "grant.revoked" => e.key \in Key /\ e = Revoked(e.key)
  BY DEF Event, RequestedEvent, ApprovedEvent, DeniedEvent, GrantedEvent, RevokedEvent,
         Requested, Decided, Granted, Revoked

\* What the data of an append is, by the event it appends.
LEMMA WriteCases ==
    ASSUME NEW w \in Write
    PROVE  /\ w.event \in Event
           /\ w.event.type = "approval.requested" =>
                  w.event \in RequestedEvent /\ w.before \subseteq Grants
           /\ w.event.type = "approval.decided" /\ w.event.status = "granted" =>
                  w.event \in ApprovedEvent /\ w.before \subseteq Grants /\ w.snap \subseteq Grants
           /\ w.event.type = "grant.granted" =>
                  w.event \in GrantedEvent /\ w.rest \subseteq Grants /\ w.snap \subseteq Grants
           /\ w.event.type = "grant.revoked" => w.event \in RevokedEvent /\ w.rest \subseteq Key
  BY DEF Write, Event, RequestedEvent, ApprovedEvent, DeniedEvent, GrantedEvent, RevokedEvent,
         Requested, Decided, Granted, Revoked

\* The grants of the requests, and what adding and dropping leaves of a set of them.
LEMMA GrantFacts ==
    /\ \A r \in Request : GrantOf(r) \in Grants /\ keyOf[r] \in Key
    /\ \A S \in SUBSET Grants : Keys(S) \subseteq Key
    /\ \A S \in SUBSET Grants, g \in Grants : AddGrant(S, g) \subseteq Grants
    /\ \A S \in SUBSET Grants : \A k : DropKey(S, k) \subseteq S
  BY BoardAssumption DEF GrantOf, Grants, Keys, AddGrant, DropKey

----------------------------------------------------------------------------
(* Replays.                                                                *)

\* One step of each replay keeps the type of what it rebuilds.
LEMMA ReplayFacts ==
    /\ \A rec \in [Request -> Status], e \in Event : ReplayRecord(rec, e) \in [Request -> Status]
    /\ \A S \in SUBSET Grants, e \in Event : ReplayHeld(S, e) \subseteq Grants
    /\ \A S \in SUBSET Grants, e \in Event : ReplayManifest(S, e) \subseteq Grants
  <1>1. ASSUME NEW rec \in [Request -> Status], NEW e \in Event
        PROVE  ReplayRecord(rec, e) \in [Request -> Status]
    BY EventCases DEF ReplayRecord, Status
  <1>2. ASSUME NEW S \in SUBSET Grants, NEW e \in Event
        PROVE  ReplayHeld(S, e) \subseteq Grants
    BY EventCases, GrantFacts DEF ReplayHeld
  <1>3. ASSUME NEW S \in SUBSET Grants, NEW e \in Event
        PROVE  ReplayManifest(S, e) \subseteq Grants
    BY EventCases, GrantFacts DEF ReplayManifest
  <1> QED
    BY <1>1, <1>2, <1>3

\* The folds of the instances are those of the board.
LEMMA RecordFold == ASSUME NEW l PROVE RecordIn(l) = OfRecords!FoldLeft(ReplayRecord, NoRecords, l)
  BY Zenon DEF RecordIn, FoldLeft, OfRecords!FoldLeft, MapThenFoldSet, OfRecords!MapThenFoldSet,
               Max, OfRecords!Max

\* The same for the grants,
LEMMA HeldFold == ASSUME NEW l PROVE HeldIn(l) = OfHeld!FoldLeft(ReplayHeld, {}, l)
  BY Zenon DEF HeldIn, FoldLeft, OfHeld!FoldLeft, MapThenFoldSet, OfHeld!MapThenFoldSet,
               Max, OfHeld!Max

\* and for the manifest.
LEMMA ManifestFold ==
    ASSUME NEW l PROVE ManifestIn(l) = OfManifest!FoldLeft(ReplayManifest, {}, l)
  BY Zenon DEF ManifestIn, FoldLeft, OfManifest!FoldLeft, MapThenFoldSet, OfManifest!MapThenFoldSet,
               Max, OfManifest!Max

\* One more event in the log is one more step of each replay.
LEMMA ReplayAppend ==
    ASSUME NEW l \in Seq(Event), NEW e \in Event
    PROVE  /\ RecordIn(Append(l, e)) = ReplayRecord(RecordIn(l), e)
           /\ HeldIn(Append(l, e)) = ReplayHeld(HeldIn(l), e)
           /\ ManifestIn(Append(l, e)) = ReplayManifest(ManifestIn(l), e)
  <1>1. RecordIn(Append(l, e)) = ReplayRecord(RecordIn(l), e)
    BY RecordFold, OfRecords!FoldLeftAppend, Zenon
  <1>2. HeldIn(Append(l, e)) = ReplayHeld(HeldIn(l), e)
    BY HeldFold, OfHeld!FoldLeftAppend, Zenon
  <1>3. ManifestIn(Append(l, e)) = ReplayManifest(ManifestIn(l), e)
    BY ManifestFold, OfManifest!FoldLeftAppend, Zenon
  <1> QED
    BY <1>1, <1>2, <1>3, Zenon

----------------------------------------------------------------------------
(* Type correctness.                                                       *)

\* The head of the queue and the rest of it.
LEMMA QueueFacts ==
    ASSUME BoardTypeOK, writes # <<>>
    PROVE  Head(writes) \in Write /\ Tail(writes) \in Seq(Write)
  BY DEF BoardTypeOK

\* Approving, wherever it is called from, keeps the types.
LEMMA IssueTyped ==
    ASSUME BoardTypeOK, NEW r \in Request, NEW before \in SUBSET Grants,
           NEW queue \in Seq(Write), Issue(r, before, queue)
    PROVE  /\ record' \in [Request -> Status] /\ held' \subseteq Grants
           /\ writes' \in Seq(Write) /\ expired' \subseteq Request
  <1>1. held' \subseteq Grants
    BY GrantFacts DEF BoardTypeOK, Issue
  <1>2. [event |-> Decided(r, "granted"), snap |-> held', before |-> before] \in Write
    BY <1>1 DEF Write, ApprovedEvent
  <1>3. writes' \in Seq(Write)
    BY <1>2 DEF Issue
  <1> QED
    BY <1>1, <1>3 DEF BoardTypeOK, Issue, Set, Status

\* So does a sweep,
LEMMA SweepTyped ==
    ASSUME BoardTypeOK, NEW keys \in SUBSET Key, NEW queue \in Seq(Write), Sweep(keys, queue)
    PROVE  held' \subseteq Grants /\ writes' \in Seq(Write)
  <1>1. CASE keys \cap Keys(held) = {}
    BY <1>1 DEF Sweep, BoardTypeOK
  <1>2. CASE keys \cap Keys(held) # {}
    <2>1. PICK k \in keys \cap Keys(held) :
              /\ held' = DropKey(held, k)
              /\ writes' = Append(queue, [event |-> Revoked(k), rest |-> keys \ {k}])
      BY <1>2 DEF Sweep
    <2>2. [event |-> Revoked(k), rest |-> keys \ {k}] \in Write
      BY DEF Write, RevokedEvent
    <2> QED
      BY <2>1, <2>2, GrantFacts DEF BoardTypeOK
  <1> QED
    BY <1>1, <1>2

\* and so does the logging of grants.
LEMMA LogGrantsTyped ==
    ASSUME BoardTypeOK, writes # <<>>, NEW grants \in SUBSET Grants, NEW snap \in SUBSET Grants,
           LogGrants(grants, snap)
    PROVE  manifest' \subseteq Grants /\ writes' \in Seq(Write)
  <1>0. Tail(writes) \in Seq(Write)
    BY QueueFacts
  <1>1. CASE grants = {}
    BY <1>0, <1>1 DEF LogGrants
  <1>2. CASE grants # {}
    <2>1. PICK g \in grants :
              writes' = Append(Tail(writes), [event |-> Granted(g), rest |-> grants \ {g},
                                              snap |-> snap])
      BY <1>2 DEF LogGrants
    <2>2. [event |-> Granted(g), rest |-> grants \ {g}, snap |-> snap] \in Write
      BY DEF Write, GrantedEvent
    <2> QED
      BY <1>0, <1>2, <2>1, <2>2 DEF LogGrants, BoardTypeOK
  <1> QED
    BY <1>1, <1>2

\* What an append that is done has to be of.
LEMMA LandedFacts ==
    ASSUME BoardTypeOK, NEW type, Landed(type)
    PROVE  /\ writes # <<>> /\ Head(writes) \in Write /\ Tail(writes) \in Seq(Write)
           /\ Head(writes).event \in Event /\ Head(writes).event.type = type
           /\ log' = Append(log, Head(writes).event) /\ log' \in Seq(Event)
           /\ crashes' = crashes /\ emitFaults' = emitFaults /\ early' = early
  <1>1. writes # <<>> /\ Head(writes).event.type = type
        /\ log' = Append(log, Head(writes).event)
        /\ crashes' = crashes /\ emitFaults' = emitFaults /\ early' = early
    BY DEF Landed
  <1>2. Head(writes) \in Write /\ Tail(writes) \in Seq(Write)
    BY <1>1, QueueFacts
  <1>3. Head(writes).event \in Event
    BY <1>2, WriteCases
  <1>4. log \in Seq(Event)
    BY DEF BoardTypeOK
  <1> QED
    BY <1>1, <1>2, <1>3, <1>4

\* The calls keep the types,
LEMMA CallsTyped ==
    ASSUME BoardTypeOK, NEW r \in Request, Submit(r) \/ Approve(r) \/ Deny(r) \/ Expire(r)
    PROVE  BoardTypeOK'
  <1>1. CASE Submit(r)
    <2>1. [event |-> Requested(r), before |-> manifest] \in Write
      BY DEF Write, RequestedEvent, BoardTypeOK
    <2>2. writes' \in Seq(Write)
      BY <1>1, <2>1 DEF Submit, BoardTypeOK
    <2> QED
      BY <1>1, <2>2 DEF Submit, BoardTypeOK, Set, Status
  <1>2. CASE Approve(r)
    <2>1. Issue(r, manifest, writes) /\ UNCHANGED <<manifest, log, crashes, emitFaults>>
          /\ early' \subseteq Request
      BY <1>2 DEF Approve, NoteEarly, BoardTypeOK
    <2>2. manifest \in SUBSET Grants /\ writes \in Seq(Write)
      BY DEF BoardTypeOK
    <2>3. /\ record' \in [Request -> Status] /\ held' \subseteq Grants
          /\ writes' \in Seq(Write) /\ expired' \subseteq Request
      BY <2>1, <2>2, IssueTyped
    <2> QED
      BY <2>1, <2>3 DEF BoardTypeOK
  <1>3. CASE Deny(r)
    <2>1. [event |-> Decided(r, "denied")] \in Write
      BY DEF Write, DeniedEvent
    <2>2. writes' \in Seq(Write)
      BY <1>3, <2>1 DEF Deny, BoardTypeOK
    <2> QED
      BY <1>3, <2>2 DEF Deny, BoardTypeOK, Set, Status, NoteEarly
  <1>4. CASE Expire(r)
    BY <1>4 DEF Expire, BoardTypeOK
  <1> QED
    BY <1>1, <1>2, <1>3, <1>4

\* the timer does,
LEMMA ReclaimTyped == ASSUME BoardTypeOK, Reclaim PROVE BoardTypeOK'
  <1>1. Sweep(ExpiredKeys, writes)
        /\ UNCHANGED <<record, manifest, expired, log, crashes, emitFaults, early>>
    BY DEF Reclaim
  <1>2. ExpiredKeys \in SUBSET Key /\ writes \in Seq(Write)
    BY DEF ExpiredKeys, BoardTypeOK, Grants
  <1>3. held' \subseteq Grants /\ writes' \in Seq(Write)
    BY <1>1, <1>2, SweepTyped
  <1> QED
    BY <1>1, <1>3 DEF BoardTypeOK

\* what goes on when an append has landed does,
LEMMA LoggedTyped == ASSUME BoardTypeOK, Logged PROVE BoardTypeOK'
  <1>1. CASE RequestedLogged
    <2> DEFINE w == Head(writes)
               r == w.event.req
    <2>1. Landed("approval.requested") /\ manifest' = manifest
      BY <1>1 DEF RequestedLogged
    <2>2. /\ w \in Write /\ Tail(writes) \in Seq(Write) /\ log' \in Seq(Event)
          /\ crashes' = crashes /\ emitFaults' = emitFaults /\ early' = early
          /\ w.event \in Event /\ w.event.type = "approval.requested"
      BY <2>1, LandedFacts
    <2>3. r \in Request /\ w.before \in SUBSET Grants
      BY <2>2, EventCases, WriteCases
    <2>4. CASE Issue(r, w.before, Tail(writes))
      <3>1. /\ record' \in [Request -> Status] /\ held' \subseteq Grants
            /\ writes' \in Seq(Write) /\ expired' \subseteq Request
        BY <2>2, <2>3, <2>4, IssueTyped
      <3> QED
        BY <2>1, <2>2, <3>1 DEF BoardTypeOK
    <2>5. CASE Set(r, "pending") /\ writes' = Tail(writes) /\ UNCHANGED <<held, expired>>
      BY <2>1, <2>2, <2>3, <2>5 DEF BoardTypeOK, Set, Status
    <2> QED
      BY <1>1, <2>4, <2>5 DEF RequestedLogged
  <1>2. CASE DecidedLogged
    <2> DEFINE w == Head(writes)
    <2>1. Landed("approval.decided") /\ UNCHANGED <<record, held, expired>>
      BY <1>2 DEF DecidedLogged
    <2>2. /\ writes # <<>> /\ w \in Write /\ Tail(writes) \in Seq(Write) /\ log' \in Seq(Event)
          /\ crashes' = crashes /\ emitFaults' = emitFaults /\ early' = early
          /\ w.event.type = "approval.decided"
      BY <2>1, LandedFacts
    <2>3. CASE w.event.status = "granted"
      <3>1. w.snap \in SUBSET Grants /\ NewGrants(w.snap, w.before) \in SUBSET Grants
        BY <2>2, <2>3, WriteCases DEF NewGrants
      <3>2. LogGrants(NewGrants(w.snap, w.before), w.snap)
        BY <1>2, <2>3 DEF DecidedLogged
      <3>3. manifest' \subseteq Grants /\ writes' \in Seq(Write)
        BY <2>2, <3>1, <3>2, LogGrantsTyped
      <3> QED
        BY <2>1, <2>2, <3>3 DEF BoardTypeOK
    <2>4. CASE w.event.status # "granted"
      <3>1. writes' = Tail(writes) /\ UNCHANGED manifest
        BY <1>2, <2>4 DEF DecidedLogged
      <3> QED
        BY <2>1, <2>2, <3>1 DEF BoardTypeOK
    <2> QED
      BY <2>3, <2>4
  <1>3. CASE GrantedLogged
    <2>1. Landed("grant.granted") /\ UNCHANGED <<record, held, expired>>
          /\ LogGrants(Head(writes).rest, Head(writes).snap)
      BY <1>3 DEF GrantedLogged
    <2>2. /\ writes # <<>> /\ Head(writes) \in Write /\ log' \in Seq(Event)
          /\ crashes' = crashes /\ emitFaults' = emitFaults /\ early' = early
          /\ Head(writes).event.type = "grant.granted"
      BY <2>1, LandedFacts
    <2>3. Head(writes).rest \in SUBSET Grants /\ Head(writes).snap \in SUBSET Grants
      BY <2>2, WriteCases
    <2>4. manifest' \subseteq Grants /\ writes' \in Seq(Write)
      BY <2>1, <2>2, <2>3, LogGrantsTyped
    <2> QED
      BY <2>1, <2>2, <2>4 DEF BoardTypeOK
  <1>4. CASE RevokedLogged
    <2>1. Landed("grant.revoked") /\ UNCHANGED <<record, expired>>
          /\ manifest' = DropKey(manifest, Head(writes).event.key)
          /\ Sweep(Head(writes).rest, Tail(writes))
      BY <1>4 DEF RevokedLogged
    <2>2. /\ Head(writes) \in Write /\ Tail(writes) \in Seq(Write) /\ log' \in Seq(Event)
          /\ crashes' = crashes /\ emitFaults' = emitFaults /\ early' = early
          /\ Head(writes).event.type = "grant.revoked"
      BY <2>1, LandedFacts
    <2>3. Head(writes).rest \in SUBSET Key
      BY <2>2, WriteCases
    <2>4. held' \subseteq Grants /\ writes' \in Seq(Write)
      BY <2>1, <2>2, <2>3, SweepTyped
    <2>5. manifest' \subseteq Grants
      BY <2>1 DEF DropKey, BoardTypeOK
    <2> QED
      BY <2>1, <2>2, <2>4, <2>5 DEF BoardTypeOK
  <1> QED
    BY <1>1, <1>2, <1>3, <1>4 DEF Logged

\* what goes on when one throws does,
LEMMA EmitThrowsTyped == ASSUME BoardTypeOK, EmitThrows PROVE BoardTypeOK'
  <1>1. /\ writes # <<>> /\ emitFaults' = emitFaults + 1 /\ writes' = Tail(writes)
        /\ record' = IF Head(writes).event.type = "approval.requested"
                     THEN [record EXCEPT ![Head(writes).event.req] = "none"] ELSE record
        /\ UNCHANGED <<held, manifest, expired, log, crashes, early>>
    BY DEF EmitThrows
  <1>2. Head(writes) \in Write /\ Tail(writes) \in Seq(Write)
    BY <1>1, QueueFacts
  <1>3. record' \in [Request -> Status]
    BY <1>1 DEF BoardTypeOK, Status
  <1> QED
    BY <1>1, <1>2, <1>3 DEF BoardTypeOK

\* Whatever is in the log, a restart rebuilds a board from it.
LEMMA RebuiltTyped ==
    ASSUME NEW l \in Seq(Event)
    PROVE  /\ RecordIn(l) \in [Request -> Status]
           /\ HeldIn(l) \subseteq Grants /\ ManifestIn(l) \subseteq Grants
  <1>1. NoRecords \in [Request -> Status]
    BY DEF NoRecords, Status
  <1>2. RecordIn(l) \in [Request -> Status]
    BY <1>1, ReplayFacts, RecordFold, OfRecords!FoldLeftStays, Zenon
  <1>3. {} \in SUBSET Grants
    OBVIOUS
  <1>4. \A S \in SUBSET Grants, e \in Event :
            ReplayHeld(S, e) \in SUBSET Grants /\ ReplayManifest(S, e) \in SUBSET Grants
    BY ReplayFacts
  <1>5. HeldIn(l) \in SUBSET Grants
    BY <1>3, <1>4, HeldFold, OfHeld!FoldLeftStays, Zenon
  <1>6. ManifestIn(l) \in SUBSET Grants
    BY <1>3, <1>4, ManifestFold, OfManifest!FoldLeftStays, Zenon
  <1> QED
    BY <1>2, <1>5, <1>6

\* and so does a restart.
LEMMA CrashRestartTyped == ASSUME BoardTypeOK, CrashRestart PROVE BoardTypeOK'
  <1>1. log' \in Seq(Event)
    <2>1. CASE UNCHANGED log
      BY <2>1 DEF BoardTypeOK
    <2>2. CASE writes # <<>> /\ log' = Append(log, Head(writes).event)
      <3>1. Head(writes).event \in Event
        BY <2>2, QueueFacts, WriteCases
      <3> QED
        BY <2>2, <3>1 DEF BoardTypeOK
    <2> QED
      BY <2>1, <2>2 DEF CrashRestart
  <1>2. /\ record' = RecordIn(log') /\ held' = HeldIn(log') /\ manifest' = ManifestIn(log')
        /\ writes' = <<>> /\ crashes' = crashes + 1 /\ UNCHANGED <<expired, emitFaults, early>>
    BY DEF CrashRestart
  <1>3. /\ RecordIn(log') \in [Request -> Status]
        /\ HeldIn(log') \subseteq Grants /\ ManifestIn(log') \subseteq Grants
    BY <1>1, RebuiltTyped, Zenon
  <1> QED
    BY <1>1, <1>2, <1>3 DEF BoardTypeOK

\* The log begins with the grants of the preset, and nothing is rebuilt from them
\* but the manifest.
LEMMA InitFacts ==
    ASSUME Init
    PROVE  /\ BoardTypeOK
           /\ \A i \in DOMAIN log : \E g \in BaselineGrants : log[i] = Granted(g)
           /\ RecordIn(log) = NoRecords /\ HeldIn(log) = {}
  <1> DEFINE Preset == {Granted(g) : g \in BaselineGrants}
  <1>1. IsFiniteSet(BaselineGrants)
    <2> DEFINE toGrant == [k \in Baseline |-> [key |-> k, source |-> BaselineSource]]
    <2>1. toGrant \in Surjection(Baseline, BaselineGrants)
      BY DEF Surjection, BaselineGrants
    <2> QED
      BY <2>1, BoardAssumption, FS_Surjection
  <1>2. IsFiniteSet(Preset)
    <2> DEFINE toEvent == [g \in BaselineGrants |-> Granted(g)]
    <2>1. toEvent \in Surjection(BaselineGrants, Preset)
      BY DEF Surjection
    <2> QED
      BY <1>1, <2>1, FS_Surjection
  <1>3. PICK f : f \in Bijection(1..Cardinality(Preset), Preset) /\ Cardinality(Preset) \in Nat
    <2> HIDE DEF Preset
    <2> QED
      BY <1>2, FS_CardinalityType DEF ExistsBijection
  <1>4. SetToSeq(Preset) \in [1..Cardinality(Preset) -> Preset]
    <2> HIDE DEF Preset
    <2>1. f \in [1..Cardinality(Preset) -> Preset] /\ IsInjective(f)
      BY <1>3 DEF Bijection, Injection, IsInjective
    <2> QED
      BY <2>1, Zenon DEF SetToSeq
  <1>5. Preset \subseteq GrantedEvent /\ BaselineGrants \subseteq Grants
    BY BoardAssumption DEF BaselineGrants, Grants, GrantedEvent
  <1>6. log \in Seq(Preset)
    <2>1. log = SetToSeq(Preset)
      BY DEF Init
    <2> HIDE DEF Preset
    <2> QED
      BY <1>3, <1>4, <2>1
  <1>7. log \in Seq(Event)
    <2>1. Preset \subseteq Event
      BY <1>5 DEF Event
    <2> HIDE DEF Preset
    <2> QED
      BY <1>6, <2>1
  <1>8. BoardTypeOK
    BY <1>5, <1>7 DEF Init, BoardTypeOK, NoRecords, Status
  <1>9. \A i \in DOMAIN log : log[i] \in Preset
    <2> HIDE DEF Preset
    <2> QED
      BY <1>6
  <1>10. \A e \in Preset : ReplayRecord(NoRecords, e) = NoRecords /\ ReplayHeld({}, e) = {}
    <2>1. ASSUME NEW g \in BaselineGrants
          PROVE  /\ ReplayRecord(NoRecords, Granted(g)) = NoRecords
                 /\ ReplayHeld({}, Granted(g)) = {}
      <3>1. Granted(g).type = "grant.granted" /\ Granted(g).grant = g /\ g.source = BaselineSource
        BY DEF Granted, BaselineGrants
      <3> QED
        BY <3>1 DEF ReplayRecord, ReplayHeld
    <2> QED
      BY <2>1
  <1>11. RecordIn(log) \in {NoRecords}
    <2> HIDE DEF Preset
    <2>1. NoRecords \in {NoRecords} /\ \A a \in {NoRecords}, e \in Preset : ReplayRecord(a, e) \in {NoRecords}
      BY <1>10
    <2> QED
      BY <1>6, <2>1, RecordFold, OfRecords!FoldLeftStays, Zenon
  <1>12. HeldIn(log) \in {{}}
    <2> HIDE DEF Preset
    <2>1. {} \in {{}} /\ \A a \in {{}}, e \in Preset : ReplayHeld(a, e) \in {{}}
      BY <1>10
    <2> QED
      BY <1>6, <2>1, HeldFold, OfHeld!FoldLeftStays, Zenon
  <1> QED
    BY <1>8, <1>9, <1>11, <1>12

\* Every step keeps the types.
LEMMA NextTyped == ASSUME BoardTypeOK, [Next]_vars PROVE BoardTypeOK'
  <1>1. CASE UNCHANGED vars
    BY <1>1 DEF vars, BoardTypeOK
  <1> QED
    BY <1>1, CallsTyped, ReclaimTyped, LoggedTyped, EmitThrowsTyped, CrashRestartTyped DEF Next

\* The board keeps its types, through every restart.
THEOREM BoardTyped == Spec => []BoardTypeOK
  <1>1. Init => BoardTypeOK
    BY InitFacts
  <1>2. BoardTypeOK /\ [Next]_vars => BoardTypeOK'
    BY NextTyped
  <1> QED
    BY <1>1, <1>2, PTL DEF Spec

----------------------------------------------------------------------------
(* The life of a request.                                                  *)

AboutEvents(r) == {Requested(r), Decided(r, "granted"), Decided(r, "denied")}
Decisions(r) == {Decided(r, "granted"), Decided(r, "denied")}

\* No append under way is about r; or one is, and appends e.
Idle(q, r) == \A i \in DOMAIN q : q[i].event \notin AboutEvents(r)
Single(q, r, e) ==
    \E i \in DOMAIN q :
        q[i].event = e /\ \A j \in DOMAIN q : q[j].event \in AboutEvents(r) => j = i

\* No decision of r is in the log; or one is.
Undecided(l, r) == \A i \in DOMAIN l : l[i] \notin Decisions(r)
DecidedIn(l, r, status) ==
    \E i \in DOMAIN l :
        l[i] = Decided(r, status) /\ \A j \in DOMAIN l : l[j] \in Decisions(r) => j = i

\* The stages of a request, by what the board holds of it, what a restart would
\* rebuild, what is in the log and what is on its way there.
Unknown(r) ==
    /\ record[r] = "none" /\ RecordIn(log)[r] = "none"
    /\ Undecided(log, r) /\ Idle(writes, r)
InSubmission(r) ==
    /\ record[r] = "pending" /\ RecordIn(log)[r] = "none"
    /\ Undecided(log, r) /\ Single(writes, r, Requested(r))
AwaitsDecision(r) ==
    /\ record[r] = "pending" /\ RecordIn(log)[r] = "pending"
    /\ Undecided(log, r) /\ Idle(writes, r)
IsDecided(r) ==
    /\ record[r] \in {"granted", "denied"} /\ RecordIn(log)[r] = "pending"
    /\ Undecided(log, r)
    /\ \/ Single(writes, r, Decided(r, record[r]))
       \/ emitFaults > 0 /\ Idle(writes, r)
DecisionLogged(r) ==
    /\ record[r] \in {"granted", "denied"} /\ RecordIn(log)[r] = record[r]
    /\ DecidedIn(log, r, record[r]) /\ Idle(writes, r)

Life(r) == Unknown(r) \/ InSubmission(r) \/ AwaitsDecision(r) \/ IsDecided(r) \/ DecisionLogged(r)

LifeInv == \A r \in Request \ early : Life(r)

\* The positions of a sequence that grows at its end.
LEMMA AppendPositions ==
    ASSUME NEW Elem, NEW s \in Seq(Elem), NEW e \in Elem
    PROVE  /\ \A i \in DOMAIN Append(s, e) : \/ i \in DOMAIN s /\ Append(s, e)[i] = s[i]
                                             \/ i = Len(s) + 1 /\ Append(s, e)[i] = e
           /\ \A i \in DOMAIN s : i \in DOMAIN Append(s, e) /\ Append(s, e)[i] = s[i] /\ i <= Len(s)
           /\ Len(s) + 1 \in DOMAIN Append(s, e) /\ Append(s, e)[Len(s) + 1] = e
           /\ Len(s) \in Nat /\ DOMAIN s \subseteq Nat
  OBVIOUS

\* The positions of a sequence that loses its head.
LEMMA TailPositions ==
    ASSUME NEW Elem, NEW s \in Seq(Elem), s # <<>>
    PROVE  /\ \A i \in DOMAIN Tail(s) : i + 1 \in DOMAIN s /\ Tail(s)[i] = s[i + 1] /\ i \in Nat \ {0}
           /\ \A i \in DOMAIN s : \/ i = 1 /\ s[i] = Head(s)
                                  \/ i - 1 \in DOMAIN Tail(s) /\ s[i] = Tail(s)[i - 1] /\ i \in Nat
           /\ 1 \in DOMAIN s /\ s[1] = Head(s)
  OBVIOUS

\* One more append under way, about another request or the first about this one.
LEMMA QueueAppend ==
    ASSUME NEW q \in Seq(Write), NEW w \in Write, NEW r \in Request
    PROVE  /\ Idle(q, r) /\ w.event \notin AboutEvents(r) => Idle(Append(q, w), r)
           /\ Idle(q, r) => Single(Append(q, w), r, w.event)
           /\ \A e : Single(q, r, e) /\ w.event \notin AboutEvents(r) => Single(Append(q, w), r, e)
  <1> DEFINE p == Append(q, w)
  <1>1. /\ \A i \in DOMAIN p : (i \in DOMAIN q /\ p[i] = q[i]) \/ (i = Len(q) + 1 /\ p[i] = w)
        /\ \A i \in DOMAIN q : i \in DOMAIN p /\ p[i] = q[i]
        /\ Len(q) + 1 \in DOMAIN p /\ p[Len(q) + 1] = w
    BY AppendPositions
  <1> HIDE DEF p
  <1>2. Idle(q, r) /\ w.event \notin AboutEvents(r) => Idle(p, r)
    BY <1>1 DEF Idle
  <1>3. Idle(q, r) => Single(p, r, w.event)
    BY <1>1 DEF Idle, Single
  <1>4. ASSUME NEW e, Single(q, r, e), w.event \notin AboutEvents(r) PROVE Single(p, r, e)
    <2>1. PICK i \in DOMAIN q :
              q[i].event = e /\ \A j \in DOMAIN q : q[j].event \in AboutEvents(r) => j = i
      BY <1>4 DEF Single
    <2>2. i \in DOMAIN p /\ p[i].event = e
      BY <1>1, <2>1
    <2>3. \A j \in DOMAIN p : p[j].event \in AboutEvents(r) => j = i
      BY <1>1, <1>4, <2>1
    <2> QED
      BY <2>2, <2>3 DEF Single
  <1> QED
    BY <1>2, <1>3, <1>4 DEF p

\* The queue without its head, which was about this request or about another.
LEMMA QueueTail ==
    ASSUME NEW q \in Seq(Write), q # <<>>, NEW r \in Request
    PROVE  /\ Idle(q, r) => Head(q).event \notin AboutEvents(r) /\ Idle(Tail(q), r)
           /\ \A e \in AboutEvents(r) : Single(q, r, e) =>
                  IF Head(q).event \in AboutEvents(r)
                  THEN Head(q).event = e /\ Idle(Tail(q), r)
                  ELSE Single(Tail(q), r, e)
  <1> DEFINE p == Tail(q)
             h == Head(q)
  <1>1. /\ \A i \in DOMAIN p : i + 1 \in DOMAIN q /\ p[i] = q[i + 1] /\ i \in Nat \ {0}
        /\ \A i \in DOMAIN q : \/ i = 1 /\ q[i] = h
                               \/ i - 1 \in DOMAIN p /\ q[i] = p[i - 1] /\ i \in Nat
        /\ 1 \in DOMAIN q /\ q[1] = h
    BY TailPositions
  <1> HIDE DEF p, h
  <1>2. Idle(q, r) => h.event \notin AboutEvents(r) /\ Idle(p, r)
    BY <1>1 DEF Idle
  <1>3. ASSUME NEW e \in AboutEvents(r), Single(q, r, e)
        PROVE  IF h.event \in AboutEvents(r) THEN h.event = e /\ Idle(p, r) ELSE Single(p, r, e)
    <2>1. PICK i \in DOMAIN q :
              q[i].event = e /\ \A j \in DOMAIN q : q[j].event \in AboutEvents(r) => j = i
      BY <1>3 DEF Single
    <2>2. CASE h.event \in AboutEvents(r)
      <3>1. i = 1 /\ h.event = e
        BY <1>1, <2>1, <2>2
      <3>2. \A j \in DOMAIN p : p[j].event \in AboutEvents(r) => j + 1 = 1
        BY <1>1, <2>1, <3>1
      <3>3. Idle(p, r)
        BY <1>1, <3>2 DEF Idle
      <3> QED
        BY <2>2, <3>1, <3>3
    <2>3. CASE h.event \notin AboutEvents(r)
      <3>1. i - 1 \in DOMAIN p /\ p[i - 1].event = e /\ i \in Nat
        BY <1>1, <1>3, <2>1, <2>3
      <3>2. \A j \in DOMAIN p : p[j].event \in AboutEvents(r) => j = i - 1
        BY SMTT(30), <1>1, <2>1, <3>1
      <3> QED
        BY <2>3, <3>1, <3>2 DEF Single
    <2> QED
      BY <2>2, <2>3
  <1> QED
    BY <1>2, <1>3 DEF p, h

\* One more event in the log, a decision about this request or none.
LEMMA LogAppend ==
    ASSUME NEW l \in Seq(Event), NEW e \in Event, NEW r \in Request
    PROVE  /\ Undecided(l, r) /\ e \notin Decisions(r) => Undecided(Append(l, e), r)
           /\ \A s : Undecided(l, r) /\ e = Decided(r, s) => DecidedIn(Append(l, e), r, s)
           /\ \A s : DecidedIn(l, r, s) /\ e \notin Decisions(r) => DecidedIn(Append(l, e), r, s)
  <1> DEFINE m == Append(l, e)
  <1>1. /\ \A i \in DOMAIN m : (i \in DOMAIN l /\ m[i] = l[i]) \/ (i = Len(l) + 1 /\ m[i] = e)
        /\ \A i \in DOMAIN l : i \in DOMAIN m /\ m[i] = l[i]
        /\ Len(l) + 1 \in DOMAIN m /\ m[Len(l) + 1] = e
    BY AppendPositions
  <1> HIDE DEF m
  <1>2. Undecided(l, r) /\ e \notin Decisions(r) => Undecided(m, r)
    BY <1>1 DEF Undecided
  <1>3. ASSUME NEW s, Undecided(l, r), e = Decided(r, s) PROVE DecidedIn(m, r, s)
    BY <1>1, <1>3 DEF Undecided, DecidedIn
  <1>4. ASSUME NEW s, DecidedIn(l, r, s), e \notin Decisions(r) PROVE DecidedIn(m, r, s)
    <2>1. PICK i \in DOMAIN l :
              l[i] = Decided(r, s) /\ \A j \in DOMAIN l : l[j] \in Decisions(r) => j = i
      BY <1>4 DEF DecidedIn
    <2>2. i \in DOMAIN m /\ m[i] = Decided(r, s)
      BY <1>1, <2>1
    <2>3. \A j \in DOMAIN m : m[j] \in Decisions(r) => j = i
      BY <1>1, <1>4, <2>1
    <2> QED
      BY <2>2, <2>3 DEF DecidedIn
  <1> QED
    BY <1>2, <1>3, <1>4 DEF m

\* What is about a request.
LEMMA AboutFacts ==
    ASSUME NEW e \in Event, NEW r \in Request
    PROVE  /\ e \in AboutEvents(r) <=>
                  e.type \in {"approval.requested", "approval.decided"} /\ e.req = r
           /\ e \in Decisions(r) <=> e.type = "approval.decided" /\ e.req = r
           /\ Requested(r) \in Event /\ Decided(r, "granted") \in Event /\ Decided(r, "denied") \in Event
           /\ Requested(r) \in AboutEvents(r) /\ Decisions(r) \subseteq AboutEvents(r)
           /\ Requested(r) \notin Decisions(r)
           /\ \A s \in {"granted", "denied"} : Decided(r, s) \in Decisions(r)
  <1>1. Requested(r) \in Event /\ Decided(r, "granted") \in Event /\ Decided(r, "denied") \in Event
    BY DEF Event, RequestedEvent, ApprovedEvent, DeniedEvent
  <1>2. e \in AboutEvents(r) => e.type \in {"approval.requested", "approval.decided"} /\ e.req = r
    BY DEF AboutEvents, Requested, Decided
  <1>3. e \in Decisions(r) => e.type = "approval.decided" /\ e.req = r
    BY DEF Decisions, Decided
  <1>4. e.type = "approval.requested" /\ e.req = r => e = Requested(r)
    BY EventCases
  <1>5. e.type = "approval.decided" /\ e.req = r => e \in Decisions(r)
    BY EventCases DEF Decisions
  <1>6. Requested(r) \notin Decisions(r)
    BY DEF Requested, Decisions, Decided
  <1> QED
    BY <1>1, <1>2, <1>3, <1>4, <1>5, <1>6 DEF AboutEvents, Decisions

\* What concerns others leaves a request where it is.
LEMMA LifeKeeps ==
    ASSUME NEW r \in Request, Life(r), record'[r] = record[r],
           RecordIn(log')[r] = RecordIn(log)[r],
           emitFaults > 0 => emitFaults' > 0,
           Undecided(log, r) => Undecided(log', r),
           \A s : DecidedIn(log, r, s) => DecidedIn(log', r, s),
           Idle(writes, r) => Idle(writes', r),
           \A e \in AboutEvents(r) : Single(writes, r, e) => Single(writes', r, e)
    PROVE  Life(r)'
  <1>1. record[r] \in {"granted", "denied"} => Decided(r, record[r]) \in AboutEvents(r)
    BY DEF AboutEvents
  <1>2. Requested(r) \in AboutEvents(r)
    BY DEF AboutEvents
  <1> QED
    BY <1>1, <1>2 DEF Life, Unknown, InSubmission, AwaitsDecision, IsDecided, DecisionLogged

\* What restoreFromEvents makes of an event.
LEMMA ReplayCases ==
    ASSUME NEW rec \in [Request -> Status], NEW r \in Request
    PROVE  /\ ReplayRecord(rec, Requested(r)) = [rec EXCEPT ![r] = "pending"]
           /\ \A s : rec[r] # "none" =>
                  ReplayRecord(rec, Decided(r, s)) = [rec EXCEPT ![r] = s]
  <1>1. Requested(r).type = "approval.requested" /\ Requested(r).req = r
    BY DEF Requested
  <1>2. \A s : /\ Decided(r, s).type = "approval.decided" /\ Decided(r, s).req = r
               /\ Decided(r, s).status = s
    BY DEF Decided
  <1>3. ReplayRecord(rec, Requested(r)) = [rec EXCEPT ![r] = "pending"]
    BY <1>1 DEF ReplayRecord
  <1>4. ASSUME NEW s, rec[r] # "none"
        PROVE  ReplayRecord(rec, Decided(r, s)) = [rec EXCEPT ![r] = s]
    BY <1>2, <1>4 DEF ReplayRecord
  <1> QED
    BY <1>3, <1>4

\* The append at the head of the queue, if it is about r, is the next of its life.
LEMMA LandsAbout ==
    ASSUME BoardTypeOK, writes # <<>>, NEW r \in Request, Life(r),
           Head(writes).event \in AboutEvents(r)
    PROVE  LET l == Append(log, Head(writes).event)
           IN  /\ Idle(Tail(writes), r)
               /\ \/ /\ InSubmission(r) /\ Head(writes).event = Requested(r)
                     /\ RecordIn(l)[r] = "pending" /\ Undecided(l, r)
                  \/ /\ IsDecided(r) /\ Head(writes).event = Decided(r, record[r])
                     /\ RecordIn(l)[r] = record[r] /\ DecidedIn(l, r, record[r])
  <1> DEFINE e == Head(writes).event
             l == Append(log, e)
  <1>1. /\ writes \in Seq(Write) /\ log \in Seq(Event) /\ e \in Event
        /\ RecordIn(log) \in [Request -> Status]
    BY QueueFacts, WriteCases, RebuiltTyped DEF BoardTypeOK
  <1>2. RecordIn(l) = ReplayRecord(RecordIn(log), e)
    BY <1>1, ReplayAppend
  <1>3. ~Idle(writes, r)
    BY <1>1, QueueTail
  <1>4. CASE InSubmission(r)
    <2>1. Requested(r) \in AboutEvents(r) /\ Requested(r) \notin Decisions(r)
      BY <1>1, AboutFacts
    <2>2. e = Requested(r) /\ Idle(Tail(writes), r)
      BY <1>1, <1>4, <2>1, QueueTail DEF InSubmission
    <2>3. Undecided(l, r)
      BY <1>1, <1>4, <2>1, <2>2, LogAppend DEF InSubmission
    <2>4. RecordIn(l)[r] = "pending"
      BY <1>1, <1>2, <2>2, ReplayCases
    <2> QED
      BY <1>4, <2>2, <2>3, <2>4
  <1>5. CASE IsDecided(r)
    <2>1. /\ Single(writes, r, Decided(r, record[r])) /\ record[r] \in {"granted", "denied"}
          /\ RecordIn(log)[r] = "pending" /\ Undecided(log, r)
      BY <1>3, <1>5 DEF IsDecided
    <2>2. Decided(r, record[r]) \in AboutEvents(r)
      BY <2>1 DEF AboutEvents
    <2>3. e = Decided(r, record[r]) /\ Idle(Tail(writes), r)
      BY <1>1, <2>1, <2>2, QueueTail
    <2>4. DecidedIn(l, r, record[r])
      BY <1>1, <2>1, <2>3, LogAppend
    <2>5. RecordIn(l)[r] = record[r]
      BY <1>1, <1>2, <2>1, <2>3, ReplayCases
    <2> QED
      BY <1>5, <2>3, <2>4, <2>5
  <1>6. CASE Unknown(r) \/ AwaitsDecision(r) \/ DecisionLogged(r)
    BY <1>3, <1>6 DEF Unknown, AwaitsDecision, DecisionLogged
  <1> QED
    BY <1>4, <1>5, <1>6 DEF Life

\* If it is about another, a restart rebuilds r as before.
LEMMA LandsElsewhere ==
    ASSUME BoardTypeOK, writes # <<>>, NEW r \in Request,
           Head(writes).event \notin AboutEvents(r)
    PROVE  LET l == Append(log, Head(writes).event)
           IN  /\ RecordIn(l)[r] = RecordIn(log)[r]
               /\ Undecided(log, r) => Undecided(l, r)
               /\ \A s : DecidedIn(log, r, s) => DecidedIn(l, r, s)
               /\ Idle(writes, r) => Idle(Tail(writes), r)
               /\ \A e \in AboutEvents(r) : Single(writes, r, e) => Single(Tail(writes), r, e)
  <1> DEFINE h == Head(writes).event
             l == Append(log, h)
  <1>1. /\ writes \in Seq(Write) /\ log \in Seq(Event) /\ h \in Event
        /\ RecordIn(log) \in [Request -> Status]
    BY QueueFacts, WriteCases, RebuiltTyped DEF BoardTypeOK
  <1>2. RecordIn(l) = ReplayRecord(RecordIn(log), h)
    BY <1>1, ReplayAppend
  <1>3. h.type \in {"approval.requested", "approval.decided"} => h.req \in Request /\ h.req # r
    BY <1>1, EventCases, AboutFacts
  <1>4. RecordIn(l)[r] = RecordIn(log)[r]
    BY <1>1, <1>2, <1>3 DEF ReplayRecord
  <1>5. h \notin Decisions(r)
    BY <1>1, AboutFacts
  <1>6. /\ Undecided(log, r) => Undecided(l, r)
        /\ \A s : DecidedIn(log, r, s) => DecidedIn(l, r, s)
    BY <1>1, <1>5, LogAppend
  <1>7. /\ Idle(writes, r) => Idle(Tail(writes), r)
        /\ \A e \in AboutEvents(r) : Single(writes, r, e) => Single(Tail(writes), r, e)
    BY <1>1, QueueTail
  <1> QED
    BY <1>4, <1>6, <1>7

\* An append that joins the queue for another request, or for none.
LEMMA Joins ==
    ASSUME NEW q \in Seq(Write), NEW w \in Write, NEW r \in Request,
           w.event \notin AboutEvents(r)
    PROVE  /\ Idle(q, r) => Idle(Append(q, w), r)
           /\ \A e \in AboutEvents(r) : Single(q, r, e) => Single(Append(q, w), r, e)
  BY QueueAppend

\* Approving adds the decision to the queue and touches no other request.
LEMMA IssueLife ==
    ASSUME BoardTypeOK, NEW r0 \in Request, NEW before \in SUBSET Grants,
           NEW queue \in Seq(Write), Issue(r0, before, queue), NEW r \in Request
    PROVE  /\ r # r0 =>
                  /\ record'[r] = record[r]
                  /\ Idle(queue, r) => Idle(writes', r)
                  /\ \A e \in AboutEvents(r) : Single(queue, r, e) => Single(writes', r, e)
           /\ r = r0 =>
                  /\ record'[r] = "granted"
                  /\ Idle(queue, r) => Single(writes', r, Decided(r, "granted"))
  <1> DEFINE w == [event |-> Decided(r0, "granted"), snap |-> held', before |-> before]
  <1>1. held' \subseteq Grants
    BY IssueTyped
  <1>2. w \in Write /\ w.event = Decided(r0, "granted")
    BY <1>1 DEF Write, ApprovedEvent
  <1>3. writes' = Append(queue, w) /\ record' = [record EXCEPT ![r0] = "granted"]
    BY DEF Issue, Set
  <1> HIDE DEF w
  <1>4. r # r0 => w.event \notin AboutEvents(r)
    <2>1. Decided(r0, "granted").req = r0 /\ w.event \in Event
      BY <1>2, WriteCases DEF Decided
    <2> QED
      BY <1>2, <2>1, AboutFacts
  <1>5. r # r0 => /\ Idle(queue, r) => Idle(writes', r)
                  /\ \A e \in AboutEvents(r) : Single(queue, r, e) => Single(writes', r, e)
    BY <1>2, <1>3, <1>4, Joins
  <1>6. r = r0 /\ Idle(queue, r) => Single(writes', r, Decided(r, "granted"))
    BY <1>2, <1>3, QueueAppend
  <1>7. (r # r0 => record'[r] = record[r]) /\ (r = r0 => record'[r] = "granted")
    BY <1>3 DEF BoardTypeOK
  <1> QED
    BY <1>5, <1>6, <1>7

\* A submission begins the life of a request.
LEMMA SubmitLife ==
    ASSUME BoardTypeOK, LifeInv, NEW r0 \in Request, Submit(r0)
    PROVE  LifeInv'
  <1> DEFINE w == [event |-> Requested(r0), before |-> manifest]
  <1>1. /\ w \in Write /\ w.event = Requested(r0) /\ writes \in Seq(Write)
        /\ record \in [Request -> Status]
    BY DEF Write, RequestedEvent, BoardTypeOK
  <1>2. /\ record[r0] = "none" /\ record' = [record EXCEPT ![r0] = "pending"]
        /\ writes' = Append(writes, w) /\ UNCHANGED <<log, emitFaults, early>>
    BY DEF Submit, Set
  <1> HIDE DEF w
  <1> SUFFICES ASSUME NEW r \in Request \ early PROVE Life(r)'
    BY <1>2 DEF LifeInv
  <1>3. Life(r)
    BY DEF LifeInv
  <1>4. CASE r = r0
    <2>1. Unknown(r)
      BY <1>2, <1>3, <1>4 DEF Life, Unknown, InSubmission, AwaitsDecision, IsDecided, DecisionLogged
    <2>2. Single(writes', r, Requested(r))
      BY <1>1, <1>2, <1>4, <2>1, QueueAppend DEF Unknown
    <2>3. InSubmission(r)'
      BY <1>1, <1>2, <1>4, <2>1, <2>2 DEF Unknown, InSubmission
    <2> QED
      BY <2>3 DEF Life
  <1>5. CASE r # r0
    <2>1. w.event \notin AboutEvents(r)
      <3>1. Requested(r0).req = r0 /\ w.event \in Event
        BY <1>1, WriteCases DEF Requested
      <3> QED
        BY <1>1, <1>5, <3>1, AboutFacts
    <2>2. /\ Idle(writes, r) => Idle(writes', r)
          /\ \A e \in AboutEvents(r) : Single(writes, r, e) => Single(writes', r, e)
      BY <1>1, <1>2, <2>1, Joins
    <2>3. record'[r] = record[r]
      BY <1>1, <1>2, <1>5
    <2> QED
      BY <1>2, <1>3, <2>2, <2>3, LifeKeeps
  <1> QED
    BY <1>4, <1>5

\* A request that is not decided early waits for its decision when it comes.
LEMMA Awaited ==
    ASSUME NEW r \in Request, Life(r), record[r] = "pending", ~BeingSubmitted(r)
    PROVE  AwaitsDecision(r)
  <1>1. ~InSubmission(r)
    BY DEF InSubmission, Single, BeingSubmitted
  <1> QED
    BY <1>1 DEF Life, Unknown, AwaitsDecision, IsDecided, DecisionLogged

\* An approval decides what is pending, once.
LEMMA ApproveLife ==
    ASSUME BoardTypeOK, LifeInv, NEW r0 \in Request, Approve(r0)
    PROVE  LifeInv'
  <1>1. /\ record[r0] = "pending" /\ Issue(r0, manifest, writes) /\ UNCHANGED <<log, emitFaults>>
        /\ early' = IF BeingSubmitted(r0) THEN early \cup {r0} ELSE early
        /\ manifest \in SUBSET Grants /\ writes \in Seq(Write)
    BY DEF Approve, NoteEarly, BoardTypeOK
  <1> SUFFICES ASSUME NEW r \in Request, r \notin early' PROVE Life(r)'
    BY DEF LifeInv
  <1>2. Life(r) /\ (r = r0 => ~BeingSubmitted(r))
    BY <1>1 DEF LifeInv
  <1>3. CASE r = r0
    <2>1. AwaitsDecision(r)
      BY <1>1, <1>2, <1>3, Awaited
    <2>2. record'[r] = "granted" /\ Single(writes', r, Decided(r, "granted"))
      BY <1>1, <1>3, <2>1, IssueLife DEF AwaitsDecision
    <2>3. IsDecided(r)'
      BY <1>1, <2>1, <2>2 DEF AwaitsDecision, IsDecided
    <2> QED
      BY <2>3 DEF Life
  <1>4. CASE r # r0
    BY <1>1, <1>2, <1>4, IssueLife, LifeKeeps
  <1> QED
    BY <1>3, <1>4

\* So does a denial.
LEMMA DenyLife ==
    ASSUME BoardTypeOK, LifeInv, NEW r0 \in Request, Deny(r0)
    PROVE  LifeInv'
  <1> DEFINE w == [event |-> Decided(r0, "denied")]
  <1>1. /\ record[r0] = "pending" /\ record' = [record EXCEPT ![r0] = "denied"]
        /\ writes' = Append(writes, w) /\ UNCHANGED <<log, emitFaults>>
        /\ early' = IF BeingSubmitted(r0) THEN early \cup {r0} ELSE early
    BY DEF Deny, Set, NoteEarly
  <1>2. /\ w \in Write /\ w.event = Decided(r0, "denied") /\ writes \in Seq(Write)
        /\ record \in [Request -> Status]
    BY DEF Write, DeniedEvent, BoardTypeOK
  <1> HIDE DEF w
  <1> SUFFICES ASSUME NEW r \in Request, r \notin early' PROVE Life(r)'
    BY DEF LifeInv
  <1>3. Life(r) /\ (r = r0 => ~BeingSubmitted(r))
    BY <1>1 DEF LifeInv
  <1>4. CASE r = r0
    <2>1. AwaitsDecision(r)
      BY <1>1, <1>3, <1>4, Awaited
    <2>2. Single(writes', r, Decided(r, "denied"))
      BY <1>1, <1>2, <1>4, <2>1, QueueAppend DEF AwaitsDecision
    <2>3. IsDecided(r)'
      BY <1>1, <1>2, <1>4, <2>1, <2>2 DEF AwaitsDecision, IsDecided
    <2> QED
      BY <2>3 DEF Life
  <1>5. CASE r # r0
    <2>1. w.event \notin AboutEvents(r)
      <3>1. Decided(r0, "denied").req = r0 /\ w.event \in Event
        BY <1>2, WriteCases DEF Decided
      <3> QED
        BY <1>2, <1>5, <3>1, AboutFacts
    <2>2. /\ Idle(writes, r) => Idle(writes', r)
          /\ \A e \in AboutEvents(r) : Single(writes, r, e) => Single(writes', r, e)
      BY <1>1, <1>2, <2>1, Joins
    <2>3. record'[r] = record[r]
      BY <1>1, <1>2, <1>5
    <2> QED
      BY <1>1, <1>3, <2>2, <2>3, LifeKeeps
  <1> QED
    BY <1>4, <1>5

\* A sweep and the logging of grants append nothing about a request.
LEMMA SweepLife ==
    ASSUME BoardTypeOK, NEW keys \in SUBSET Key, NEW queue \in Seq(Write), Sweep(keys, queue),
           NEW r \in Request
    PROVE  /\ Idle(queue, r) => Idle(writes', r)
           /\ \A e \in AboutEvents(r) : Single(queue, r, e) => Single(writes', r, e)
  <1>1. CASE keys \cap Keys(held) = {}
    BY <1>1 DEF Sweep
  <1>2. CASE keys \cap Keys(held) # {}
    <2>1. PICK k \in keys \cap Keys(held) :
              writes' = Append(queue, [event |-> Revoked(k), rest |-> keys \ {k}])
      BY <1>2 DEF Sweep
    <2> DEFINE w == [event |-> Revoked(k), rest |-> keys \ {k}]
    <2>2. w \in Write /\ w.event \notin AboutEvents(r)
      BY DEF Write, RevokedEvent, AboutEvents, Revoked, Requested, Decided
    <2> QED
      BY <2>1, <2>2, Joins
  <1> QED
    BY <1>1, <1>2

\* Logging grants decides nothing.
LEMMA LogGrantsLife ==
    ASSUME BoardTypeOK, writes # <<>>, NEW grants \in SUBSET Grants, NEW snap \in SUBSET Grants,
           LogGrants(grants, snap), NEW r \in Request
    PROVE  /\ Idle(Tail(writes), r) => Idle(writes', r)
           /\ \A e \in AboutEvents(r) : Single(Tail(writes), r, e) => Single(writes', r, e)
  <1>0. Tail(writes) \in Seq(Write)
    BY QueueFacts
  <1>1. CASE grants = {}
    BY <1>1 DEF LogGrants
  <1>2. CASE grants # {}
    <2>1. PICK g \in grants :
              writes' = Append(Tail(writes), [event |-> Granted(g), rest |-> grants \ {g},
                                              snap |-> snap])
      BY <1>2 DEF LogGrants
    <2> DEFINE w == [event |-> Granted(g), rest |-> grants \ {g}, snap |-> snap]
    <2>2. w \in Write
      BY DEF Write, GrantedEvent
    <2>3. w.event \notin AboutEvents(r)
      BY DEF AboutEvents, Granted, Requested, Decided
    <2> QED
      BY <1>0, <2>1, <2>2, <2>3, Joins
  <1> QED
    BY <1>1, <1>2

\* The request itself is logged: it is decided at once, or waits.
LEMMA RequestedLoggedLife ==
    ASSUME BoardTypeOK, LifeInv, RequestedLogged
    PROVE  LifeInv'
  <1> DEFINE w == Head(writes)
             r0 == w.event.req
  <1>1. Landed("approval.requested")
    BY DEF RequestedLogged
  <1>2. /\ writes # <<>> /\ w \in Write /\ Tail(writes) \in Seq(Write) /\ w.event \in Event
        /\ w.event.type = "approval.requested" /\ log' = Append(log, w.event)
        /\ UNCHANGED <<emitFaults, early>>
    BY <1>1, LandedFacts
  <1>3. r0 \in Request /\ w.before \in SUBSET Grants /\ w.event = Requested(r0)
    BY <1>2, EventCases, WriteCases
  <1>4. \/ Issue(r0, w.before, Tail(writes))
        \/ record' = [record EXCEPT ![r0] = "pending"] /\ writes' = Tail(writes)
    BY DEF RequestedLogged, Set
  <1>5. record \in [Request -> Status]
    BY DEF BoardTypeOK
  <1> SUFFICES ASSUME NEW r \in Request \ early PROVE Life(r)'
    BY <1>2 DEF LifeInv
  <1>6. Life(r) /\ (w.event \in AboutEvents(r) <=> r = r0)
    BY <1>2, AboutFacts DEF LifeInv
  <1> HIDE DEF w, r0
  <1>7. CASE r = r0
    <2>1. InSubmission(r) \/ (IsDecided(r) /\ w.event = Decided(r, record[r]))
      BY <1>2, <1>6, <1>7, LandsAbout DEF w
    <2>2. Requested(r) # Decided(r, record[r])
      BY DEF Requested, Decided
    <2>3. InSubmission(r)
      BY <1>3, <1>7, <2>1, <2>2
    <2>4. ~IsDecided(r)
      BY <2>3 DEF InSubmission, IsDecided
    <2>5. /\ Idle(Tail(writes), r)
          /\ RecordIn(log')[r] = "pending" /\ Undecided(log', r)
      BY <1>2, <1>6, <1>7, <2>4, LandsAbout DEF w
    <2>6. CASE Issue(r0, w.before, Tail(writes))
      <3>1. record'[r] = "granted" /\ Single(writes', r, Decided(r, "granted"))
        BY <1>2, <1>3, <1>7, <2>5, <2>6, IssueLife
      <3>2. IsDecided(r)'
        BY <2>5, <3>1 DEF IsDecided
      <3> QED
        BY <3>2 DEF Life
    <2>7. CASE record' = [record EXCEPT ![r0] = "pending"] /\ writes' = Tail(writes)
      <3>1. AwaitsDecision(r)'
        BY <1>3, <1>5, <1>7, <2>5, <2>7 DEF AwaitsDecision
      <3> QED
        BY <3>1 DEF Life
    <2> QED
      BY <1>4, <2>6, <2>7
  <1>8. CASE r # r0
    <2>1. /\ RecordIn(log')[r] = RecordIn(log)[r]
          /\ Undecided(log, r) => Undecided(log', r)
          /\ \A s : DecidedIn(log, r, s) => DecidedIn(log', r, s)
          /\ Idle(writes, r) => Idle(Tail(writes), r)
          /\ \A e \in AboutEvents(r) : Single(writes, r, e) => Single(Tail(writes), r, e)
      BY <1>2, <1>6, <1>8, LandsElsewhere DEF w
    <2>2. /\ record'[r] = record[r]
          /\ Idle(Tail(writes), r) => Idle(writes', r)
          /\ \A e \in AboutEvents(r) : Single(Tail(writes), r, e) => Single(writes', r, e)
      <3>1. CASE Issue(r0, w.before, Tail(writes))
        BY <1>2, <1>3, <1>8, <3>1, IssueLife
      <3>2. CASE record' = [record EXCEPT ![r0] = "pending"] /\ writes' = Tail(writes)
        BY <1>3, <1>5, <1>8, <3>2
      <3> QED
        BY <1>4, <3>1, <3>2
    <2> QED
      BY <1>2, <1>6, <2>1, <2>2, LifeKeeps
  <1> QED
    BY <1>7, <1>8

\* What is logged is a decision, or nothing about a request.
LEMMA OthersLoggedLife ==
    ASSUME BoardTypeOK, LifeInv, DecidedLogged \/ GrantedLogged \/ RevokedLogged
    PROVE  LifeInv'
  <1> DEFINE w == Head(writes)
  <1>1. /\ writes # <<>> /\ w \in Write /\ Tail(writes) \in Seq(Write) /\ w.event \in Event
        /\ log' = Append(log, w.event) /\ UNCHANGED <<emitFaults, early>>
        /\ w.event.type # "approval.requested"
    <2>1. \/ Landed("approval.decided") \/ Landed("grant.granted") \/ Landed("grant.revoked")
      BY DEF DecidedLogged, GrantedLogged, RevokedLogged
    <2> QED
      BY <2>1, LandedFacts
  <1>2. record' = record
    BY DEF DecidedLogged, GrantedLogged, RevokedLogged
  <1> SUFFICES ASSUME NEW r \in Request \ early PROVE Life(r)'
    BY <1>1 DEF LifeInv
  <1>3. Life(r)
    BY DEF LifeInv
  <1>4. /\ Idle(Tail(writes), r) => Idle(writes', r)
        /\ \A e \in AboutEvents(r) : Single(Tail(writes), r, e) => Single(writes', r, e)
    <2>1. CASE DecidedLogged
      <3>1. w.event.type = "approval.decided"
        BY <2>1, LandedFacts DEF DecidedLogged
      <3>2. CASE w.event.status = "granted"
        <4>1. w.snap \in SUBSET Grants /\ NewGrants(w.snap, w.before) \in SUBSET Grants
          BY <1>1, <3>1, <3>2, WriteCases DEF NewGrants
        <4>2. LogGrants(NewGrants(w.snap, w.before), w.snap)
          BY <2>1, <3>2 DEF DecidedLogged
        <4> QED
          BY <1>1, <4>1, <4>2, LogGrantsLife
      <3>3. CASE w.event.status # "granted"
        BY <2>1, <3>3 DEF DecidedLogged
      <3> QED
        BY <3>2, <3>3
    <2>2. CASE GrantedLogged
      <3>1. w.event.type = "grant.granted" /\ LogGrants(w.rest, w.snap)
        BY <2>2, LandedFacts DEF GrantedLogged
      <3>2. w.rest \in SUBSET Grants /\ w.snap \in SUBSET Grants
        BY <1>1, <3>1, WriteCases
      <3> QED
        BY <1>1, <3>1, <3>2, LogGrantsLife
    <2>3. CASE RevokedLogged
      <3>1. w.event.type = "grant.revoked" /\ Sweep(w.rest, Tail(writes))
        BY <2>3, LandedFacts DEF RevokedLogged
      <3>2. w.rest \in SUBSET Key
        BY <1>1, <3>1, WriteCases
      <3> QED
        BY <1>1, <3>1, <3>2, SweepLife
    <2> QED
      BY <2>1, <2>2, <2>3
  <1>5. CASE w.event \in AboutEvents(r)
    <2>1. w.event # Requested(r)
      BY <1>1 DEF Requested
    <2>2. /\ IsDecided(r) /\ Idle(Tail(writes), r)
          /\ RecordIn(log')[r] = record[r] /\ DecidedIn(log', r, record[r])
      BY <1>1, <1>3, <1>5, <2>1, LandsAbout
    <2>3. DecisionLogged(r)'
      BY <1>2, <1>4, <2>2 DEF IsDecided, DecisionLogged
    <2> QED
      BY <2>3 DEF Life
  <1>6. CASE w.event \notin AboutEvents(r)
    <2>1. /\ RecordIn(log')[r] = RecordIn(log)[r]
          /\ Undecided(log, r) => Undecided(log', r)
          /\ \A s : DecidedIn(log, r, s) => DecidedIn(log', r, s)
          /\ Idle(writes, r) => Idle(Tail(writes), r)
          /\ \A e \in AboutEvents(r) : Single(writes, r, e) => Single(Tail(writes), r, e)
      BY <1>1, <1>6, LandsElsewhere
    <2> HIDE DEF w
    <2> QED
      BY <1>1, <1>2, <1>3, <1>4, <2>1, LifeKeeps
  <1> QED
    BY <1>5, <1>6

\* An append that fails takes the record of a submission back, and leaves a decision
\* out of the log.
LEMMA EmitThrowsLife ==
    ASSUME BoardTypeOK, LifeInv, EmitThrows
    PROVE  LifeInv'
  <1> DEFINE w == Head(writes)
  <1>1. /\ writes # <<>> /\ emitFaults' = emitFaults + 1 /\ writes' = Tail(writes)
        /\ record' = IF w.event.type = "approval.requested"
                     THEN [record EXCEPT ![w.event.req] = "none"] ELSE record
        /\ UNCHANGED <<log, early>>
    BY DEF EmitThrows
  <1>2. w \in Write /\ w.event \in Event /\ emitFaults' > 0 /\ record \in [Request -> Status]
        /\ writes \in Seq(Write)
    BY <1>1, QueueFacts, WriteCases DEF BoardTypeOK
  <1> SUFFICES ASSUME NEW r \in Request \ early PROVE Life(r)'
    BY <1>1 DEF LifeInv
  <1>3. Life(r)
    BY DEF LifeInv
  <1>4. CASE w.event \in AboutEvents(r)
    <2>1. \/ InSubmission(r) /\ w.event = Requested(r)
          \/ IsDecided(r) /\ w.event = Decided(r, record[r])
      BY <1>1, <1>3, <1>4, LandsAbout
    <2>2. Idle(Tail(writes), r)
      BY <1>1, <1>3, <1>4, LandsAbout
    <2>3. CASE InSubmission(r) /\ w.event = Requested(r)
      <3>1. record'[r] = "none"
        BY <1>1, <1>2, <2>3 DEF Requested
      <3>2. Unknown(r)'
        BY <1>1, <2>2, <2>3, <3>1 DEF InSubmission, Unknown
      <3> QED
        BY <3>2 DEF Life
    <2>4. CASE IsDecided(r) /\ w.event = Decided(r, record[r])
      <3>1. record' = record
        BY <1>1, <2>4 DEF Decided
      <3>2. IsDecided(r)'
        BY <1>1, <1>2, <2>2, <2>4, <3>1 DEF IsDecided
      <3> QED
        BY <3>2 DEF Life
    <2> QED
      BY <2>1, <2>3, <2>4
  <1>5. CASE w.event \notin AboutEvents(r)
    <2>1. w.event.type = "approval.requested" => w.event.req # r
      BY <1>2, <1>5, AboutFacts
    <2>2. record'[r] = record[r]
      BY <1>1, <1>2, <2>1
    <2>3. /\ Idle(writes, r) => Idle(writes', r)
          /\ \A e \in AboutEvents(r) : Single(writes, r, e) => Single(writes', r, e)
      BY <1>1, <1>5, LandsElsewhere
    <2> HIDE DEF w
    <2> QED
      BY <1>1, <1>2, <1>3, <2>2, <2>3, LifeKeeps
  <1> QED
    BY <1>4, <1>5

\* After a restart a request is where its last logged event left it.
LEMMA CrashRestartLife ==
    ASSUME BoardTypeOK, LifeInv, CrashRestart
    PROVE  LifeInv'
  <1> DEFINE w == Head(writes)
  <1>1. /\ record' = RecordIn(log') /\ writes' = <<>> /\ UNCHANGED <<emitFaults, early>>
        /\ log' = log \/ (writes # <<>> /\ log' = Append(log, w.event))
    BY DEF CrashRestart
  <1> SUFFICES ASSUME NEW r \in Request \ early PROVE Life(r)'
    BY <1>1 DEF LifeInv
  <1>2. Life(r)
    BY DEF LifeInv
  <1>3. Idle(writes', r)
    BY <1>1 DEF Idle
  <1>4. \/ RecordIn(log)[r] = "none" /\ Undecided(log, r)
        \/ RecordIn(log)[r] = "pending" /\ Undecided(log, r)
        \/ /\ RecordIn(log)[r] \in {"granted", "denied"}
           /\ DecidedIn(log, r, RecordIn(log)[r])
    BY <1>2 DEF Life, Unknown, InSubmission, AwaitsDecision, IsDecided, DecisionLogged
  <1>5. \/ RecordIn(log')[r] = "none" /\ Undecided(log', r)
        \/ RecordIn(log')[r] = "pending" /\ Undecided(log', r)
        \/ /\ RecordIn(log')[r] \in {"granted", "denied"}
           /\ DecidedIn(log', r, RecordIn(log')[r])
    <2>1. CASE log' = log
      BY <1>4, <2>1
    <2>2. CASE writes # <<>> /\ log' = Append(log, w.event) /\ w.event \in AboutEvents(r)
      BY <1>2, <2>2, LandsAbout DEF IsDecided
    <2>3. CASE writes # <<>> /\ log' = Append(log, w.event) /\ w.event \notin AboutEvents(r)
      <3>1. /\ RecordIn(log')[r] = RecordIn(log)[r]
            /\ Undecided(log, r) => Undecided(log', r)
            /\ \A s : DecidedIn(log, r, s) => DecidedIn(log', r, s)
        BY <2>3, LandsElsewhere
      <3> QED
        BY <1>4, <3>1
    <2> QED
      BY <1>1, <2>1, <2>2, <2>3
  <1>6. Unknown(r)' \/ AwaitsDecision(r)' \/ DecisionLogged(r)'
    BY <1>1, <1>3, <1>5 DEF Unknown, AwaitsDecision, DecisionLogged
  <1> QED
    BY <1>6 DEF Life

\* Every step leaves each request at some point of its life,
LEMMA NextLife == ASSUME BoardTypeOK, LifeInv, [Next]_vars PROVE LifeInv'
  <1>1. CASE UNCHANGED vars
    BY <1>1 DEF vars, LifeInv, Life, Unknown, InSubmission, AwaitsDecision, IsDecided, DecisionLogged
  <1>2. ASSUME NEW r \in Request, Expire(r) PROVE LifeInv'
    BY <1>2 DEF Expire, LifeInv, Life, Unknown, InSubmission, AwaitsDecision, IsDecided,
                DecisionLogged
  <1>3. ASSUME Reclaim PROVE LifeInv'
    <2>1. /\ Sweep(ExpiredKeys, writes) /\ UNCHANGED <<record, log, emitFaults, early>>
          /\ ExpiredKeys \in SUBSET Key /\ writes \in Seq(Write)
      BY <1>3 DEF Reclaim, ExpiredKeys, BoardTypeOK, Grants
    <2> SUFFICES ASSUME NEW r \in Request \ early PROVE Life(r)'
      BY <2>1 DEF LifeInv
    <2>2. Life(r)
      BY DEF LifeInv
    <2>3. /\ Idle(writes, r) => Idle(writes', r)
          /\ \A e \in AboutEvents(r) : Single(writes, r, e) => Single(writes', r, e)
      BY <2>1, SweepLife
    <2> QED
      BY <2>1, <2>2, <2>3, LifeKeeps
  <1> QED
    BY <1>1, <1>2, <1>3, SubmitLife, ApproveLife, DenyLife, RequestedLoggedLife, OthersLoggedLife,
       EmitThrowsLife, CrashRestartLife DEF Next, Logged

\* and each begins there.
LEMMA InitLife == Init => LifeInv
  <1> SUFFICES ASSUME Init, NEW r \in Request PROVE Life(r)
    BY DEF LifeInv
  <1>1. /\ \A i \in DOMAIN log : \E g \in BaselineGrants : log[i] = Granted(g)
        /\ RecordIn(log) = NoRecords
    BY InitFacts
  <1>2. \A i \in DOMAIN log : log[i].type = "grant.granted"
    BY <1>1 DEF Granted
  <1>3. Undecided(log, r)
    BY <1>2 DEF Undecided, Decisions, Decided
  <1>4. Idle(writes, r)
    BY DEF Init, Idle
  <1>5. Unknown(r)
    BY <1>1, <1>3, <1>4 DEF Init, Unknown, NoRecords
  <1> QED
    BY <1>5 DEF Life

----------------------------------------------------------------------------
(* The grants and their approvals.                                         *)

\* The requests that grants of S come from.
Sources(S) == {g.source : g \in {h \in S : h.source # BaselineSource}}

HasApproval(l, r) == \E i \in DOMAIN l : l[i] = Decided(r, "granted")
ApprovedBy(q, n, r) == \E i \in DOMAIN q : i <= n /\ q[i].event = Decided(r, "granted")

\* The approval of r is in the log, or on its way there.
Approved(l, q, r) == HasApproval(l, r) \/ \E i \in DOMAIN q : q[i].event = Decided(r, "granted")

\* What an append still has to log is approved in the log by the time it is over.
WriteShown(l, q, i) ==
    LET w == q[i]
    IN  /\ w.event.type = "approval.decided" /\ w.event.status = "granted" =>
              \A r \in Sources(w.snap) : HasApproval(l, r) \/ ApprovedBy(q, i, r)
        /\ w.event.type = "grant.granted" =>
              \A r \in Sources(w.rest \cup {w.event.grant}) : HasApproval(l, r)

QueueShown(l, q) == \A i \in DOMAIN q : WriteShown(l, q, i)

\* The log shows the approval of a grant before the grant, and so does a restart.
LogShown(l) ==
    \A i \in DOMAIN l :
        l[i].type = "grant.granted" /\ l[i].grant.source # BaselineSource =>
            \E j \in 1..(i - 1) : l[j] = Decided(l[i].grant.source, "granted")

ReplayShown(l) == LogShown(l) /\ \A r \in Sources(HeldIn(l)) : HasApproval(l, r)

GrantsInv ==
    emitFaults = 0 =>
        /\ \A r \in Sources(held) : Approved(log, writes, r)
        /\ QueueShown(log, writes)
        /\ ReplayShown(log)

\* Whose grants are in a union.
LEMMA SourcesOfUnion ==
    \A S, R : Sources(S \cup R) = Sources(S) \cup Sources(R) /\ (S \subseteq R => Sources(S) \subseteq Sources(R))
  BY DEF Sources

\* What the log shows stays shown, and one event more is shown by itself.
LEMMA LogGrows ==
    ASSUME NEW l \in Seq(Event), NEW e \in Event
    PROVE  /\ \A r : HasApproval(l, r) => HasApproval(Append(l, e), r)
           /\ \A r : e = Decided(r, "granted") => HasApproval(Append(l, e), r)
  <1> DEFINE m == Append(l, e)
  <1>1. /\ \A i \in DOMAIN l : i \in DOMAIN m /\ m[i] = l[i]
        /\ Len(l) + 1 \in DOMAIN m /\ m[Len(l) + 1] = e
    BY AppendPositions
  <1> HIDE DEF m
  <1> QED
    BY <1>1 DEF HasApproval, m

\* One more event in the log, approved if it is a grant.
LEMMA ReplayGrows ==
    ASSUME NEW l \in Seq(Event), NEW e \in Event, ReplayShown(l),
           e.type = "grant.granted" /\ e.grant.source # BaselineSource => HasApproval(l, e.grant.source)
    PROVE  ReplayShown(Append(l, e))
  <1> DEFINE m == Append(l, e)
  <1>1. /\ \A i \in DOMAIN m : (i \in DOMAIN l /\ m[i] = l[i]) \/ (i = Len(l) + 1 /\ m[i] = e)
        /\ \A i \in DOMAIN l : i \in DOMAIN m /\ m[i] = l[i] /\ i <= Len(l)
        /\ DOMAIN l = 1..Len(l) /\ Len(l) \in Nat
    BY AppendPositions
  <1>2. HeldIn(m) = ReplayHeld(HeldIn(l), e) /\ HeldIn(l) \subseteq Grants
    BY ReplayAppend, RebuiltTyped
  <1>3. \A r : HasApproval(l, r) => HasApproval(m, r)
    BY LogGrows
  <1> HIDE DEF m
  <1>4. LogShown(m)
    <2> SUFFICES ASSUME NEW i \in DOMAIN m, m[i].type = "grant.granted",
                        m[i].grant.source # BaselineSource
                 PROVE  \E j \in 1..(i - 1) : m[j] = Decided(m[i].grant.source, "granted")
      BY DEF LogShown
    <2>1. CASE i \in DOMAIN l /\ m[i] = l[i]
      <3>1. PICK j \in 1..(i - 1) : l[j] = Decided(l[i].grant.source, "granted")
        BY <2>1 DEF ReplayShown, LogShown
      <3>2. j \in DOMAIN l
        BY <1>1, <2>1
      <3> QED
        BY <1>1, <2>1, <3>1, <3>2
    <2>2. CASE i = Len(l) + 1 /\ m[i] = e
      <3>1. PICK j \in DOMAIN l : l[j] = Decided(e.grant.source, "granted")
        BY <2>2 DEF HasApproval
      <3>2. j \in 1..(i - 1) /\ m[j] = l[j]
        BY <1>1, <2>2
      <3> QED
        BY <2>2, <3>1, <3>2
    <2> QED
      BY <1>1, <2>1, <2>2
  <1>5. ASSUME NEW r \in Sources(HeldIn(m)) PROVE HasApproval(m, r)
    <2>1. CASE e.type = "grant.granted" /\ e.grant.source # BaselineSource
      <3>1. HeldIn(m) \subseteq HeldIn(l) \cup {e.grant}
        BY <1>2, <2>1 DEF ReplayHeld, AddGrant
      <3>2. r \in Sources(HeldIn(l)) \/ r = e.grant.source
        BY <1>5, <3>1 DEF Sources
      <3> QED
        BY <1>3, <2>1, <3>2 DEF ReplayShown
    <2>2. CASE ~(e.type = "grant.granted" /\ e.grant.source # BaselineSource)
      <3>1. HeldIn(m) \subseteq HeldIn(l)
        BY <1>2, <2>2 DEF ReplayHeld, DropKey
      <3>2. r \in Sources(HeldIn(l))
        BY <1>5, <3>1 DEF Sources
      <3> QED
        BY <1>3, <3>2 DEF ReplayShown
    <2> QED
      BY <2>1, <2>2
  <1> QED
    BY <1>4, <1>5 DEF ReplayShown, m

\* One more append under way, whose grants are approved by then.
LEMMA QueueGrows ==
    ASSUME NEW l \in Seq(Event), NEW q \in Seq(Write), NEW w \in Write
    PROVE  /\ \A r : Approved(l, q, r) => Approved(l, Append(q, w), r)
           /\ \A r : w.event = Decided(r, "granted") => Approved(l, Append(q, w), r)
           /\ ( /\ QueueShown(l, q)
                /\ w.event.type = "approval.decided" /\ w.event.status = "granted" =>
                      \A r \in Sources(w.snap) : Approved(l, Append(q, w), r)
                /\ w.event.type = "grant.granted" =>
                      \A r \in Sources(w.rest \cup {w.event.grant}) : HasApproval(l, r) )
              => QueueShown(l, Append(q, w))
  <1> DEFINE p == Append(q, w)
  <1>1. /\ \A i \in DOMAIN p : (i \in DOMAIN q /\ p[i] = q[i]) \/ (i = Len(q) + 1 /\ p[i] = w)
        /\ \A i \in DOMAIN q : i \in DOMAIN p /\ p[i] = q[i] /\ i <= Len(q)
        /\ Len(q) + 1 \in DOMAIN p /\ p[Len(q) + 1] = w /\ Len(q) \in Nat
        /\ \A i \in DOMAIN p : i \in Nat /\ i <= Len(q) + 1
    BY AppendPositions
  <1> HIDE DEF p
  <1>2. \A r : Approved(l, q, r) => Approved(l, p, r)
    BY <1>1 DEF Approved
  <1>3. \A r : w.event = Decided(r, "granted") => Approved(l, p, r)
    BY <1>1 DEF Approved
  <1>4. ASSUME QueueShown(l, q),
               w.event.type = "approval.decided" /\ w.event.status = "granted" =>
                   \A r \in Sources(w.snap) : Approved(l, p, r),
               w.event.type = "grant.granted" =>
                   \A r \in Sources(w.rest \cup {w.event.grant}) : HasApproval(l, r),
               NEW i \in DOMAIN p
        PROVE  WriteShown(l, p, i)
    <2>1. CASE i \in DOMAIN q /\ p[i] = q[i]
      <3>1. WriteShown(l, q, i)
        BY <1>4, <2>1 DEF QueueShown
      <3>2. \A r : ApprovedBy(q, i, r) => ApprovedBy(p, i, r)
        BY <1>1 DEF ApprovedBy
      <3> QED
        BY <2>1, <3>1, <3>2 DEF WriteShown
    <2>2. CASE i = Len(q) + 1 /\ p[i] = w
      <3>1. \A r : Approved(l, p, r) => HasApproval(l, r) \/ ApprovedBy(p, i, r)
        BY <1>1, <2>2 DEF Approved, ApprovedBy
      <3> QED
        BY <1>4, <2>2, <3>1 DEF WriteShown
    <2> QED
      BY <1>1, <2>1, <2>2
  <1> QED
    BY <1>2, <1>3, <1>4 DEF QueueShown, p

\* The head of the queue moves into the log.
LEMMA QueueLands ==
    ASSUME NEW l \in Seq(Event), NEW q \in Seq(Write), q # <<>>
    PROVE  LET m == Append(l, Head(q).event)
           IN  /\ \A r : Approved(l, q, r) => Approved(m, Tail(q), r)
               /\ QueueShown(l, q) => QueueShown(m, Tail(q))
               /\ QueueShown(l, q) /\ Head(q).event.type = "approval.decided"
                      /\ Head(q).event.status = "granted" =>
                          \A r \in Sources(Head(q).snap) : HasApproval(m, r)
               /\ QueueShown(l, q) /\ Head(q).event.type = "grant.granted" =>
                      \A r \in Sources(Head(q).rest \cup {Head(q).event.grant}) : HasApproval(l, r)
               /\ m \in Seq(Event)
  <1> DEFINE p == Tail(q)
             h == Head(q)
             m == Append(l, h.event)
  <1>1. /\ \A i \in DOMAIN p : i + 1 \in DOMAIN q /\ p[i] = q[i + 1] /\ i \in Nat \ {0}
        /\ \A i \in DOMAIN q : \/ i = 1 /\ q[i] = h
                               \/ i - 1 \in DOMAIN p /\ q[i] = p[i - 1] /\ i \in Nat
        /\ 1 \in DOMAIN q /\ q[1] = h
    BY TailPositions
  <1>2. h \in Write /\ h.event \in Event
    <2>1. h \in Write
      OBVIOUS
    <2> HIDE DEF h
    <2> QED
      BY <2>1, WriteCases
  <1> HIDE DEF p, h
  <1>3. /\ \A r : HasApproval(l, r) => HasApproval(m, r)
        /\ \A r : h.event = Decided(r, "granted") => HasApproval(m, r)
        /\ m \in Seq(Event)
    BY <1>2, LogGrows
  <1> HIDE DEF m
  <1>4. \A r : Approved(l, q, r) => Approved(m, p, r)
    BY <1>1, <1>3 DEF Approved
  <1>5. ASSUME NEW i \in DOMAIN p, NEW r, ApprovedBy(q, i + 1, r)
        PROVE  HasApproval(m, r) \/ ApprovedBy(p, i, r)
    <2>1. PICK j \in DOMAIN q : j <= i + 1 /\ q[j].event = Decided(r, "granted")
      BY <1>5 DEF ApprovedBy
    <2>2. CASE j = 1 /\ q[j] = h
      BY <1>3, <2>1, <2>2
    <2>3. CASE j - 1 \in DOMAIN p /\ q[j] = p[j - 1] /\ j \in Nat
      <3>1. j - 1 <= i
        BY <1>1, <2>1, <2>3
      <3> QED
        BY <2>1, <2>3, <3>1 DEF ApprovedBy
    <2> QED
      BY <1>1, <2>1, <2>2, <2>3
  <1>6. ASSUME QueueShown(l, q), NEW i \in DOMAIN p PROVE WriteShown(m, p, i)
    <2>1. WriteShown(l, q, i + 1) /\ p[i] = q[i + 1]
      BY <1>1, <1>6 DEF QueueShown
    <2> QED
      BY <1>3, <1>5, <2>1 DEF WriteShown
  <1>7. ASSUME QueueShown(l, q) PROVE WriteShown(l, q, 1)
    BY <1>1, <1>7 DEF QueueShown
  <1>8. ASSUME NEW r, ApprovedBy(q, 1, r) PROVE h.event = Decided(r, "granted")
    <2>1. PICK j \in DOMAIN q : j <= 1 /\ q[j].event = Decided(r, "granted")
      BY <1>8 DEF ApprovedBy
    <2>2. j = 1
      BY <1>1, <2>1
    <2> QED
      BY <1>1, <2>1, <2>2
  <1>9. QueueShown(l, q) /\ h.event.type = "approval.decided" /\ h.event.status = "granted" =>
            \A r \in Sources(h.snap) : HasApproval(m, r)
    BY <1>1, <1>3, <1>7, <1>8 DEF WriteShown
  <1>10. QueueShown(l, q) /\ h.event.type = "grant.granted" =>
            \A r \in Sources(h.rest \cup {h.event.grant}) : HasApproval(l, r)
    BY <1>1, <1>7 DEF WriteShown
  <1> QED
    BY <1>3, <1>4, <1>6, <1>9, <1>10 DEF QueueShown, p, h, m

\* An approval joins the queue before whatever its grant needs logged.
LEMMA IssueGrants ==
    ASSUME BoardTypeOK, NEW r0 \in Request, NEW before \in SUBSET Grants,
           NEW queue \in Seq(Write), Issue(r0, before, queue), NEW l \in Seq(Event),
           \A r \in Sources(held) : Approved(l, queue, r), QueueShown(l, queue)
    PROVE  /\ \A r \in Sources(held') : Approved(l, writes', r)
           /\ QueueShown(l, writes')
  <1> DEFINE w == [event |-> Decided(r0, "granted"), snap |-> held', before |-> before]
  <1>1. held' = AddGrant(held, GrantOf(r0)) /\ writes' = Append(queue, w) /\ held' \subseteq Grants
    BY IssueTyped DEF Issue
  <1>2. w \in Write /\ w.event = Decided(r0, "granted") /\ w.snap = held'
        /\ w.event.type = "approval.decided"
    BY <1>1 DEF Write, ApprovedEvent, Decided
  <1> HIDE DEF w
  <1>3. Sources(held') \subseteq Sources(held) \cup {r0}
    <2>1. held' \subseteq held \cup {GrantOf(r0)} /\ GrantOf(r0).source = r0
      BY <1>1 DEF AddGrant, GrantOf
    <2> QED
      BY <2>1 DEF Sources
  <1>4. \A r \in Sources(held') : Approved(l, writes', r)
    BY <1>1, <1>2, <1>3, QueueGrows
  <1>5. QueueShown(l, writes')
    BY <1>1, <1>2, <1>4, QueueGrows
  <1> QED
    BY <1>4, <1>5

\* A sweep takes grants away.
LEMMA SweepGrants ==
    ASSUME BoardTypeOK, NEW keys \in SUBSET Key, NEW queue \in Seq(Write), Sweep(keys, queue),
           NEW l \in Seq(Event),
           \A r \in Sources(held) : Approved(l, queue, r), QueueShown(l, queue)
    PROVE  /\ \A r \in Sources(held') : Approved(l, writes', r)
           /\ QueueShown(l, writes')
  <1>1. CASE keys \cap Keys(held) = {}
    BY <1>1 DEF Sweep
  <1>2. CASE keys \cap Keys(held) # {}
    <2>1. PICK k \in keys \cap Keys(held) :
              /\ held' = DropKey(held, k)
              /\ writes' = Append(queue, [event |-> Revoked(k), rest |-> keys \ {k}])
      BY <1>2 DEF Sweep
    <2> DEFINE w == [event |-> Revoked(k), rest |-> keys \ {k}]
    <2>2. w \in Write /\ w.event.type = "grant.revoked"
      BY DEF Write, RevokedEvent, Revoked
    <2>3. Sources(held') \subseteq Sources(held)
      BY <2>1 DEF Sources, DropKey
    <2> HIDE DEF w
    <2>4. writes' = Append(queue, w)
      BY <2>1 DEF w
    <2> QED
      BY <2>2, <2>3, <2>4, QueueGrows
  <1> QED
    BY <1>1, <1>2

\* Grants are logged when their approvals are.
LEMMA LogGrantsGrants ==
    ASSUME BoardTypeOK, writes # <<>>, NEW grants \in SUBSET Grants, NEW snap \in SUBSET Grants,
           LogGrants(grants, snap), NEW l \in Seq(Event),
           \A r \in Sources(grants) : HasApproval(l, r),
           \A r \in Sources(held) : Approved(l, Tail(writes), r), QueueShown(l, Tail(writes))
    PROVE  /\ \A r \in Sources(held) : Approved(l, writes', r)
           /\ QueueShown(l, writes')
  <1>0. Tail(writes) \in Seq(Write)
    BY QueueFacts
  <1>1. CASE grants = {}
    BY <1>1 DEF LogGrants
  <1>2. CASE grants # {}
    <2>1. PICK g \in grants :
              writes' = Append(Tail(writes), [event |-> Granted(g), rest |-> grants \ {g},
                                              snap |-> snap])
      BY <1>2 DEF LogGrants
    <2> DEFINE w == [event |-> Granted(g), rest |-> grants \ {g}, snap |-> snap]
    <2>2. w \in Write
      BY DEF Write, GrantedEvent
    <2>3. w.event.type = "grant.granted" /\ w.rest \cup {w.event.grant} = grants
      BY DEF Granted
    <2> HIDE DEF w
    <2>4. writes' = Append(Tail(writes), w)
      BY <2>1 DEF w
    <2> QED
      BY <1>0, <2>2, <2>3, <2>4, QueueGrows
  <1> QED
    BY <1>1, <1>2

\* What holds when the head of the queue has just landed.
LEMMA LandedGrants ==
    ASSUME BoardTypeOK, GrantsInv, emitFaults = 0, writes # <<>>
    PROVE  LET l == Append(log, Head(writes).event)
           IN  /\ l \in Seq(Event)
               /\ \A r \in Sources(held) : Approved(l, Tail(writes), r)
               /\ QueueShown(l, Tail(writes))
               /\ ReplayShown(l)
               /\ Head(writes).event.type = "approval.decided" /\ Head(writes).event.status = "granted" =>
                      \A r \in Sources(Head(writes).snap) : HasApproval(l, r)
               /\ Head(writes).event.type = "grant.granted" =>
                      \A r \in Sources(Head(writes).rest) : HasApproval(l, r)
  <1> DEFINE w == Head(writes)
             l == Append(log, w.event)
  <1>1. /\ writes \in Seq(Write) /\ log \in Seq(Event) /\ w.event \in Event
    BY QueueFacts, WriteCases DEF BoardTypeOK
  <1>2. /\ \A r \in Sources(held) : Approved(log, writes, r)
        /\ QueueShown(log, writes) /\ ReplayShown(log)
    BY DEF GrantsInv
  <1>3. /\ l \in Seq(Event) /\ QueueShown(l, Tail(writes))
        /\ \A r \in Sources(held) : Approved(l, Tail(writes), r)
        /\ w.event.type = "approval.decided" /\ w.event.status = "granted" =>
               \A r \in Sources(w.snap) : HasApproval(l, r)
        /\ w.event.type = "grant.granted" =>
               \A r \in Sources(w.rest \cup {w.event.grant}) : HasApproval(log, r)
    BY <1>1, <1>2, QueueLands
  <1>4. \A r : HasApproval(log, r) => HasApproval(l, r)
    BY <1>1, LogGrows
  <1> HIDE DEF w, l
  <1>5. ReplayShown(l)
    <2>1. w.event.type = "grant.granted" /\ w.event.grant.source # BaselineSource =>
              w.event.grant.source \in Sources(w.rest \cup {w.event.grant})
      BY DEF Sources
    <2> QED
      BY <1>1, <1>2, <1>3, <2>1, ReplayGrows DEF l
  <1>6. w.event.type = "grant.granted" => \A r \in Sources(w.rest) : HasApproval(l, r)
    BY <1>3, <1>4, SourcesOfUnion
  <1> QED
    BY <1>3, <1>5, <1>6 DEF w, l

\* The calls grant nothing that is not being approved.
LEMMA CallsGrants ==
    ASSUME BoardTypeOK, GrantsInv,
           NEW r0 \in Request, Submit(r0) \/ Approve(r0) \/ Deny(r0) \/ Expire(r0)
    PROVE  GrantsInv'
  <1> SUFFICES ASSUME emitFaults' = 0
               PROVE  /\ \A r \in Sources(held') : Approved(log', writes', r)
                      /\ QueueShown(log', writes') /\ ReplayShown(log')
    BY DEF GrantsInv
  <1>1. /\ log' = log /\ emitFaults = 0 /\ log \in Seq(Event) /\ writes \in Seq(Write)
        /\ manifest \in SUBSET Grants
        /\ \A r \in Sources(held) : Approved(log, writes, r)
        /\ QueueShown(log, writes) /\ ReplayShown(log)
    BY DEF Submit, Approve, Deny, Expire, GrantsInv, BoardTypeOK
  <1>2. CASE Approve(r0)
    <2>1. Issue(r0, manifest, writes)
      BY <1>2 DEF Approve
    <2> QED
      BY <1>1, <2>1, IssueGrants
  <1>3. CASE Submit(r0)
    <2> DEFINE w == [event |-> Requested(r0), before |-> manifest]
    <2>1. w \in Write /\ w.event.type = "approval.requested" /\ writes' = Append(writes, w)
          /\ held' = held
      BY <1>1, <1>3 DEF Submit, Write, RequestedEvent, Requested
    <2> HIDE DEF w
    <2> QED
      BY <1>1, <2>1, QueueGrows
  <1>4. CASE Deny(r0)
    <2> DEFINE w == [event |-> Decided(r0, "denied")]
    <2>1. w \in Write /\ w.event.type = "approval.decided" /\ w.event.status = "denied"
          /\ writes' = Append(writes, w) /\ held' = held
      BY <1>1, <1>4 DEF Deny, Write, DeniedEvent, Decided
    <2> HIDE DEF w
    <2> QED
      BY <1>1, <2>1, QueueGrows
  <1>5. CASE Expire(r0)
    BY <1>1, <1>5 DEF Expire
  <1> QED
    BY <1>2, <1>3, <1>4, <1>5

\* What goes on when an append has landed logs grants only behind their approvals.
LEMMA LoggedGrants == ASSUME BoardTypeOK, GrantsInv, Logged PROVE GrantsInv'
  <1> DEFINE w == Head(writes)
             l == Append(log, w.event)
  <1> SUFFICES ASSUME emitFaults' = 0
               PROVE  /\ \A r \in Sources(held') : Approved(log', writes', r)
                      /\ QueueShown(log', writes') /\ ReplayShown(log')
    BY DEF GrantsInv
  <1>1. /\ writes # <<>> /\ w \in Write /\ Tail(writes) \in Seq(Write) /\ w.event \in Event
        /\ log' = l /\ emitFaults = 0
    <2>1. \/ Landed("approval.requested") \/ Landed("approval.decided") \/ Landed("grant.granted")
          \/ Landed("grant.revoked")
      BY DEF Logged, RequestedLogged, DecidedLogged, GrantedLogged, RevokedLogged
    <2> QED
      BY <2>1, LandedFacts
  <1>2. /\ l \in Seq(Event)
        /\ \A r \in Sources(held) : Approved(l, Tail(writes), r)
        /\ QueueShown(l, Tail(writes)) /\ ReplayShown(l)
        /\ w.event.type = "approval.decided" /\ w.event.status = "granted" =>
               \A r \in Sources(w.snap) : HasApproval(l, r)
        /\ w.event.type = "grant.granted" => \A r \in Sources(w.rest) : HasApproval(l, r)
    BY <1>1, LandedGrants
  <1> HIDE DEF l
  <1>3. CASE RequestedLogged
    <2>1. w.event.type = "approval.requested"
      BY <1>3, LandedFacts DEF RequestedLogged
    <2>2. w.event.req \in Request /\ w.before \in SUBSET Grants
      BY <1>1, <2>1, EventCases, WriteCases
    <2>3. CASE Issue(w.event.req, w.before, Tail(writes))
      BY <1>1, <1>2, <2>2, <2>3, IssueGrants
    <2>4. CASE writes' = Tail(writes) /\ held' = held
      BY <1>1, <1>2, <2>4
    <2> QED
      BY <1>3, <2>3, <2>4 DEF RequestedLogged
  <1>4. CASE DecidedLogged
    <2>1. w.event.type = "approval.decided" /\ held' = held
      BY <1>4, LandedFacts DEF DecidedLogged
    <2>2. CASE w.event.status = "granted"
      <3>1. w.snap \in SUBSET Grants /\ NewGrants(w.snap, w.before) \subseteq w.snap
        BY <1>1, <2>1, <2>2, WriteCases DEF NewGrants
      <3>2. LogGrants(NewGrants(w.snap, w.before), w.snap)
        BY <1>4, <2>2 DEF DecidedLogged
      <3>3. \A r \in Sources(NewGrants(w.snap, w.before)) : HasApproval(l, r)
        BY <1>2, <2>1, <2>2, <3>1, SourcesOfUnion
      <3> QED
        BY <1>1, <1>2, <2>1, <3>1, <3>2, <3>3, LogGrantsGrants
    <2>3. CASE w.event.status # "granted"
      <3>1. writes' = Tail(writes)
        BY <1>4, <2>3 DEF DecidedLogged
      <3> QED
        BY <1>1, <1>2, <2>1, <3>1
    <2> QED
      BY <2>2, <2>3
  <1>5. CASE GrantedLogged
    <2>1. w.event.type = "grant.granted" /\ LogGrants(w.rest, w.snap) /\ held' = held
      BY <1>5, LandedFacts DEF GrantedLogged
    <2>2. w.rest \in SUBSET Grants /\ w.snap \in SUBSET Grants
      BY <1>1, <2>1, WriteCases
    <2> QED
      BY <1>1, <1>2, <2>1, <2>2, LogGrantsGrants
  <1>6. CASE RevokedLogged
    <2>1. w.event.type = "grant.revoked" /\ Sweep(w.rest, Tail(writes))
      BY <1>6, LandedFacts DEF RevokedLogged
    <2>2. w.rest \in SUBSET Key
      BY <1>1, <2>1, WriteCases
    <2> QED
      BY <1>1, <1>2, <2>1, <2>2, SweepGrants
  <1> QED
    BY <1>3, <1>4, <1>5, <1>6 DEF Logged

\* After a restart the grants are those the log shows, and with them their approvals.
LEMMA CrashRestartGrants == ASSUME BoardTypeOK, GrantsInv, CrashRestart PROVE GrantsInv'
  <1> SUFFICES ASSUME emitFaults' = 0
               PROVE  /\ \A r \in Sources(held') : Approved(log', writes', r)
                      /\ QueueShown(log', writes') /\ ReplayShown(log')
    BY DEF GrantsInv
  <1>1. /\ emitFaults = 0 /\ held' = HeldIn(log') /\ writes' = <<>>
        /\ log' = log \/ (writes # <<>> /\ log' = Append(log, Head(writes).event))
    BY DEF CrashRestart
  <1>2. ReplayShown(log')
    <2>1. ReplayShown(log)
      BY <1>1 DEF GrantsInv
    <2>2. CASE log' = log
      BY <2>1, <2>2
    <2>3. CASE writes # <<>> /\ log' = Append(log, Head(writes).event)
      BY <1>1, <2>3, LandedGrants
    <2> QED
      BY <1>1, <2>2, <2>3
  <1>3. \A r \in Sources(HeldIn(log')) : HasApproval(log', r)
    BY <1>2 DEF ReplayShown
  <1>4. QueueShown(log', writes')
    BY <1>1 DEF QueueShown
  <1> QED
    BY <1>1, <1>2, <1>3, <1>4 DEF Approved

\* Every step keeps the grants behind their approvals,
LEMMA NextGrants == ASSUME BoardTypeOK, GrantsInv, [Next]_vars PROVE GrantsInv'
  <1>1. CASE UNCHANGED vars
    BY <1>1 DEF vars, GrantsInv
  <1>2. ASSUME Reclaim PROVE GrantsInv'
    <2>1. /\ Sweep(ExpiredKeys, writes) /\ UNCHANGED <<log, emitFaults>>
          /\ ExpiredKeys \in SUBSET Key /\ writes \in Seq(Write) /\ log \in Seq(Event)
      BY <1>2 DEF Reclaim, ExpiredKeys, BoardTypeOK, Grants
    <2> QED
      BY <2>1, SweepGrants DEF GrantsInv
  <1>3. ASSUME EmitThrows PROVE GrantsInv'
    <2>1. emitFaults' # 0
      BY <1>3 DEF EmitThrows, BoardTypeOK
    <2> QED
      BY <2>1 DEF GrantsInv
  <1> QED
    BY <1>1, <1>2, <1>3, CallsGrants, LoggedGrants, CrashRestartGrants DEF Next

\* and at first only the baseline is held.
LEMMA InitGrants == Init => GrantsInv
  <1> SUFFICES ASSUME Init PROVE GrantsInv
    OBVIOUS
  <1>1. /\ \A i \in DOMAIN log : \E g \in BaselineGrants : log[i] = Granted(g)
        /\ HeldIn(log) = {} /\ held = BaselineGrants /\ writes = <<>>
    BY InitFacts DEF Init
  <1>2. Sources(held) = {} /\ Sources(HeldIn(log)) = {}
    BY <1>1 DEF Sources, BaselineGrants
  <1>3. \A i \in DOMAIN log : log[i].grant.source = BaselineSource
    BY <1>1 DEF Granted, BaselineGrants
  <1>4. LogShown(log)
    BY <1>3 DEF LogShown
  <1>5. QueueShown(log, writes)
    BY <1>1 DEF QueueShown
  <1> QED
    BY <1>2, <1>4, <1>5 DEF GrantsInv, ReplayShown

----------------------------------------------------------------------------
(* What follows.                                                           *)

BoardInv == BoardTypeOK /\ LifeInv /\ GrantsInv

\* The invariant of the board: its types, the lives of its requests, the approvals of its grants.
LEMMA BoardInvHolds == Spec => []BoardInv
  <1>1. Init => BoardInv
    BY InitFacts, InitLife, InitGrants DEF BoardInv
  <1>2. BoardInv /\ [Next]_vars => BoardInv'
    BY NextTyped, NextLife, NextGrants DEF BoardInv
  <1> QED
    BY <1>1, <1>2, PTL DEF Spec

\* A request that nobody decides while it is being submitted has one decision in
\* the audit log for all time: after retries, failed appends, crashes and restarts.
THEOREM OneDecision == Spec => []DecidedOnce
  <1>1. BoardInv => DecidedOnce
    <2> SUFFICES ASSUME BoardInv, NEW r \in Request \ early
                 PROVE  Cardinality(DecisionsOf(r)) <= 1
      BY DEF DecidedOnce
    <2>1. Undecided(log, r) \/ \E s : DecidedIn(log, r, s)
      BY DEF BoardInv, LifeInv, Life, Unknown, InSubmission, AwaitsDecision, IsDecided,
             DecisionLogged
    <2>2. \A i \in DecisionsOf(r) : i \in DOMAIN log /\ log[i] \in Decisions(r)
      <3>1. ASSUME NEW i \in DecisionsOf(r) PROVE i \in DOMAIN log /\ log[i] \in Decisions(r)
        <4>1. i \in DOMAIN log /\ log[i].type = "approval.decided" /\ log[i].req = r
          BY <3>1 DEF DecisionsOf
        <4>2. log[i] \in Event
          BY <4>1 DEF BoardInv, BoardTypeOK
        <4> QED
          BY <4>1, <4>2, AboutFacts
      <3> QED
        BY <3>1
    <2>3. DecisionsOf(r) = {} \/ \E i : DecisionsOf(r) = {i}
      BY <2>1, <2>2 DEF Undecided, DecidedIn
    <2> QED
      BY <2>3, FS_EmptySet, FS_Singleton
  <1> QED
    BY <1>1, BoardInvHolds, PTL

\* While the log takes every append, it shows an approval before each grant that
\* escalates, and what is denied holds no grant, before and after a restart.
THEOREM GrantsAreApproved == Spec => []GrantsFollowDecisions
  <1>1. BoardInv => GrantsFollowDecisions
    <2> SUFFICES ASSUME BoardInv, emitFaults = 0 PROVE GrantsFollowDecisions
      BY DEF GrantsFollowDecisions
    <2>1. LogShown(log) /\ \A r \in Sources(held) : Approved(log, writes, r)
      BY DEF BoardInv, GrantsInv, ReplayShown
    <2>2. ASSUME NEW r \in Request \ early, record[r] = "denied", GrantOf(r) \in held PROVE FALSE
      <3>1. r \in Sources(held)
        BY <2>2, SourceAssumption DEF Sources, GrantOf
      <3>2. Decided(r, "granted") \in Decisions(r) /\ Decided(r, "granted") \in AboutEvents(r)
            /\ Decided(r, "granted") # Decided(r, "denied")
        BY DEF Decisions, AboutEvents, Decided
      <3>3. \/ IsDecided(r) /\ Undecided(log, r) /\ Single(writes, r, Decided(r, "denied"))
            \/ DecisionLogged(r) /\ DecidedIn(log, r, "denied") /\ Idle(writes, r)
        BY <2>2 DEF BoardInv, LifeInv, Life, Unknown, InSubmission, AwaitsDecision, IsDecided,
                    DecisionLogged
      <3>4. ~HasApproval(log, r)
        BY <3>2, <3>3 DEF HasApproval, Undecided, DecidedIn
      <3>5. \A i \in DOMAIN writes : writes[i].event # Decided(r, "granted")
        BY <3>2, <3>3 DEF Single, Idle
      <3> QED
        BY <2>1, <3>1, <3>4, <3>5 DEF Approved
    <2> QED
      BY <2>1, <2>2 DEF GrantsFollowDecisions, LogShown
  <1> QED
    BY <1>1, BoardInvHolds, PTL

\* A restart with nothing under way rebuilds the board it replaces.
THEOREM RestartRebuilds == Spec => []BoardSurvivesRestart
  <1>1. BoardInv => BoardSurvivesRestart
    <2> SUFFICES ASSUME BoardInv, writes = <<>>, emitFaults = 0, early = {}
                 PROVE  RecordIn(log) = record
      BY DEF BoardSurvivesRestart, Quiet
    <2>1. ASSUME NEW r \in Request PROVE RecordIn(log)[r] = record[r]
      <3>1. Life(r)
        BY DEF BoardInv, LifeInv
      <3>2. \A e : ~Single(writes, r, e)
        BY DEF Single
      <3> QED
        BY <3>1, <3>2 DEF Life, Unknown, InSubmission, AwaitsDecision, IsDecided, DecisionLogged
    <2>2. record \in [Request -> Status] /\ RecordIn(log) \in [Request -> Status]
      BY RebuiltTyped DEF BoardInv, BoardTypeOK
    <2> QED
      BY <2>1, <2>2
  <1> QED
    BY <1>1, BoardInvHolds, PTL
=============================================================================
