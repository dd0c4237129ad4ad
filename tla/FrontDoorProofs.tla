-------------------------- MODULE FrontDoorProofs --------------------------
(***************************************************************************)
(* The files of the front door and memory agree when writes have come to   *)
(* rest, a session has one token, and a restart finds the tasks there      *)
(* were; for every set of callers, presets and manifests, and crashes at   *)
(* every await. All reads draw one line between the callers.               *)
(*                                                                         *)
(* The restart is the long one. For a task whose call is under way the     *)
(* invariant says, by the stage of the call, what a replay of the log      *)
(* would make of it (ToldOfStart, Rebuilt): the grants that have been      *)
(* logged so far, less those revoked, of a baseline whose rest is still to *)
(* be logged or undone. No event of one task moves the record of another.  *)
(***************************************************************************)
EXTENDS FrontDoor, SequenceTheorems, FiniteSetTheorems, TLAPS

----------------------------------------------------------------------------
(* The files and what they stand for.                                      *)

\* A snapshot is one of those begun, and the last one begun is what is in memory.
Reflects(w, file, body) ==
    /\ w.no \in Nat /\ w.no <= begun[file]
    /\ w.no = begun[file] => w.body = body

FilesInv ==
    /\ begun \in [{"tokens", "models"} -> Nat]
    /\ \A w \in tokenWrites \cup {tokensFile} : Reflects(w, "tokens", tokens)
    /\ \A w \in modelWrites \cup {modelsFile} : Reflects(w, "models", samples)

\* The files are in order at first,
LEMMA FilesInit == Init => FilesInv
  BY DEF Init, FilesInv, Reflects

\* and after every step: a snapshot that is begun is of what memory is by then.
LEMMA FilesNext == FilesInv /\ [Next]_vars => FilesInv'
  <1> SUFFICES ASSUME FilesInv, [Next]_vars PROVE FilesInv'
    OBVIOUS
  <1> USE DEF FilesInv, Reflects
  <1>1. ASSUME NEW identity, NEW tenant, NEW session, SessionInit(identity, tenant, session)
        PROVE  FilesInv'
    <2>1. /\ begun' = [begun EXCEPT !["tokens"] = begun["tokens"] + 1]
          /\ tokenWrites' = tokenWrites \cup {[no |-> begun["tokens"] + 1, body |-> tokens']}
          /\ UNCHANGED <<tokensFile, modelsFile, modelWrites, samples>>
      BY <1>1 DEF SessionInit, Begin, Snapshot
    <2> QED
      BY <2>1
  <1>2. ASSUME NEW identity, ModelsFeedback(identity)
        PROVE  FilesInv'
    <2>1. /\ begun' = [begun EXCEPT !["models"] = begun["models"] + 1]
          /\ modelWrites' = modelWrites \cup {[no |-> begun["models"] + 1, body |-> samples']}
          /\ UNCHANGED <<modelsFile, tokensFile, tokenWrites, tokens>>
      BY <1>2 DEF ModelsFeedback, Begin, Snapshot
    <2> QED
      BY <2>1
  <1>3. ASSUME NEW w \in tokenWrites, NEW ok, TokenWritten(w, ok)
        PROVE  FilesInv'
    BY <1>3 DEF TokenWritten
  <1>4. ASSUME NEW w \in modelWrites, NEW ok, ModelsWritten(w, ok)
        PROVE  FilesInv'
    BY <1>4 DEF ModelsWritten
  <1>5. CASE Crash
    BY <1>5 DEF Crash
  <1>6. CASE UNCHANGED <<files, tokens, samples>>
    BY <1>6 DEF files
  <1> QED
    BY ZenonT(30), <1>1, <1>2, <1>3, <1>4, <1>5, <1>6
    DEF Next, vars, TaskCreate, WorkflowRun, BudgetRaise, ArtifactPublish, StartLogged,
        GrantLogged, UndoLogged, CompletionLogged, FailureLogged, Log, EngineThrows,
        PublicationLogged

\* When the writes have come to rest, the files are what is in memory.
THEOREM FilesSettle == Spec => []SettledFilesAreMemory
  <1>1. FilesInv => SettledFilesAreMemory
    BY DEF FilesInv, Reflects, SettledFilesAreMemory
  <1> QED
    BY FilesInit, FilesNext, <1>1, PTL DEF Spec

----------------------------------------------------------------------------
(* Sessions and their tokens.                                              *)

\* No session has two tokens.
OneEach(set) ==
    \A t, u \in set : t.tenant = u.tenant /\ t.session = u.session => t = u

\* The files have to be counted in: a crash puts one of them in the place of
\* the tokens.
TokensInv ==
    /\ sessions \in Seq([tenant : Tenants, session : SessionIds])
    /\ \A i, j \in DOMAIN sessions : sessions[i] = sessions[j] => i = j
    /\ \A i \in DOMAIN sessions :
          \E t \in tokens : t.tenant = sessions[i].tenant /\ t.session = sessions[i].session
    /\ OneEach(tokens)
    /\ \A w \in tokenWrites \cup {tokensFile} : OneEach(w.body)

\* issue ends the token the session had and no other (identity.ts:55-58).
LEMMA TokensWithFacts ==
    ASSUME NEW tenant, NEW session, NEW token, OneEach(tokens)
    PROVE  /\ OneEach(TokensWith(tenant, session, token))
           /\ \E t \in TokensWith(tenant, session, token) :
                 t.tenant = tenant /\ t.session = session
           /\ \A t \in tokens :
                 t.tenant # tenant \/ t.session # session =>
                     t \in TokensWith(tenant, session, token)
  <1> DEFINE new == [token |-> token, tenant |-> tenant, session |-> session]
  <1>1. new.tenant = tenant /\ new.session = session
    OBVIOUS
  <1>2. \A t \in TokensWith(tenant, session, token) :
          t # new => t \in tokens /\ (t.tenant # tenant \/ t.session # session)
    BY DEF TokensWith
  <1>3. new \in TokensWith(tenant, session, token)
    BY DEF TokensWith
  <1>4. \A t \in tokens : t.tenant # tenant \/ t.session # session =>
          t \in TokensWith(tenant, session, token)
    BY DEF TokensWith
  <1> HIDE DEF new
  <1> QED
    BY <1>1, <1>2, <1>3, <1>4 DEF OneEach

\* The tokens are in order at first,
LEMMA TokensInit == Init => TokensInv
  BY DEF Init, TokensInv, OneEach

\* and after every step, a crash that reads an old file included.
LEMMA TokensNext == TokensInv /\ [Next]_vars => TokensInv'
  <1> SUFFICES ASSUME TokensInv, [Next]_vars PROVE TokensInv'
    OBVIOUS
  <1>1. ASSUME NEW identity, NEW tenant \in Tenants, NEW session \in SessionIds,
               SessionInit(identity, tenant, session)
        PROVE  TokensInv'
    <2> DEFINE s == [tenant |-> tenant, session |-> session]
               k == Len(sessions)
    <2>1. /\ sessions' = Append(sessions, s)
          /\ tokens' = TokensWith(tenant, session, issued')
          /\ tokenWrites' = tokenWrites \cup {[no |-> begun["tokens"] + 1, body |-> tokens']}
          /\ tokensFile' = tokensFile
          /\ \A i \in DOMAIN sessions : sessions[i] # s
      BY <1>1 DEF SessionInit, Snapshot, Lookup, Range
    <2>2. /\ sessions \in Seq([tenant : Tenants, session : SessionIds])
          /\ s \in [tenant : Tenants, session : SessionIds]
          /\ s.tenant = tenant /\ s.session = session
      BY DEF TokensInv
    <2>3. /\ sessions' \in Seq([tenant : Tenants, session : SessionIds])
          /\ k \in Nat /\ DOMAIN sessions = 1..k /\ DOMAIN sessions' = 1..(k + 1)
          /\ \A i \in 1..k : sessions'[i] = sessions[i]
          /\ sessions'[k + 1] = s
      BY <2>1, <2>2
    <2>4. \A i \in 1..k : sessions[i].tenant # tenant \/ sessions[i].session # session
      <3> SUFFICES ASSUME NEW i \in 1..k, sessions[i].tenant = tenant, sessions[i].session = session
                   PROVE  FALSE
        OBVIOUS
      <3>1. sessions[i] \in [tenant : Tenants, session : SessionIds]
        BY <2>2, i \in 1..Len(sessions), ElementOfSeq
      <3>2. sessions[i] = s
        BY <3>1
      <3> QED
        BY <3>2, <2>1, <2>3
    <2> HIDE DEF s, k
    <2>5. \A i, j \in DOMAIN sessions' : sessions'[i] = sessions'[j] => i = j
      BY <2>1, <2>3 DEF TokensInv
    <2>6. /\ OneEach(tokens')
          /\ \E t \in tokens' : t.tenant = tenant /\ t.session = session
          /\ \A t \in tokens : t.tenant # tenant \/ t.session # session => t \in tokens'
      BY <2>1, TokensWithFacts DEF TokensInv
    <2>7. \A i \in DOMAIN sessions' :
            \E t \in tokens' : /\ t.tenant = sessions'[i].tenant
                               /\ t.session = sessions'[i].session
      <3> SUFFICES ASSUME NEW i \in 1..(k + 1)
                   PROVE  \E t \in tokens' : /\ t.tenant = sessions'[i].tenant
                                             /\ t.session = sessions'[i].session
        BY <2>3
      <3>1. CASE i = k + 1
        BY <3>1, <2>2, <2>3, <2>6
      <3>2. CASE i \in 1..k
        <4>1. PICK t \in tokens : t.tenant = sessions[i].tenant /\ t.session = sessions[i].session
          BY <3>2, <2>3 DEF TokensInv
        <4>2. t \in tokens'
          BY <4>1, <3>2, <2>4, <2>6
        <4> QED
          BY <4>1, <4>2, <3>2, <2>3
      <3> QED
        BY <3>1, <3>2, <2>3
    <2>8. \A w \in tokenWrites' \cup {tokensFile'} : OneEach(w.body)
      BY <2>1, <2>6 DEF TokensInv
    <2> QED
      BY <2>3, <2>5, <2>6, <2>7, <2>8 DEF TokensInv, OneEach
  <1>2. ASSUME NEW w \in tokenWrites, NEW ok, TokenWritten(w, ok)
        PROVE  TokensInv'
    BY <1>2 DEF TokenWritten, TokensInv, OneEach
  <1>3. CASE Crash
    BY <1>3 DEF Crash, TokensInv, OneEach
  <1>4. CASE UNCHANGED <<sessions, tokens, tokensFile, tokenWrites>>
    BY <1>4 DEF TokensInv, OneEach
  <1> QED
    BY ZenonT(30), <1>1, <1>2, <1>3, <1>4
    DEF Next, vars, files, ModelsFeedback, ModelsWritten, TaskCreate, WorkflowRun, BudgetRaise,
        ArtifactPublish, StartLogged, GrantLogged, UndoLogged, CompletionLogged, FailureLogged,
        Log, EngineThrows, PublicationLogged

\* Every session there is has its token, and one only, over any sequence of
\* calls, writes that come late or fail, and crashes.
THEOREM OneTokenEach == Spec => []SessionsHoldOneToken
  <1>1. TokensInv => SessionsHoldOneToken
    BY DEF TokensInv, OneEach, SessionsHoldOneToken, Range
  <1> QED
    BY TokensInit, TokensNext, <1>1, PTL DEF Spec

----------------------------------------------------------------------------
(* The tasks and what the log tells of them.                               *)

OfLog == INSTANCE Folding WITH Op <- Replayed, Base <- <<>>

IsSequence(seq) == seq \in Seq(Range(seq))

Fields == {"tenant", "session", "kind", "preset", "state", "manifest"}

Call == [stage : {"starting", "granting", "undoing", "completing", "failing"},
         grants : Seq(KnownCaps)]

\* Grants of one call, each of them once.
Once(grants) ==
    /\ grants \in Seq(KnownCaps)
    /\ \A i, j \in DOMAIN grants : grants[i] = grants[j] => i = j

\* The grants a restart would give the task back.
Rebuilt(id) == Default(ReplayTasks[id].manifest, {})

\* The log tells that the task was started, and nothing of its end.
ToldOfStart(id) ==
    /\ id \in DOMAIN ReplayTasks
    /\ ReplayTasks[id].state = Store!MarkRunning(Store!NewTask, 1)

\* A call under way, none of whose writes has failed: what its record says, and
\* what the log tells of it. The grant being logged is held already; those to be
\* given back are told, and no others.
InStep(id, call) ==
    /\ call.stage = "starting" => id \notin DOMAIN ReplayTasks
    /\ call.stage # "starting" => ToldOfStart(id)
    /\ call.stage # "completing" => tasks[id].manifest = Absent
    /\ call.stage # "failing" => tasks[id].state = Store!NewTask
    /\ call.stage = "granting" => Range(call.grants) = Rebuilt(id) \cup {Last(call.grants)}
    /\ call.stage = "undoing" => Range(call.grants) = Rebuilt(id)
    /\ call.stage = "completing" => tasks[id].manifest = Rebuilt(id) /\ Rebuilt(id) # Absent
    /\ call.stage = "failing" => /\ tasks[id].state = Store!MarkFailed(Store!NewTask, 0)
                                 /\ Rebuilt(id) = {}

\* A call that is over, and none of whose writes has failed.
InLog(id) ==
    /\ id \in DOMAIN ReplayTasks
    /\ ReplayTasks[id].state.status = tasks[id].state.status
    /\ Rebuilt(id) = Default(tasks[id].manifest, {})

\* What is known of one task: of its record, of what the log tells of it, of the
\* call that makes it and of its run.
TaskInv(id) ==
    /\ id \in DOMAIN tasks =>
          /\ DOMAIN tasks[id] = Fields
          /\ tasks[id].kind # "create" => id \notin DOMAIN ReplayTasks
          /\ id \in DOMAIN ReplayTasks =>
                /\ ReplayTasks[id].tenant = tasks[id].tenant
                /\ ReplayTasks[id].session = tasks[id].session
          /\ tasks[id].kind = "create" /\ id \notin DOMAIN calls \cup faulted => InLog(id)
    /\ id \in DOMAIN ReplayTasks =>
          /\ DOMAIN ReplayTasks[id] = Fields
          /\ ReplayTasks[id].kind = "create"
          /\ ReplayTasks[id].manifest \in {Absent} \cup SUBSET KnownCaps
    /\ id \in DOMAIN calls =>
          /\ id \in DOMAIN tasks /\ tasks[id].kind = "create"
          /\ calls[id] \in Call /\ Once(calls[id].grants)
          /\ calls[id].stage \in {"granting", "undoing"} => calls[id].grants # <<>>
          /\ id \notin faulted => InStep(id, calls[id])
    /\ id \in runs => id \in DOMAIN tasks /\ tasks[id].kind = "workflow"

StoreInv ==
    /\ created \in Nat
    /\ DOMAIN tasks \subseteq 1..created /\ DOMAIN ReplayTasks \subseteq 1..created
    /\ DOMAIN calls \subseteq 1..created /\ runs \subseteq 1..created
    /\ \A id \in 1..created : TaskInv(id)

PublishedInv ==
    /\ IsSequence(log) /\ IsSequence(artifacts)
    /\ publishing \subseteq DOMAIN artifacts
    /\ \A e \in Range(log) : e.type = "artifact.published" =>
          \E a \in Range(artifacts) : a.tenant = e.tenant /\ a.task = e.task

\* The records of the store at the ends of a call, and what replay makes of them.
LEMMA StoreFacts ==
    LET run == Store!MarkRunning(Store!NewTask, 1)
    IN  /\ Store!MarkFailed(Store!NewTask, 0).status = "failed"
        /\ Store!NodeFailed(run, "crash", 1).status = "failed"
        /\ Store!MarkCompleted(Store!NewTask).status = "completed"
        /\ Store!NodeCompleted(run, "worker", 1).status = "completed"
  <1> DEFINE run == Store!MarkRunning(Store!NewTask, 1)
  <1>1. /\ Store!NewTask = [status |-> "created", doneNodes |-> {}, failedAttempt |-> 0]
        /\ run = [status |-> "running", doneNodes |-> {}, failedAttempt |-> 0]
    BY DEF Store!NewTask, Store!MarkRunning, Store!IsTransitional, Store!Terminal
  <1> HIDE DEF run
  <1>2. /\ Store!MarkFailed(Store!NewTask, 0).status = "failed"
        /\ Store!NodeFailed(run, "crash", 1).status = "failed"
        /\ Store!MarkCompleted(Store!NewTask).status = "completed"
    BY <1>1 DEF Store!MarkFailed, Store!NodeFailed, Store!MarkCompleted, Store!IsTransitional,
                Store!Terminal
  <1>3. Store!NodeCompleted(run, "worker", 1).status = "completed"
    <2> DEFINE u == [run EXCEPT !.doneNodes = @ \cup {"worker"}]
    <2>1. u = [status |-> "running", doneNodes |-> {"worker"}, failedAttempt |-> 0]
      BY <1>1
    <2>2. Store!Cardinality({"worker"}) = Cardinality({"worker"})
      BY Zenon DEF Store!Cardinality, Cardinality
    <2>3. Cardinality({"worker"}) = 1
      BY FS_Singleton
    <2>4. Store!NodeCompleted(run, "worker", 1) = Store!MarkCompleted(u)
      <3> HIDE DEF u
      <3>1. u.doneNodes = {"worker"}
        BY <2>1
      <3>2. Store!Cardinality(u.doneNodes) >= 1
        BY <3>1, <2>2, <2>3
      <3> QED
        BY <3>2 DEF Store!NodeCompleted, u
    <2> HIDE DEF u
    <2> QED
      BY <2>1, <2>4 DEF Store!MarkCompleted, Store!IsTransitional, Store!Terminal
  <1> QED
    BY <1>2, <1>3 DEF run

\* What replaying one event changes: only the record of the task it names.
LEMMA ReplayedStart ==
    ASSUME NEW store, NEW e, e.type = "node.started"
    PROVE  /\ DOMAIN Replayed(store, e) = DOMAIN store \cup {e.task}
           /\ \A j \in DOMAIN store : Replayed(store, e)[j] = store[j]
           /\ e.task \notin DOMAIN store =>
                 Replayed(store, e)[e.task] =
                     [tenant |-> e.tenant, session |-> e.session, kind |-> "create",
                      preset |-> e.preset, manifest |-> Absent,
                      state |-> Store!MarkRunning(Store!NewTask, 1)]
  <1> DEFINE new == [tenant |-> e.tenant, session |-> e.session, kind |-> "create",
                     preset |-> e.preset, manifest |-> Absent,
                     state |-> Store!MarkRunning(Store!NewTask, 1)]
  <1>1. Replayed(store, e) = Including(store, e.task, new)
    BY DEF Replayed
  <1> HIDE DEF new
  <1>2. Replayed(store, e) = [k \in DOMAIN store \cup {e.task} |->
                                 IF k \in DOMAIN store THEN store[k] ELSE new]
    BY <1>1 DEF Including
  <1> QED
    BY <1>2 DEF new

\* Any other event changes a record that is there and makes none.
LEMMA ReplayedOther ==
    ASSUME NEW store, NEW e, e.type # "node.started"
    PROVE  /\ DOMAIN Replayed(store, e) = DOMAIN store
           /\ \A j \in DOMAIN store : j # e.task => Replayed(store, e)[j] = store[j]
           /\ e.task \notin DOMAIN store => Replayed(store, e) = store
  <1> DEFINE id == e.task
             held == store[id].manifest
  <1>1. CASE id \notin DOMAIN store
    <2>1. Replayed(store, e) = store
      BY <1>1 DEF Replayed
    <2> QED
      BY <2>1, <1>1
  <1>2. CASE id \in DOMAIN store
    <2>1. Replayed(store, e) = store \/ \E field, value : Replayed(store, e) = Recording(store, id, field, value)
      BY <1>2 DEF Replayed
    <2> QED
      BY <1>2, <2>1 DEF Recording
  <1> QED
    BY <1>1, <1>2

\* What it changes in that record.
LEMMA ReplayedHere ==
    ASSUME NEW store, NEW e, NEW id, e.task = id, e.type # "node.started",
           id \in DOMAIN store, DOMAIN store[id] = Fields
    PROVE  LET now == Replayed(store, e)[id]
               held == store[id].manifest
           IN  /\ DOMAIN now = Fields
               /\ now.tenant = store[id].tenant /\ now.session = store[id].session
               /\ now.kind = store[id].kind
               /\ e.type = "grant.granted" =>
                     now.manifest = Default(held, {}) \cup {e.cap} /\ now.state = store[id].state
               /\ e.type = "grant.revoked" =>
                     /\ now.manifest = IF held = Absent THEN Absent ELSE held \ {e.cap}
                     /\ now.state = store[id].state
               /\ e.type \notin {"grant.granted", "grant.revoked"} => now.manifest = held
               /\ e.type = "node.completed" =>
                     now.state = Store!NodeCompleted(store[id].state, "worker", 1)
               /\ e.type = "node.failed" =>
                     now.state = Store!NodeFailed(store[id].state, "crash", 1)
  <1> DEFINE held == store[id].manifest
             now == Replayed(store, e)[id]
  <1>0. \A field \in Fields : \A value :
          LET new == Recording(store, id, field, value)[id]
          IN  /\ DOMAIN new = Fields /\ new[field] = value
              /\ \A other \in Fields \ {field} : new[other] = store[id][other]
    BY DEF Recording
  <1>a. \A value :
          LET new == Recording(store, id, "manifest", value)[id]
          IN  /\ DOMAIN new = Fields /\ new.manifest = value /\ new.tenant = store[id].tenant
              /\ new.session = store[id].session /\ new.kind = store[id].kind
              /\ new.state = store[id].state
    BY <1>0 DEF Fields
  <1>b. \A value :
          LET new == Recording(store, id, "state", value)[id]
          IN  /\ DOMAIN new = Fields /\ new.state = value /\ new.tenant = store[id].tenant
              /\ new.session = store[id].session /\ new.kind = store[id].kind
              /\ new.manifest = held
    BY <1>0 DEF Fields
  <1>1. CASE e.type = "grant.granted"
    <2>1. Replayed(store, e) = Recording(store, id, "manifest", Default(held, {}) \cup {e.cap})
      BY <1>1 DEF Replayed
    <2> QED
      BY <2>1, <1>a, <1>1
  <1>2. CASE e.type = "grant.revoked" /\ held # Absent
    <2>1. Replayed(store, e) = Recording(store, id, "manifest", held \ {e.cap})
      BY <1>2 DEF Replayed
    <2> QED
      BY <2>1, <1>a, <1>2
  <1>3. CASE e.type = "node.completed"
    <2>1. Replayed(store, e)
            = Recording(store, id, "state", Store!NodeCompleted(store[id].state, "worker", 1))
      BY <1>3 DEF Replayed
    <2> QED
      BY <2>1, <1>b, <1>3
  <1>4. CASE e.type = "node.failed"
    <2>1. Replayed(store, e)
            = Recording(store, id, "state", Store!NodeFailed(store[id].state, "crash", 1))
      BY <1>4 DEF Replayed
    <2> QED
      BY <2>1, <1>b, <1>4
  <1>5. CASE ~ (\/ e.type \in {"grant.granted", "node.completed", "node.failed"}
                \/ e.type = "grant.revoked" /\ held # Absent)
    <2>1. Replayed(store, e) = store
      BY <1>5 DEF Replayed
    <2> QED
      BY <2>1, <1>5
  <1> QED
    BY <1>1, <1>2, <1>3, <1>4, <1>5

\* The fold of the instance is that of the model.
LEMMA LogFold ==
    ASSUME NEW seq
    PROVE  FoldLeft(Replayed, <<>>, seq) = OfLog!FoldLeft(Replayed, <<>>, seq)
  BY Zenon DEF FoldLeft, OfLog!FoldLeft, MapThenFoldSet, OfLog!MapThenFoldSet, Max, OfLog!Max

\* What an append to the log does to what a restart would rebuild from it.
LEMMA AppendFacts ==
    ASSUME NEW seq, NEW e, IsSequence(seq)
    PROVE  /\ IsSequence(Append(seq, e))
           /\ Range(Append(seq, e)) = Range(seq) \cup {e}
           /\ DOMAIN seq \subseteq DOMAIN Append(seq, e)
           /\ FoldLeft(Replayed, <<>>, Append(seq, e)) = Replayed(FoldLeft(Replayed, <<>>, seq), e)
  <1> DEFINE S == Range(seq) \cup {e}
             long == Append(seq, e)
  <1>1. seq \in Seq(Range(seq)) /\ Range(seq) \subseteq S /\ e \in S
    BY DEF IsSequence
  <1> HIDE DEF S
  <1>2. seq \in Seq(S)
    BY <1>1
  <1>3. /\ Len(seq) \in Nat /\ DOMAIN seq = 1..Len(seq) /\ DOMAIN long = 1..(Len(seq) + 1)
        /\ \A i \in 1..Len(seq) : long[i] = seq[i]
        /\ long[Len(seq) + 1] = e /\ Len(long) = Len(seq) + 1
        /\ long \in Seq(S)
    BY <1>1, <1>2
  <1> HIDE DEF long
  <1>4. Range(long) = Range(seq) \cup {e}
    <2>1. \A x \in Range(long) : x \in Range(seq) \cup {e}
      BY <1>3 DEF Range
    <2>2. \A x \in Range(seq) : x \in Range(long)
      BY <1>3 DEF Range
    <2>3. e \in Range(long)
      BY <1>3 DEF Range
    <2> QED
      BY <2>1, <2>2, <2>3
  <1>5. IsSequence(long)
    BY <1>3, <1>4 DEF IsSequence, S
  <1>6. FoldLeft(Replayed, <<>>, long) = Replayed(FoldLeft(Replayed, <<>>, seq), e)
    BY <1>1, <1>2, LogFold, OfLog!FoldLeftAppend, Zenon DEF long
  <1>7. DOMAIN seq \subseteq DOMAIN long
    BY <1>3
  <1> QED
    BY <1>4, <1>5, <1>6, <1>7 DEF long

----------------------------------------------------------------------------
(* One task moves, the others stay.                                        *)

\* Two functions are the same but for what they give one argument.
SameBut(f, g, id) ==
    \A j : j # id => (j \in DOMAIN f <=> j \in DOMAIN g) /\ (j \in DOMAIN f => f[j] = g[j])

Elsewhere(id) ==
    /\ SameBut(tasks, tasks', id) /\ SameBut(calls, calls', id)
    /\ SameBut(ReplayTasks, ReplayTasks', id)
    /\ \A j : j # id => (j \in faulted <=> j \in faulted')
    /\ \A j : j # id => (j \in runs' => j \in runs)

\* A step of one task leaves every other where it was.
LEMMA OthersStay ==
    ASSUME NEW id, NEW j, j # id, Elsewhere(id), TaskInv(j)
    PROVE  TaskInv(j)'
  <1>1. /\ j \in DOMAIN tasks <=> j \in DOMAIN tasks'
        /\ j \in DOMAIN tasks => tasks'[j] = tasks[j]
        /\ j \in DOMAIN calls <=> j \in DOMAIN calls'
        /\ j \in DOMAIN calls => calls'[j] = calls[j]
        /\ j \in DOMAIN ReplayTasks <=> j \in DOMAIN ReplayTasks'
        /\ j \in DOMAIN ReplayTasks => ReplayTasks'[j] = ReplayTasks[j]
        /\ j \in faulted <=> j \in faulted'
        /\ j \in runs' => j \in runs
    BY DEF Elsewhere, SameBut
  <1>2. ToldOfStart(j) => ToldOfStart(j)'
    BY <1>1 DEF ToldOfStart
  <1>3. j \in DOMAIN ReplayTasks => Rebuilt(j)' = Rebuilt(j)
    BY <1>1 DEF Rebuilt
  <1>4. ASSUME j \in DOMAIN tasks, InLog(j) PROVE InLog(j)'
    BY <1>1, <1>3, <1>4 DEF InLog
  <1>5. ASSUME j \in DOMAIN tasks, j \in DOMAIN calls, calls[j] \in Call, InStep(j, calls[j])
        PROVE  InStep(j, calls[j])'
    <2>1. calls[j].stage # "starting" => j \in DOMAIN ReplayTasks
      BY <1>5 DEF InStep, ToldOfStart
    <2>2. calls'[j] = calls[j] /\ tasks'[j] = tasks[j]
      BY <1>1, <1>5
    <2>3. calls[j].stage # "starting" => Rebuilt(j)' = Rebuilt(j)
      BY <1>3, <2>1
    <2> QED
      BY <1>1, <1>2, <1>5, <2>1, <2>2, <2>3 DEF InStep
  <1>6. j \in DOMAIN tasks' =>
          /\ DOMAIN tasks'[j] = Fields
          /\ tasks'[j].kind # "create" => j \notin DOMAIN ReplayTasks'
          /\ j \in DOMAIN ReplayTasks' =>
                /\ ReplayTasks'[j].tenant = tasks'[j].tenant
                /\ ReplayTasks'[j].session = tasks'[j].session
          /\ tasks'[j].kind = "create" /\ j \notin DOMAIN calls' \cup faulted' => InLog(j)'
    BY <1>1, <1>4 DEF TaskInv
  <1>7. j \in DOMAIN ReplayTasks' =>
          /\ DOMAIN ReplayTasks'[j] = Fields
          /\ ReplayTasks'[j].kind = "create"
          /\ ReplayTasks'[j].manifest \in {Absent} \cup SUBSET KnownCaps
    BY <1>1 DEF TaskInv
  <1>8. j \in DOMAIN calls' =>
          /\ j \in DOMAIN tasks' /\ tasks'[j].kind = "create"
          /\ calls'[j] \in Call /\ Once(calls'[j].grants)
          /\ calls'[j].stage \in {"granting", "undoing"} => calls'[j].grants # <<>>
          /\ j \notin faulted' => InStep(j, calls[j])'
    BY <1>1, <1>5 DEF TaskInv
  <1>9. j \in runs' => j \in DOMAIN tasks' /\ tasks'[j].kind = "workflow"
    BY <1>1 DEF TaskInv
  <1> QED
    BY <1>6, <1>7, <1>8, <1>9 DEF TaskInv

\* Nothing of the store moves.
LEMMA QuietStep ==
    ASSUME StoreInv, UNCHANGED <<tasks, created, calls, faulted>>, runs' \subseteq runs,
           ReplayTasks' = ReplayTasks
    PROVE  StoreInv'
  <1>1. ASSUME NEW j \in 1..created PROVE TaskInv(j)'
    <2>1. PICK id : id \notin 1..created
      BY DEF StoreInv
    <2>2. Elsewhere(id)
      BY DEF Elsewhere, SameBut
    <2> QED
      BY <2>1, <2>2, OthersStay DEF StoreInv
  <1> QED
    BY <1>1 DEF StoreInv

\* A step of one task.
LEMMA TaskStep ==
    ASSUME StoreInv, NEW id \in 1..created', created' \in Nat, created <= created', Elsewhere(id),
           TaskInv(id)', \A j \in 1..created' : j # id => j \in 1..created
    PROVE  StoreInv'
  <1>1. ASSUME NEW j \in 1..created' PROVE TaskInv(j)'
    BY <1>1, OthersStay DEF StoreInv
  <1>2. ASSUME NEW j, j # id
        PROVE  /\ j \in DOMAIN tasks' => j \in 1..created'
               /\ j \in DOMAIN calls' => j \in 1..created'
               /\ j \in DOMAIN ReplayTasks' => j \in 1..created'
               /\ j \in runs' => j \in 1..created'
    <2>1. /\ j \in DOMAIN tasks' => j \in DOMAIN tasks
          /\ j \in DOMAIN calls' => j \in DOMAIN calls
          /\ j \in DOMAIN ReplayTasks' => j \in DOMAIN ReplayTasks
          /\ j \in runs' => j \in runs
      BY <1>2 DEF Elsewhere, SameBut
    <2>2. j \in 1..created => j \in 1..created'
      BY DEF StoreInv
    <2> QED
      BY <2>1, <2>2 DEF StoreInv
  <1>3. /\ DOMAIN tasks' \subseteq 1..created' /\ DOMAIN ReplayTasks' \subseteq 1..created'
        /\ DOMAIN calls' \subseteq 1..created' /\ runs' \subseteq 1..created'
    BY <1>2
  <1> QED
    BY <1>1, <1>3 DEF StoreInv

----------------------------------------------------------------------------
(* The steps of one call.                                                  *)

\* The record stays whose it is, and no other record and no other call moves.
Kept(id) ==
    /\ SameBut(tasks, tasks', id) /\ SameBut(calls, calls', id)
    /\ id \in DOMAIN tasks' /\ DOMAIN tasks'[id] = Fields
    /\ tasks'[id].kind = tasks[id].kind
    /\ tasks'[id].tenant = tasks[id].tenant /\ tasks'[id].session = tasks[id].session

Goes(id) ==
    /\ id \in DOMAIN calls' /\ calls'[id] \in Call /\ Once(calls'[id].grants)
    /\ calls'[id].stage \in {"granting", "undoing"} => calls'[id].grants # <<>>
    /\ id \notin faulted' => InStep(id, calls[id])'

Ends(id) ==
    /\ id \notin DOMAIN calls'
    /\ id \notin faulted' => InLog(id)'

\* What an event that is logged, or refused, leaves of the store.
LEMMA Logged ==
    ASSUME PublishedInv, NEW id, NEW type, NEW cap, NEW ok \in BOOLEAN,
           Log(id, type, cap, ok), type # "artifact.published"
    PROVE  /\ PublishedInv'
           /\ UNCHANGED <<created, runs>>
           /\ ok => faulted' = faulted /\ ReplayTasks' = Replayed(ReplayTasks, Event(type, id, cap))
           /\ ~ok => faulted' = faulted \cup {id} /\ ReplayTasks' = ReplayTasks
           /\ SameBut(ReplayTasks, ReplayTasks', id)
           /\ \A j : j # id => (j \in faulted <=> j \in faulted')
  <1> DEFINE e == Event(type, id, cap)
  <1>1. e.type = type /\ e.task = id
    BY DEF Event
  <1>2. /\ UNCHANGED <<created, runs, artifacts, publishing>>
        /\ log' = IF ok THEN Append(log, e) ELSE log
        /\ faulted' = IF ok THEN faulted ELSE faulted \cup {id}
    BY DEF Log, artifactVars
  <1> HIDE DEF e
  <1>3. CASE ok
    <2>1. /\ IsSequence(log') /\ Range(log') = Range(log) \cup {e}
          /\ ReplayTasks' = Replayed(ReplayTasks, e)
      BY <1>2, <1>3, AppendFacts DEF PublishedInv, ReplayTasks
    <2>2. PublishedInv'
      BY <1>1, <1>2, <2>1 DEF PublishedInv
    <2>3. SameBut(ReplayTasks, ReplayTasks', id)
      <3> DEFINE R == ReplayTasks
      <3> HIDE DEF R
      <3>1. CASE type = "node.started"
        <4>1. e.type = "node.started" /\ e.task = id
          BY <3>1, <1>1
        <4>2. /\ DOMAIN Replayed(R, e) = DOMAIN R \cup {e.task}
              /\ \A j \in DOMAIN R : Replayed(R, e)[j] = R[j]
          BY <4>1, ReplayedStart, Zenon
        <4> QED
          BY <4>1, <4>2, <2>1 DEF SameBut, R
      <3>2. CASE type # "node.started"
        <4>1. /\ DOMAIN Replayed(R, e) = DOMAIN R
              /\ \A j \in DOMAIN R : j # id => Replayed(R, e)[j] = R[j]
          BY <3>2, <1>1, ReplayedOther
        <4> QED
          BY <4>1, <2>1 DEF SameBut, R
      <3> QED
        BY <3>1, <3>2
    <2> QED
      BY <1>2, <1>3, <2>1, <2>2, <2>3 DEF e
  <1>4. CASE ~ok
    <2>1. PublishedInv' /\ ReplayTasks' = ReplayTasks
      BY <1>2, <1>4 DEF PublishedInv, ReplayTasks
    <2> QED
      BY <1>2, <1>4, <2>1 DEF SameBut
  <1> QED
    BY <1>3, <1>4

\* A task that fails has its failure to log, and nothing held.
LEMMA FailsStep ==
    ASSUME NEW id \in DOMAIN calls, id \in DOMAIN tasks, DOMAIN tasks[id] = Fields, Fails(id),
           id \notin faulted' =>
               /\ ToldOfStart(id)' /\ Rebuilt(id)' = {}
               /\ tasks[id].manifest = Absent /\ tasks[id].state = Store!NewTask
    PROVE  Kept(id) /\ Goes(id)
  <1>1. /\ tasks' = [tasks EXCEPT ![id].state = Store!MarkFailed(tasks[id].state, 0)]
        /\ calls' = [calls EXCEPT ![id] = [stage |-> "failing", grants |-> <<>>]]
    BY DEF Fails, SetState, Stage
  <1>2. /\ SameBut(tasks, tasks', id) /\ SameBut(calls, calls', id)
        /\ id \in DOMAIN tasks' /\ DOMAIN tasks'[id] = Fields
        /\ tasks'[id].kind = tasks[id].kind /\ tasks'[id].manifest = tasks[id].manifest
        /\ tasks'[id].tenant = tasks[id].tenant /\ tasks'[id].session = tasks[id].session
        /\ tasks'[id].state = Store!MarkFailed(tasks[id].state, 0)
        /\ id \in DOMAIN calls' /\ calls'[id] = [stage |-> "failing", grants |-> <<>>]
    BY <1>1 DEF SameBut, Fields
  <1>3. <<>> \in Seq(KnownCaps) /\ DOMAIN <<>> = {}
    OBVIOUS
  <1>4. calls'[id] \in Call /\ Once(calls'[id].grants)
    BY <1>2, <1>3 DEF Call, Once
  <1>5. id \notin faulted' => InStep(id, calls[id])'
    BY <1>2 DEF InStep
  <1>6. calls'[id].stage = "failing"
    BY <1>2
  <1> QED
    BY <1>2, <1>4, <1>5, <1>6 DEF Kept, Goes

\* The undo of a baseline takes the grants back one by one.
LEMMA UndoStep ==
    ASSUME NEW id \in DOMAIN calls, id \in DOMAIN tasks, DOMAIN tasks[id] = Fields,
           NEW grants, Once(grants), Undo(id, grants),
           id \notin faulted' =>
               /\ ToldOfStart(id)' /\ Rebuilt(id)' = Range(grants)
               /\ tasks[id].manifest = Absent /\ tasks[id].state = Store!NewTask
    PROVE  Kept(id) /\ Goes(id)
  <1>1. CASE grants = <<>>
    <2>1. Range(grants) = {}
      BY <1>1 DEF Range
    <2>2. Fails(id)
      BY <1>1 DEF Undo
    <2> QED
      BY <2>1, <2>2, FailsStep
  <1>2. CASE grants # <<>>
    <2>1. /\ tasks' = tasks
          /\ calls' = [calls EXCEPT ![id] = [stage |-> "undoing", grants |-> grants]]
      BY <1>2 DEF Undo, Stage
    <2>2. /\ SameBut(tasks, tasks', id) /\ SameBut(calls, calls', id)
          /\ id \in DOMAIN calls' /\ calls'[id] = [stage |-> "undoing", grants |-> grants]
      BY <2>1 DEF SameBut
    <2>3. calls'[id] \in Call
      BY <2>2 DEF Call, Once
    <2>4. id \notin faulted' => InStep(id, calls[id])'
      BY <2>1, <2>2 DEF InStep
    <2> QED
      BY <1>2, <2>1, <2>2, <2>3, <2>4 DEF Kept, Goes
  <1> QED
    BY <1>1, <1>2

\* A baseline is granted one by one, up to the grant that fails.
LEMMA GrantStep ==
    ASSUME NEW id \in DOMAIN calls, id \in DOMAIN tasks, DOMAIN tasks[id] = Fields,
           NEW grants, Once(grants), GrantFrom(id, grants),
           id \notin faulted' =>
               /\ ToldOfStart(id)' /\ Rebuilt(id)' = Range(grants)
               /\ tasks[id].manifest = Absent /\ tasks[id].state = Store!NewTask
    PROVE  Kept(id) /\ Goes(id)
  <1> DEFINE wanted == PresetGrants[tasks[id].preset]
             cap == wanted[Len(grants) + 1]
  <1>1. \/ /\ tasks' = [tasks EXCEPT ![id].manifest = Range(grants)]
           /\ calls' = [calls EXCEPT ![id] = [stage |-> "completing", grants |-> <<>>]]
        \/ /\ cap \in KnownCaps \ Range(grants) /\ tasks' = tasks
           /\ calls' = [calls EXCEPT ![id] = [stage |-> "granting", grants |-> Append(grants, cap)]]
        \/ Undo(id, grants)
    BY DEF GrantFrom, Stage
  <1> HIDE DEF cap
  <1>2. grants \in Seq(KnownCaps) /\ Len(grants) \in Nat /\ DOMAIN grants = 1..Len(grants)
    BY DEF Once
  <1>3. CASE /\ tasks' = [tasks EXCEPT ![id].manifest = Range(grants)]
             /\ calls' = [calls EXCEPT ![id] = [stage |-> "completing", grants |-> <<>>]]
    <2>1. /\ SameBut(tasks, tasks', id) /\ SameBut(calls, calls', id)
          /\ id \in DOMAIN tasks' /\ DOMAIN tasks'[id] = Fields
          /\ tasks'[id].kind = tasks[id].kind /\ tasks'[id].manifest = Range(grants)
          /\ tasks'[id].tenant = tasks[id].tenant /\ tasks'[id].session = tasks[id].session
          /\ tasks'[id].state = tasks[id].state
          /\ id \in DOMAIN calls' /\ calls'[id] = [stage |-> "completing", grants |-> <<>>]
      BY <1>3 DEF SameBut, Fields
    <2>2. <<>> \in Seq(KnownCaps) /\ DOMAIN <<>> = {}
      OBVIOUS
    <2>3. calls'[id] \in Call /\ Once(calls'[id].grants)
      BY <2>1, <2>2 DEF Call, Once
    <2>4. Range(grants) # Absent
      <3>1. \A i \in 1..Len(grants) : grants[i] \in KnownCaps
        BY <1>2
      <3>2. Range(grants) \subseteq KnownCaps
        BY <1>2, <3>1 DEF Range
      <3> QED
        BY <3>2, ManifestAssumption
    <2>5. id \notin faulted' => InStep(id, calls[id])'
      BY <2>1, <2>4 DEF InStep
    <2>6. calls'[id].stage = "completing"
      BY <2>1
    <2> QED
      BY <2>1, <2>3, <2>5, <2>6 DEF Kept, Goes
  <1>4. CASE /\ cap \in KnownCaps \ Range(grants) /\ tasks' = tasks
             /\ calls' = [calls EXCEPT ![id] = [stage |-> "granting", grants |-> Append(grants, cap)]]
    <2> DEFINE more == Append(grants, cap)
    <2>1. /\ more \in Seq(KnownCaps) /\ Len(more) = Len(grants) + 1
          /\ DOMAIN more = 1..(Len(grants) + 1)
          /\ \A i \in 1..Len(grants) : more[i] = grants[i]
          /\ more[Len(grants) + 1] = cap
      BY <1>2, <1>4
    <2>2. calls' = [calls EXCEPT ![id] = [stage |-> "granting", grants |-> more]]
      BY <1>4
    <2> HIDE DEF more
    <2>3. more # <<>> /\ Last(more) = cap
      BY <2>1, <1>2 DEF Last
    <2>4. \A i \in 1..Len(grants) : grants[i] # cap
      BY <1>2, <1>4 DEF Range
    <2>5. Once(more)
      BY <1>2, <2>1, <2>4 DEF Once
    <2>6. Range(more) = Range(grants) \cup {cap}
      <3>1. \A x \in Range(more) : x \in Range(grants) \cup {cap}
        BY <1>2, <2>1 DEF Range
      <3>2. \A x \in Range(grants) : x \in Range(more)
        BY <1>2, <2>1 DEF Range
      <3>3. cap \in Range(more)
        BY <1>2, <2>1 DEF Range
      <3> QED
        BY <3>1, <3>2, <3>3
    <2>7. /\ SameBut(tasks, tasks', id) /\ SameBut(calls, calls', id)
          /\ id \in DOMAIN calls' /\ calls'[id] = [stage |-> "granting", grants |-> more]
      BY <1>4, <2>2 DEF SameBut
    <2>8. calls'[id] \in Call
      BY <2>1, <2>7 DEF Call
    <2>9. id \notin faulted' => InStep(id, calls[id])'
      BY <1>4, <2>3, <2>6, <2>7 DEF InStep
    <2> QED
      BY <1>4, <2>3, <2>5, <2>7, <2>8, <2>9 DEF Kept, Goes
  <1>5. CASE Undo(id, grants)
    BY <1>5, UndoStep
  <1> QED
    BY <1>1, <1>3, <1>4, <1>5

\* What the log tells of the task of a call, after one more event of its.
LEMMA ToldAfter ==
    ASSUME StoreInv, PublishedInv, NEW id \in DOMAIN calls, NEW type, NEW cap, NEW ok \in BOOLEAN,
           Log(id, type, cap, ok), type # "artifact.published",
           type = "grant.granted" => cap \in KnownCaps,
           id \in DOMAIN ReplayTasks'
    PROVE  /\ DOMAIN ReplayTasks'[id] = Fields
           /\ ReplayTasks'[id].kind = "create"
           /\ ReplayTasks'[id].manifest \in {Absent} \cup SUBSET KnownCaps
           /\ ReplayTasks'[id].tenant = tasks[id].tenant
           /\ ReplayTasks'[id].session = tasks[id].session
  <1> DEFINE R == ReplayTasks
             e == Event(type, id, cap)
  <1>1. TaskInv(id) /\ id \in DOMAIN tasks
    BY DEF StoreInv, TaskInv
  <1>2. id \in DOMAIN R =>
          /\ DOMAIN R[id] = Fields /\ R[id].kind = "create"
          /\ R[id].manifest \in {Absent} \cup SUBSET KnownCaps
          /\ R[id].tenant = tasks[id].tenant /\ R[id].session = tasks[id].session
    BY <1>1 DEF TaskInv
  <1>3. /\ e.type = type /\ e.task = id /\ e.cap = cap
        /\ e.tenant = tasks[id].tenant /\ e.session = tasks[id].session
    BY DEF Event
  <1>4. R' = R \/ R' = Replayed(R, e)
    BY Logged
  <1> HIDE DEF R, e
  <1>5. CASE R' = R
    BY <1>2, <1>5 DEF R
  <1>6. CASE R' = Replayed(R, e) /\ type = "node.started"
    <2>1. /\ \A j \in DOMAIN R : Replayed(R, e)[j] = R[j]
          /\ id \notin DOMAIN R =>
                 Replayed(R, e)[id] =
                     [tenant |-> e.tenant, session |-> e.session, kind |-> "create",
                      preset |-> e.preset, manifest |-> Absent,
                      state |-> Store!MarkRunning(Store!NewTask, 1)]
      <3>1. e.type = "node.started"
        BY <1>3, <1>6
      <3> QED
        BY ZenonT(30), <3>1, <1>3, ReplayedStart
    <2>2. CASE id \in DOMAIN R
      BY <2>1, <2>2, <1>2, <1>6 DEF R
    <2>3. CASE id \notin DOMAIN R
      <3>1. R'[id] = [tenant |-> tasks[id].tenant, session |-> tasks[id].session,
                      kind |-> "create", preset |-> e.preset, manifest |-> Absent,
                      state |-> Store!MarkRunning(Store!NewTask, 1)]
        BY <2>1, <2>3, <1>3, <1>6
      <3> QED
        BY <3>1 DEF R, Fields
    <2> QED
      BY <2>2, <2>3
  <1>7. CASE R' = Replayed(R, e) /\ type # "node.started"
    <2>1. id \in DOMAIN R
      BY <1>3, <1>7, ReplayedOther DEF R
    <2> DEFINE now == Replayed(R, e)[id]
               held == R[id].manifest
    <2>2. /\ DOMAIN now = Fields
          /\ now.tenant = R[id].tenant /\ now.session = R[id].session
          /\ now.kind = R[id].kind
          /\ type = "grant.granted" => now.manifest = Default(held, {}) \cup {cap}
          /\ type = "grant.revoked" =>
                now.manifest = IF held = Absent THEN Absent ELSE held \ {cap}
          /\ type \notin {"grant.granted", "grant.revoked"} => now.manifest = held
      <3>1. e.task = id /\ e.type # "node.started" /\ DOMAIN R[id] = Fields
        BY <1>2, <1>3, <1>7, <2>1
      <3> QED
        BY <3>1, <2>1, <1>3, ReplayedHere
    <2>3. held \in {Absent} \cup SUBSET KnownCaps
      BY <1>2, <2>1
    <2>4. now.manifest \in {Absent} \cup SUBSET KnownCaps
      <3> HIDE DEF now, held
      <3>1. CASE type = "grant.granted"
        BY <3>1, <2>2, <2>3 DEF Default
      <3>2. CASE type = "grant.revoked"
        BY <3>2, <2>2, <2>3
      <3>3. CASE type \notin {"grant.granted", "grant.revoked"}
        BY <3>3, <2>2, <2>3
      <3> QED
        BY <3>1, <3>2, <3>3
    <2>5. R'[id] = now
      BY <1>7
    <2> HIDE DEF now
    <2> QED
      BY <1>2, <2>1, <2>2, <2>4, <2>5 DEF R
  <1> QED
    BY <1>4, <1>5, <1>6, <1>7

\* The store after an event of a call, once its task is in order.
LEMMA AfterLog ==
    ASSUME StoreInv, PublishedInv, NEW id \in DOMAIN calls, NEW type, NEW cap, NEW ok \in BOOLEAN,
           Log(id, type, cap, ok), type # "artifact.published",
           type = "grant.granted" => cap \in KnownCaps,
           Kept(id), Goes(id) \/ Ends(id)
    PROVE  StoreInv' /\ PublishedInv'
  <1>1. TaskInv(id) /\ id \in 1..created
    BY DEF StoreInv
  <1>2. /\ PublishedInv' /\ UNCHANGED <<created, runs>>
        /\ SameBut(ReplayTasks, ReplayTasks', id)
        /\ \A j : j # id => (j \in faulted <=> j \in faulted')
    BY Logged
  <1>3. Elsewhere(id)
    BY <1>2 DEF Elsewhere, Kept
  <1>4. tasks[id].kind = "create" /\ id \notin runs
    BY <1>1 DEF TaskInv
  <1>5. id \in DOMAIN ReplayTasks' =>
           /\ DOMAIN ReplayTasks'[id] = Fields
           /\ ReplayTasks'[id].kind = "create"
           /\ ReplayTasks'[id].manifest \in {Absent} \cup SUBSET KnownCaps
           /\ ReplayTasks'[id].tenant = tasks'[id].tenant
           /\ ReplayTasks'[id].session = tasks'[id].session
    BY ToldAfter DEF Kept
  <1>6. id \in DOMAIN tasks' /\ DOMAIN tasks'[id] = Fields /\ tasks'[id].kind = "create"
    BY <1>4 DEF Kept
  <1>7. id \notin DOMAIN calls' \cup faulted' => InLog(id)'
    BY DEF Goes, Ends
  <1>8. id \in DOMAIN calls' =>
          /\ calls'[id] \in Call /\ Once(calls'[id].grants)
          /\ calls'[id].stage \in {"granting", "undoing"} => calls'[id].grants # <<>>
          /\ id \notin faulted' => InStep(id, calls[id])'
    BY DEF Goes, Ends
  <1>9. TaskInv(id)'
    BY <1>2, <1>4, <1>5, <1>6, <1>7, <1>8 DEF TaskInv
  <1>10. StoreInv'
    BY <1>1, <1>2, <1>3, <1>9, TaskStep DEF StoreInv
  <1> QED
    BY <1>2, <1>10

\* The start of the task is logged: its baseline follows.
LEMMA StartLoggedStep ==
    ASSUME StoreInv, PublishedInv, NEW id \in DOMAIN calls, NEW ok \in BOOLEAN, StartLogged(id, ok)
    PROVE  StoreInv' /\ PublishedInv'
  <1> DEFINE e == Event("node.started", id, Absent)
  <1>1. /\ calls[id].stage = "starting" /\ Log(id, "node.started", Absent, ok)
        /\ IF ok THEN GrantFrom(id, <<>>) ELSE Fails(id)
    BY DEF StartLogged
  <1>2. /\ id \in DOMAIN tasks /\ DOMAIN tasks[id] = Fields
        /\ id \notin faulted => InStep(id, calls[id])
    BY DEF StoreInv, TaskInv
  <1>3. Once(<<>>) /\ Range(<<>>) = {}
    BY DEF Once, Range
  <1>4. CASE ok
    <2>1. faulted' = faulted /\ ReplayTasks' = Replayed(ReplayTasks, e)
      BY <1>1, <1>4, Logged
    <2>2. e.type = "node.started" /\ e.task = id
      BY DEF Event
    <2> HIDE DEF e
    <2>3. ASSUME id \notin faulted
          PROVE  /\ ToldOfStart(id)' /\ Rebuilt(id)' = Range(<<>>)
                 /\ tasks[id].manifest = Absent /\ tasks[id].state = Store!NewTask
      <3>1. /\ id \notin DOMAIN ReplayTasks
            /\ tasks[id].manifest = Absent /\ tasks[id].state = Store!NewTask
        BY <1>1, <1>2, <2>3 DEF InStep
      <3>2. /\ DOMAIN ReplayTasks' = DOMAIN ReplayTasks \cup {id}
            /\ ReplayTasks'[id] = [tenant |-> e.tenant, session |-> e.session, kind |-> "create",
                      preset |-> e.preset, manifest |-> Absent,
                      state |-> Store!MarkRunning(Store!NewTask, 1)]
        BY ZenonT(30), <2>1, <2>2, <3>1, ReplayedStart
      <3>3. /\ id \in DOMAIN ReplayTasks' /\ ReplayTasks'[id].manifest = Absent
            /\ ReplayTasks'[id].state = Store!MarkRunning(Store!NewTask, 1)
        BY <3>2
      <3> QED
        BY <1>3, <3>1, <3>3 DEF ToldOfStart, Rebuilt, Default
    <2>4. GrantFrom(id, <<>>)
      BY <1>1, <1>4
    <2>5. Kept(id) /\ Goes(id)
      BY <1>2, <1>3, <2>1, <2>3, <2>4, GrantStep
    <2> QED
      BY <1>1, <2>5, AfterLog
  <1>5. CASE ~ok
    <2>1. id \in faulted'
      BY <1>1, <1>5, Logged
    <2>2. Kept(id) /\ Goes(id)
      BY <1>1, <1>2, <1>5, <2>1, FailsStep
    <2> QED
      BY <1>1, <2>2, AfterLog
  <1> QED
    BY <1>4, <1>5

\* What a restart would give back, after an event of a task whose start is told.
LEMMA ToldMore ==
    ASSUME StoreInv, PublishedInv, NEW id \in DOMAIN calls, NEW type, NEW cap, NEW ok \in BOOLEAN, ok,
           Log(id, type, cap, ok), type \notin {"artifact.published", "node.started"},
           type = "grant.granted" => cap \in KnownCaps,
           id \notin faulted, calls[id].stage # "starting"
    PROVE  LET run == Store!MarkRunning(Store!NewTask, 1)
               now == ReplayTasks'[id]
           IN  /\ InStep(id, calls[id]) /\ id \in DOMAIN ReplayTasks'
               /\ type = "grant.granted" => Rebuilt(id)' = Rebuilt(id) \cup {cap}
               /\ type = "grant.revoked" => Rebuilt(id)' = Rebuilt(id) \ {cap}
               /\ type \notin {"grant.granted", "grant.revoked"} => Rebuilt(id)' = Rebuilt(id)
               /\ type = "node.completed" => now.state = Store!NodeCompleted(run, "worker", 1)
               /\ type = "node.failed" => now.state = Store!NodeFailed(run, "crash", 1)
               /\ type \in {"grant.granted", "grant.revoked"} => ToldOfStart(id)'
  <1> DEFINE R == ReplayTasks
             e == Event(type, id, cap)
             run == Store!MarkRunning(Store!NewTask, 1)
             held == R[id].manifest
             now == Replayed(R, e)[id]
  <1>1. id \in DOMAIN R => DOMAIN R[id] = Fields /\ held \in {Absent} \cup SUBSET KnownCaps
    BY DEF StoreInv, TaskInv
  <1>2. InStep(id, calls[id])
    BY DEF StoreInv, TaskInv
  <1>3. id \in DOMAIN R /\ R[id].state = run
    BY <1>2 DEF InStep, ToldOfStart
  <1>4. R' = Replayed(R, e)
    BY Logged
  <1>5. e.type = type /\ e.task = id /\ e.cap = cap
    BY DEF Event
  <1> HIDE DEF R, e, run, held, now
  <1>6. /\ type = "grant.granted" => now.manifest = Default(held, {}) \cup {cap} /\ now.state = run
        /\ type = "grant.revoked" =>
               now.manifest = (IF held = Absent THEN Absent ELSE held \ {cap}) /\ now.state = run
        /\ type \notin {"grant.granted", "grant.revoked"} => now.manifest = held
        /\ type = "node.completed" => now.state = Store!NodeCompleted(run, "worker", 1)
        /\ type = "node.failed" => now.state = Store!NodeFailed(run, "crash", 1)
    BY <1>1, <1>2, <1>3, <1>5, ReplayedHere DEF now, held
  <1>7. id \in DOMAIN R' /\ R'[id] = now
    BY <1>3, <1>4, <1>5, ReplayedOther DEF now
  <1>8. Rebuilt(id) = Default(held, {}) /\ Rebuilt(id)' = Default(now.manifest, {})
    BY <1>7 DEF Rebuilt, R, held
  <1>9. held \in {Absent} \cup SUBSET KnownCaps
    BY <1>1, <1>2, <1>3
  <1>10. CASE type = "grant.granted"
    <2>1. now.manifest \in SUBSET KnownCaps
      BY <1>6, <1>9, <1>10 DEF Default
    <2>2. now.manifest # Absent
      BY <2>1, ManifestAssumption
    <2> QED
      BY <1>2, <1>6, <1>7, <1>8, <1>10, <2>2 DEF Default, ToldOfStart, R, run
  <1>11. CASE type = "grant.revoked"
    <2>1. CASE held = Absent
      BY <1>2, <1>6, <1>7, <1>8, <1>11, <2>1 DEF Default, ToldOfStart, R, run
    <2>2. CASE held # Absent
      <3>1. now.manifest \in SUBSET KnownCaps
        BY <1>6, <1>9, <1>11, <2>2
      <3>2. now.manifest # Absent
        BY <3>1, ManifestAssumption
      <3> QED
        BY <1>2, <1>6, <1>7, <1>8, <1>11, <2>2, <3>2 DEF Default, ToldOfStart, R, run
    <2> QED
      BY <2>1, <2>2
  <1>12. CASE type \notin {"grant.granted", "grant.revoked"}
    BY <1>2, <1>6, <1>7, <1>8, <1>12 DEF R, run
  <1> QED
    BY <1>10, <1>11, <1>12

\* A grant is logged: the next one follows.
LEMMA GrantLoggedStep ==
    ASSUME StoreInv, PublishedInv, NEW id \in DOMAIN calls, NEW ok \in BOOLEAN, GrantLogged(id, ok)
    PROVE  StoreInv' /\ PublishedInv'
  <1> DEFINE grants == calls[id].grants
  <1>1. /\ calls[id].stage = "granting" /\ Log(id, "grant.granted", Last(grants), ok)
        /\ IF ok THEN GrantFrom(id, grants) ELSE Undo(id, grants)
    BY DEF GrantLogged
  <1>2. /\ id \in DOMAIN tasks /\ DOMAIN tasks[id] = Fields
        /\ id \notin faulted => InStep(id, calls[id])
        /\ Once(grants) /\ grants # <<>>
    BY <1>1 DEF StoreInv, TaskInv
  <1> HIDE DEF grants
  <1>3. Last(grants) \in KnownCaps
    <2>1. grants \in Seq(KnownCaps) /\ Len(grants) \in Nat /\ Len(grants) # 0
      BY <1>2, EmptySeq DEF Once
    <2> QED
      BY <2>1 DEF Last
  <1>4. CASE ok
    <2>1. faulted' = faulted
      BY <1>1, <1>4, Logged
    <2>2. ASSUME id \notin faulted
          PROVE  /\ ToldOfStart(id)' /\ Rebuilt(id)' = Range(grants)
                 /\ tasks[id].manifest = Absent /\ tasks[id].state = Store!NewTask
      <3>1. /\ Rebuilt(id)' = Rebuilt(id) \cup {Last(grants)} /\ ToldOfStart(id)'
            /\ InStep(id, calls[id])
        BY <1>1, <1>3, <1>4, <2>2, ToldMore
      <3> QED
        BY <3>1, <1>1 DEF InStep, grants
    <2>3. GrantFrom(id, grants)
      BY <1>1, <1>4
    <2>4. Kept(id) /\ Goes(id)
      BY <1>2, <2>1, <2>2, <2>3, GrantStep
    <2> QED
      BY <1>1, <1>3, <2>4, AfterLog
  <1>5. CASE ~ok
    <2>1. id \in faulted'
      BY <1>1, <1>5, Logged
    <2>2. Kept(id) /\ Goes(id)
      BY <1>1, <1>2, <1>5, <2>1, UndoStep
    <2> QED
      BY <1>1, <1>3, <2>2, AfterLog
  <1> QED
    BY <1>4, <1>5

\* Grants that are listed once, without the first.
LEMMA TailOnce ==
    ASSUME NEW grants, Once(grants), grants # <<>>
    PROVE  Once(Tail(grants)) /\ Range(Tail(grants)) = Range(grants) \ {Head(grants)}
  <1> DEFINE k == Len(grants)
             rest == Tail(grants)
  <1>1. grants \in Seq(KnownCaps) /\ k \in Nat /\ DOMAIN grants = 1..k /\ k # 0
    BY EmptySeq DEF Once
  <1>2. /\ rest \in Seq(KnownCaps) /\ DOMAIN rest = 1..(k - 1)
        /\ \A i \in 1..(k - 1) : rest[i] = grants[i + 1]
        /\ Head(grants) = grants[1]
    BY <1>1
  <1> HIDE DEF rest, k
  <1>3. \A i, j \in 1..k : grants[i] = grants[j] => i = j
    BY <1>1 DEF Once
  <1>4. \A i, j \in 1..(k - 1) : rest[i] = rest[j] => i = j
    BY <1>1, <1>2, <1>3
  <1>5. \A x \in Range(rest) : x \in Range(grants) \ {Head(grants)}
    <2> SUFFICES ASSUME NEW i \in 1..(k - 1) PROVE rest[i] \in Range(grants) \ {Head(grants)}
      BY <1>2 DEF Range
    <2>1. i + 1 \in 1..k /\ 1 \in 1..k /\ i + 1 # 1
      BY <1>1
    <2> QED
      BY <2>1, <1>1, <1>2, <1>3 DEF Range
  <1>6. \A x \in Range(grants) \ {Head(grants)} : x \in Range(rest)
    <2> SUFFICES ASSUME NEW i \in 1..k, grants[i] # grants[1] PROVE grants[i] \in Range(rest)
      BY <1>1, <1>2 DEF Range
    <2>1. i - 1 \in 1..(k - 1) /\ (i - 1) + 1 = i
      BY <1>1
    <2> QED
      BY <2>1, <1>2 DEF Range
  <1> QED
    BY <1>2, <1>4, <1>5, <1>6 DEF Once, rest

\* A revocation is logged: the next one follows, or the failure.
LEMMA UndoLoggedStep ==
    ASSUME StoreInv, PublishedInv, NEW id \in DOMAIN calls, NEW ok \in BOOLEAN, UndoLogged(id, ok)
    PROVE  StoreInv' /\ PublishedInv'
  <1> DEFINE grants == calls[id].grants
  <1>1. /\ calls[id].stage = "undoing" /\ Log(id, "grant.revoked", Head(grants), ok)
        /\ Undo(id, Tail(grants))
    BY DEF UndoLogged
  <1>2. /\ id \in DOMAIN tasks /\ DOMAIN tasks[id] = Fields
        /\ id \notin faulted => InStep(id, calls[id])
        /\ Once(grants) /\ grants # <<>>
    BY <1>1 DEF StoreInv, TaskInv
  <1> HIDE DEF grants
  <1>3. Once(Tail(grants)) /\ Range(Tail(grants)) = Range(grants) \ {Head(grants)}
    BY <1>2, TailOnce
  <1>4. ASSUME id \notin faulted'
        PROVE  /\ ToldOfStart(id)' /\ Rebuilt(id)' = Range(Tail(grants))
               /\ tasks[id].manifest = Absent /\ tasks[id].state = Store!NewTask
    <2>1. ok /\ id \notin faulted
      BY <1>1, <1>4, Logged
    <2>2. /\ Rebuilt(id)' = Rebuilt(id) \ {Head(grants)} /\ ToldOfStart(id)'
          /\ InStep(id, calls[id])
      <3>1. CASE ok
        BY <1>1, <2>1, <3>1, ToldMore
      <3>2. CASE ~ok
        BY <2>1, <3>2
      <3> QED
        BY <3>1, <3>2
    <2> QED
      BY <1>1, <1>3, <2>2 DEF InStep, grants
  <1>5. Kept(id) /\ Goes(id)
    BY <1>1, <1>2, <1>3, <1>4, UndoStep
  <1> QED
    BY <1>1, <1>5, AfterLog

\* The completion is logged: live and replayed record are completed.
LEMMA CompletionLoggedStep ==
    ASSUME StoreInv, PublishedInv, NEW id \in DOMAIN calls, NEW ok \in BOOLEAN,
           CompletionLogged(id, ok)
    PROVE  StoreInv' /\ PublishedInv'
  <1>1. /\ calls[id].stage = "completing" /\ Log(id, "node.completed", Absent, ok)
        /\ IF ok THEN SetState(id, Store!MarkCompleted(tasks[id].state)) /\ Returned(id)
           ELSE Fails(id)
    BY DEF CompletionLogged
  <1>2. /\ id \in DOMAIN tasks /\ DOMAIN tasks[id] = Fields
        /\ id \notin faulted => InStep(id, calls[id])
    BY DEF StoreInv, TaskInv
  <1>3. CASE ok
    <2>1. /\ tasks' = [tasks EXCEPT ![id].state = Store!MarkCompleted(tasks[id].state)]
          /\ calls' = [n \in DOMAIN calls \ {id} |-> calls[n]]
      BY <1>1, <1>3 DEF SetState, Returned
    <2>2. /\ SameBut(tasks, tasks', id) /\ SameBut(calls, calls', id)
          /\ id \in DOMAIN tasks' /\ DOMAIN tasks'[id] = Fields
          /\ tasks'[id].kind = tasks[id].kind /\ tasks'[id].manifest = tasks[id].manifest
          /\ tasks'[id].tenant = tasks[id].tenant /\ tasks'[id].session = tasks[id].session
          /\ tasks'[id].state = Store!MarkCompleted(tasks[id].state)
          /\ id \notin DOMAIN calls'
      BY <1>2, <2>1 DEF SameBut, Fields
    <2>3. ASSUME id \notin faulted' PROVE InLog(id)'
      <3>1. id \notin faulted
        BY <1>1, <1>3, <2>3, Logged
      <3>2. /\ InStep(id, calls[id]) /\ id \in DOMAIN ReplayTasks' /\ Rebuilt(id)' = Rebuilt(id)
            /\ ReplayTasks'[id].state
                 = Store!NodeCompleted(Store!MarkRunning(Store!NewTask, 1), "worker", 1)
        BY <1>1, <1>3, <3>1, ToldMore
      <3>3. /\ tasks[id].manifest = Rebuilt(id) /\ Rebuilt(id) # Absent
            /\ tasks[id].state = Store!NewTask
        BY <1>1, <3>2 DEF InStep
      <3>4. Default(tasks'[id].manifest, {}) = Rebuilt(id)'
        BY <2>2, <3>2, <3>3 DEF Default
      <3>5. ReplayTasks'[id].state.status = tasks'[id].state.status
        BY <2>2, <3>2, <3>3, StoreFacts
      <3> QED
        BY <3>2, <3>4, <3>5 DEF InLog
    <2> QED
      BY <1>1, <2>2, <2>3, AfterLog DEF Kept, Ends
  <1>4. CASE ~ok
    <2>1. id \in faulted'
      BY <1>1, <1>4, Logged
    <2>2. Kept(id) /\ Goes(id)
      BY <1>1, <1>2, <1>4, <2>1, FailsStep
    <2> QED
      BY <1>1, <2>2, AfterLog
  <1> QED
    BY <1>3, <1>4

\* The failure is logged: live and replayed record have failed.
LEMMA FailureLoggedStep ==
    ASSUME StoreInv, PublishedInv, NEW id \in DOMAIN calls, NEW ok \in BOOLEAN,
           FailureLogged(id, ok)
    PROVE  StoreInv' /\ PublishedInv'
  <1>1. /\ calls[id].stage = "failing" /\ Log(id, "node.failed", Absent, ok)
        /\ calls' = [n \in DOMAIN calls \ {id} |-> calls[n]]
        /\ tasks' = tasks
    BY DEF FailureLogged, Returned
  <1>2. /\ id \in DOMAIN tasks /\ DOMAIN tasks[id] = Fields
        /\ id \notin faulted => InStep(id, calls[id])
    BY DEF StoreInv, TaskInv
  <1>3. SameBut(calls, calls', id) /\ id \notin DOMAIN calls' /\ SameBut(tasks, tasks', id)
    BY <1>1 DEF SameBut
  <1>4. ASSUME id \notin faulted' PROVE InLog(id)'
    <2>1. ok /\ id \notin faulted
      BY <1>1, <1>4, Logged
    <2>2. /\ InStep(id, calls[id]) /\ id \in DOMAIN ReplayTasks' /\ Rebuilt(id)' = Rebuilt(id)
          /\ ReplayTasks'[id].state
               = Store!NodeFailed(Store!MarkRunning(Store!NewTask, 1), "crash", 1)
      <3>1. CASE ok
        BY <1>1, <2>1, <3>1, ToldMore
      <3>2. CASE ~ok
        BY <2>1, <3>2
      <3> QED
        BY <3>1, <3>2
    <2>3. /\ tasks[id].manifest = Absent /\ Rebuilt(id) = {}
          /\ tasks[id].state = Store!MarkFailed(Store!NewTask, 0)
      BY <1>1, <2>2 DEF InStep
    <2>4. Default(tasks'[id].manifest, {}) = Rebuilt(id)'
      BY <1>1, <2>2, <2>3 DEF Default
    <2>5. ReplayTasks'[id].state.status = tasks'[id].state.status
      BY <1>1, <2>2, <2>3, StoreFacts
    <2> QED
      BY <2>2, <2>4, <2>5 DEF InLog
  <1> QED
    BY <1>1, <1>2, <1>3, <1>4, AfterLog DEF Kept, Ends

----------------------------------------------------------------------------
(* The other steps.                                                        *)

\* Setting one entry of a map.
LEMMA IncludingFacts ==
    ASSUME NEW f, NEW id, NEW value
    PROVE  /\ DOMAIN Including(f, id, value) = DOMAIN f \cup {id}
           /\ \A j \in DOMAIN f : Including(f, id, value)[j] = f[j]
           /\ id \notin DOMAIN f => Including(f, id, value)[id] = value
           /\ SameBut(f, Including(f, id, value), id)
  BY DEF Including, SameBut

\* The number of a new task is nobody's yet.
LEMMA NewId ==
    ASSUME StoreInv
    PROVE  LET id == created + 1
           IN  /\ id \in Nat /\ id \in 1..id /\ created <= id
               /\ \A j \in 1..id : j # id => j \in 1..created
               /\ id \notin DOMAIN tasks /\ id \notin DOMAIN ReplayTasks
               /\ id \notin DOMAIN calls /\ id \notin runs
  BY DEF StoreInv

\* task.create makes a task that nothing in the log tells of yet.
LEMMA TaskCreateStep ==
    ASSUME StoreInv, NEW p, NEW identity, NEW preset, TaskCreate(p, identity, preset)
    PROVE  StoreInv'
  <1>0. PICK id : id = created + 1
    OBVIOUS
  <1> DEFINE record == NewRecord(ResolvePrincipal(p, identity), "create", preset)
             call == [stage |-> "starting", grants |-> <<>>]
  <1>1. /\ created' = id /\ tasks' = Including(tasks, id, record)
        /\ calls' = Including(calls, id, call)
        /\ UNCHANGED <<runs, log, faulted>>
    BY <1>0 DEF TaskCreate
  <1>2. ReplayTasks' = ReplayTasks
    BY <1>1 DEF ReplayTasks
  <1>3. /\ DOMAIN record = Fields /\ record.kind = "create" /\ record.manifest = Absent
        /\ record.state = Store!NewTask
    BY DEF NewRecord, Fields
  <1>4. call \in Call /\ Once(call.grants) /\ call.stage = "starting"
    <2>1. <<>> \in Seq(KnownCaps) /\ DOMAIN <<>> = {}
      OBVIOUS
    <2> QED
      BY <2>1 DEF Call, Once
  <1> HIDE DEF record, call
  <1>5. /\ id \in Nat /\ id \in 1..id /\ created <= id
        /\ \A j \in 1..id : j # id => j \in 1..created
        /\ id \notin DOMAIN tasks /\ id \notin DOMAIN ReplayTasks
        /\ id \notin DOMAIN calls /\ id \notin runs
    BY <1>0, NewId
  <1>6. Elsewhere(id)
    <2>1. SameBut(tasks, tasks', id) /\ SameBut(calls, calls', id)
      BY <1>1, IncludingFacts
    <2> QED
      BY <1>1, <1>2, <2>1 DEF Elsewhere, SameBut
  <1>7. /\ id \in DOMAIN tasks' /\ tasks'[id] = record
        /\ id \in DOMAIN calls' /\ calls'[id] = call
    BY ZenonT(30), <1>1, <1>5, IncludingFacts
  <1>8. InStep(id, calls[id])'
    BY <1>2, <1>3, <1>4, <1>5, <1>7 DEF InStep
  <1>9. TaskInv(id)'
    BY <1>1, <1>2, <1>3, <1>4, <1>5, <1>7, <1>8 DEF TaskInv
  <1> QED
    BY <1>1, <1>5, <1>6, <1>9, TaskStep

\* So does workflow.run, outside the calls of task.create.
LEMMA WorkflowRunStep ==
    ASSUME StoreInv, NEW p, NEW identity, NEW budget, WorkflowRun(p, identity, budget)
    PROVE  StoreInv'
  <1>0. PICK id : id = created + 1
    OBVIOUS
  <1> DEFINE record == NewRecord(ResolvePrincipal(p, identity), "workflow", Absent)
  <1>1. /\ created' = id /\ tasks' = Including(tasks, id, record)
        /\ runs' \subseteq runs \cup {id}
        /\ UNCHANGED <<calls, log, faulted>>
    BY <1>0 DEF WorkflowRun
  <1>2. ReplayTasks' = ReplayTasks
    BY <1>1 DEF ReplayTasks
  <1>3. DOMAIN record = Fields /\ record.kind = "workflow"
    BY DEF NewRecord, Fields
  <1> HIDE DEF record
  <1>4. /\ id \in Nat /\ id \in 1..id /\ created <= id
        /\ \A j \in 1..id : j # id => j \in 1..created
        /\ id \notin DOMAIN tasks /\ id \notin DOMAIN ReplayTasks
        /\ id \notin DOMAIN calls /\ id \notin runs
    BY <1>0, NewId
  <1>5. Elsewhere(id)
    <2>1. SameBut(tasks, tasks', id)
      BY <1>1, IncludingFacts
    <2>2. \A j : j # id => (j \in runs' => j \in runs)
      BY <1>1
    <2> QED
      BY <1>1, <1>2, <2>1, <2>2 DEF Elsewhere, SameBut
  <1>6. id \in DOMAIN tasks' /\ tasks'[id] = record
    BY ZenonT(30), <1>1, <1>4, IncludingFacts
  <1>7. TaskInv(id)'
    BY <1>1, <1>2, <1>3, <1>4, <1>6 DEF TaskInv
  <1> QED
    BY <1>1, <1>4, <1>5, <1>7, TaskStep

\* A run that throws before its first event leaves a task the log tells nothing of.
LEMMA EngineThrowsStep ==
    ASSUME StoreInv, PublishedInv, NEW id \in runs, NEW ok \in BOOLEAN, EngineThrows(id, ok)
    PROVE  StoreInv' /\ PublishedInv'
  <1> DEFINE e == Event("node.failed", id, Absent)
  <1>1. /\ runs' = runs \ {id} /\ log' = IF ok THEN Append(log, e) ELSE log
        /\ faulted' = IF ok THEN faulted ELSE faulted \cup {id}
        /\ tasks' = [tasks EXCEPT ![id].state = Store!MarkFailed(tasks[id].state, 0)]
        /\ UNCHANGED <<created, calls, artifacts, publishing>>
    BY DEF EngineThrows, SetState, artifactVars
  <1>2. e.type = "node.failed" /\ e.task = id
    BY DEF Event
  <1> HIDE DEF e
  <1>3. /\ TaskInv(id) /\ id \in 1..created
        /\ id \in DOMAIN tasks /\ tasks[id].kind = "workflow" /\ DOMAIN tasks[id] = Fields
        /\ id \notin DOMAIN ReplayTasks /\ id \notin DOMAIN calls
    BY DEF StoreInv, TaskInv
  <1>4. ReplayTasks' = ReplayTasks /\ PublishedInv'
    <2>1. CASE ok
      <3>1. /\ IsSequence(log') /\ Range(log') = Range(log) \cup {e}
            /\ ReplayTasks' = Replayed(ReplayTasks, e)
        BY <1>1, <2>1, AppendFacts DEF PublishedInv, ReplayTasks
      <3>2. Replayed(ReplayTasks, e) = ReplayTasks
        BY <1>2, <1>3, ReplayedOther
      <3> QED
        BY <1>1, <1>2, <3>1, <3>2 DEF PublishedInv
    <2>2. CASE ~ok
      BY <1>1, <2>2 DEF PublishedInv, ReplayTasks
    <2> QED
      BY <2>1, <2>2
  <1>5. /\ SameBut(tasks, tasks', id) /\ id \in DOMAIN tasks' /\ DOMAIN tasks'[id] = Fields
        /\ tasks'[id].kind = "workflow"
    BY <1>1, <1>3 DEF SameBut, Fields
  <1>6. Elsewhere(id)
    BY <1>1, <1>4, <1>5 DEF Elsewhere, SameBut
  <1>7. TaskInv(id)'
    BY <1>1, <1>3, <1>4, <1>5 DEF TaskInv
  <1>8. StoreInv'
    BY <1>1, <1>3, <1>6, <1>7, TaskStep DEF StoreInv
  <1> QED
    BY <1>4, <1>8

\* A publication concerns no task.
LEMMA ArtifactPublishStep ==
    ASSUME StoreInv, PublishedInv, NEW p, NEW identity, ArtifactPublish(p, identity)
    PROVE  StoreInv' /\ PublishedInv'
  <1> DEFINE ns == ResolveNamespace(p, identity)
             a == [tenant |-> ns.tenant, task |-> ns.task]
  <1>1. /\ artifacts' = Append(artifacts, a) /\ publishing' = publishing \cup {Len(artifacts')}
        /\ UNCHANGED <<tasks, created, calls, runs, log, faulted>>
    BY DEF ArtifactPublish
  <1> HIDE DEF a
  <1>2. /\ IsSequence(artifacts') /\ Range(artifacts') = Range(artifacts) \cup {a}
        /\ DOMAIN artifacts \subseteq DOMAIN artifacts'
    BY <1>1, AppendFacts DEF PublishedInv
  <1>3. Len(artifacts') \in DOMAIN artifacts'
    <2>1. artifacts \in Seq(Range(artifacts) \cup {a})
      BY DEF PublishedInv, IsSequence
    <2> QED
      BY <1>1, <2>1
  <1>4. PublishedInv'
    BY <1>1, <1>2, <1>3 DEF PublishedInv
  <1>5. ReplayTasks' = ReplayTasks
    BY <1>1 DEF ReplayTasks
  <1> QED
    BY <1>1, <1>4, <1>5, QuietStep

\* Its event names no task that is in the store.
LEMMA PublicationLoggedStep ==
    ASSUME StoreInv, PublishedInv, NEW i \in publishing, NEW ok \in BOOLEAN,
           PublicationLogged(i, ok)
    PROVE  StoreInv' /\ PublishedInv'
  <1> DEFINE e == [type |-> "artifact.published", task |-> artifacts[i].task,
                   tenant |-> artifacts[i].tenant, session |-> Absent, preset |-> Absent,
                   cap |-> Absent]
  <1>1. /\ publishing' = publishing \ {i} /\ log' = IF ok THEN Append(log, e) ELSE log
        /\ UNCHANGED <<tasks, created, calls, runs, artifacts, faulted>>
    BY DEF PublicationLogged
  <1>2. /\ e.type = "artifact.published" /\ e.task = artifacts[i].task
        /\ e.tenant = artifacts[i].tenant
    OBVIOUS
  <1> HIDE DEF e
  <1>3. artifacts[i] \in Range(artifacts)
    BY DEF PublishedInv, Range
  <1>4. CASE ok
    <2>1. /\ IsSequence(log') /\ Range(log') = Range(log) \cup {e}
          /\ ReplayTasks' = Replayed(ReplayTasks, e)
      BY <1>1, <1>4, AppendFacts DEF PublishedInv, ReplayTasks
    <2>2. Replayed(ReplayTasks, e) = ReplayTasks
      BY <1>2 DEF Replayed
    <2>3. PublishedInv'
      BY <1>1, <1>2, <1>3, <2>1 DEF PublishedInv
    <2> QED
      BY <1>1, <2>1, <2>2, <2>3, QuietStep
  <1>5. CASE ~ok
    <2>1. PublishedInv' /\ ReplayTasks' = ReplayTasks
      BY <1>1, <1>5 DEF PublishedInv, ReplayTasks
    <2> QED
      BY <1>1, <2>1, QuietStep
  <1> QED
    BY <1>4, <1>5

\* A restart makes of the log the tasks that were there.
LEMMA CrashStep ==
    ASSUME StoreInv, PublishedInv, Crash
    PROVE  StoreInv' /\ PublishedInv'
  <1>1. /\ tasks' = ReplayTasks /\ calls' = <<>> /\ runs' = {} /\ publishing' = {}
        /\ UNCHANGED <<created, artifacts, log, faulted>>
    BY DEF Crash
  <1>2. ReplayTasks' = ReplayTasks
    BY <1>1 DEF ReplayTasks
  <1>3. DOMAIN calls' = {}
    BY <1>1
  <1>4. ASSUME NEW id \in 1..created PROVE TaskInv(id)'
    <2>1. id \in DOMAIN ReplayTasks =>
             /\ DOMAIN ReplayTasks[id] = Fields
             /\ ReplayTasks[id].kind = "create"
             /\ ReplayTasks[id].manifest \in {Absent} \cup SUBSET KnownCaps
      BY DEF StoreInv, TaskInv
    <2>2. id \in DOMAIN ReplayTasks => InLog(id)'
      BY <1>1, <1>2 DEF InLog, Rebuilt
    <2> QED
      BY <1>1, <1>2, <1>3, <2>1, <2>2 DEF TaskInv
  <1>5. StoreInv'
    BY <1>1, <1>2, <1>3, <1>4 DEF StoreInv
  <1> QED
    BY <1>1, <1>5 DEF PublishedInv

\* The store is in order at first,
LEMMA StoreInit == Init => StoreInv /\ PublishedInv
  <1> SUFFICES ASSUME Init PROVE StoreInv /\ PublishedInv
    OBVIOUS
  <1>1. /\ created = 0 /\ tasks = <<>> /\ calls = <<>> /\ runs = {} /\ artifacts = <<>>
        /\ publishing = {} /\ log = <<>>
    BY DEF Init
  <1>2. ReplayTasks = <<>>
    BY <1>1, LogFold, OfLog!FoldLeftEmpty, Zenon DEF ReplayTasks
  <1>3. DOMAIN <<>> = {} /\ \A S : <<>> \in Seq(S)
    OBVIOUS
  <1>4. Range(<<>>) = {}
    BY DEF Range
  <1> QED
    BY <1>1, <1>2, <1>3, <1>4 DEF StoreInv, PublishedInv, IsSequence

\* and after every step.
LEMMA StoreNext == StoreInv /\ PublishedInv /\ [Next]_vars => StoreInv' /\ PublishedInv'
  <1> SUFFICES ASSUME StoreInv, PublishedInv, [Next]_vars PROVE StoreInv' /\ PublishedInv'
    OBVIOUS
  <1>1. CASE UNCHANGED <<tasks, created, calls, runs, artifacts, publishing, log, faulted>>
    <2>1. ReplayTasks' = ReplayTasks /\ PublishedInv'
      BY <1>1 DEF ReplayTasks, PublishedInv
    <2> QED
      BY <1>1, <2>1, QuietStep
  <1>2. ASSUME NEW p, NEW identity, NEW preset, TaskCreate(p, identity, preset)
        PROVE  StoreInv' /\ PublishedInv'
    BY <1>2, TaskCreateStep DEF TaskCreate, artifactVars, PublishedInv
  <1>3. ASSUME NEW p, NEW identity, NEW budget, WorkflowRun(p, identity, budget)
        PROVE  StoreInv' /\ PublishedInv'
    BY <1>3, WorkflowRunStep DEF WorkflowRun, artifactVars, PublishedInv
  <1>4. CASE \E identity \in Identities :
               \/ \E tenant \in Tenants, session \in SessionIds :
                     SessionInit(identity, tenant, session)
               \/ ModelsFeedback(identity)
               \/ \E id \in DOMAIN budgets, limit \in Limits : BudgetRaise(id, identity, limit)
    BY <1>1, <1>4 DEF SessionInit, ModelsFeedback, BudgetRaise, artifactVars
  <1>5. CASE \E ok \in BOOLEAN : \/ \E w \in tokenWrites : TokenWritten(w, ok)
                               \/ \E w \in modelWrites : ModelsWritten(w, ok)
    BY <1>1, <1>5 DEF TokenWritten, ModelsWritten, artifactVars
  <1>6. CASE UNCHANGED vars
    BY <1>1, <1>6 DEF vars, artifactVars
  <1>7. CASE Next
    BY <1>2, <1>3, <1>4, <1>5, <1>7, ArtifactPublishStep, StartLoggedStep, GrantLoggedStep,
       UndoLoggedStep, CompletionLoggedStep, FailureLoggedStep, EngineThrowsStep,
       PublicationLoggedStep, CrashStep DEF Next
  <1> QED
    BY <1>6, <1>7

\* What task.create has left of a task is what a restart makes of it, wherever
\* its grants stopped and whatever other calls and crashes came between.
THEOREM RestartKeeps == Spec => []RestartKeepsTasks
  <1>1. ASSUME StoreInv, PublishedInv PROVE RestartKeepsTasks
    <2>1. ASSUME NEW id \in DOMAIN tasks \ (DOMAIN calls \cup faulted), tasks[id].kind = "create"
          PROVE  /\ InLog(id) /\ ReplayTasks[id].tenant = tasks[id].tenant
                 /\ ReplayTasks[id].session = tasks[id].session
      BY <1>1, <2>1 DEF StoreInv, TaskInv, InLog
    <2> QED
      BY <1>1, <2>1 DEF RestartKeepsTasks, PublishedInv, InLog, Rebuilt
  <1> QED
    BY StoreInit, StoreNext, <1>1, PTL DEF Spec

----------------------------------------------------------------------------
(* Who may read what.                                                      *)

\* The counters, and the samples of every snapshot, are numbers; no more tasks
\* are made than there is room for.
WorkInv ==
    /\ issued \in Nat /\ samples \in Nat /\ created <= MaxWork
    /\ \A w \in modelWrites \cup {modelsFile} : w.body \in Nat

OfCallers(set) == \A t \in set : t.tenant \in Tenants /\ t.session \in SessionIds

\* The tokens in memory and those on disk are of callers there can be.
CallersInv ==
    /\ OfCallers(tokens)
    /\ \A w \in tokenWrites \cup {tokensFile} : OfCallers(w.body)

\* An event other than a publication is of a task that was made, and of those
\* whose task it is as long as the task is known.
EventInv(e) ==
    /\ e.session \in {Absent} \cup SessionIds
    /\ e.type = "artifact.published" => e.session = Absent
    /\ e.type # "artifact.published" =>
          /\ e.task \in 1..created
          /\ e.task \in DOMAIN tasks => /\ e.tenant = tasks[e.task].tenant
                                        /\ e.session = tasks[e.task].session

OwnersInv ==
    /\ DOMAIN ReplayTasks \subseteq DOMAIN tasks
    /\ \A id \in DOMAIN tasks : tasks[id].session \in {Absent} \cup SessionIds
    /\ \A e \in Range(log) : EventInv(e)

ReadsInv ==
    /\ TokensInv /\ StoreInv /\ PublishedInv
    /\ WorkInv /\ CallersInv /\ OwnersInv

\* The least of some numbers is one of them.
LEMMA OldestIs ==
    ASSUME NEW T, T \subseteq Nat, T # {}
    PROVE  Min(T) \in T
  <1>1. \E x \in T : \A y \in T : x <= y
    BY OfLog!LeastNatural, Zenon
  <1> QED
    BY <1>1 DEF Min

\* A principal is of a session in the table, or of none.
LEMMA PrincipalKnown ==
    ASSUME TokensInv, NEW p, NEW identity, ResolvePrincipal(p, identity).error = Absent
    PROVE  ResolvePrincipal(p, identity).session \in {Absent} \cup SessionIds
  <1> DEFINE who == ResolvePrincipal(p, identity)
             found == IF p.tenant # Absent /\ Lookup(p.tenant, p.session)
                      THEN {i \in Named(p.session) : sessions[i].tenant = p.tenant}
                      ELSE Named(p.session)
  <1>1. \A i \in DOMAIN sessions : sessions[i].session \in SessionIds
    <2>1. sessions \in Seq([tenant : Tenants, session : SessionIds])
      BY DEF TokensInv
    <2>2. DOMAIN sessions = 1..Len(sessions)
      BY <2>1
    <2>3. \A i \in DOMAIN sessions : sessions[i] \in [tenant : Tenants, session : SessionIds]
      BY <2>1, <2>2, ElementOfSeq
    <2> QED
      BY <2>3
  <1>2. /\ who.error = Absent
        /\ Absent \notin {"InvalidParams", "SessionForbidden", "SessionUnknown"}
    BY UnsetAssumption DEF Unset, Errors
  <1>3. CASE p.tenant = Bad \/ p.session = Bad
    BY <1>2, <1>3 DEF ResolvePrincipal, Principal
  <1>4. CASE ~(p.tenant = Bad \/ p.session = Bad) /\ identity.kind = "session"
    <2>1. /\ who = Principal(Absent, identity.tenant, identity.session)
          /\ Lookup(identity.tenant, identity.session)
      BY <1>2, <1>4 DEF ResolvePrincipal, Principal
    <2>2. PICK i \in DOMAIN sessions :
             sessions[i] = [tenant |-> identity.tenant, session |-> identity.session]
      BY <2>1 DEF Lookup, Range
    <2> QED
      BY <1>1, <2>1, <2>2 DEF Principal
  <1>5. CASE ~(p.tenant = Bad \/ p.session = Bad) /\ identity.kind # "session" /\ p.session = Absent
    BY <1>5 DEF ResolvePrincipal, Principal
  <1>6. CASE ~(p.tenant = Bad \/ p.session = Bad) /\ identity.kind # "session" /\ p.session # Absent
    <2>1. found \subseteq DOMAIN sessions
      BY DEF Named
    <2>2. DOMAIN sessions \subseteq Nat
      BY DEF TokensInv
    <2>3. found # {} /\ who = Principal(Absent, sessions[Min(found)].tenant, sessions[Min(found)].session)
      BY <1>2, <1>6 DEF ResolvePrincipal, Principal
    <2> HIDE DEF found
    <2>4. Min(found) \in DOMAIN sessions
      BY <2>1, <2>2, <2>3, OldestIs
    <2> QED
      BY <1>1, <2>3, <2>4 DEF Principal
  <1> QED
    BY <1>3, <1>4, <1>5, <1>6

\* The counters are in order at first,
LEMMA WorkInit == Init => WorkInv /\ CallersInv /\ OwnersInv
  <1> SUFFICES ASSUME Init PROVE WorkInv /\ CallersInv /\ OwnersInv
    OBVIOUS
  <1>1. /\ log = <<>> /\ tasks = <<>> /\ tokens = {} /\ tokenWrites = {} /\ modelWrites = {}
        /\ tokensFile = [no |-> 0, body |-> {}] /\ modelsFile = [no |-> 0, body |-> 0]
        /\ issued = 0 /\ samples = 0 /\ created = 0
    BY DEF Init
  <1>2. WorkInv
    BY <1>1, WorkAssumption DEF WorkInv
  <1>3. CallersInv
    BY <1>1 DEF CallersInv, OfCallers
  <1>4. ReplayTasks = <<>>
    BY <1>1, LogFold, OfLog!FoldLeftEmpty, Zenon DEF ReplayTasks
  <1>5. Range(log) = {} /\ DOMAIN tasks = {} /\ DOMAIN ReplayTasks = {}
    <2>1. DOMAIN <<>> = {}
      OBVIOUS
    <2> QED
      BY <2>1, <1>1, <1>4 DEF Range
  <1> QED
    BY <1>2, <1>3, <1>5 DEF OwnersInv

\* and after every step.
LEMMA WorkNext == WorkInv /\ StoreInv /\ PublishedInv /\ [Next]_vars => WorkInv'
  <1> SUFFICES ASSUME WorkInv, StoreInv, PublishedInv, [Next]_vars PROVE WorkInv'
    OBVIOUS
  <1>0. created \in Nat /\ Len(artifacts) \in Nat
    BY DEF StoreInv, PublishedInv, IsSequence
  <1>1. ASSUME NEW identity, NEW tenant, NEW session, SessionInit(identity, tenant, session)
        PROVE  WorkInv'
    <2>1. issued' = issued + 1 /\ UNCHANGED <<samples, created, modelWrites, modelsFile>>
      BY <1>1 DEF SessionInit
    <2> QED
      BY <2>1 DEF WorkInv
  <1>2. ASSUME NEW identity, ModelsFeedback(identity)
        PROVE  WorkInv'
    <2>1. /\ samples' = samples + 1 /\ UNCHANGED <<issued, created, modelsFile>>
          /\ modelWrites' = modelWrites \cup {[no |-> begun["models"] + 1, body |-> samples']}
      BY <1>2 DEF ModelsFeedback, Snapshot
    <2> QED
      BY <2>1 DEF WorkInv
  <1>3. ASSUME created' = created + 1, Room(2),
               UNCHANGED <<issued, samples, modelWrites, modelsFile>>
        PROVE  WorkInv'
    BY <1>0, <1>3, WorkAssumption DEF WorkInv, Room
  <1>4. ASSUME NEW w \in modelWrites, NEW ok, ModelsWritten(w, ok)
        PROVE  WorkInv'
    BY <1>4 DEF ModelsWritten, WorkInv
  <1>5. CASE Crash
    BY <1>5 DEF Crash, WorkInv
  <1>6. CASE UNCHANGED <<issued, samples, created, modelWrites, modelsFile>>
    BY <1>6 DEF WorkInv
  <1>7. ASSUME NEW p, NEW identity, NEW preset, TaskCreate(p, identity, preset)
        PROVE  WorkInv'
    BY <1>7, <1>3 DEF TaskCreate, files
  <1>8. ASSUME NEW p, NEW identity, NEW budget, WorkflowRun(p, identity, budget)
        PROVE  WorkInv'
    BY <1>8, <1>3 DEF WorkflowRun, files
  <1> QED
    BY ZenonT(30), <1>1, <1>2, <1>4, <1>5, <1>6, <1>7, <1>8
    DEF Next, vars, files, TokenWritten, BudgetRaise, ArtifactPublish, StartLogged,
        GrantLogged, UndoLogged, CompletionLogged, FailureLogged, Log, EngineThrows,
        PublicationLogged

\* The tokens stay those of callers there can be.
LEMMA CallersNext == CallersInv /\ [Next]_vars => CallersInv'
  <1> SUFFICES ASSUME CallersInv, [Next]_vars PROVE CallersInv'
    OBVIOUS
  <1>1. ASSUME NEW identity, NEW tenant \in Tenants, NEW session \in SessionIds,
               SessionInit(identity, tenant, session)
        PROVE  CallersInv'
    <2>1. /\ tokens' = TokensWith(tenant, session, issued') /\ tokensFile' = tokensFile
          /\ tokenWrites' = tokenWrites \cup {[no |-> begun["tokens"] + 1, body |-> tokens']}
      BY <1>1 DEF SessionInit, Snapshot
    <2>2. OfCallers(tokens')
      BY <2>1 DEF TokensWith, CallersInv, OfCallers
    <2> QED
      BY <2>1, <2>2 DEF CallersInv
  <1>2. ASSUME NEW w \in tokenWrites, NEW ok, TokenWritten(w, ok)
        PROVE  CallersInv'
    BY <1>2 DEF TokenWritten, CallersInv
  <1>3. CASE Crash
    BY <1>3 DEF Crash, CallersInv
  <1>4. CASE UNCHANGED <<tokens, tokensFile, tokenWrites>>
    BY <1>4 DEF CallersInv
  <1> QED
    BY ZenonT(30), <1>1, <1>2, <1>3, <1>4
    DEF Next, vars, files, ModelsFeedback, ModelsWritten, TaskCreate, WorkflowRun, BudgetRaise,
        ArtifactPublish, StartLogged, GrantLogged, UndoLogged, CompletionLogged, FailureLogged,
        Log, EngineThrows, PublicationLogged

\* No record is lost, and each stays whose it is.
OwnersStay ==
    /\ DOMAIN tasks' = DOMAIN tasks
    /\ \A id \in DOMAIN tasks : /\ tasks'[id].tenant = tasks[id].tenant
                                /\ tasks'[id].session = tasks[id].session

\* So it is when the state or the manifest of a record is set.
LEMMA SetStays ==
    ASSUME StoreInv, NEW id, NEW value,
           \/ tasks' = [tasks EXCEPT ![id].state = value]
           \/ tasks' = [tasks EXCEPT ![id].manifest = value]
           \/ tasks' = tasks
    PROVE  OwnersStay
  <1>1. \A j \in DOMAIN tasks : DOMAIN tasks[j] = Fields
    BY DEF StoreInv, TaskInv
  <1>2. CASE tasks' = [tasks EXCEPT ![id].state = value]
    BY <1>1, <1>2 DEF OwnersStay, Fields
  <1>3. CASE tasks' = [tasks EXCEPT ![id].manifest = value]
    BY <1>1, <1>3 DEF OwnersStay, Fields
  <1>4. CASE tasks' = tasks
    BY <1>4 DEF OwnersStay
  <1> QED
    BY <1>2, <1>3, <1>4

\* A step that logs nothing and makes no task.
LEMMA OwnersQuiet ==
    ASSUME OwnersInv, UNCHANGED <<tasks, log, created>>
    PROVE  OwnersInv'
  <1>1. ReplayTasks' = ReplayTasks
    BY DEF ReplayTasks
  <1> QED
    BY <1>1 DEF OwnersInv, EventInv

\* A new task: the log has no event of it.
LEMMA OwnersMade ==
    ASSUME OwnersInv, StoreInv, NEW record, record.session \in {Absent} \cup SessionIds,
           created' = created + 1, tasks' = Including(tasks, created', record), log' = log
    PROVE  OwnersInv'
  <1>0. PICK id : id = created + 1
    OBVIOUS
  <1>1. /\ created \in Nat /\ id \notin DOMAIN tasks /\ id \notin 1..created
        /\ \A j \in 1..created : j \in 1..id
    BY <1>0, NewId DEF StoreInv
  <1>2. /\ DOMAIN tasks' = DOMAIN tasks \cup {id}
        /\ \A j \in DOMAIN tasks : tasks'[j] = tasks[j]
        /\ tasks'[id] = record
    <2>1. tasks' = Including(tasks, id, record)
      BY <1>0
    <2>2. /\ DOMAIN Including(tasks, id, record) = DOMAIN tasks \cup {id}
          /\ \A j \in DOMAIN tasks : Including(tasks, id, record)[j] = tasks[j]
          /\ Including(tasks, id, record)[id] = record
      BY <1>1 DEF Including
    <2> QED
      BY <2>1, <2>2
  <1>3. ReplayTasks' = ReplayTasks
    BY DEF ReplayTasks
  <1>4. \A e \in Range(log) : EventInv(e)'
    <2> SUFFICES ASSUME NEW e, EventInv(e) PROVE EventInv(e)'
      BY DEF OwnersInv
    <2> QED
      BY <1>0, <1>1, <1>2 DEF EventInv
  <1> QED
    BY <1>2, <1>3, <1>4 DEF OwnersInv

\* An event of a task is as its record says; what a restart would make of the
\* log has one record more at most, and that of a task there is.
LEMMA OwnersLogged ==
    ASSUME OwnersInv, StoreInv, PublishedInv, NEW id \in DOMAIN tasks, NEW e,
           e.type # "artifact.published", e.task = id,
           e.tenant = tasks[id].tenant, e.session = tasks[id].session,
           log' = log \/ log' = Append(log, e), OwnersStay, created' = created
    PROVE  OwnersInv'
  <1>1. EventInv(e)
    BY DEF EventInv, OwnersInv, StoreInv
  <1>2. /\ \A f \in Range(log') : EventInv(f)
        /\ DOMAIN ReplayTasks' \subseteq DOMAIN tasks
    <2>1. CASE log' = log
      BY <2>1 DEF OwnersInv, ReplayTasks
    <2>2. CASE log' = Append(log, e)
      <3>1. /\ Range(log') = Range(log) \cup {e}
            /\ ReplayTasks' = Replayed(ReplayTasks, e)
        BY <2>2, AppendFacts DEF PublishedInv, ReplayTasks
      <3>2. DOMAIN ReplayTasks' \subseteq DOMAIN ReplayTasks \cup {id}
        <4> DEFINE R == ReplayTasks
        <4> HIDE DEF R
        <4>1. CASE e.type = "node.started"
          <5>1. DOMAIN Replayed(R, e) = DOMAIN R \cup {e.task}
            BY <4>1, ReplayedStart, Zenon
          <5> QED
            BY <5>1, <3>1 DEF R
        <4>2. CASE e.type # "node.started"
          <5>1. DOMAIN Replayed(R, e) = DOMAIN R
            BY <4>2, ReplayedOther, Zenon
          <5> QED
            BY <5>1, <3>1 DEF R
        <4> QED
          BY <4>1, <4>2
      <3> QED
        BY <1>1, <3>1, <3>2 DEF OwnersInv
    <2> QED
      BY <2>1, <2>2
  <1>3. ASSUME NEW f, EventInv(f) PROVE EventInv(f)'
    BY <1>3 DEF EventInv, OwnersStay
  <1>4. \A j \in DOMAIN tasks' : tasks'[j].session \in {Absent} \cup SessionIds
    BY DEF OwnersInv, OwnersStay
  <1> QED
    BY <1>2, <1>3, <1>4 DEF OwnersInv, OwnersStay

\* The event of a publication names no session.
LEMMA OwnersPublished ==
    ASSUME OwnersInv, PublishedInv, NEW i, NEW ok, PublicationLogged(i, ok)
    PROVE  OwnersInv'
  <1> DEFINE e == [type |-> "artifact.published", task |-> artifacts[i].task,
                   tenant |-> artifacts[i].tenant, session |-> Absent, preset |-> Absent,
                   cap |-> Absent]
  <1>1. /\ log' = log \/ log' = Append(log, e)
        /\ UNCHANGED <<tasks, created>>
    BY DEF PublicationLogged
  <1>2. EventInv(e) /\ e.type = "artifact.published"
    BY DEF EventInv
  <1> HIDE DEF e
  <1>3. CASE log' = log
    BY <1>1, <1>3, OwnersQuiet
  <1>4. CASE log' = Append(log, e)
    <2>1. Range(log') = Range(log) \cup {e} /\ ReplayTasks' = Replayed(ReplayTasks, e)
      BY <1>4, AppendFacts DEF PublishedInv, ReplayTasks
    <2>2. Replayed(ReplayTasks, e) = ReplayTasks
      BY <1>2 DEF Replayed
    <2>3. ASSUME NEW f, EventInv(f) PROVE EventInv(f)'
      BY <1>1, <2>3 DEF EventInv
    <2> QED
      BY <1>1, <1>2, <2>1, <2>2, <2>3 DEF OwnersInv
  <1> QED
    BY <1>1, <1>3, <1>4

\* A restart knows no task that was not known, and each as whose it was.
LEMMA OwnersCrash ==
    ASSUME OwnersInv, StoreInv, Crash
    PROVE  OwnersInv'
  <1>1. tasks' = ReplayTasks /\ UNCHANGED <<created, log>>
    BY DEF Crash
  <1>2. ReplayTasks' = ReplayTasks
    BY <1>1 DEF ReplayTasks
  <1>3. \A id \in DOMAIN ReplayTasks :
          /\ id \in DOMAIN tasks
          /\ ReplayTasks[id].tenant = tasks[id].tenant
          /\ ReplayTasks[id].session = tasks[id].session
    BY DEF OwnersInv, StoreInv, TaskInv
  <1>4. ASSUME NEW e, EventInv(e) PROVE EventInv(e)'
    BY <1>1, <1>3, <1>4 DEF EventInv
  <1> QED
    BY <1>1, <1>2, <1>3, <1>4 DEF OwnersInv

\* A step of a call logs at most an event of its task.
LEMMA OwnersCalled ==
    ASSUME OwnersInv, StoreInv, PublishedInv, NEW id \in DOMAIN calls, NEW ok \in BOOLEAN,
           \/ StartLogged(id, ok) \/ GrantLogged(id, ok) \/ UndoLogged(id, ok)
           \/ CompletionLogged(id, ok) \/ FailureLogged(id, ok)
    PROVE  OwnersInv'
  <1>1. id \in DOMAIN tasks
    BY DEF StoreInv, TaskInv
  <1>2. \E type, cap : Log(id, type, cap, ok) /\ type # "artifact.published"
    BY DEF StartLogged, GrantLogged, UndoLogged, CompletionLogged, FailureLogged
  <1>3. PICK type, cap : Log(id, type, cap, ok) /\ type # "artifact.published"
    BY <1>2
  <1>4. OwnersStay
    <2>1. \/ \E value : tasks' = [tasks EXCEPT ![id].state = value]
          \/ \E value : tasks' = [tasks EXCEPT ![id].manifest = value]
          \/ tasks' = tasks
      BY DEF StartLogged, GrantLogged, UndoLogged, CompletionLogged, FailureLogged,
             GrantFrom, Undo, Fails, SetState
    <2> QED
      BY <2>1, SetStays
  <1> DEFINE e == Event(type, id, cap)
  <1>5. /\ e.type = type /\ e.task = id /\ e.tenant = tasks[id].tenant
        /\ e.session = tasks[id].session
    BY DEF Event
  <1>6. (log' = log \/ log' = Append(log, e)) /\ created' = created
    BY <1>3 DEF Log
  <1> HIDE DEF e
  <1> QED
    BY <1>1, <1>3, <1>4, <1>5, <1>6, OwnersLogged

\* So does the end of a run.
LEMMA OwnersThrown ==
    ASSUME OwnersInv, StoreInv, PublishedInv, NEW id \in runs, NEW ok, EngineThrows(id, ok)
    PROVE  OwnersInv'
  <1>1. id \in DOMAIN tasks
    BY DEF StoreInv, TaskInv
  <1> DEFINE e == Event("node.failed", id, Absent)
  <1>2. OwnersStay
    BY SetStays DEF EngineThrows, SetState
  <1>3. /\ e.type = "node.failed" /\ e.task = id /\ e.tenant = tasks[id].tenant
        /\ e.session = tasks[id].session
    BY DEF Event
  <1>4. (log' = log \/ log' = Append(log, e)) /\ created' = created
    BY DEF EngineThrows
  <1> HIDE DEF e
  <1> QED
    BY <1>1, <1>2, <1>3, <1>4, OwnersLogged

\* The owners are in order after every step.
LEMMA OwnersNext ==
    OwnersInv /\ StoreInv /\ PublishedInv /\ TokensInv /\ [Next]_vars => OwnersInv'
  <1> SUFFICES ASSUME OwnersInv, StoreInv, PublishedInv, TokensInv, [Next]_vars
               PROVE  OwnersInv'
    OBVIOUS
  <1>1. ASSUME NEW p, NEW identity, NEW preset, TaskCreate(p, identity, preset)
        PROVE  OwnersInv'
    <2> DEFINE record == NewRecord(ResolvePrincipal(p, identity), "create", preset)
    <2>1. record.session = ResolvePrincipal(p, identity).session
      BY DEF NewRecord
    <2>2. record.session \in {Absent} \cup SessionIds
      BY <1>1, <2>1, PrincipalKnown DEF TaskCreate
    <2>3. created' = created + 1 /\ tasks' = Including(tasks, created', record) /\ log' = log
      BY <1>1 DEF TaskCreate
    <2> HIDE DEF record
    <2> QED
      BY <2>2, <2>3, OwnersMade
  <1>2. ASSUME NEW p, NEW identity, NEW budget, WorkflowRun(p, identity, budget)
        PROVE  OwnersInv'
    <2> DEFINE record == NewRecord(ResolvePrincipal(p, identity), "workflow", Absent)
    <2>1. record.session = ResolvePrincipal(p, identity).session
      BY DEF NewRecord
    <2>2. record.session \in {Absent} \cup SessionIds
      BY <1>2, <2>1, PrincipalKnown DEF WorkflowRun
    <2>3. created' = created + 1 /\ tasks' = Including(tasks, created', record) /\ log' = log
      BY <1>2 DEF WorkflowRun
    <2> HIDE DEF record
    <2> QED
      BY <2>2, <2>3, OwnersMade
  <1>3. CASE \E identity \in Identities :
               \/ \E tenant \in Tenants, session \in SessionIds :
                     SessionInit(identity, tenant, session)
               \/ ModelsFeedback(identity)
               \/ \E id \in DOMAIN budgets, limit \in Limits : BudgetRaise(id, identity, limit)
    BY <1>3, OwnersQuiet DEF SessionInit, ModelsFeedback, BudgetRaise
  <1>4. ASSUME NEW p, NEW identity, ArtifactPublish(p, identity)
        PROVE  OwnersInv'
    BY <1>4, OwnersQuiet DEF ArtifactPublish
  <1>5. CASE \E ok \in BOOLEAN : \/ \E w \in tokenWrites : TokenWritten(w, ok)
                               \/ \E w \in modelWrites : ModelsWritten(w, ok)
    BY <1>5, OwnersQuiet DEF TokenWritten, ModelsWritten
  <1>6. CASE UNCHANGED vars
    BY <1>6, OwnersQuiet DEF vars
  <1>7. CASE Next
    BY <1>1, <1>2, <1>3, <1>4, <1>5, <1>7, OwnersCalled, OwnersThrown, OwnersPublished,
       OwnersCrash DEF Next
  <1> QED
    BY <1>6, <1>7

\* Whoever presents a token is the admin, a session there can be, or nobody.
LEMMA IdentityIs ==
    ASSUME CallersInv, NEW presented
    PROVE  \/ ResolveIdentity(presented) \in {Admin, Absent}
           \/ \E tenant \in Tenants, session \in SessionIds :
                 ResolveIdentity(presented) = Session(tenant, session)
  <1>1. CASE presented # Bootstrap /\ \E t \in tokens : t.token = presented
    <2> DEFINE t == CHOOSE u \in tokens : u.token = presented
    <2>1. t \in tokens
      BY <1>1
    <2>2. ResolveIdentity(presented) = Session(t.tenant, t.session)
      BY <1>1 DEF ResolveIdentity
    <2> HIDE DEF t
    <2> QED
      BY <2>1, <2>2 DEF CallersInv, OfCallers
  <1>2. CASE ~(presented # Bootstrap /\ \E t \in tokens : t.token = presented)
    BY <1>2 DEF ResolveIdentity
  <1> QED
    BY <1>1, <1>2

\* No error is told with the status of an answer.
LEMMA OutcomeIs == ASSUME NEW error PROVE Outcome(error) = Answered <=> error = Absent
  <1>1. HttpStatusFor(error) # 200
    BY DEF HttpStatusFor
  <1>2. \A status, code : Reply(status, code) = Answered => status = 200
    BY DEF Reply, Answered
  <1>3. error # Absent => Outcome(error) = Reply(HttpStatusFor(error), RpcCodeFor(error))
    BY DEF Outcome
  <1>4. error = Absent => Outcome(error) = Answered
    BY DEF Outcome
  <1> QED
    BY <1>1, <1>2, <1>3, <1>4

\* A well-formed request is answered as its operation says.
LEMMA RequestIs ==
    ASSUME NEW presented, NEW method \in Methods, NEW id \in {Absent} \cup 1..(MaxWork + 1)
    PROVE  LET p == [Params EXCEPT !.task = id]
               identity == ResolveIdentity(presented)
           IN  HandleRequest(Post(presented, method, p)) =
                 IF identity = Absent THEN Reply(401, -32001)
                 ELSE Outcome(OperationError(method, p, identity))
  <1> DEFINE p == [Params EXCEPT !.task = id]
             request == Post(presented, method, p)
  <1>1. request.text # Bad
    <2>1. request.text = Post(Absent, method, p).text
      BY DEF Post
    <2> QED
      BY <2>1, UnsetAssumption
  <1>2. method \notin Unset
    BY UnsetAssumption
  <1>3. /\ request.verb = "POST" /\ request.presented = presented /\ request.tooLarge = FALSE
        /\ Body(request.text).method = method /\ Body(request.text).params = p
    BY DEF Post, Body
  <1> HIDE DEF request, p
  <1>4. HandleRequest(request) =
          IF ResolveIdentity(presented) = Absent THEN Reply(401, -32001)
          ELSE Outcome(OperationError(method, p, ResolveIdentity(presented)))
    BY <1>1, <1>2, <1>3 DEF HandleRequest
  <1> QED
    BY <1>4 DEF request, p

\* Which filter the operations on one task go by.
LEMMA FiltersAre ==
    ASSUME NEW id, NEW identity
    PROVE  LET Error(method) == OperationError(method, [Params EXCEPT !.task = id], identity)
           IN  /\ \A method \in {"task.status", "budget.status", "task.cancel"} :
                     Error(method) = RequireTask(id, identity)
               /\ Error("grants.of") = GrantsOf(id, identity)
               /\ Error("approvals.decide") =
                     IF ApprovalForbidden(id, identity) THEN "ApprovalForbidden" ELSE Absent
  <1> DEFINE p == [Params EXCEPT !.task = id]
  <1>1. p.task = id
    BY DEF Params
  <1> HIDE DEF p
  <1>2. \A method \in {"task.status", "budget.status", "task.cancel"} :
          OperationError(method, p, identity) = RequireTask(id, identity)
    BY <1>1 DEF OperationError
  <1>3. OperationError("grants.of", p, identity) = GrantsOf(id, identity)
    BY <1>1 DEF OperationError
  <1>4. OperationError("approvals.decide", p, identity) =
          IF ApprovalForbidden(id, identity) THEN "ApprovalForbidden" ELSE Absent
    BY <1>1 DEF OperationError
  <1> QED
    BY <1>2, <1>3, <1>4 DEF p

\* The filters agree on a task that is there.
LEMMA FiltersAgree ==
    ASSUME NEW id \in DOMAIN tasks, id \notin Unset, NEW identity,
           identity.kind \in {"admin", "session"}
    PROVE  /\ RequireTask(id, identity) = Absent <=> id \in ListTasks(identity)
           /\ GrantsOf(id, identity) = Absent <=> id \in ListTasks(identity)
           /\ ~ApprovalForbidden(id, identity) <=> id \in ListTasks(identity)
           /\ id \in ApprovalsList(identity) <=> id \in ListTasks(identity)
  <1>1. Absent \notin {"SessionForbidden", "InvalidParams", "TaskNotFound"}
    BY UnsetAssumption DEF Unset, Errors
  <1>2. identity.kind = "admin" => id \in ListTasks(identity)
    BY DEF ListTasks
  <1> QED
    BY <1>1, <1>2 DEF RequireTask, GrantsOf, ApprovalForbidden, ApprovalsList, ListTasks

\* What the filters say of a task that is not listed is what they say of none.
LEMMA FiltersHide ==
    ASSUME NEW id, id \notin Unset, NEW other, other \notin Unset \cup DOMAIN tasks,
           NEW identity, identity.kind \in {"admin", "session"},
           id \in DOMAIN tasks, id \notin ListTasks(identity)
    PROVE  /\ GrantsOf(id, identity) = GrantsOf(other, identity)
           /\ ApprovalForbidden(id, identity) <=> ApprovalForbidden(other, identity)
  BY DEF GrantsOf, ApprovalForbidden, ListTasks

\* Whom the events are shown to that are not narrowed down.
LEMMA EventsShown ==
    ASSUME OwnersInv, NEW identity, EventsFilter(Params, identity).error = Absent,
           \/ identity = Admin
           \/ \E tenant \in Tenants, session \in SessionIds : identity = Session(tenant, session)
    PROVE  LET shown == {log[i].task : i \in EventsList(Params, identity)}
               told == {e.task : e \in {e \in Range(log) :
                          identity.kind = "session" => e.type # "artifact.published"}}
           IN  shown \cap DOMAIN tasks = told \cap ListTasks(identity)
  <1>1. Params.task = Absent /\ Params.tenant = Absent /\ Params.session = Absent
    BY DEF Params
  <1>2. \A i \in DOMAIN log : EventInv(log[i])
    BY DEF OwnersInv, Range
  <1>3. CASE identity = Admin
    <2>1. /\ identity.kind = "admin" /\ ListTasks(identity) = DOMAIN tasks
          /\ EventsFilter(Params, identity).tenant = Absent
          /\ EventsFilter(Params, identity).session = {Absent} \cup SessionIds
      BY <1>1, <1>3 DEF Admin, EventsFilter, ListTasks
    <2>2. EventsList(Params, identity) = DOMAIN log
      BY <1>1, <1>2, <2>1 DEF EventsList, EventInv
    <2> QED
      BY <2>1, <2>2 DEF Range
  <1>4. ASSUME NEW tenant \in Tenants, NEW session \in SessionIds,
               identity = Session(tenant, session)
        PROVE  LET shown == {log[i].task : i \in EventsList(Params, identity)}
                   told == {e.task : e \in {e \in Range(log) :
                              identity.kind = "session" => e.type # "artifact.published"}}
               IN  shown \cap DOMAIN tasks = told \cap ListTasks(identity)
    <2>1. /\ identity.kind = "session" /\ identity.tenant = tenant /\ identity.session = session
      BY <1>4 DEF Session
    <2>2. tenant # Absent /\ session # Absent /\ Absent # Bad
      BY UnsetAssumption DEF Unset
    <2>3. Absent \notin {"SessionForbidden", "InvalidParams", "SessionUnknown"}
      BY UnsetAssumption DEF Unset, Errors
    <2>4. ResolvePrincipal(Params, identity) = Principal(Absent, tenant, session)
      BY <1>1, <2>1, <2>2, <2>3 DEF EventsFilter, ResolvePrincipal, Principal
    <2>5. /\ EventsFilter(Params, identity).tenant = tenant
          /\ EventsFilter(Params, identity).session = {session}
      BY <2>1, <2>4 DEF EventsFilter, Principal
    <2>6. EventsList(Params, identity) =
            {i \in DOMAIN log : log[i].tenant = tenant /\ log[i].session = session}
      BY <1>1, <2>2, <2>5 DEF EventsList
    <2>7. ListTasks(identity) =
            {id \in DOMAIN tasks : tasks[id].tenant = tenant /\ tasks[id].session = session}
      BY <2>1 DEF ListTasks
    <2>8. ASSUME NEW i \in DOMAIN log, log[i].task \in DOMAIN tasks
          PROVE  i \in EventsList(Params, identity) <=>
                    log[i].type # "artifact.published" /\ log[i].task \in ListTasks(identity)
      BY <1>2, <2>2, <2>6, <2>7, <2>8 DEF EventInv
    <2>9. ListTasks(identity) \subseteq DOMAIN tasks /\ EventsList(Params, identity) \subseteq DOMAIN log
      BY <2>6, <2>7
    <2> DEFINE listed == ListTasks(identity)
               shown == {log[i].task : i \in EventsList(Params, identity)}
               told == {e.task : e \in {e \in Range(log) : e.type # "artifact.published"}}
    <2>10. \A x \in shown \cap DOMAIN tasks : x \in told \cap listed
      BY <2>8, <2>9 DEF Range
    <2>11. \A x \in told \cap listed : x \in shown \cap DOMAIN tasks
      BY <2>8, <2>9 DEF Range
    <2>12. shown \cap DOMAIN tasks = told \cap listed
      BY <2>10, <2>11
    <2> QED
      BY <2>1, <2>12
  <1> QED
    BY <1>3, <1>4

\* The listed tasks are those whose other operations answer; the rest is hidden.
LEMMA AnswersAgree ==
    ASSUME ReadsInv, NEW presented, ResolveIdentity(presented) # Absent,
           ResolveIdentity(presented).kind \in {"admin", "session"},
           NEW id \in DOMAIN tasks
    PROVE  LET identity == ResolveIdentity(presented)
               answers(method, n) ==
                   HandleRequest(Post(presented, method, [Params EXCEPT !.task = n]))
           IN  /\ \A method \in {"task.status", "grants.of", "budget.status", "task.cancel",
                                 "approvals.decide"} :
                     answers(method, id) = Answered <=> id \in ListTasks(identity)
               /\ id \notin ListTasks(identity) =>
                     \A method \in {"grants.of", "approvals.decide"} :
                        answers(method, id) = answers(method, MaxWork + 1)
  <1> DEFINE identity == ResolveIdentity(presented)
             Error(method, n) == OperationError(method, [Params EXCEPT !.task = n], identity)
             answers(method, n) ==
                 HandleRequest(Post(presented, method, [Params EXCEPT !.task = n]))
             five == {"task.status", "grants.of", "budget.status", "task.cancel",
                      "approvals.decide"}
             other == MaxWork + 1
  <1>1. /\ id \in 1..(MaxWork + 1) /\ other \in 1..(MaxWork + 1) /\ other \notin DOMAIN tasks
        /\ five \subseteq Methods
    BY WorkAssumption DEF ReadsInv, StoreInv, WorkInv, Methods
  <1>2. id \notin Unset /\ other \notin Unset
    BY <1>1, UnsetAssumption
  <1>3. ASSUME NEW method \in five, NEW n \in {id, other}
        PROVE  answers(method, n) = Outcome(Error(method, n))
    <2>1. method \in Methods /\ n \in {Absent} \cup 1..(MaxWork + 1)
      BY <1>1
    <2> QED
      BY <2>1, RequestIs
  <1>4. \A method \in five : Error(method, id) = Absent <=> id \in ListTasks(identity)
    <2>1. "ApprovalForbidden" # Absent
      BY UnsetAssumption DEF Unset, Errors
    <2>2. /\ \A method \in {"task.status", "budget.status", "task.cancel"} :
                Error(method, id) = RequireTask(id, identity)
          /\ Error("grants.of", id) = GrantsOf(id, identity)
          /\ Error("approvals.decide", id) =
                IF ApprovalForbidden(id, identity) THEN "ApprovalForbidden" ELSE Absent
      BY FiltersAre
    <2>3. /\ RequireTask(id, identity) = Absent <=> id \in ListTasks(identity)
          /\ GrantsOf(id, identity) = Absent <=> id \in ListTasks(identity)
          /\ ~ApprovalForbidden(id, identity) <=> id \in ListTasks(identity)
      BY <1>2, FiltersAgree
    <2> HIDE DEF Error, identity
    <2> QED
      BY <2>1, <2>2, <2>3
  <1>5. ASSUME id \notin ListTasks(identity), NEW method \in {"grants.of", "approvals.decide"}
        PROVE  Error(method, id) = Error(method, other)
    <2>1. /\ GrantsOf(id, identity) = GrantsOf(other, identity)
          /\ ApprovalForbidden(id, identity) <=> ApprovalForbidden(other, identity)
      BY <1>1, <1>2, <1>5, FiltersHide
    <2>2. \A n : /\ Error("grants.of", n) = GrantsOf(n, identity)
                 /\ Error("approvals.decide", n) =
                       IF ApprovalForbidden(n, identity) THEN "ApprovalForbidden" ELSE Absent
      BY FiltersAre
    <2> HIDE DEF Error, identity
    <2> QED
      BY <2>1, <2>2
  <1> HIDE DEF answers, Error, identity, other
  <1>6. \A method \in five : answers(method, id) = Answered <=> id \in ListTasks(identity)
    BY <1>3, <1>4, OutcomeIs
  <1>7. id \notin ListTasks(identity) =>
          \A method \in {"grants.of", "approvals.decide"} :
             answers(method, id) = answers(method, other)
    BY <1>3, <1>5
  <1> QED
    BY <1>6, <1>7 DEF answers, identity, other

\* Every operation draws the line between callers where task.list does.
THEOREM ReadsDrawOneLine == Spec => []ReadsAgree
  <1>1. Init => ReadsInv
    BY TokensInit, StoreInit, WorkInit DEF ReadsInv
  <1>2. ReadsInv /\ [Next]_vars => ReadsInv'
    BY TokensNext, StoreNext, WorkNext, CallersNext, OwnersNext DEF ReadsInv
  <1>3. ReadsInv => ReadsAgree
    <2> SUFFICES ASSUME ReadsInv PROVE ReadsAgree
      OBVIOUS
    <2> SUFFICES ASSUME NEW presented \in Presented
                 PROVE  LET identity == ResolveIdentity(presented)
            answers(method, id) ==
                HandleRequest(Post(presented, method, [Params EXCEPT !.task = id]))
            listed == IF identity = Absent THEN {} ELSE ListTasks(identity)
        IN  /\ \A id \in DOMAIN tasks :
                 /\ \A method \in {"task.status", "grants.of", "budget.status", "task.cancel",
                                   "approvals.decide"} :
                        answers(method, id) = Answered <=> id \in listed
                 /\ identity # Absent => (id \in ApprovalsList(identity) <=> id \in listed)
            /\ \A id \in DOMAIN tasks, method \in {"grants.of", "approvals.decide"} :
                 identity # Absent /\ id \notin listed =>
                    answers(method, id) = answers(method, MaxWork + 1)
            /\ HandleRequest(Post(presented, "events.list", Params)) = Answered =>
                 LET shown == {log[i].task : i \in EventsList(Params, identity)}
                     told == {e.task : e \in {e \in Range(log) :
                                identity.kind = "session" => e.type # "artifact.published"}}
                 IN  shown \cap DOMAIN tasks = told \cap listed
      BY DEF ReadsAgree
    <2> DEFINE identity == ResolveIdentity(presented)
               answers(method, n) ==
                   HandleRequest(Post(presented, method, [Params EXCEPT !.task = n]))
               five == {"task.status", "grants.of", "budget.status", "task.cancel",
                        "approvals.decide"}
    <2>1. CASE identity = Absent
      <3>1. Reply(401, -32001) # Answered
        BY DEF Reply, Answered
      <3>2. \A id \in DOMAIN tasks : id \in 1..(MaxWork + 1)
        BY WorkAssumption DEF ReadsInv, StoreInv, WorkInv
      <3>3. \A id \in DOMAIN tasks, method \in five : answers(method, id) = Reply(401, -32001)
        <4> SUFFICES ASSUME NEW id \in DOMAIN tasks, NEW method \in five
                     PROVE  answers(method, id) = Reply(401, -32001)
          OBVIOUS
        <4>1. method \in Methods /\ id \in {Absent} \cup 1..(MaxWork + 1)
          BY <3>2 DEF Methods
        <4> QED
          BY <2>1, <4>1, RequestIs
      <3>4. HandleRequest(Post(presented, "events.list", Params)) = Reply(401, -32001)
        <4>1. "events.list" \in Methods /\ Params = [Params EXCEPT !.task = Absent]
          BY DEF Methods, Params
        <4>2. HandleRequest(Post(presented, "events.list", [Params EXCEPT !.task = Absent]))
                = Reply(401, -32001)
          BY <2>1, <4>1, RequestIs
        <4> QED
          BY <4>1, <4>2
      <3> HIDE DEF answers, identity
      <3> QED
        BY <2>1, <3>1, <3>3, <3>4 DEF answers, identity
    <2>2. CASE identity # Absent
      <3>1. \/ identity = Admin
            \/ \E tenant \in Tenants, session \in SessionIds : identity = Session(tenant, session)
        BY <2>2, IdentityIs DEF ReadsInv
      <3>2. identity.kind \in {"admin", "session"}
        BY <3>1 DEF Admin, Session
      <3>3. \A id \in DOMAIN tasks :
              /\ \A method \in five : answers(method, id) = Answered <=> id \in ListTasks(identity)
              /\ id \notin ListTasks(identity) =>
                    \A method \in {"grants.of", "approvals.decide"} :
                       answers(method, id) = answers(method, MaxWork + 1)
        BY <2>2, <3>2, AnswersAgree
      <3>4. \A id \in DOMAIN tasks : id \in ApprovalsList(identity) <=> id \in ListTasks(identity)
        BY <3>2 DEF ApprovalsList, ListTasks
      <3>5. HandleRequest(Post(presented, "events.list", Params)) = Answered =>
              EventsFilter(Params, identity).error = Absent
        <4>1. /\ "events.list" \in Methods /\ Params = [Params EXCEPT !.task = Absent]
              /\ Params.limit = Absent
          BY DEF Methods, Params
        <4>2. HandleRequest(Post(presented, "events.list", [Params EXCEPT !.task = Absent]))
                = Outcome(OperationError("events.list", [Params EXCEPT !.task = Absent], identity))
          BY <2>2, <4>1, RequestIs
        <4>3. OperationError("events.list", Params, identity) = EventsFilter(Params, identity).error
          <5>1. Absent # Bad
            BY UnsetAssumption
          <5> QED
            BY <4>1, <5>1 DEF OperationError
        <4> HIDE DEF identity
        <4> QED
          BY <4>1, <4>2, <4>3, OutcomeIs
      <3>6. HandleRequest(Post(presented, "events.list", Params)) = Answered =>
              LET shown == {log[i].task : i \in EventsList(Params, identity)}
                  told == {e.task : e \in {e \in Range(log) :
                             identity.kind = "session" => e.type # "artifact.published"}}
              IN  shown \cap DOMAIN tasks = told \cap ListTasks(identity)
        BY <3>1, <3>5, EventsShown DEF ReadsInv
      <3> HIDE DEF answers, identity
      <3> QED
        BY <2>2, <3>3, <3>4, <3>6 DEF answers, identity
    <2> QED
      BY <2>1, <2>2
  <1> QED
    BY <1>1, <1>2, <1>3, PTL DEF Spec
=============================================================================
