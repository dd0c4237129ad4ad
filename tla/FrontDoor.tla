----------------------------- MODULE FrontDoor -----------------------------
(***************************************************************************)
(* The daemon as its callers see it: the HTTP binding (daemon/src/daemon/  *)
(* http.ts, jsonrpc.ts), the tokens and identities (identity.ts), the      *)
(* table of sessions (session/registry.ts) and the operations on tasks,    *)
(* budgets, models and events (operations.ts), over the log they write.    *)
(*                                                                         *)
(* What an operation does before its first await is one step; every        *)
(* append to the log, and every write of a file, is a step of its own that *)
(* may fail, and the calls interleave between them. A crash keeps the log  *)
(* and the files that were renamed in place.                               *)
(*                                                                         *)
(* The parts an operation hands over to are modules of their own:          *)
(* Handshake, PlanCheck, WorkflowEngine, ApprovalBoard, ModelScores.       *)
(*                                                                         *)
(* Bounds: MaxWork, where a session, a sample or a publication counts one  *)
(* and a task two;                                                         *)
(* MaxFaults failed writes and MaxCrashes crashes.                         *)
(***************************************************************************)
EXTENDS Documents, Integers, SequencesExt

CONSTANTS Tenants, SessionIds, DefaultTenant,
          PresetGrants,  \* preset -> sequence of the capabilities of its baseline
          KnownCaps,     \* the capabilities of the registry
          Limits,        \* the token limits budgets are given
          MaxWork, MaxFaults, MaxCrashes

\* No set of capabilities is taken for a manifest that is not there.
ASSUME ManifestAssumption == \A caps \in SUBSET KnownCaps : caps # Absent

ASSUME WorkAssumption == MaxWork \in Nat

VARIABLES sessions,     \* sequence of [tenant, session], in the order of the map
          tokens,       \* set of [token, tenant, session]
          issued,       \* tokens issued so far
          tokensFile, tokenWrites,    \* snapshots [no, body]; those under way
          samples,      \* feedback the model registry has taken
          modelsFile, modelWrites,
          begun,        \* "tokens" and "models" -> snapshots begun
          tasks,        \* task id -> record
          created,      \* task ids given so far
          calls,        \* task id -> the task.create under way
          runs,         \* tasks handed to the engine
          budgets,      \* task id -> limit of its ledger
          artifacts,    \* sequence of [tenant, task]: the publications on disk
          publishing,   \* those whose event is being logged
          log,          \* the events
          faulted,      \* tasks of which a write of the log failed
          faults, crashes

files == <<tokensFile, tokenWrites, modelsFile, modelWrites, begun>>
artifactVars == <<artifacts, publishing>>
vars == <<sessions, tokens, issued, files, samples, tasks, created, calls, runs, budgets,
          artifactVars, log, faulted, faults, crashes>>

Store == INSTANCE TaskStore WITH Nodes <- {"worker"}

Admin == [kind |-> "admin", tenant |-> Absent, session |-> Absent]
Session(tenant, session) == [kind |-> "session", tenant |-> tenant, session |-> session]
Bootstrap == 0
Presented == {Absent, Bootstrap} \cup 1..MaxWork

\* One more entry; an entry that is there already stays.
Including(f, key, value) ==
    [k \in DOMAIN f \cup {key} |-> IF k \in DOMAIN f THEN f[k] ELSE value]

Room(n) == issued + samples + 2 * created + Len(artifacts) + n <= MaxWork

----------------------------------------------------------------------------
(* identity.ts *)

\* The token of the daemon's own start is the admin's; the others are looked up.
ResolveIdentity(presented) ==
    IF presented = Bootstrap THEN Admin
    ELSE IF \E t \in tokens : t.token = presented
         THEN LET t == CHOOSE u \in tokens : u.token = presented
              IN  Session(t.tenant, t.session)
         ELSE Absent

\* Faulty variant: the old token of the session stays.
TokensWith_OldStays(tenant, session, token) ==
    tokens \cup {[token |-> token, tenant |-> tenant, session |-> session]}

\* issue replaces what the same session held before.
TokensWith(tenant, session, token) ==
    {t \in tokens : <<t.tenant, t.session>> # <<tenant, session>>}
        \cup {[token |-> token, tenant |-> tenant, session |-> session]}

----------------------------------------------------------------------------
(* session/registry.ts *)

Lookup(tenant, session) == [tenant |-> tenant, session |-> session] \in Range(sessions)

\* Where in the table the sessions of one name are.
Named(session) == {i \in DOMAIN sessions : sessions[i].session = session}

----------------------------------------------------------------------------
(* operations.ts: who asks, and for whom *)

Principal(error, tenant, session) == [error |-> error, tenant |-> tenant, session |-> session]

ResolvePrincipal(p, identity) ==
    LET refused(error) == Principal(error, Absent, Absent)
        found == IF p.tenant # Absent /\ Lookup(p.tenant, p.session)
                 THEN {i \in Named(p.session) : sessions[i].tenant = p.tenant}
                 ELSE Named(p.session)
    IN  IF p.tenant = Bad \/ p.session = Bad THEN refused("InvalidParams")
        ELSE IF identity.kind = "session"
        THEN IF \/ p.tenant \notin {Absent, identity.tenant}
                \/ p.session \notin {Absent, identity.session}
             THEN refused("SessionForbidden")
             ELSE IF Lookup(identity.tenant, identity.session)
                  THEN Principal(Absent, identity.tenant, identity.session)
                  ELSE refused("SessionUnknown")
        ELSE IF p.session = Absent THEN Principal(Absent, Default(p.tenant, DefaultTenant), Absent)
        ELSE IF found = {} THEN refused("SessionUnknown")
        ELSE LET oldest == sessions[Min(found)]
             IN  Principal(Absent, oldest.tenant, oldest.session)

\* Faulty variant: sessions of one name are taken for one.
ListTasks_ByName(identity) ==
    {id \in DOMAIN tasks : identity.kind = "admin" \/ tasks[id].session = identity.session}

ListTasks(identity) ==
    {id \in DOMAIN tasks :
        \/ identity.kind = "admin"
        \/ tasks[id].tenant = identity.tenant /\ tasks[id].session = identity.session}

RequireTask(id, identity) ==
    IF id \in Unset THEN "InvalidParams"
    ELSE IF id \notin DOMAIN tasks THEN "TaskNotFound"
    ELSE IF identity.kind = "session" /\ ~(/\ tasks[id].tenant = identity.tenant
                                          /\ tasks[id].session = identity.session)
    THEN "SessionForbidden"
    ELSE Absent

\* The task is read off the agent's name; whether it exists is not told.
GrantsOf(id, identity) ==
    IF id \in Unset THEN "InvalidParams"
    ELSE IF /\ identity.kind = "session"
            /\ ~(/\ id \in DOMAIN tasks
                 /\ tasks[id].tenant = identity.tenant /\ tasks[id].session = identity.session)
    THEN "SessionForbidden"
    ELSE Absent

\* The tasks whose requests for approval approvals.list shows.
ApprovalsList(identity) ==
    {id \in DOMAIN tasks :
        identity.kind = "session" =>
            tasks[id].tenant = identity.tenant /\ tasks[id].session = identity.session}

\* A request names what it wants; nobody is told of one that is not there.
ApprovalForbidden(id, identity) ==
    /\ identity.kind = "session"
    /\ ~(/\ id \in DOMAIN tasks
         /\ tasks[id].tenant = identity.tenant /\ tasks[id].session = identity.session)

\* A session, or a caller who names one, sees what that session's calls logged.
EventsFilter(p, identity) ==
    IF identity.kind = "session" \/ p.session # Absent
    THEN LET who == ResolvePrincipal(p, identity)
         IN  [error |-> who.error, tenant |-> who.tenant, session |-> {who.session}]
    ELSE [error |-> IF p.tenant = Bad THEN "InvalidParams" ELSE Absent,
          tenant |-> p.tenant, session |-> {Absent} \cup SessionIds]

\* Where in the log the events are that are listed, in the order of the log.
EventsList(p, identity) ==
    LET filter == EventsFilter(p, identity)
    IN  {i \in DOMAIN log : /\ filter.error = Absent
                            /\ filter.tenant \in {Absent, log[i].tenant}
                            /\ log[i].session \in filter.session
                            /\ p.task \in {Absent, log[i].task}}

\* Only the last ones, but all of them for a limit of none: slice(-0).
Latest(events, limit) ==
    IF limit # Absent /\ limit # 0
    THEN {i \in events : Cardinality({j \in events : j > i}) < limit}
    ELSE events

----------------------------------------------------------------------------
(* http.ts and jsonrpc.ts: a request is answered with a status *)

Methods == {"task.list", "task.status", "grants.of", "budget.status", "budget.raise",
            "task.pause", "task.resume", "task.cancel", "approvals.list",
            "approvals.submit", "approvals.decide", "models.list", "models.feedback",
            "events.list", "capabilities.list", "task.create", "workflow.run",
            "artifacts.publish", "artifacts.resolve", "artifacts.read", "session.init"}

Params == [tenant |-> Absent, session |-> Absent, task |-> Absent, limit |-> Absent]

\* #resolveNamespace: the tenant of the caller, and any task whatever.
ResolveNamespace(p, identity) ==
    LET who == ResolvePrincipal(p, identity)
    IN  [error |-> IF who.error = Absent /\ p.task \in Unset THEN "InvalidParams" ELSE who.error,
         tenant |-> who.tenant, task |-> p.task]

\* Where nothing is published resolve answers null, which is no error.
ArtifactResolve(p, identity) == ResolveNamespace(p, identity).error

\* What is published has the entry that is read.
ArtifactRead(p, identity) ==
    LET ns == ResolveNamespace(p, identity)
    IN  IF ns.error # Absent THEN ns.error
        ELSE IF [tenant |-> ns.tenant, task |-> ns.task] \in Range(artifacts) THEN Absent
        ELSE "NotPublished"

\* The error of an operation that reads, or that finds nothing to change; what
\* is wrong with a handshake, a preset, a plan or a content is left out.
OperationError(method, p, identity) ==
    CASE method \in {"task.status", "budget.status", "task.pause", "task.resume",
                     "task.cancel", "approvals.submit"} -> RequireTask(p.task, identity)
      [] method = "grants.of" -> GrantsOf(p.task, identity)
      [] method = "approvals.decide" ->
            IF ApprovalForbidden(p.task, identity) THEN "ApprovalForbidden" ELSE Absent
      [] method = "budget.raise" ->
            IF RequireTask(p.task, identity) # Absent THEN RequireTask(p.task, identity)
            ELSE IF p.limit \in Unset THEN "InvalidParams"
            ELSE IF p.task \in DOMAIN budgets THEN Absent ELSE "BudgetUnknown"
      [] method \in {"task.create", "workflow.run"} -> ResolvePrincipal(p, identity).error
      [] method = "artifacts.publish" -> ResolveNamespace(p, identity).error
      [] method = "artifacts.resolve" -> ArtifactResolve(p, identity)
      [] method = "artifacts.read" -> ArtifactRead(p, identity)
      [] method = "models.feedback" ->
            IF identity.kind = "session" THEN "SessionForbidden" ELSE Absent
      [] method = "events.list" ->
            IF p.limit = Bad THEN "InvalidParams" ELSE EventsFilter(p, identity).error
      [] OTHER -> Absent

Errors == {"InvalidParams", "InvalidHandshake", "PresetInvalid", "SessionForbidden",
           "ApprovalForbidden", "TaskNotFound", "SessionUnknown", "PresetUnknown",
           "BudgetUnknown", "ArtifactNotFound", "InvalidArtifactPath", "NotPublished",
           "SessionDuplicate", "CapabilityError", "ArtifactError", "Error"}

\* Errors of the other layers are 500 unless they belong to one of three families.
HttpStatusFor(error) ==
    CASE error \in {"InvalidParams", "InvalidHandshake", "PresetInvalid",
                    "InvalidArtifactPath"} -> 400
      [] error \in {"SessionForbidden", "ApprovalForbidden"} -> 403
      [] error \in {"TaskNotFound", "SessionUnknown", "PresetUnknown", "BudgetUnknown",
                    "ArtifactNotFound"} -> 404
      [] error \in {"SessionDuplicate", "CapabilityError", "NotPublished",
                    "ArtifactError"} -> 409
      [] OTHER -> 500

\* toRpcError: the code beside the status.
RpcCodeFor(error) ==
    CASE error = "InvalidParams" -> -32602
      [] error = "TaskNotFound" -> -32010
      [] error = "SessionUnknown" -> -32011
      [] error = "PresetUnknown" -> -32012
      [] error = "SessionForbidden" -> -32014
      [] error = "BudgetUnknown" -> -32015
      [] error = "ApprovalForbidden" -> -32016
      [] error = "Error" -> -32603
      [] OTHER -> -32000

Reply(status, code) == [status |-> status, code |-> code]
Answered == Reply(200, Absent)

Outcome(error) ==
    IF error = Absent THEN Answered ELSE Reply(HttpStatusFor(error), RpcCodeFor(error))

Body(text) == [method |-> text.method, params |-> text.params]

\* handleGet; the stream of events is the module EventStream.
HandleGet(request) ==
    CASE request.path \in {"/", "/openapi.json"} -> Answered
      [] request.path = "/events/stream" ->
            IF ResolveIdentity(request.presented) = Absent THEN Reply(401, -32001) ELSE Answered
      [] OTHER -> Reply(405, -32600)

HandleRequest(request) ==
    IF request.verb = "GET" THEN HandleGet(request)
    ELSE IF request.verb # "POST" THEN Reply(405, -32600)
    ELSE IF ResolveIdentity(request.presented) = Absent THEN Reply(401, -32001)
    ELSE IF request.tooLarge THEN Reply(413, -32002)
    ELSE IF request.text = Bad THEN Reply(400, -32700)
    ELSE IF Body(request.text).method \in Unset THEN Reply(400, -32600)
    ELSE IF Body(request.text).method \notin Methods THEN Reply(404, -32601)
    ELSE Outcome(OperationError(Body(request.text).method, Body(request.text).params,
                                ResolveIdentity(request.presented)))

Post(presented, method, p) ==
    [verb |-> "POST", path |-> "/", presented |-> presented, tooLarge |-> FALSE,
     text |-> [method |-> method, params |-> p]]

\* What is absent or bad is none of the proper values: no name, no number of a
\* task, no caller and no request.
ASSUME UnsetAssumption ==
    /\ Absent # Bad
    /\ Unset \cap Tenants = {} /\ Unset \cap SessionIds = {}
    /\ Unset \cap (Methods \cup Errors) = {} /\ Unset \cap 1..(MaxWork + 1) = {}
    /\ Admin # Absent
    /\ \A tenant \in Tenants, session \in SessionIds : Session(tenant, session) # Absent
    /\ \A method \in Methods, id \in {Absent} \cup 1..(MaxWork + 1) :
          Post(Absent, method, [Params EXCEPT !.task = id]).text # Bad

----------------------------------------------------------------------------
(* Files written whole: under another name, then renamed *)

\* A failed write is told to the caller; what is in memory stays.
FaultOf(ok) == /\ ~ok => faults < MaxFaults
               /\ faults' = IF ok THEN faults ELSE faults + 1

Snapshot(file, body) == [no |-> begun[file] + 1, body |-> body]

Begin(file) == begun' = [begun EXCEPT ![file] = @ + 1]

TokenWritten(w, ok) ==
    /\ tokenWrites' = tokenWrites \ {w}
    /\ tokensFile' = IF ok THEN w ELSE tokensFile
    /\ FaultOf(ok)
    /\ UNCHANGED <<sessions, tokens, issued, samples, modelsFile, modelWrites, begun, tasks,
                   created, calls, runs, budgets, log, faulted, crashes, artifactVars>>

ModelsWritten(w, ok) ==
    /\ modelWrites' = modelWrites \ {w}
    /\ modelsFile' = IF ok THEN w ELSE modelsFile
    /\ FaultOf(ok)
    /\ UNCHANGED <<sessions, tokens, issued, samples, tokensFile, tokenWrites, begun, tasks,
                   created, calls, runs, budgets, log, faulted, crashes, artifactVars>>

----------------------------------------------------------------------------
(* session.init and models.feedback *)

\* Faulty variant: the snapshot is taken before the token is added.
SessionInit_Early(identity, tenant, session) ==
    /\ identity.kind = "session" => tenant = identity.tenant
    /\ ~Lookup(tenant, session)
    /\ Room(1)
    /\ sessions' = Append(sessions, [tenant |-> tenant, session |-> session])
    /\ issued' = issued + 1
    /\ tokens' = TokensWith(tenant, session, issued')
    /\ tokenWrites' = tokenWrites \cup {Snapshot("tokens", tokens)}
    /\ Begin("tokens")
    /\ UNCHANGED <<tokensFile, samples, modelsFile, modelWrites, tasks, created, calls, runs,
                   budgets, log, faulted, faults, crashes, artifactVars>>

\* The session is there before its token is written, and stays if that fails.
SessionInit(identity, tenant, session) ==
    /\ identity.kind = "session" => tenant = identity.tenant
    /\ ~Lookup(tenant, session)
    /\ Room(1)
    /\ sessions' = Append(sessions, [tenant |-> tenant, session |-> session])
    /\ issued' = issued + 1
    /\ tokens' = TokensWith(tenant, session, issued')
    /\ tokenWrites' = tokenWrites \cup {Snapshot("tokens", tokens')}
    /\ Begin("tokens")
    /\ UNCHANGED <<tokensFile, samples, modelsFile, modelWrites, tasks, created, calls, runs,
                   budgets, log, faulted, faults, crashes, artifactVars>>

ModelsFeedback(identity) ==
    /\ OperationError("models.feedback", Params, identity) = Absent
    /\ Room(1)
    /\ samples' = samples + 1
    /\ modelWrites' = modelWrites \cup {Snapshot("models", samples')}
    /\ Begin("models")
    /\ UNCHANGED <<sessions, tokens, issued, tokensFile, tokenWrites, modelsFile, tasks,
                   created, calls, runs, budgets, log, faulted, faults, crashes,
                   artifactVars>>

----------------------------------------------------------------------------
(* task.create *)

Event(type, id, cap) ==
    [type |-> type, task |-> id, tenant |-> tasks[id].tenant, session |-> tasks[id].session,
     preset |-> tasks[id].preset, cap |-> cap]

NewRecord(who, kind, preset) ==
    [tenant |-> who.tenant, session |-> who.session, kind |-> kind, preset |-> preset,
     state |-> Store!NewTask, manifest |-> Absent]

TaskCreate(p, identity, preset) ==
    LET who == ResolvePrincipal(p, identity)
    IN  /\ who.error = Absent
        /\ preset \in DOMAIN PresetGrants
        /\ Room(2)
        /\ created' = created + 1
        /\ tasks' = Including(tasks, created', NewRecord(who, "create", preset))
        /\ calls' = Including(calls, created', [stage |-> "starting", grants |-> <<>>])
        /\ UNCHANGED <<sessions, tokens, issued, files, samples, runs, budgets, log, faulted,
                       faults, crashes, artifactVars>>

Stage(id, stage, grants) == calls' = [calls EXCEPT ![id] = [stage |-> stage, grants |-> grants]]

Returned(id) == calls' = [n \in DOMAIN calls \ {id} |-> calls[n]]

\* An event is appended, or the append fails and nothing is in the log.
Log(id, type, cap, ok) ==
    /\ log' = IF ok THEN Append(log, Event(type, id, cap)) ELSE log
    /\ faulted' = IF ok THEN faulted ELSE faulted \cup {id}
    /\ FaultOf(ok)
    /\ UNCHANGED <<sessions, tokens, issued, files, samples, created, runs, budgets, crashes,
                   artifactVars>>

SetState(id, state) == tasks' = [tasks EXCEPT ![id].state = state]

\* The catch of task.create: the record fails before the event is logged.
Fails(id) ==
    /\ SetState(id, Store!MarkFailed(tasks[id].state, 0))
    /\ Stage(id, "failing", <<>>)

\* Faulty variant: what was granted before the fault is not taken back.
Undo_Nothing(id, grants) == Fails(id)

\* applyBaseline gives back, one event each, what it has granted so far.
Undo(id, grants) ==
    IF grants = <<>> THEN Fails(id) ELSE Stage(id, "undoing", grants) /\ UNCHANGED tasks

\* The next grant of the baseline is checked and held before its event is logged.
GrantFrom(id, grants) ==
    LET wanted == PresetGrants[tasks[id].preset]
        cap == wanted[Len(grants) + 1]
    IN  IF Len(grants) = Len(wanted)
        THEN /\ tasks' = [tasks EXCEPT ![id].manifest = Range(grants)]
             /\ Stage(id, "completing", <<>>)
        ELSE IF cap \in KnownCaps \ Range(grants)
             THEN Stage(id, "granting", Append(grants, cap)) /\ UNCHANGED tasks
             ELSE Undo(id, grants)

StartLogged(id, ok) ==
    /\ calls[id].stage = "starting"
    /\ Log(id, "node.started", Absent, ok)
    /\ IF ok THEN GrantFrom(id, <<>>) ELSE Fails(id)

GrantLogged(id, ok) ==
    /\ calls[id].stage = "granting"
    /\ Log(id, "grant.granted", Last(calls[id].grants), ok)
    /\ IF ok THEN GrantFrom(id, calls[id].grants) ELSE Undo(id, calls[id].grants)

UndoLogged(id, ok) ==
    /\ calls[id].stage = "undoing"
    /\ Log(id, "grant.revoked", Head(calls[id].grants), ok)
    /\ Undo(id, Tail(calls[id].grants))

CompletionLogged(id, ok) ==
    /\ calls[id].stage = "completing"
    /\ Log(id, "node.completed", Absent, ok)
    /\ IF ok THEN SetState(id, Store!MarkCompleted(tasks[id].state)) /\ Returned(id)
       ELSE Fails(id)

FailureLogged(id, ok) ==
    /\ calls[id].stage = "failing"
    /\ Log(id, "node.failed", Absent, ok)
    /\ Returned(id)
    /\ UNCHANGED tasks

----------------------------------------------------------------------------
(* workflow.run and the budgets *)

\* The record is made before the budget is looked at: a call refused for its
\* budget leaves it behind.
WorkflowRun(p, identity, budget) ==
    LET who == ResolvePrincipal(p, identity)
    IN  /\ who.error = Absent
        /\ Room(2)
        /\ created' = created + 1
        /\ tasks' = Including(tasks, created', NewRecord(who, "workflow", Absent))
        /\ budgets' = IF budget \in Unset THEN budgets ELSE Including(budgets, created', budget)
        /\ runs' = IF budget = Bad THEN runs ELSE runs \cup {created'}
        /\ UNCHANGED <<sessions, tokens, issued, files, samples, calls, log, faulted, faults,
                       crashes, artifactVars>>

\* The engine throws: an event without an agent, then the record, in any case.
EngineThrows(id, ok) ==
    /\ runs' = runs \ {id}
    /\ log' = IF ok THEN Append(log, Event("node.failed", id, Absent)) ELSE log
    /\ faulted' = IF ok THEN faulted ELSE faulted \cup {id}
    /\ FaultOf(ok)
    /\ SetState(id, Store!MarkFailed(tasks[id].state, 0))
    /\ UNCHANGED <<sessions, tokens, issued, files, samples, created, calls, budgets, crashes,
                   artifactVars>>

BudgetRaise(id, identity, limit) ==
    /\ OperationError("budget.raise", [Params EXCEPT !.task = id, !.limit = limit], identity)
            = Absent
    /\ budgets' = [budgets EXCEPT ![id] = limit]
    /\ UNCHANGED <<sessions, tokens, issued, files, samples, tasks, created, calls, runs, log,
                   faulted, faults, crashes, artifactVars>>

----------------------------------------------------------------------------
(* artifacts.publish *)

\* The artifact is on disk (ArtifactStore.tla) before the log is told.
ArtifactPublish(p, identity) ==
    LET ns == ResolveNamespace(p, identity)
    IN  /\ ns.error = Absent
        /\ Room(1)
        /\ artifacts' = Append(artifacts, [tenant |-> ns.tenant, task |-> ns.task])
        /\ publishing' = publishing \cup {Len(artifacts')}
        /\ UNCHANGED <<sessions, tokens, issued, files, samples, tasks, created, calls, runs,
                       budgets, log, faulted, faults, crashes>>

\* The event names the task but no session.
PublicationLogged(i, ok) ==
    /\ publishing' = publishing \ {i}
    /\ log' = IF ok
              THEN Append(log, [type |-> "artifact.published", task |-> artifacts[i].task,
                                tenant |-> artifacts[i].tenant, session |-> Absent,
                                preset |-> Absent, cap |-> Absent])
              ELSE log
    /\ FaultOf(ok)
    /\ UNCHANGED <<sessions, tokens, issued, files, samples, tasks, created, calls, runs,
                   budgets, artifacts, faulted, crashes>>

----------------------------------------------------------------------------
(* A crash and the next start *)

Recording(store, id, field, value) == [store EXCEPT ![id][field] = value]

\* applyTaskEvent and the grants of replayTasks. A task no node.started tells
\* of does not come back.
Replayed(store, e) ==
    LET id == e.task
        set(field, value) == Recording(store, id, field, value)
        held == store[id].manifest
    IN  IF e.type = "node.started"
        THEN Including(store, id,
                [tenant |-> e.tenant, session |-> e.session, kind |-> "create",
                 preset |-> e.preset, manifest |-> Absent,
                 state |-> Store!MarkRunning(Store!NewTask, 1)])
        ELSE IF id \notin DOMAIN store THEN store
        ELSE CASE e.type = "grant.granted" ->
                    set("manifest", Default(held, {}) \cup {e.cap})
               [] e.type = "grant.revoked" /\ held # Absent -> set("manifest", held \ {e.cap})
               [] e.type = "node.completed" ->
                    set("state", Store!NodeCompleted(store[id].state, "worker", 1))
               [] e.type = "node.failed" ->
                    set("state", Store!NodeFailed(store[id].state, "crash", 1))
               [] OTHER -> store

ReplayTasks == FoldLeft(Replayed, <<>>, log)

Crash ==
    /\ crashes < MaxCrashes
    /\ crashes' = crashes + 1
    /\ sessions' = <<>>
    /\ tokens' = tokensFile.body /\ tokenWrites' = {}
    /\ samples' = modelsFile.body /\ modelWrites' = {}
    /\ begun' = [tokens |-> tokensFile.no, models |-> modelsFile.no]
    /\ tasks' = ReplayTasks
    /\ calls' = <<>> /\ runs' = {} /\ budgets' = <<>> /\ publishing' = {}
    /\ UNCHANGED <<issued, tokensFile, modelsFile, created, artifacts, log, faulted, faults>>

----------------------------------------------------------------------------

Init ==
    /\ sessions = <<>> /\ tokens = {} /\ issued = 0
    /\ tokensFile = [no |-> 0, body |-> {}] /\ tokenWrites = {}
    /\ samples = 0 /\ modelsFile = [no |-> 0, body |-> 0] /\ modelWrites = {}
    /\ begun = [tokens |-> 0, models |-> 0]
    /\ tasks = <<>> /\ created = 0 /\ calls = <<>> /\ runs = {} /\ budgets = <<>>
    /\ artifacts = <<>> /\ publishing = {}
    /\ log = <<>> /\ faulted = {} /\ faults = 0 /\ crashes = 0

Identities == {ResolveIdentity(presented) : presented \in Presented} \ {Absent}

Asked == {[Params EXCEPT !.tenant = tenant, !.session = session] :
            tenant \in Tenants \cup {Absent}, session \in SessionIds \cup {Absent}}

Next ==
    \/ \E identity \in Identities :
          \/ \E tenant \in Tenants, session \in SessionIds : SessionInit(identity, tenant, session)
          \/ ModelsFeedback(identity)
          \/ \E p \in Asked, preset \in DOMAIN PresetGrants : TaskCreate(p, identity, preset)
          \/ \E p \in Asked, budget \in Limits \cup Unset : WorkflowRun(p, identity, budget)
          \/ \E id \in DOMAIN budgets, limit \in Limits : BudgetRaise(id, identity, limit)
          \/ \E p \in Asked, id \in DOMAIN tasks :
                ArtifactPublish([p EXCEPT !.task = id], identity)
    \/ \E ok \in BOOLEAN :
          \/ \E w \in tokenWrites : TokenWritten(w, ok)
          \/ \E w \in modelWrites : ModelsWritten(w, ok)
          \/ \E id \in DOMAIN calls :
                \/ StartLogged(id, ok) \/ GrantLogged(id, ok) \/ UndoLogged(id, ok)
                \/ CompletionLogged(id, ok) \/ FailureLogged(id, ok)
          \/ \E id \in runs : EngineThrows(id, ok)
          \/ \E i \in publishing : PublicationLogged(i, ok)
    \/ Crash

Spec == Init /\ [][Next]_vars

----------------------------------------------------------------------------
(* Properties *)

\* Whatever is asked for, by whichever token: a task is listed for the caller
\* if, and only if, each other operation on it answers, its requests for
\* approval are shown, and its events, where they may be read, are among those
\* listed: all but its publications, whose events carry no session. Every
\* operation has its own filter, written out by itself. What grants.of and
\* approvals.decide answer does not tell whether a task exists that is not
\* listed (operations.ts:547, 868).
ReadsAgree ==
    \A presented \in Presented :
        LET identity == ResolveIdentity(presented)
            answers(method, id) ==
                HandleRequest(Post(presented, method, [Params EXCEPT !.task = id]))
            listed == IF identity = Absent THEN {} ELSE ListTasks(identity)
        IN  /\ \A id \in DOMAIN tasks :
                 /\ \A method \in {"task.status", "grants.of", "budget.status", "task.cancel",
                                   "approvals.decide"} :
                        answers(method, id) = Answered <=> id \in listed
                 /\ identity # Absent => (id \in ApprovalsList(identity) <=> id \in listed)
            /\ \A id \in DOMAIN tasks, method \in {"grants.of", "approvals.decide"} :
                 identity # Absent /\ id \notin listed =>
                    answers(method, id) = answers(method, MaxWork + 1)
            /\ HandleRequest(Post(presented, "events.list", Params)) = Answered =>
                 LET shown == {log[i].task : i \in EventsList(Params, identity)}
                     told == {e.task : e \in {e \in Range(log) :
                                identity.kind = "session" => e.type # "artifact.published"}}
                 IN  shown \cap DOMAIN tasks = told \cap listed

\* A session holds one token, and one only: a second session.init of the same
\* session, after a restart, ends the token of the first, and no token of
\* another session (identity.ts:55-58).
SessionsHoldOneToken ==
    /\ \A s \in Range(sessions) : \E t \in tokens : t.tenant = s.tenant /\ t.session = s.session
    /\ \A t, u \in tokens : t.tenant = u.tenant /\ t.session = u.session => t = u
    /\ \A i, j \in DOMAIN sessions : sessions[i] = sessions[j] => i = j

\* When no write is under way and the last one begun is the one in place, the
\* files are what is in memory, so that a restart would change nothing.
SettledFilesAreMemory ==
    /\ tokenWrites = {} /\ tokensFile.no = begun["tokens"] => tokensFile.body = tokens
    /\ modelWrites = {} /\ modelsFile.no = begun["models"] => modelsFile.body = samples

\* A task made by task.create has, once its call is over, the state and the
\* grants a restart would rebuild from the log, whether it completed or failed
\* in the middle of its grants; only a failed write of the log makes them part
\* (operations.ts:388-437, executor.ts:107-111). And a publication the log tells
\* of has its artifact on disk.
RestartKeepsTasks ==
    /\ \A e \in Range(log) : e.type = "artifact.published" =>
            \E a \in Range(artifacts) : a.tenant = e.tenant /\ a.task = e.task
    /\ \A id \in DOMAIN tasks \ (DOMAIN calls \cup faulted) :
        tasks[id].kind = "create" =>
            /\ id \in DOMAIN ReplayTasks
            /\ LET then == ReplayTasks[id]
               IN  /\ then.state.status = tasks[id].state.status
                   /\ Default(then.manifest, {}) = Default(tasks[id].manifest, {})
                   /\ then.tenant = tasks[id].tenant /\ then.session = tasks[id].session
=============================================================================
