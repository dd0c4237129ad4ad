# neoba in TLA+

neoba is a daemon that runs workflows of coding agents: it checks a plan,
dispatches its nodes into sandboxes, hands out capabilities, asks for approval
when an agent wants more, and writes everything to an event log from which a
restart rebuilds its memory. The program is `daemon/src` (TypeScript on Node);
paths below are relative to it. This directory holds TLA+ modules of its core,
TLC configurations that check them on small instances, and proofs that TLAPS
checks for every value of the constants.

## 1. Inventory

| component | state it keeps | operations | interacts with |
|---|---|---|---|
| workflow engine (`engine/workflow-engine.ts`, `gate.ts`) | per run: completed nodes, outputs, attempts, traversals, executions in flight, settled entries, gate, status, pending resume | run, pause, resume, cancel; the loop that dispatches, retries, sends back and ends | node executor (promises), task operations (calls), event log |
| node executor (`engine/node-executor.ts`) | none beyond one execution | execute | grants, secrets, warm pool, runtime, artifacts, budget ledger, event log |
| task store (`daemon/tasks.ts`) | record of each task, manifests, completed nodes, failed attempts | `mark*`, `applyTaskEvent`, `replayTasks` | driven by the events of everyone |
| resource gate (`provision/pool.ts`) | counter of slots, queue of waiters | acquire, release | warm pool, event log |
| warm pool (`provision/warm-pool.ts`) | snapshot references | acquire, release, drain | gate, sandbox provider |
| approval board (`approval/board.ts`) | record of each request | submit, decide, reclaimExpired, restoreFromEvents | grants, policy, event log, reclaim timer |
| grants (`capability/executor.ts`) | grants and audit of each agent | applyBaseline, grant, revoke, manifest | registry, audit sink |
| wiring and operations (`daemon/wiring.ts`, `operations.ts`) | none | the RPC methods, and what each logs | all of the above |
| daemon (`daemon/daemon.ts`) | lock file, timers | start (replay, restore), stop | all of the above |
| budget ledger (`budget/ledger.ts`) | usage, limit, which events are due, the chain of events that wait for the log | record, raise | executor, operations, event log |
| event log (`events/log.ts`) | shards on disk, next sequence number, subscribers | append, load, replay, repair, close | everyone |
| recovery summary (`events/recover.ts`) | none (a fold over the log) | collect, reconcile | log, sandbox provider, daemon start |
| event stream (`daemon/http.ts`) | per reader: what it has been sent | subscribe, replay, close | log, HTTP |
| artifacts and GC (`artifacts/*.ts`) | manifests and objects on disk, the chain of publications of each path | publish, collect, prune, recheck | executor, operations, GC timer, the prune command (another process) |
| messenger (`messenger/*.ts`) | handlers, history, queue of deliveries, dead letters, traversals of edges | send, register, unregister, drain | agents, subscribers |
| sessions (`session/*.ts`) | table of sessions | session.init with its negotiation | HTTP, tokens |
| HTTP, identity, tokens (`daemon/http.ts`, `jsonrpc.ts`, `identity.ts`) | tokens in memory and in their file | route, resolve an identity, issue | every operation |
| plan check (`plancheck/*.ts`), registry and presets (`capability/registry.ts`, `preset.ts`), policy (`approval/policy.ts`, `capability/hardline.ts`) | none (pure) | parse, check, evaluate | operations, command line |
| model scores (`modelscore/registry.ts`) | the registry, its file | load, admit, rank, record feedback | operations, executor |
| secrets (`secrets/*.ts`) | key, sealed values, metadata or index, by backend | set, get, delete, list, inject | executor, command line |
| portability (`portability/bundle.ts`, `cli/commands/workflow.ts`) | none | check, export | presets, plan check, model scores |
| sandbox providers (`provision/*-provider.ts`, `registry.ts`) | handles of this process, machines on the host | create, list, exec, snapshot, restore, destroy | executor, pool, recovery, the command line tool |
| harness adapters, sidecar, doctor, rest of the CLI, bindings | files, processes, sockets | I/O around the above | |

The process is single-threaded: a handler runs alone between two awaits, and
what makes the code hard is what may happen at an await. The engine's loop
waits for nodes that settle in any order, while the operator pauses, resumes
and cancels. The gate, the pool and the approval board each keep a table that
several handlers change around appends to the log. The log is the only thing
that survives a crash, so every pair of appends is a place to crash between.

### What makes each component correct

- Engine: it dispatches a node only when its inputs are there; it never lets a
  result rest on an artifact a rerun has replaced; it respects the limit and
  the exclusive nodes; every run ends or waits for the operator; the task
  record agrees with the result.
- Gate and pool: slots are never over-issued, lost or idle while somebody
  queues; the queue is served in order; a snapshot serves one sandbox; the
  pool keeps to its capacity.
- Approval: one decision for each request, durable; grants only after an
  approval; what is approved is held and what is denied is not; an expired
  grant goes; `grants.of` agrees with the log.
- Task store: the replayed record is the live one.
- Lock: one daemon for each state directory.
- Log: a restart reads a gapless sequence, loses no acknowledged event, keeps
  no half of one.
- Artifacts: a published manifest has its objects whatever is swept; the
  versions of a path rise one by one; what nothing lists is collected.
- Front door: every method draws the same line between callers; a session has
  one token; files and memory agree; a restart finds the tasks there were.
- Messenger: each message is delivered once or is a dead letter, in order.
- Secrets: what is set is read back, what is held is listed.
- Recovery and stream: every sandbox is in the log for the next start, and no
  machine is left behind within a life; every reader
  gets every event once.
- Budget: nobody is stopped without being told, in order and once.
- The algorithms: what the check accepts can be run, what is exported means
  the same elsewhere, the strictest fitting rule wins, rankings are definite,
  a client is told what it does not get.

The hazards, each at its line, are in `PROJECT.json` under `hazards`.

## 2. Modules

| module | models | composed of |
|---|---|---|
| `TaskStore` | transitions of one task record as operators | |
| `EngineGate` | the open/paused/aborted gate | |
| `NodeExecutor` | phases of the executions of a run, the budget level | `TaskStore` |
| `WorkflowEngine` | one run of the engine | `NodeExecutor`, `EngineGate` |
| `AbstractGate` | what a bounded semaphore promises | |
| `ResourceGate` | acquire and release, await by await | refines `AbstractGate` |
| `WarmPool` | the pool inside the gate, failing provider calls | `ResourceGate` |
| `ApprovalBoard` | submit, decide, expiry, sweep, the log's queue, restart | |
| `TaskReplay` | the live record beside the one a replay would build | `TaskStore` |
| `BudgetLedger` | one task's budget with its amounts and its chain of events | |
| `FrontDoor` | HTTP, JSON-RPC, identities, tokens, sessions, the operations with their files and events, restart | `TaskStore` |
| `EventStream` | a reader that subscribes and replays while events are appended | |
| `Provider` | the three providers: registry beside host, failing calls, death of the process | |
| `Recovery` | executions and pool entries that hold sandboxes, their events, and what a start makes of them | `Provider` |
| `Messenger` | one task's messages, with the callbacks that call back in | |
| `Secrets` | the store over three backends, await by await | |
| `Documents` | absent and faulty fields, sets of faults; capability and model patterns | |
| `PlanParse`, `PlanCheck` | the parser of plans; the checks, the cycle search, `topoSort` | `Documents` |
| `Presets` | loaders of the capability registry and of presets | `Documents` |
| `ApprovalPolicy` | layers, specificity, verdict, hard line | `Documents` |
| `ModelScores` | loader, admission, ranking, moving average | `Documents` |
| `Handshake` | versions, document kinds, features, degradations | `Documents` |
| `Portability` | `workflow check`, the bundle and its scrubbing | `Presets`, `PlanCheck`, `ModelScores` |
| `AbstractLog` | what an append-only log promises | |
| `EventLog` | one shard: queue, append, load, repair, crashes | refines `AbstractLog` |
| `EventLogFaults` | the shard under faults it does not withstand | `EventLog` |
| `InstanceLock` | file operations of daemons that start together | |
| `ArtifactStore` | publication, the collector, prune, restart of the daemon | |
| `Decisions` | the policy, the ranking and the handshake as one action each, with what their answers should mean | `ApprovalPolicy`, `ModelScores`, `Handshake` |
| `MCDecisions` | bounded inputs of the algorithms; check and export as actions, with theirs | `Decisions`, `Portability` |
| `Services` | the parts that share no state, side by side | `Decisions`, `Messenger`, `Secrets`, `Recovery`, `EventStream`, `TaskReplay`, `BudgetLedger` |
| `MCServices` | one part per behaviour | `Services`, `MCDecisions` |
| other `MC*` | constants for TLC | |
| `*Proofs` | theorems, each module about the one it is named for (`WarmPoolProofs` also about `ResourceGate`) | |
| `Folding` | theorems about `FoldLeft`, with which replays are written | |

### Engine

`#loop` is an async function. Its body from one await to the next is one
action (`Turn...`): it takes the settled entries in topological order
(`#takeSettled`), stops at the first budget break or error, otherwise handles
failures when the batch in flight is drained, otherwise dispatches, waits or
goes on to the evidence check. The promises it waits for are phases of
`exec`. `loop` says at which await it is: `gate` (gate.wait), `notify`
(waitNotify), `drain` (inside #drain after a budget break), `finalCheck`
(reading the evidence), or that it has left (`suspended`, `over`).
Correspondence of state: `inFlight` is `exec # "idle"`; `budgetPausing` is
`loop = "drain"`; `status === 'paused'` is `loop = "suspended"`; a run is in
the engine's table while `loop # "over"`; `pausedNode` is kept as whether it
has been set. `used` and `outputs` give artifacts their version, the attempt
that published them. `setbacks` is history: how often what a node had
completed was taken back, by a feedback edge or by a budget break that drops
the entries after it.

Node runs all microtasks before the next timer, I/O result or request. A turn
that ends in a resolved promise is followed by the next turn and by nothing
else. `Runnable` is the condition that the loop has such a turn, and the
environment (`NodeStep`, `Operator`) moves only when it has none. This is what
makes the starvation below visible.

Abstracted: outputs that are missing count as a crash (the engine treats them
alike); `node.started` is logged in the same step as the dispatch, because its
append precedes everything else of the execution; an append and its effect on
the record are one step; evidence passes or fails by choice. The branch of
`#loop` for a cancelled entry at an open gate (lines 332-340) cannot be
reached: a cancelled entry means an aborted gate, where the turn never gets
that far; failure handling of `cancelled` remains in `Failing` for the record.

### Gate and pool

A request is one call of acquire with the release that pairs with it. Every
await is a phase (`at`, and `stage` while the caller holds the slot). The
counter, the queue and the hand-over of a slot in `Release` are those of the
code; `owner` names for whom the counter counts. Provider calls and appends
may throw. The model is of a provider that can snapshot; without it the pool
is the gate around create and destroy. The health probe decides by choice.
A second release of one handle is not modelled: no caller does it.

### Approval

A step is what happens between two appends to the log: the sinks of the grant
executor resolve without I/O when the call has no audit context, so grant,
record and enqueueing of the decision's event are one step. `writes` is the
log's queue, each entry with the data its handler goes on with. A refused
append ends its handler. A crash loses the queue; its first entry may have
reached the disk. Restart rebuilds the records (`restoreFromEvents`), the grants
(start-up loop) and the manifest (`replayTasks`) from the log by three
different folds, as in the code. One agent, one log shard (the daemon uses one
default shard). A ttl is an absolute time that is logged; it is abstracted to
`expired`. The order in which a sweep visits keys is a choice. `early` is a
history variable: the requests decided while they were still being logged.
Validation errors, narrowed scopes and the authorisation of sessions are left
out; the policy's outcome is the constant `AutoRequest`.

### Event log

One shard; shards share nothing. The file is a sequence of lines, each with the
event it holds (`None` when it does not parse), its number and whether it ends
in a newline. Writing after an unfinished line gives one line that does not
parse (`Put`). `Accepted` is what `#parseLine` makes of a file: lines that
parse and whose number is above all before; with quarantine on the others are
skipped. The queue of the shard is `queue`, its first operation is at `stage`.
A start replays before it serves, replays of the running daemon go through
the same queue and set `nextSeq` again. `disk` is what a loss of power cannot
take; `Survivors` adds any part of what follows it in the file, up to the
middle of a line, so that a tail may be torn or lack its newline, and a cut
or a newline that was not synced may be undone. `Kill` leaves the file as it
is, `Close` refuses what is queued.

In `EventLog` no other process writes the file, so the comparison in
`repairTruncatedTail` always succeeds and is one step with the cut. Appends of
the quarantine's corrections are appends like others. `EventLogFaults` adds a
read that fails, a sync that fails and a second process, each switched on by
`Faults`.

### Artifacts

Manifests are files: `pointer` holds the published one of each path and `tmp`
the temporary one that a publication has written beside it. Objects are known by
their content, which is their name on disk. `queue` is the promise chain of each
path (`#runExclusive`); `job` the publications, `sweep` the two that remove. In a
publication the look for an object and the write of it are two awaits, so another
sweep or publication may come between. A sweep lists names once and then reads
each file when it comes to it; the reads come in any order. The collector reads
its clock before the listing, decides about the status of the task after it, and
for each manifest that is due reads it again and removes it in two awaits. Then,
as in prune, the manifests are listed and read a second time, and what is still
listed by none goes. Prune is a process of its own: it survives `Restart`, which
forgets publications and the collection under way and leaves the disk.

What a caller may give as retention is the constant `Retention`: nothing,
forever, a day, a number of days so large that it is stored as `days:1e+21` and
not read back, and something invalid. The daemon's own callers declare none
(`operations.ts:490`, `node-executor.ts:402`), so expiry comes from callers of the
class. `by` and `raced` are history: who published a manifest, and which
publications were between their first look and their rename when a recheck or
a removal was under way. Left out are the bytes, the staging directory (private
to its publication), half-written files (their names do not parse, or their
contents), a read or a removal that fails under a sweep, and two collections at
once (ten minutes lie between two ticks of the timer).

### Front door

A caller is the token it presents. Before its first await an operation is one
step; each append and each write of a file after it is a step that may fail,
and `calls` holds the `task.create` calls between them. Reads change nothing
and are operators (`HandleRequest`, `ListTasks`, `EventsList`, `GrantsOf`);
`ReadsAgree` compares them with one another in every state. A file is written
beside its target and renamed: `tokenWrites` and `modelWrites` are the snapshots
under way, numbered by `begun`. `Crash` keeps the log and the files in place,
and rebuilds tasks as `replayTasks` does. What an operation hands over to
(engine, board, handshake, check) is reduced to its outcome; those parts have
modules of their own. Of argument checks the model keeps present, absent and of
the wrong kind. Resolving a path at which nothing is published answers null,
reading it is a conflict (`ArtifactResolve`, `ArtifactRead`). A publication is on disk (`artifacts`) before its event is logged
(`publishing`). Left out: preset queries, the contents of artifacts, static files,
expiry of tokens (the daemon issues none that expire).

### Messenger

`send` calls subscribers and the sink in its middle and `drain` calls handlers;
each of these may send, register or unregister. `sending` is the stack of the
sends under way, `batch` what the running drain has still to deliver, `queue`
what waits for the next one. A handler that throws is recorded and does not
stop the drain.

### Secrets

A call is a row of steps with an await between them; nothing in the code keeps
two calls apart, so callers interleave freely. A sealed value carries the key it
was sealed with, and reading it needs that key: this is all of the encryption
that the properties tell apart. `disturbed` is history: calls of one tenant
overlapped, a crash cut one short or the tool failed.

### Recovery and event stream

`Provider` has, for each sandbox, what the host has of it (`host`) beside what the
provider's registry says (`record`): a create that throws leaves its handle
"provisioning" and perhaps a machine, a restore registers only once the tool's
output names the machine, a destroy of an unknown sandbox does nothing. The
registry dies with the process; the machines of docker and microsandbox do not.
`Recovery` adds the executions that hold sandboxes, the entries of the pool and
the log (`journal`): creation comes before its event and so does destruction.
An append that an execution waits for outside its `try` (sandbox.created,
node.failed, sandbox.destroyed) may be refused, which ends the execution
(`AppendRefused`). `unlogged`, `excused` and `refused` are history: the sandboxes
the log was never told of, those on which a call of the provider failed, and those
whose execution an append ended.
Start folds the log, then reconciles serially what it found with what the
provider lists, which after a start is nothing.
`EventStream` has one reader: it subscribes before it replays, holds what it has
seen, and drops what comes twice. The tasks of one shard run one at a time in the
log, so an append with its publication is one step and so is the load of a shard.

### Budget

`Record` is the synchronous part: it adds, decides which events are due and
queues them all; the record then waits for its own (`recording`). `Emitted` and
`EmitFails` are the ends of the append at the head of the chain. The name of a
run under which a limit was armed (`arming`) is history. The amounts are
integers; `NodeExecutor` uses the level only.

### Algorithms

Pure code is operators over documents. A field of a document is a value, `Absent`
or `Bad` (of the wrong type or form), and an object carries in `extra` whether it
has unknown fields; the parser yields the set of its faults, of which the code
prints each with a path. Names are model values or short tuples, so a pattern is
a tuple too (`Under("fs")` is `fs.*`). Scores are integers from 0 to `SCALE`,
with the division of the moving average rounded down. Versions are tuples;
`CheckDocumentKind` compares texts, so `TextAfter` does what the comparison of
strings does with numbers of several digits. Where the code keeps the best of a
list while it walks along it, the model chooses the element that no other beats
and names the ties: `Stronger`, `Nearer`, `Precedes` (the sort of Node is stable).

A bundle is what `buildExportBundle` puts into files: the plan, the presets and the
capabilities, each of them scrubbed, `README.md`, the environment and the list of
credentials with their hints. A JSON value is a leaf, a list or an object;
`CREDENTIAL_KEYS` stands for the names that the regular expression of
`bundle.ts` matches. A plan of a workflow has no such key after the parser, so
`ExportObject` gives the function arbitrary objects too, at each level.

`Decisions` asks one question in a step and keeps it beside the answer: what the
policy says of a request, how the models of a file rank and what two tasks make
of the first one's average, what a session is answered, which version is agreed
on. Its constants are the questions that may be asked. `MCDecisions` gives them
bounded sets and adds the check and the export of a plan. The properties say
what an answer means by a definition that is written another way: a cycle is a set
of nodes each of which reads another of the set, the closest version is a
minimum, a rule wins by a quantifier over all layers, a ranking is the same for
every permutation of the file, and what is exported is read again by the same
loader.

## 3. Runs

All runs that pass:

| run | instance | shows |
|---|---|---|
| `EngineSafety` | nodes a, b (roots), c, d (read a), all parallel, limit 2, one retry of a, one feedback edge c to a, 2 faults, 1 raise | dependency, reruns, freshness, limit, reporting |
| `EngineLiveness` | serial a, then b and c, limit 2, a retry and an edge b to a, 2 faults, 1 raise | every run settles, every cancel ends |
| `WarmPoolServes` | 4 requests (one with a signature of its own), 2 slots, capacity 1, 1 failing provider call or drain, 1 refused append | order, idle slots, return of slots, refinement |
| `ApprovalFlow` | 2 requests for one key, the second let through by policy, a baseline grant, 2 appends under way, 1 restart, 1 refused append | decisions, grants, restart, expiry |
| `EventLogKeeps` | 3 events, 3 starts, 1 replay of the running daemon, 1 failing write; close, kill and loss of power at every await | durability, numbers, refinement, answers |
| `ArtifactsKept` | 1 path, 2 publications that share one of 2 objects, one of them kept for a day; the collector or prune, 1 day, 1 restart, failing publications | objects kept, versions, collection |
| `FrontDoor` | 2 tenants, 1 session name (the same for both), a preset whose grants are known and one whose second grant is not, 1 limit, work for 4 (a task counts two; a session, a sample or a publication one), 1 failing write, 1 crash | reads, tokens, files, restart |
| `Services` | messenger: 2 agents, 2 messages, 2 registrations, 1 failing handler; secrets: 2 tenants, 2 callers, 3 calls, 1 crash or failing tool, each backend; recovery: 2 sandboxes, each provider, 2 starts, 1 failing provider call, any append of an execution refused; stream: 2 shards, 2 owners, 4 events; task record: 2 nodes, 2 attempts; budget: limits 0, 2, 4, amounts 0 to 2, 2 recorders, 4 records, 2 raises, 1 failing append; about thirteen thousand inputs of the algorithms | one property or two of each part |

Why these bounds are enough to be interesting: four nodes let a ready set
outgrow the limit and two nodes read what a feedback edge resets; two faults
give a failure and a budget break in one batch, or a failed retry; two slots and four
requests give a queue of two, so that order in the queue matters; two requests
for one key give a grant that is held already; two appends under way give every
pair of interleaved handlers; three starts let a crash fall on the repair of an
earlier one; two publications of one path give a republication between the plan
and the removal, and the shared object one that is listed, unlisted and looked
for again; one session name in two tenants makes a filter by name show; three
starts let a start be cut short while it reconciles; two recorders and four
records let a raise fall between the two events of one report; three nodes give
every shape of a cycle, and one that no single edge closes; three layers put each
outcome above and below the other, with and without the built-in layer; versions
with and without a patch, next to each other and far apart, give each level and
ties between two that are offered. `ArtifactsKept` has one sweep under way at a time (`MaxSweeps = 1`)
for the sake of its size: the same invariants were met with the collector
and prune together, and the theorems hold for that too. In `Services` the
parts share no variable, so that a behaviour takes the steps of one of them only
(`part`) and the states of the parts add up instead of multiplying. Deadlock is
checked, except in `ApprovalFlow`, `EventLogKeeps`, `FrontDoor`, `Services` and
the violation runs of `ApprovalBoard` and `InstanceLock`: there all calls may have
been made and the system rests.

Runs that TLC must find violated, each a disagreement of the code with its own
documentation (quotes and lines in `PROJECT.json`, `findings`):

| run | property | what happens |
|---|---|---|
| `EngineStarves` | `RunSettles` | limit reached, a parallel node first in the ready set: the loop spins on an open gate and nothing else is delivered |
| `LockRace` | `OneDaemon` | a starter that saw no lock unlinks another's fresh one |
| `ApprovalTwice` | `NeverDecidedTwice` | submit overwrites a decision that came while it was logging |
| `AckedForgotten` | `AckedIsRead` | a replay that cannot read the file starts the numbers over; the next answered event is quarantined |

`EngineLiveness` has at most two nodes ready for two slots, which is the
condition under which the starvation cannot occur: `RunSettles` is what the
code keeps there. The approval properties that exclude `early` requests or
refused appends do so for the same reason, and the excluded case is a run of
its own (`ApprovalTwice`) or an observation below.

### Fairness

- Engine: `LoopStep` weakly, microtasks are always run; the executor's own
  steps (logging, abort, release) weakly when the loop has nothing to run.
  That a runtime returns is no fairness of the specification but a premise of
  `RunSettles`: a runtime without a timeout may hang. `CancelSettles` does
  without it.
- Pool: appends and provider calls return or throw; a node gives its sandbox
  back (an execution has a timeout or is cancelled, and the log takes its
  sandbox.created and node.failed: section 5).
- Log: reads, writes and syncs of the shard return or throw (`Serve`).
- Approval: the reclaim timer keeps firing and an append returns or throws.
- Artifacts: the timer starts one collection after the other and its reads and
  removals return (`Collecting`). Publications may hang, prune need not start,
  and `OrphansCollected` holds all the same.

### Mutants

Each property of a passing run is broken by a faulty variant of one modelled
definition, kept beside it and named `<Definition>_<Fault>`: a dropped guard,
an off-by-one, a reset that stops short, a missing hand-over, a field that is
not written back. They are listed
in `PROJECT.json`, `mutants`.

## 4. Proofs

Seven modules, each EXTENDing its component, and `Folding`. Of the forty
properties of the passing runs they state thirty-three. The assumptions are
those the components state about their constants: the sets of requests, nodes
and baseline grants are finite (`GateAssumption`, `EngineAssumption`,
`NodesAssumption`, `BoardAssumption`), limits and amounts are naturals
(`BudgetAssumption`), a workflow has a node (`EngineAssumption`; `parse.ts:155`
refuses one without), and the values that stand for "none" differ from those
that stand for something (`SourceAssumption`, `ManifestAssumption`,
`NamesAssumption`, `SecretsAssumption`, `UnsetAssumption`), and there is room for
a number of calls (`WorkAssumption`). `PolicyAssumption`, `RankingAssumption` and
`VersionAssumption` say what a question is: a list is a sequence, a capability has
no `*` for its name (`CAP_ID_RE`), a score has the tables the types of the code
name, models are numbered in the order of their names. TLC evaluates them in every run of the
component.

`WarmPoolProofs`. First the gate. The inductive invariant is the type invariant
with `QueueOrder` (a waiter is queued once, holds no slot, and who holds a slot
is neither new nor gone), `SlotsAccounted` and `NoIdleSlot`. The order is needed
because `Release` hands a slot to the head of the queue: the counter stays the
number of holders only if the head is no holder yet. Every step is then a step
of `AbstractGate` (take, give back, hand over) or a stutter, which gives
`GateIsSemaphore` for every number of requests and slots; `FirstComeFirstServed`
needs `NoIdleSlot`, since a newcomer who found a free slot beside a queue would
overtake it. Then the pool. Each of its steps is a step of the gate or leaves
the gate alone (`PoolUsesGate`), so the gate's theorems carry over without a new
argument. A second invariant ties the stage of a request to its phase
(`StageInvariant`) and gives the bound on sandboxes and the return of slots. The
bound on the pool needs a third: its entries and the requests that have found
room and not yet used it (`Joining`) are together no more than the capacity and
the slots but one (`PoolStaysNearCapacity`).

`WorkflowEngineProofs`. For every finite workflow, limit, retry policy and set
of feedback edges. `DependencyClosed` and `FreshInputs` are
inductive together, over the types of the data they speak about and with
`InFlightIsOpen` (what is in flight is not completed). A node's
outputs change when it completes, and nobody has read them then: a reader would
need the node completed, and it was in flight. They are taken back by a feedback
edge, and every reader goes with them: the reset is closed under "reads from",
and nothing is in flight because the batch is drained first. The turns of the
loop fall into four ways of touching this data (`Takes`, `Proceeds`, `GoesBack`,
`Starts`), and the proof has one lemma for each. `ResumeIsConsumed` is inductive
by itself. `WithinMaxParallel` holds at a dispatch because the batch is the
longest prefix of the ready nodes that fits, and between dispatches because what
is in flight only shrinks; the work is in counting (`BatchFits`, `FewerFit`).

`RerunsAreOwed` counts: a node's attempts are no more than the first, its retries
and the times its result was taken back. The bound is only reached when the node
is dispatched, so the invariant (`RerunsInv`) says in addition that while the run
goes on a node that is neither completed, nor in flight, nor among the failures to
handle is owed one attempt more. Whatever opens a node again has to pay for it: a retry by being
allowed, a feedback edge and a budget break by a setback (`TakenBack`).

`OutcomeIsVisible` compares the result of a run with the record of its task,
which the events of the nodes write. Its invariant (`RecordInv`) says while the
run goes on where the record stands: a record that has failed has a node behind
it that can complete only by another dispatch, of an attempt no later than the
one that failed; when all nodes are finished it says completed or cancelled; and
while failures wait to be handled it has failed, unless `Overtaken`. That last
word was not in the property at first. The proof of its step failed, and TLC
found the run that refutes it on a workflow with two roots: section 5, first
observation.

`EventLogProofs`. For any number of events, starts and faults. Three things go
into the invariant beside `SeqIsPosition`: that the disk is the file up to its
last lines and holds every answered event (`DiskBelow`, `AckedOnDisk`), without
which a loss of power could not be passed; and what the code knows at each
await (`StageKnows`): once loaded, the file ends in a newline and `nextSeq` is
one more than its lines. That is what keeps a write from running into an
unfinished line. A file in order is read up to its torn tail (`AllAccepted`),
so `AckedIsRead` follows. For the refinement one also needs that an event that
waits has not been answered yet (`Waiting`).

`ArtifactStoreProofs`. For any number of paths, publications and sweeps, the
collector and prune at once included. `StoreVersionsRise` needs that a publication
that has begun is the head of its path's chain and so the only one (`Turns`),
and that until its rename the version it carries is one more than that of
the pointer, unless the collector has removed it meanwhile (`OneAhead`).
`StoreNoneMissing` needs what each party knows at its await: a publication beside
no sweep's window has its objects on disk as far as it has looked (`Put`); one
that is under way in a window is in `raced` (`Marked`); and a sweep, for every
pointer that is not exempt, has either still to read it or has already taken its
objects off the list (`Seen`). The second reading is what makes `Seen` true:
the first one may be older than the pointer.

`ApprovalBoardProofs`. For any number of requests, keys, restarts and refused
appends, and every policy. Each request is at one of five points of its life
(`Life`): unknown, being submitted, waiting for a decision, decided, and decided
with the decision in the log. Each point fixes four things at once: what memory
says, what a replay of the log would say, what the log has of the request and
which append about it waits. That is more than `DecidedOnce` says and what makes
it inductive, since a restart takes the replay for the memory and drops the
queue. `BoardSurvivesRestart` reads off the same lives. For
`GrantsFollowDecisions` every grant that is held, or about to be logged, has its
approval in the log or in the queue before the append that needs it
(`GrantsInv`). `early` requests are excepted as in the properties.

`FrontDoorProofs`. For any callers, sessions, presets and grants. `FilesSettle`:
a snapshot is numbered when it is begun, and the one with the last number is of
what memory is now. `OneTokenEach` counts the files and the writes under way in,
since a crash puts a file in the place of the tokens. `RestartKeeps` says for
each stage of a call what a replay would make of its log (`InStep`): nothing
while it starts, then a running task with the grants logged so far. No event of
one task moves the record of another, so the invariant is one statement for each
task (`TaskInv`) and a step is about one of them (`TaskStep`). `ReadsDrawOneLine`:
an event of a task is as its record says (`OwnersInv`), also after a restart,
since what a replay makes of the log agrees with memory about the owners
(`TaskInv`). A session in the table has its own token, identity and principal;
the filters are compared with `ListTasks` one by one.

`ServicesProofs`. The ledger (`LedgerTells`): `budgetLog` and `emitting` together
are one sequence in the order of the decisions, and while the hard flag is up the
event of this arming is in it, so whoever is stopped finds it in the log once its
own events are through; a refused append excuses. The stream (`StreamSendsOnce`):
`seen` is what was sent while the replay goes on, and an event in scope is sent,
loaded or in a shard still to load. The record (`SettledTasksSurvive`): the
rebuilt one may be completed too early, and else agrees; a failure brings the two
together. The secrets (`SecretsAreKept`): what is held was set for that slot and
sealed with the one key there is, as long as one was made, and every call knows
no more than that at each of its awaits (`Sealing`, `CallKnown`). While calls
come in turn, list and content differ only in the slot of the call under way, by
what it still owes (`Between`, `InTurn`).
The messenger (`MessagesReachOne`, `CallsKeepOrder`): what was called, the batch
at hand and the queue are one sequence (`Deliveries`) that only a routing
changes, at its end, so the order of the calls is the order of the routings. The
sends under way are nested (`SendsNested`), since a callback sends before the
call that runs it returns. Every message that is routed has one fate (`Fate`),
and one that is not routed yet has none (`Fates`). The recovery
(`SandboxesAreAccounted`): the stage of an execution says what the provider and
the host each have of its sandbox (`StageFits`, `RecordFits`; an execution that is
over leaves a machine only if a call or an append failed, `RefusedStep`), only a daemon that
serves has sandboxes of its own, and what is in flight is a fold of the log to
which an event adds one or takes one (`EventFinds`, `JournalGrows`).

The decisions are one step each, so their theorems are about operators: what a
`CHOOSE` takes has to be there and to be the only one. The policy
(`ThePolicyDecides`): `Stronger` is a total preorder on the matches and the
matches are finitely many numbers, so there is a strongest (`LeastNatural`), and
its outcome is `auto` exactly if some approving pattern beats all requiring ones. The
handshake (`TheHandshakeExplains`): the level of a version is its `Gap` to
the client's whether or not it names a patch, and a nearest position exists. The
ranking (`TheRankingHolds`): among models of a file that loads names differ, so
`Precedes` is a strict total order; the number of those before a model is then an
injection into the positions and so a bijection, every place is taken by one
model (`RankingIs`), and a permutation of the file moves positions but no model's
place. The average: the weights are no more than 1, so rounding down cannot
carry it past the sample or away from it, for every scale.

`Folding`. `FoldLeft` of the community modules chooses a function that satisfies
a recursive equation. That there is one, and that one more entry is one more
step, takes induction; the induction theorems of the library have an operator as
parameter, which the installed provers cannot instantiate, so the module goes by
the least element of a set of numbers instead. The replays of the board, of the
front door and of the recovery are folds, and their proofs use `FoldLeftAppend`.

`SlotsAccounted`, `SandboxesWithinSlots` and the type invariants are proved and
not run: the proofs cover every instance a run could have.

Only model-checked:

- All liveness (`RunSettles`, `CancelSettles`, `ExpiredIsReclaimed`,
  `AppendAnswers`, `OrphansCollected`): fairness and ENABLED are out of the
  prover's reach.
- Two of the algorithms: `PlanRuns` and `BundleTravels`. The cycle search and
  `topoSort` call themselves to a depth that depends on the plan, and the export
  reads back with the loader what it has written; both go over whole documents
  by recursion, and are compared with their reference definitions over bounded
  inputs. The proofs about the engine use the defining property of `Downstream`
  as a least closed set, not its computation.

## 5. Observations without a run

Met while modelling, read in the code, not checked by a run of their own:

- A run may report failed while the record of its task goes on saying running
  (`tasks.ts:77`). The record is set back to running when a node starts at an
  attempt above that of the failure, which `tasks.ts:67` takes for a retry or a
  rerun of what failed; but attempts are numbered for each node, and the record
  keeps only the number. A workflow a, b, c reading a, d reading b, all
  parallel, two at a time, with an edge that sends c back to a once: c fails and
  a and c are reset; a runs its second attempt beside the first of d; d fails
  and is recorded, its sandbox still being released; a completes, c is
  dispatched at attempt 2, and the record is running again; d settles, has no
  retry, and the run fails without another event. TLC finds this in 31 steps
  when `OutcomeIsVisible` is stated without its exception (`Overtaken`).
- A serial node runs beside parallel ones in flight (`workflow-engine.ts:413`),
  though lines 7-8 say it has the run to itself.
- A budget break in the middle of a settled batch drops the entries after it
  (`workflow-engine.ts:341-352`): a completed node is dispatched again after
  resume, though line 12 says the batch is not torn apart. `RerunsAreOwed`
  counts these as setbacks.
- The appends of sandbox.created and node.failed stand outside the `try` whose
  `finally` destroys (`node-executor.ts:187`, `269`). When the log refuses one the
  execution rejects at once: its machine goes on running and nobody holds it until
  the process ends, though lines 12-13 promise destruction on every path, and a
  slot of the pool is not given back. `SandboxesAccounted` excepts these sandboxes
  (`refused`).
- cancel does not drain the nodes in flight (line 14 says it does), and a
  cancel during the reading of the evidence is ignored.
- Failures are handled in the order they settled across turns, in topological
  order only within one turn (line 11).
- The task record says completed too early after a feedback reset, because the
  store's set of completed nodes is never reset (`tasks.ts:304-311`); later
  events correct it.
- A waiting_approval task goes back to running only with the next node.started;
  `markCancelled` overrules every status, completed too.
- After a restart the executor holds no baseline grants (`daemon.ts:465`), so
  the next approval sets a manifest without them.
- An approval whose decided event is refused keeps its grant; another request's
  diff then logs it.
- Two releases that overlap pass the pool's capacity check before either adds
  its entry (`warm-pool.ts:169`), though line 31 calls the capacity an upper
  limit; `PoolOverrunBounded` is what holds instead.
- emitEscalationGrants sets a manifest from before its awaits
  (`wiring.ts:158`), which undoes a revocation in grants.of (`daemon.ts:316-318`
  says it shows at once).
- A sync that fails leaves its line and its number (`log.ts:221`), and a
  second process that repairs the tail compares and cuts in two awaits
  (`log.ts:521-528`); both lose answered events (`EventLogFaults` with
  `Faults = {"sync"}` and `{"visit"}`). A short write is answered for as a
  whole one (`log.ts:220`).
- Every start quarantines the same line again and logs another correction.
- A crash between approval.decided and grant.granted leaves a request that is
  approved, without its grant and beyond a new decision (`board.ts:245`,
  `wiring.ts:141`), a state that `board.ts:192-194` says does not occur.
- The record a restart builds of a workflow task has no preset
  (`tasks.ts:308`): it completes at its first completed node, though
  `tasks.ts:265` says memory and replay agree. Later events correct it, so that a
  task that has settled is shown right (`SettledTaskSurvives`).
- A refused append of sandbox.acquired leaks a slot (`pool.ts:84`); production
  builds the gate without emit.
- workflow.run upserts its task before it validates the budget.
- A node that reads its own output passes the plan check and makes the engine
  throw WorkflowCycle (`plancheck.ts:319`); `PlanRuns` says it is the only case.
- workflow.run parses the intent but checks the plan without it
  (`operations.ts:603-607`), though `operations.ts:596` says both pass the check:
  forbidden capabilities and allowed models are looked at by `workflow check` alone.
- When the engine throws before its first node.started, the log says nothing of
  the task and a restart forgets it.
- A message that a subscriber sends while another is announced overtakes it,
  though `messenger.ts:5-8` promises the order of the sends.
- Two writes of the tokens' or the models' file may be renamed in the wrong
  order (`identity.ts:144`, `operations.ts:1129`): what the later one added is
  gone after a restart.
- A session whose token could not be written is in the table without one that
  its client knows.
- Recovery destroys nothing: it asks the provider for its list, which holds the
  handles of this process alone (`provision/types.ts:119`, `registry.ts:20`) and
  is empty after a start, so that the container a crash left is noted as absent
  and goes on running, at this start and at every later one. The comment of
  sandboxReconciler (`wiring.ts:165-172`) says that an orphan is destroyed.
- A machine that was restored from the pool, one whose creation a crash or a
  failed call kept out of the log, and one that a failed `docker start` or a
  restore of unexpected output left, are not even noted. A sandbox that went to
  the pool is never logged as destroyed and noted as absent at every start. A grant is known by agent and capability
  without its scope (`recover.ts:101`): revoking one scope hides the other.
- `checkDocumentKind` compares versions as texts: 1.9 is above 1.10.
- An admin that names a tenant without such a session gets the session of that
  name in another tenant (`operations.ts:313-344`); events.list with limit 0
  returns everything; typed errors of other families than three are answered as
  500 and -32000; `SessionRegistry.close` and expiry have no caller.
- Two first uses of the file backend make two keys, and what was sealed with the
  one that loses cannot be read (`file.ts:125`). Calls of one tenant that overlap
  lose an entry of the keyring's index (`keyring.ts:295`). A crash inside a set or
  a delete leaves a value without its metadata or the reverse.
- A live event may reach a stream before older ones of its shard that are still
  being replayed (`http.ts:344`).
- A raise to between the soft and the hard limit, a lowered limit or a limit of
  zero lets budget.exceeded come without a warning; a raise to exactly what is
  used stays hard; a record that finds exceeded already due may return before
  another record's exceeded is in the log (`ledger.ts:83-125`).
- The event of artifacts.publish has no session (`operations.ts:494`): events.list
  and the stream of the session that published do not show it.
- A bundle's root directory given as a presets directory fails on its caps.json;
  the export that the command line makes has nothing to scrub, and no missing
  capabilities to report, since the check has refused them before.
- The strings of a list under the key of a credential are kept as the hints of the
  list of credentials and are printed in the bundle's `README.md`
  (`bundle.ts:152-158`, `364-366`; `bundle.test.ts:206` expects it), though
  `bundle.ts:10-12` and `151` say that values are not copied. `BundleTravels` says
  that these are all that gets out, and in which places.
- A publication beside a recheck or a removal may lose an object it has found
  or put: that is the moment the comment of prune concedes
  (`repository.ts:568-569`), from the listing of the recheck to the last removal.
- deleteManifest reads and removes in two awaits (`repository.ts:721`, `743`): a
  pointer renamed in between is removed unseen, which `gc.ts:20` excludes. A new
  publication at that path then starts again at version 1.
- A temporary manifest lies beside its target, not in `.tmp`
  (`repository.ts:8`, `254`), and its name is a legal one: what a failed or
  killed publication leaves is listed as a manifest and keeps its objects for
  good (or for its retention).
- A manifest that cannot be read counts as absent, in the recheck too
  (`repository.ts:595`), and so does a directory (`repository.ts:224`): a read
  that fails twice lets live objects go.
- An integer number of days of 1e21 or more is stored as `days:1e+21`, which is
  read back as forever with a warning (`retention.ts:72`, `82`).

## 6. Plan

1. Done: the modules above and their runs; proofs of the gate, the pool, the
   engine's safety, the log, the store, the board, the front door, the ledger,
   the stream, the task record, the secrets, the messenger, the recovery
   summary, the policy, the ranking and the handshake: every invariant a run
   checks but those of the plan check and the bundle.
2. The readers of the artifact store (resolve, read, verify) beside a sweep.

Not to be modelled: the cryptography and the platform's key protection, the
command lines of providers and harness adapters, the reading of bodies and static
files, the doctor, the configuration of the sidecar, and the clients (command
line, MCP binding, dashboard), which translate one call each. They are sequential
I/O and text without a state that a model would tell apart from its abstraction.
