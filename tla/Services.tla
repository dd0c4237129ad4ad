------------------------------ MODULE Services ------------------------------
(***************************************************************************)
(* The parts of the daemon that share no state with one another, side by   *)
(* side: the messenger, the secrets, the recovery of sandboxes, the event  *)
(* stream, the task record and its replay, and the budget of a task. Each  *)
(* is an instance of its own module; the algorithms that keep nothing are  *)
(* those of Decisions. MCServices checks all in one run, ServicesProofs    *)
(* proves theorems about them.                                             *)
(***************************************************************************)
EXTENDS Decisions

CONSTANTS Agents, BroadcastEnabled, MaxSent, MaxHandlers, MaxTraversal, MaxHandlerFaults,
          SecretTenants, SecretIds, Values, Callers, MaxSecretCalls, MaxSecretFaults,
          Sandboxes, Caps, MaxStarts, MaxProviderFaults,
          Shards, Owners, MaxEvents,
          Nodes, MaxAttempts,
          Limits, Amounts, SoftRatio, Recorders, MaxRecords, MaxBudgetRaises, MaxEmitFaults

VARIABLES handlers, registered, historyList, deadList, queue, batch, drainScheduled,
          traversals, failures, sending, calls, taken,
          backend, held, listed, keyFile, aesKey, keysMade, secretCalls, callsMade,
          secretFaults, written, answers, keysWritten, disturbed,
          provider, host, record, snapshots, providerFaults,
          journal, holders, entries, up, todo, report, starts, unlogged, excused, refused,
          shardFiles, appended, viewer, stage, subscribed, toLoad, loaded, seen, sent,
          replayBroke,
          live, rebuilt, running, attempts,
          limitTokens, observed, softFired, hardFired, emitting, recording, budgetLog,
          records, budgetRaises, emitFaults, decided, arming, stopped

\* Budgets are counted in whole tokens (budget/ledger.ts).
ASSUME BudgetAssumption == Limits \subseteq Nat /\ Amounts \subseteq Nat

\* The nodes of a workflow are listed in its file (presets.ts).
ASSUME NodesAssumption == IsFiniteSet(Nodes)

\* What is not there differs from whatever may be.
ASSUME SecretsAssumption ==
    /\ Absent \notin Nat /\ Absent \notin {"set", "get", "delete"}
    /\ Absent \notin [value : Values, key : Nat]

M == INSTANCE Messenger
S == INSTANCE Secrets
R == INSTANCE Recovery
E == INSTANCE EventStream
T == INSTANCE TaskReplay
B == INSTANCE BudgetLedger

----------------------------------------------------------------------------
(* The properties of the parts; each is stated, with the code it is about,   *)
(* in the module of its part.                                                *)

\* Every message is delivered or a dead letter (messenger.ts).
MessagesAccounted == M!MessagesAccounted

\* Handlers are called in the order of the sends (messenger.ts).
CalledInOrder == M!CalledInOrder

\* What is set is read back, and what is held is listed (secrets/).
SecretsKept == S!SecretsKept

\* Every sandbox is in the log for the next start, and none is left behind (events/recover.ts).
SandboxesAccounted == R!SandboxesAccounted

\* A stream shows every event once (http.ts handleEventStream).
EachEventOnce == E!EachEventOnce

\* A settled task is shown as settled after a restart (tasks.ts).
SettledTaskSurvives == T!SettledTaskSurvives

\* Budget events are told in order, and no node stops untold (budget/ledger.ts).
BudgetTold == B!BudgetTold
=============================================================================
