----------------------------- MODULE MCServices -----------------------------
(* The parts of the daemon that share no state with one another in one run:  *)
(* the messenger, the secrets, the recovery of sandboxes, the event stream,  *)
(* the task record and its replay, the budget of a task, and the decisions.  *)
(* part is the one whose steps this behaviour takes; the others rest in      *)
(* their initial states.                                                     *)
EXTENDS Services, MCDecisions

VARIABLE part

messenger == <<handlers, registered, historyList, deadList, queue, batch, drainScheduled,
               traversals, failures, sending, calls, taken>>
secrets == <<backend, held, listed, keyFile, aesKey, keysMade, secretCalls, callsMade,
             secretFaults, written, answers, keysWritten, disturbed>>
recovery == <<provider, host, record, snapshots, providerFaults,
              journal, holders, entries, up, todo, report, starts, unlogged, excused, refused>>
stream == <<shardFiles, appended, viewer, stage, subscribed, toLoad, loaded, seen, sent,
            replayBroke>>
tasks == <<live, rebuilt, running, attempts>>
budget == <<limitTokens, observed, softFired, hardFired, emitting, recording, budgetLog,
            records, budgetRaises, emitFaults, decided, arming, stopped>>
decisions == <<question, answer>>

allVars == <<part, messenger, secrets, recovery, stream, tasks, budget, decisions>>

Init ==
    /\ part \in {"messenger", "secrets", "recovery", "stream", "tasks", "budget", "decisions"}
    /\ DecisionsInit /\ M!Init /\ R!Init /\ E!Init /\ T!Init /\ B!Init
    /\ S!Init
    /\ part # "secrets" => backend = "memory"
    /\ part # "recovery" => provider = "memory"
    /\ part # "budget" => limitTokens = 0

Messages ==
    /\ part = "messenger" /\ M!Next
    /\ UNCHANGED <<part, secrets, recovery, stream, tasks, budget, decisions>>

Secrets ==
    /\ part = "secrets" /\ S!Next
    /\ UNCHANGED <<part, messenger, recovery, stream, tasks, budget, decisions>>

Recovers ==
    /\ part = "recovery" /\ R!Next
    /\ UNCHANGED <<part, messenger, secrets, stream, tasks, budget, decisions>>

StreamSteps ==
    /\ part = "stream" /\ E!Next
    /\ UNCHANGED <<part, messenger, secrets, recovery, tasks, budget, decisions>>

Tasks ==
    /\ part = "tasks" /\ T!Next
    /\ UNCHANGED <<part, messenger, secrets, recovery, stream, budget, decisions>>

Budget ==
    /\ part = "budget" /\ B!Next
    /\ UNCHANGED <<part, messenger, secrets, recovery, stream, tasks, decisions>>

Decisions ==
    /\ part = "decisions" /\ AlgorithmsNext
    /\ UNCHANGED <<part, messenger, secrets, recovery, stream, tasks, budget>>

Next == Messages \/ Secrets \/ Recovers \/ StreamSteps \/ Tasks \/ Budget \/ Decisions

Spec == Init /\ [][Next]_allVars
=============================================================================
