---------------------------- MODULE BudgetLedger ----------------------------
(***************************************************************************)
(* The budget of one task: daemon/src/budget/ledger.ts. The nodes that run *)
(* in parallel record what they have used; past the soft and past the hard *)
(* limit an event is due, once until a raise arms it again. The events are *)
(* appended to the log one after the other, while other records and raises *)
(* go on. NodeExecutor has the ledger with its level alone.                *)
(*                                                                         *)
(* Bounds: MaxRecords usage reports, MaxBudgetRaises raises, MaxEmitFaults *)
(* failed appends; limits and amounts are few and small.                   *)
(***************************************************************************)
EXTENDS Documents, Integers, SequencesExt

CONSTANTS Limits, Amounts, SoftRatio,  \* SoftRatio in per cent
          Recorders, MaxRecords, MaxBudgetRaises, MaxEmitFaults

VARIABLES limitTokens, observed, softFired, hardFired,
          emitting,    \* the events that wait for the log, the first is being appended
          recording,   \* recorder -> its record under way
          budgetLog,   \* the events in the log
          records, budgetRaises, emitFaults,
          decided,     \* history: events decided so far
          arming,      \* history: how often the hard limit was armed
          stopped      \* history: the armings in which a record stopped its node

ledger == <<limitTokens, observed, softFired, hardFired>>
vars == <<ledger, emitting, recording, budgetLog, records, budgetRaises, emitFaults, decided,
          arming, stopped>>

SoftTokens(limit) == (limit * SoftRatio) \div 100

Level(limit, tokens) ==
    CASE tokens >= limit -> "hard"
      [] tokens < limit /\ tokens >= SoftTokens(limit) -> "soft"
      [] OTHER -> "ok"

\* A record that waits for no event.
Done == [no |-> 0, events |-> 0, level |-> "ok", arming |-> 0]

Init ==
    /\ limitTokens \in Limits /\ observed = 0
    /\ softFired = FALSE /\ hardFired = FALSE
    /\ emitting = <<>> /\ budgetLog = <<>>
    /\ recording = [r \in Recorders |-> Done]
    /\ records = 0 /\ budgetRaises = 0 /\ emitFaults = 0
    /\ decided = 0 /\ arming = 0 /\ stopped = {}

----------------------------------------------------------------------------

Event(type, no, n) == [type |-> type, record |-> no, n |-> n, arming |-> arming]

\* The events one report makes due, the soft limit's first.
Crossed(before, after) ==
    (IF before = "ok" /\ after # "ok" /\ ~softFired THEN <<"budget.warning">> ELSE <<>>)
        \o (IF after = "hard" /\ ~hardFired THEN <<"budget.exceeded">> ELSE <<>>)

\* The verdict of a report past the hard limit stops the node.
Returns(level, armed) == stopped' = stopped \cup (IF level = "hard" THEN {armed} ELSE {})

\* record: the flags and the queue are settled at once, then its events awaited.
Record(r, tokens) ==
    /\ recording[r] = Done
    /\ records < MaxRecords
    /\ records' = records + 1
    /\ observed' = observed + tokens
    /\ LET after == Level(limitTokens, observed')
           crossed == Crossed(Level(limitTokens, observed), after)
       IN  /\ softFired' = (softFired \/ Contains(crossed, "budget.warning"))
           /\ hardFired' = (hardFired \/ Contains(crossed, "budget.exceeded"))
           /\ emitting' = emitting \o
                    [i \in DOMAIN crossed |-> Event(crossed[i], records', decided + i)]
           /\ decided' = decided + Len(crossed)
           /\ IF crossed = <<>>
              THEN Returns(after, arming) /\ UNCHANGED recording
              ELSE /\ recording' = [recording EXCEPT ![r] =
                            [no |-> records', events |-> Len(crossed), level |-> after,
                             arming |-> arming]]
                   /\ UNCHANGED stopped
    /\ UNCHANGED <<limitTokens, budgetLog, budgetRaises, emitFaults, arming>>

\* The first event is in the log: its record goes on, or returns.
Emitted ==
    /\ emitting # <<>>
    /\ budgetLog' = Append(budgetLog, Head(emitting))
    /\ emitting' = Tail(emitting)
    /\ \/ \E r \in Recorders :
            /\ recording[r].no = Head(emitting).record
            /\ IF recording[r].events = 1
               THEN /\ recording' = [recording EXCEPT ![r] = Done]
                    /\ Returns(recording[r].level, recording[r].arming)
               ELSE recording' = [recording EXCEPT ![r].events = @ - 1] /\ UNCHANGED stopped
       \/ /\ \A r \in Recorders : recording[r].no # Head(emitting).record
          /\ UNCHANGED <<recording, stopped>>
    /\ UNCHANGED <<ledger, records, budgetRaises, emitFaults, decided, arming>>

\* The append fails: the record rejects, the events behind it go on.
EmitFails ==
    /\ emitting # <<>>
    /\ emitFaults < MaxEmitFaults
    /\ emitFaults' = emitFaults + 1
    /\ emitting' = Tail(emitting)
    /\ recording' = [r \in Recorders |->
            IF recording[r].no = Head(emitting).record THEN Done ELSE recording[r]]
    /\ UNCHANGED <<ledger, budgetLog, records, budgetRaises, decided, arming, stopped>>

\* Faulty variant: only a raise below the soft limit arms the hard one again.
Raise_OkOnly(limit) ==
    /\ budgetRaises < MaxBudgetRaises
    /\ limit >= observed
    /\ budgetRaises' = budgetRaises + 1
    /\ limitTokens' = limit
    /\ softFired' = (softFired /\ Level(limit, observed) # "ok")
    /\ hardFired' = (hardFired /\ Level(limit, observed) # "ok")
    /\ arming' = IF Level(limit, observed) = "hard" THEN arming ELSE arming + 1
    /\ UNCHANGED <<observed, emitting, recording, budgetLog, records, emitFaults, decided,
                   stopped>>

\* raise: any limit that what is used does not exceed, a lower one too.
Raise(limit) ==
    /\ budgetRaises < MaxBudgetRaises
    /\ limit >= observed
    /\ budgetRaises' = budgetRaises + 1
    /\ limitTokens' = limit
    /\ softFired' = (softFired /\ Level(limit, observed) # "ok")
    /\ hardFired' = (hardFired /\ Level(limit, observed) = "hard")
    /\ arming' = IF Level(limit, observed) = "hard" THEN arming ELSE arming + 1
    /\ UNCHANGED <<observed, emitting, recording, budgetLog, records, emitFaults, decided,
                   stopped>>

Next ==
    \/ \E r \in Recorders, tokens \in Amounts : Record(r, tokens)
    \/ Emitted \/ EmitFails
    \/ \E limit \in Limits : Raise(limit)

Spec == Init /\ [][Next]_vars

----------------------------------------------------------------------------

\* The events reach the log in the order in which the limits were crossed, a
\* warning never behind the exceeded of the same arming, and at most one
\* exceeded in each. No node is stopped in an arming whose exceeded, once the
\* queue is empty, the log does not have: unless its append failed, somebody
\* has been told why (ledger.ts record, #emitOrdered, raise).
BudgetTold ==
    /\ \A i, j \in DOMAIN budgetLog : i < j =>
            /\ budgetLog[i].n < budgetLog[j].n
            /\ budgetLog[i].type = "budget.exceeded" =>
                    budgetLog[j].arming # budgetLog[i].arming
    /\ emitting = <<>> /\ emitFaults = 0 =>
            \A a \in stopped : \E i \in DOMAIN budgetLog :
                budgetLog[i].arming = a /\ budgetLog[i].type = "budget.exceeded"
=============================================================================
