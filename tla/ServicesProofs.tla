--------------------------- MODULE ServicesProofs ---------------------------
(***************************************************************************)
(* Theorems of the parts that share no state: the budget ledger, the       *)
(* event stream, the record of a task, the secrets, the messenger, the     *)
(* recovery of sandboxes and the decisions, each for every value of its    *)
(* constants.                                                              *)
(*                                                                         *)
(* The ledger: the events that are in the log and those that wait for it   *)
(* are one sequence, numbered in order, and while the hard flag is up its  *)
(* event is in that sequence. The stream: what was sent, what is loaded    *)
(* and what is still to be loaded together are all there is, each once.    *)
(* The task: while it runs the rebuilt record is never behind the live     *)
(* one, and what settles the one settles the other. The secrets: what is   *)
(* held was set, and is sealed with the one key there is, and a call that  *)
(* is alone owes the list what it has changed. The messenger: what was     *)
(* called, what is being delivered and what waits are one sequence, to     *)
(* which a send adds at the end; the sends under way are nested. The       *)
(* recovery: what an execution does with a sandbox says what the provider  *)
(* and the host have of it, and what is in flight is a fold of the log.    *)
(* The decisions: each is one step, and the proofs are that what the code  *)
(* picks is there and is the only one: a strongest match, a closest        *)
(* version, one place for each model.                                      *)
(***************************************************************************)
EXTENDS Services, SequenceTheorems, FiniteSetTheorems, TLAPS

----------------------------------------------------------------------------
(* The budget ledger.                                                      *)

BudgetEvent == [type : {"budget.warning", "budget.exceeded"}, record : Nat, n : Nat, arming : Nat]

BudgetTypeOK ==
    /\ limitTokens \in Nat /\ observed \in Nat
    /\ softFired \in BOOLEAN /\ hardFired \in BOOLEAN
    /\ emitting \in Seq(BudgetEvent) /\ budgetLog \in Seq(BudgetEvent)
    /\ recording \in [Recorders ->
            [no : Nat, events : Int, level : {"ok", "soft", "hard"}, arming : Nat]]
    /\ records \in Nat /\ emitFaults \in Nat /\ decided \in Nat /\ arming \in Nat
    /\ stopped \subseteq Nat

\* f is decided after e, and not in the arming e has exceeded.
Follows(e, f) == e.n < f.n /\ (e.type = "budget.exceeded" => f.arming # e.arming)

EventsInOrder ==
    /\ \A i, j \in DOMAIN budgetLog : i < j => Follows(budgetLog[i], budgetLog[j])
    /\ \A i, j \in DOMAIN emitting : i < j => Follows(emitting[i], emitting[j])
    /\ \A i \in DOMAIN budgetLog, j \in DOMAIN emitting : Follows(budgetLog[i], emitting[j])

\* Whatever was decided so far belongs to an arming up to this one; this one
\* is exceeded only while the hard flag is up.
Past ==
    {e \in BudgetEvent :
        /\ e.n <= decided /\ e.arming <= arming
        /\ e.type = "budget.exceeded" /\ e.arming = arming => hardFired}

EventsPast ==
    /\ \A i \in DOMAIN budgetLog : budgetLog[i] \in Past
    /\ \A i \in DOMAIN emitting : emitting[i] \in Past

Tells(e, a) == e.arming = a /\ e.type = "budget.exceeded"

\* The armings whose exceeded is in the log or waits for it; once an append
\* has failed, any may have lost its own.
Told ==
    {a \in Nat : \/ emitFaults > 0
                 \/ \E i \in DOMAIN budgetLog : Tells(budgetLog[i], a)
                 \/ \E i \in DOMAIN emitting : Tells(emitting[i], a)}

\* The hard flag means that the limit is reached, and that this was told; so is
\* whoever was stopped by it, or will be when its events are in the log.
HardIsTold ==
    /\ hardFired => B!Level(limitTokens, observed) = "hard" /\ arming \in Told
    /\ stopped \subseteq Told
    /\ \A r \in Recorders : recording[r].level = "hard" => recording[r].arming \in Told

BudgetInv == BudgetTypeOK /\ EventsInOrder /\ EventsPast /\ HardIsTold

\* The level is hard from the limit on.
LEMMA LevelFacts ==
    ASSUME NEW limit \in Nat, NEW tokens \in Nat
    PROVE  /\ B!Level(limit, tokens) \in {"ok", "soft", "hard"}
           /\ B!Level(limit, tokens) = "hard" <=> tokens >= limit
  BY DEF B!Level

\* Two units make a pair.
LEMMA ConcatUnits ==
    ASSUME NEW a, NEW b
    PROVE  <<a>> \o <<b>> = <<a, b>>
  <1> DEFINE Entries == {a, b}
  <1>1. <<a>> \in Seq(Entries) /\ <<b>> \in Seq(Entries) /\ Len(<<a>>) = 1 /\ Len(<<b>>) = 1
    OBVIOUS
  <1>2. <<a, b>> \in Seq(Entries) /\ Len(<<a, b>>) = 2
    OBVIOUS
  <1>3. /\ <<a>> \o <<b>> \in Seq(Entries) /\ Len(<<a>> \o <<b>>) = 2
        /\ \A i \in 1..2 : (<<a>> \o <<b>>)[i] = IF i <= 1 THEN <<a>>[i] ELSE <<b>>[i - 1]
    BY <1>1, ConcatProperties
  <1>4. \A i \in 1..2 : (<<a>> \o <<b>>)[i] = <<a, b>>[i]
    BY <1>3
  <1> QED
    BY <1>2, <1>3, <1>4, SeqEqual

\* Where an entry of a concatenation comes from, and goes.
LEMMA ConcatIndices ==
    ASSUME NEW Entries, NEW s \in Seq(Entries), NEW t \in Seq(Entries)
    PROVE  /\ \A i \in DOMAIN (s \o t) :
                \/ i \in DOMAIN s /\ (s \o t)[i] = s[i]
                \/ i > Len(s) /\ i - Len(s) \in DOMAIN t /\ (s \o t)[i] = t[i - Len(s)]
           /\ \A i \in DOMAIN s : i \in DOMAIN (s \o t) /\ (s \o t)[i] = s[i]
           /\ \A i \in DOMAIN t : i + Len(s) \in DOMAIN (s \o t) /\ (s \o t)[i + Len(s)] = t[i]
  OBVIOUS

\* Which events a change of the level makes due.
LEMMA CrossedCases ==
    ASSUME NEW before, NEW after
    PROVE  LET warns == before = "ok" /\ after # "ok" /\ ~softFired
               exceeds == after = "hard" /\ ~hardFired
           IN  B!Crossed(before, after) =
                   IF warns /\ exceeds THEN <<"budget.warning", "budget.exceeded">>
                   ELSE IF warns THEN <<"budget.warning">>
                   ELSE IF exceeds THEN <<"budget.exceeded">>
                   ELSE <<>>
  <1>1. <<"budget.warning">> \o <<"budget.exceeded">> = <<"budget.warning", "budget.exceeded">>
    BY ConcatUnits
  <1>2. /\ <<"budget.warning">> \o <<>> = <<"budget.warning">>
        /\ <<>> \o <<"budget.exceeded">> = <<"budget.exceeded">>
        /\ <<>> \o <<>> = <<>>
    OBVIOUS
  <1> QED
    BY <1>1, <1>2, Zenon DEF B!Crossed

\* Exceeded is due at most once, last, and when the level is hard for the first time.
LEMMA CrossedFacts ==
    ASSUME NEW before, NEW after, NEW c, c = B!Crossed(before, after)
    PROVE  /\ c \in Seq({"budget.warning", "budget.exceeded"})
           /\ \A i \in DOMAIN c : c[i] = "budget.exceeded" => i = Len(c) /\ after = "hard" /\ ~hardFired
           /\ after = "hard" /\ ~hardFired => \E i \in DOMAIN c : c[i] = "budget.exceeded"
           /\ hardFired /\ before # "ok" => c = <<>>
  <1> DEFINE warns == before = "ok" /\ after # "ok" /\ ~softFired
             exceeds == after = "hard" /\ ~hardFired
  <1>0. /\ warns /\ exceeds => c = <<"budget.warning", "budget.exceeded">>
        /\ warns /\ ~exceeds => c = <<"budget.warning">>
        /\ ~warns /\ exceeds => c = <<"budget.exceeded">>
        /\ ~warns /\ ~exceeds => c = <<>>
    BY CrossedCases
  <1>1. CASE warns /\ exceeds
    <2>1. c = <<"budget.warning", "budget.exceeded">>
      BY <1>0, <1>1
    <2>2. /\ c \in Seq({"budget.warning", "budget.exceeded"}) /\ Len(c) = 2
          /\ DOMAIN c = {1, 2} /\ c[1] = "budget.warning" /\ c[2] = "budget.exceeded"
      BY <2>1
    <2> QED
      BY <1>1, <2>2
  <1>2. CASE warns /\ ~exceeds
    <2>1. c = <<"budget.warning">>
      BY <1>0, <1>2
    <2>2. /\ c \in Seq({"budget.warning", "budget.exceeded"}) /\ Len(c) = 1
          /\ DOMAIN c = {1} /\ c[1] = "budget.warning"
      BY <2>1
    <2> QED
      BY <1>2, <2>2
  <1>3. CASE ~warns /\ exceeds
    <2>1. c = <<"budget.exceeded">>
      BY <1>0, <1>3
    <2>2. /\ c \in Seq({"budget.warning", "budget.exceeded"}) /\ Len(c) = 1
          /\ DOMAIN c = {1} /\ c[1] = "budget.exceeded"
      BY <2>1
    <2> QED
      BY <1>3, <2>2
  <1>4. CASE ~warns /\ ~exceeds
    BY <1>0, <1>4
  <1> QED
    BY <1>1, <1>2, <1>3, <1>4

\* What was told stays told: an event is in the log, waits for it, or is lost
\* to a fault that is counted.
LEMMA ToldStays ==
    ASSUME NEW a, a \in Told, BudgetTypeOK, BudgetTypeOK',
           \/ \E s \in Seq(BudgetEvent) : emitting' = emitting \o s /\ UNCHANGED budgetLog
           \/ /\ emitting # <<>> /\ emitting' = Tail(emitting)
              /\ budgetLog' = Append(budgetLog, Head(emitting))
           \/ emitFaults' > 0,
           emitFaults' >= emitFaults
    PROVE  a \in Told'
  <1> USE DEF BudgetTypeOK
  <1>1. CASE emitFaults' > 0
    BY <1>1 DEF Told
  <1>2. ASSUME NEW s \in Seq(BudgetEvent), emitting' = emitting \o s, UNCHANGED budgetLog,
               ~(emitFaults' > 0)
        PROVE  a \in Told'
    <2>1. \A i \in DOMAIN emitting : i \in DOMAIN emitting' /\ emitting'[i] = emitting[i]
      BY <1>2
    <2> QED
      BY <1>2, <2>1 DEF Told
  <1>3. ASSUME emitting # <<>>, emitting' = Tail(emitting),
               budgetLog' = Append(budgetLog, Head(emitting)), ~(emitFaults' > 0)
        PROVE  a \in Told'
    <2>1. CASE \E i \in DOMAIN budgetLog : Tells(budgetLog[i], a)
      <3>1. \A i \in DOMAIN budgetLog : i \in DOMAIN budgetLog' /\ budgetLog'[i] = budgetLog[i]
        BY SMTT(30), <1>3
      <3> QED
        BY <2>1, <3>1 DEF Told
    <2>2. CASE \E i \in DOMAIN emitting : Tells(emitting[i], a)
      <3>1. PICK i \in DOMAIN emitting : Tells(emitting[i], a)
        BY <2>2
      <3>2. CASE i = 1
        <4>1. /\ Len(budgetLog) + 1 \in DOMAIN budgetLog'
              /\ budgetLog'[Len(budgetLog) + 1] = emitting[1]
          BY <1>3
        <4> QED
          BY <3>1, <3>2, <4>1 DEF Told
      <3>3. CASE i # 1
        <4>1. i - 1 \in DOMAIN emitting' /\ emitting'[i - 1] = emitting[i]
          BY SMTT(30), <1>3, <3>1, <3>3
        <4> QED
          BY <3>1, <4>1 DEF Told
      <3> QED
        BY <3>2, <3>3
    <2>3. ~(emitFaults > 0)
      BY <1>3
    <2> QED
      BY <2>1, <2>2, <2>3 DEF Told
  <1> QED
    BY <1>1, <1>2, <1>3

\* A record numbers the events it makes due behind those that wait.
LEMMA RecordStep ==
    ASSUME BudgetInv, NEW r \in Recorders, NEW tokens \in Amounts, B!Record(r, tokens)
    PROVE  BudgetInv'
  <1> DEFINE before == B!Level(limitTokens, observed)
             after == B!Level(limitTokens, observed')
             crossed == B!Crossed(before, after)
             new == [i \in DOMAIN crossed |-> B!Event(crossed[i], records', decided + i)]
             entry == [no |-> records', events |-> Len(crossed), level |-> after,
                       arming |-> arming]
  <1>1. records' = records + 1 /\ observed' = observed + tokens
    BY DEF B!Record
  <1>2. /\ softFired' = (softFired \/ B!Contains(crossed, "budget.warning"))
        /\ hardFired' = (hardFired \/ B!Contains(crossed, "budget.exceeded"))
        /\ emitting' = emitting \o new
        /\ decided' = decided + Len(crossed)
    BY DEF B!Record
  <1>3. \/ /\ crossed = <<>> /\ UNCHANGED recording
           /\ stopped' = stopped \cup (IF after = "hard" THEN {arming} ELSE {})
        \/ recording' = [recording EXCEPT ![r] = entry] /\ UNCHANGED stopped
    BY DEF B!Record, B!Returns
  <1>4. UNCHANGED <<limitTokens, budgetLog, emitFaults, arming>>
    BY DEF B!Record
  <1>5. BudgetTypeOK
    BY DEF BudgetInv
  <1>6. tokens \in Nat /\ observed' \in Nat /\ records' \in Nat
    BY <1>1, <1>5, BudgetAssumption DEF BudgetTypeOK
  <1>7. /\ before \in {"ok", "soft", "hard"} /\ after \in {"ok", "soft", "hard"}
        /\ hardFired => before = "hard" /\ after = "hard"
    BY <1>1, <1>5, <1>6, LevelFacts DEF HardIsTold, BudgetInv, BudgetTypeOK
  <1>8. /\ crossed \in Seq({"budget.warning", "budget.exceeded"})
        /\ \A i \in DOMAIN crossed : crossed[i] = "budget.exceeded" =>
                i = Len(crossed) /\ after = "hard" /\ ~hardFired
        /\ after = "hard" /\ ~hardFired => \E i \in DOMAIN crossed : crossed[i] = "budget.exceeded"
        /\ hardFired => crossed = <<>>
    <2>1. hardFired => before # "ok"
      BY <1>7
    <2> HIDE DEF before, after
    <2> QED
      BY <2>1, CrossedFacts
  <1> HIDE DEF before, after, crossed
  <1>9. /\ DOMAIN crossed = 1..Len(crossed) /\ Len(crossed) \in Nat
        /\ \A i \in DOMAIN crossed : crossed[i] \in {"budget.warning", "budget.exceeded"}
    BY <1>8
  <1>10. /\ DOMAIN new = 1..Len(crossed)
         /\ \A i \in DOMAIN new : /\ new[i] \in BudgetEvent /\ new[i].n = decided + i
                                  /\ new[i].arming = arming /\ new[i].type = crossed[i]
    <2>1. DOMAIN new = 1..Len(crossed)
      BY <1>9
    <2>2. decided \in Nat /\ arming \in Nat /\ records' \in Nat
      BY <1>5, <1>6 DEF BudgetTypeOK
    <2>3. ASSUME NEW i \in DOMAIN crossed
          PROVE  /\ new[i].type = crossed[i] /\ new[i].n = decided + i
                 /\ new[i].arming = arming /\ new[i] \in BudgetEvent
      <3>1. i \in Nat /\ crossed[i] \in {"budget.warning", "budget.exceeded"}
        BY <1>9
      <3>2. new[i] = [type |-> crossed[i], record |-> records', n |-> decided + i,
                      arming |-> arming]
        BY DEF B!Event
      <3> HIDE DEF new
      <3> QED
        BY <2>2, <3>1, <3>2 DEF BudgetEvent
    <2> HIDE DEF new
    <2> QED
      BY <1>9, <2>1, <2>3
  <1>11. new \in Seq(BudgetEvent) /\ Len(new) = Len(crossed)
    <2>1. new \in [1..Len(crossed) -> BudgetEvent]
      BY <1>9, <1>10
    <2> HIDE DEF new
    <2> QED
      BY <1>9, <2>1
  <1> HIDE DEF new
  <1>12. hardFired' = (hardFired \/ \E i \in DOMAIN crossed : crossed[i] = "budget.exceeded")
    BY <1>2, <1>9 DEF B!Contains
  <1>13. BudgetTypeOK'
    <2>1. entry \in [no : Nat, events : Int, level : {"ok", "soft", "hard"}, arming : Nat]
      BY <1>5, <1>6, <1>7, <1>9 DEF BudgetTypeOK
    <2>2. recording' \in [Recorders ->
            [no : Nat, events : Int, level : {"ok", "soft", "hard"}, arming : Nat]]
      BY <1>3, <1>5, <2>1 DEF BudgetTypeOK
    <2>3. stopped' \subseteq Nat
      BY <1>3, <1>5 DEF BudgetTypeOK
    <2>4. emitting' \in Seq(BudgetEvent)
      BY <1>2, <1>5, <1>11 DEF BudgetTypeOK
    <2>5. decided' \in Nat
      BY <1>2, <1>5, <1>9 DEF BudgetTypeOK
    <2>6. softFired' \in BOOLEAN /\ hardFired' \in BOOLEAN
      BY <1>2
    <2> QED
      BY <1>4, <1>5, <1>6, <2>2, <2>3, <2>4, <2>5, <2>6 DEF BudgetTypeOK
  <1>14. /\ \A i \in DOMAIN emitting' :
              \/ i \in DOMAIN emitting /\ emitting'[i] = emitting[i]
              \/ i > Len(emitting) /\ i - Len(emitting) \in DOMAIN new
                    /\ emitting'[i] = new[i - Len(emitting)]
         /\ \A i \in DOMAIN new : i + Len(emitting) \in DOMAIN emitting'
                                      /\ emitting'[i + Len(emitting)] = new[i]
    <2>1. emitting \in Seq(BudgetEvent)
      BY <1>5 DEF BudgetTypeOK
    <2>2. emitting' = emitting \o new
      BY <1>2
    <2> QED
      BY <1>11, <2>1, <2>2, ConcatIndices
  <1>15. EventsInOrder'
    <2>1. \A i \in DOMAIN new : \A e \in Past : Follows(e, new[i])
      BY SMTT(30), <1>5, <1>8, <1>9, <1>10 DEF Past, Follows, BudgetEvent, BudgetTypeOK
    <2>2. \A i, j \in DOMAIN new : i < j => Follows(new[i], new[j])
      <3>1. \A i, j \in DOMAIN new : i < j => new[i].type # "budget.exceeded"
        BY <1>8, <1>9, <1>10
      <3>2. \A i, j \in DOMAIN new : i < j => new[i].n < new[j].n
        BY <1>5, <1>10 DEF BudgetTypeOK
      <3> QED
        BY <3>1, <3>2 DEF Follows
    <2>3. \A i, j \in DOMAIN emitting' : i < j => Follows(emitting'[i], emitting'[j])
      <3>1. SUFFICES ASSUME NEW i \in DOMAIN emitting', NEW j \in DOMAIN emitting', i < j
                     PROVE  Follows(emitting'[i], emitting'[j])
        OBVIOUS
      <3>2. i \in Nat /\ j \in Nat /\ DOMAIN emitting = 1..Len(emitting) /\ Len(emitting) \in Nat
        <4>1. emitting \in Seq(BudgetEvent) /\ emitting' \in Seq(BudgetEvent)
          BY <1>5, <1>13 DEF BudgetTypeOK
        <4>2. DOMAIN emitting' = 1..Len(emitting')
          BY <4>1
        <4> QED
          BY <4>1, <4>2
      <3>3. CASE j \in DOMAIN emitting
        <4>1. i \in DOMAIN emitting
          BY <1>14, <3>1, <3>2, <3>3
        <4> QED
          BY <1>14, <3>1, <3>2, <3>3, <4>1 DEF EventsInOrder, BudgetInv
      <3>4. CASE i \in DOMAIN emitting /\ j \notin DOMAIN emitting
        BY <1>14, <2>1, <3>4 DEF EventsPast, BudgetInv
      <3>5. CASE i \notin DOMAIN emitting /\ j \notin DOMAIN emitting
        <4>1. i - Len(emitting) < j - Len(emitting)
          BY <3>1, <3>2
        <4> QED
          BY <1>14, <2>2, <3>5, <4>1
      <3> QED
        BY <3>3, <3>4, <3>5
    <2>4. \A i \in DOMAIN budgetLog, j \in DOMAIN emitting' : Follows(budgetLog[i], emitting'[j])
      BY <1>14, <2>1 DEF EventsInOrder, EventsPast, BudgetInv
    <2> QED
      BY <1>4, <2>3, <2>4 DEF EventsInOrder, BudgetInv
  <1>16. EventsPast'
    <2>1. Past \subseteq Past'
      BY <1>2, <1>4, <1>5, <1>9, <1>12 DEF Past, BudgetEvent, BudgetTypeOK
    <2>2. \A i \in DOMAIN new : new[i] \in Past'
      <3>1. SUFFICES ASSUME NEW i \in DOMAIN new PROVE new[i] \in Past'
        OBVIOUS
      <3>2. i \in 1..Len(crossed) /\ decided \in Nat /\ arming \in Nat
        BY <1>5, <1>10 DEF BudgetTypeOK
      <3>3. new[i].n <= decided' /\ new[i].arming <= arming'
        BY <1>2, <1>4, <1>9, <1>10, <3>2
      <3>4. new[i].type = "budget.exceeded" => hardFired'
        BY <1>9, <1>10, <1>12
      <3> QED
        BY <1>10, <3>3, <3>4 DEF Past
    <2> QED
      BY <1>4, <1>14, <2>1, <2>2 DEF EventsPast, BudgetInv
  <1>17. HardIsTold'
    <2>1. Told \subseteq Told'
      <3>1. \E s \in Seq(BudgetEvent) : emitting' = emitting \o s /\ UNCHANGED budgetLog
        BY <1>2, <1>4, <1>11
      <3>2. emitFaults' >= emitFaults
        BY <1>4, <1>5 DEF BudgetTypeOK
      <3> QED
        BY <1>5, <1>13, <3>1, <3>2, ToldStays
    <2>2. after = "hard" => arming \in Told'
      <3>1. CASE hardFired
        BY <2>1, <3>1 DEF HardIsTold, BudgetInv
      <3>2. ASSUME ~hardFired, after = "hard" PROVE arming \in Told'
        <4>1. PICK i \in DOMAIN crossed : crossed[i] = "budget.exceeded"
          BY <1>8, <3>2
        <4>2. Tells(emitting'[i + Len(emitting)], arming) /\ i + Len(emitting) \in DOMAIN emitting'
          BY <1>9, <1>10, <1>14, <4>1 DEF Tells
        <4>3. arming \in Nat
          BY <1>5 DEF BudgetTypeOK
        <4> QED
          BY <4>2, <4>3 DEF Told
      <3> QED
        BY <3>1, <3>2
    <2>3. hardFired' => after = "hard"
      BY <1>7, <1>8, <1>12
    <2>4. stopped' \subseteq Told'
      BY <1>3, <2>1, <2>2 DEF HardIsTold, BudgetInv
    <2>5. \A q \in Recorders : recording'[q].level = "hard" => recording'[q].arming \in Told'
      <3>1. \A q \in Recorders : recording'[q] = recording[q] \/ recording'[q] = entry
        BY <1>3, <1>5 DEF BudgetTypeOK
      <3>2. entry.level = after /\ entry.arming = arming
        OBVIOUS
      <3> HIDE DEF entry
      <3> QED
        BY <2>1, <2>2, <3>1, <3>2 DEF HardIsTold, BudgetInv
    <2>6. hardFired' => B!Level(limitTokens', observed') = "hard" /\ arming' \in Told'
      BY <1>4, <2>2, <2>3 DEF after
    <2> QED
      BY <2>4, <2>5, <2>6 DEF HardIsTold
  <1> QED
    BY <1>13, <1>15, <1>16, <1>17 DEF BudgetInv

\* The first event leaves the queue: the rest keeps its order.
LEMMA TailIndices ==
    ASSUME NEW Entries, NEW s \in Seq(Entries), s # <<>>
    PROVE  /\ Tail(s) \in Seq(Entries) /\ Head(s) \in Entries /\ Head(s) = s[1] /\ 1 \in DOMAIN s
           /\ DOMAIN s = 1..Len(s) /\ Len(s) \in Nat
           /\ \A i \in DOMAIN Tail(s) : i \in Nat /\ i >= 1 /\ i + 1 \in DOMAIN s /\ Tail(s)[i] = s[i + 1]
  OBVIOUS

\* Where an entry of a sequence that grows at its end comes from, and goes.
LEMMA AppendIndices ==
    ASSUME NEW Entries, NEW s \in Seq(Entries), NEW e \in Entries
    PROVE  /\ Append(s, e) \in Seq(Entries)
           /\ \A i \in DOMAIN Append(s, e) :
                \/ i \in DOMAIN s /\ Append(s, e)[i] = s[i]
                \/ i = Len(s) + 1 /\ Append(s, e)[i] = e
           /\ \A i \in DOMAIN s : i \in DOMAIN Append(s, e) /\ Append(s, e)[i] = s[i] /\ i <= Len(s)
           /\ Len(s) \in Nat /\ Len(s) + 1 \in DOMAIN Append(s, e)
           /\ Append(s, e)[Len(s) + 1] = e
           /\ DOMAIN Append(s, e) \subseteq Nat
  OBVIOUS

\* The head of the chain moves into the log.
LEMMA EmittedStep == ASSUME BudgetInv, B!Emitted PROVE BudgetInv'
  <1>1. /\ emitting # <<>> /\ emitting' = Tail(emitting)
        /\ budgetLog' = Append(budgetLog, Head(emitting))
        /\ UNCHANGED <<limitTokens, observed, softFired, hardFired, records, emitFaults,
                       decided, arming>>
    BY DEF B!Emitted, B!ledger
  <1>2. BudgetTypeOK /\ emitting \in Seq(BudgetEvent) /\ budgetLog \in Seq(BudgetEvent)
    BY DEF BudgetInv, BudgetTypeOK
  <1>3. /\ recording' \in [Recorders ->
            [no : Nat, events : Int, level : {"ok", "soft", "hard"}, arming : Nat]]
        /\ \A q \in Recorders : recording'[q].level = "hard" =>
                recording[q].level = "hard" /\ recording'[q].arming = recording[q].arming
        /\ \A a \in stopped' : a \in stopped
                \/ \E q \in Recorders : recording[q].level = "hard" /\ a = recording[q].arming
    <2>1. CASE UNCHANGED <<recording, stopped>>
      BY <1>2, <2>1 DEF BudgetTypeOK
    <2>2. ASSUME NEW r \in Recorders,
                 \/ /\ recording' = [recording EXCEPT ![r] = B!Done]
                    /\ B!Returns(recording[r].level, recording[r].arming)
                 \/ recording' = [recording EXCEPT ![r].events = @ - 1] /\ UNCHANGED stopped
          PROVE  <1>3!1 /\ <1>3!2 /\ <1>3!3
      <3>1. B!Done \in [no : Nat, events : Int, level : {"ok", "soft", "hard"}, arming : Nat]
                /\ B!Done.level = "ok"
        BY DEF B!Done
      <3>2. CASE recording' = [recording EXCEPT ![r] = B!Done]
                    /\ B!Returns(recording[r].level, recording[r].arming)
        BY <1>2, <3>1, <3>2 DEF BudgetTypeOK, B!Returns
      <3>3. CASE recording' = [recording EXCEPT ![r].events = @ - 1] /\ UNCHANGED stopped
        <4>1. recording' = [q \in Recorders |->
                    IF q = r THEN [recording[r] EXCEPT !.events = @ - 1] ELSE recording[q]]
          BY <1>2, <3>3 DEF BudgetTypeOK
        <4>2. recording[r] \in [no : Nat, events : Int, level : {"ok", "soft", "hard"}, arming : Nat]
          BY <1>2 DEF BudgetTypeOK
        <4> DEFINE entry == [recording[r] EXCEPT !.events = @ - 1]
        <4>3. /\ entry \in [no : Nat, events : Int, level : {"ok", "soft", "hard"}, arming : Nat]
              /\ entry.level = recording[r].level /\ entry.arming = recording[r].arming
          BY <4>2
        <4> HIDE DEF entry
        <4>4. \A q \in Recorders : recording'[q] = IF q = r THEN entry ELSE recording[q]
          BY <4>1 DEF entry
        <4>5. recording' \in [Recorders ->
                [no : Nat, events : Int, level : {"ok", "soft", "hard"}, arming : Nat]]
          BY <1>2, <4>1, <4>3 DEF BudgetTypeOK, entry
        <4> QED
          BY <3>3, <4>3, <4>4, <4>5
      <3> QED
        BY <2>2, <3>2, <3>3
    <2> QED
      BY <2>1, <2>2 DEF B!Emitted
  <1>4. /\ emitting' \in Seq(BudgetEvent) /\ Head(emitting) = emitting[1] /\ 1 \in DOMAIN emitting
        /\ DOMAIN emitting = 1..Len(emitting) /\ Len(emitting) \in Nat
        /\ \A i \in DOMAIN emitting' :
              i \in Nat /\ i >= 1 /\ i + 1 \in DOMAIN emitting /\ emitting'[i] = emitting[i + 1]
    BY <1>1, <1>2, TailIndices
  <1>5. /\ budgetLog' \in Seq(BudgetEvent)
        /\ \A i \in DOMAIN budgetLog' :
              \/ i \in DOMAIN budgetLog /\ budgetLog'[i] = budgetLog[i]
              \/ i = Len(budgetLog) + 1 /\ budgetLog'[i] = emitting[1]
        /\ \A i \in DOMAIN budgetLog : i <= Len(budgetLog)
        /\ Len(budgetLog) \in Nat /\ DOMAIN budgetLog' \subseteq Nat
    BY <1>1, <1>2, <1>4, TailIndices, AppendIndices
  <1>6. BudgetTypeOK'
    <2>1. stopped' \subseteq Nat
      BY <1>2, <1>3 DEF BudgetTypeOK
    <2> QED
      BY <1>1, <1>2, <1>3, <1>4, <1>5, <2>1 DEF BudgetTypeOK
  <1>7. EventsInOrder'
    <2>1. \A i, j \in DOMAIN budgetLog' : i < j => Follows(budgetLog'[i], budgetLog'[j])
      <3>1. SUFFICES ASSUME NEW i \in DOMAIN budgetLog', NEW j \in DOMAIN budgetLog', i < j
                     PROVE  Follows(budgetLog'[i], budgetLog'[j])
        OBVIOUS
      <3>2. i \in DOMAIN budgetLog /\ budgetLog'[i] = budgetLog[i]
        BY <1>5, <3>1
      <3> QED
        BY <1>4, <1>5, <3>1, <3>2 DEF EventsInOrder, BudgetInv
    <2>2. \A i, j \in DOMAIN emitting' : i < j => Follows(emitting'[i], emitting'[j])
      <3>1. \A i, j \in DOMAIN emitting' : i < j => i + 1 < j + 1
        BY <1>4
      <3> QED
        BY <1>4, <3>1 DEF EventsInOrder, BudgetInv
    <2>3. \A i \in DOMAIN budgetLog', j \in DOMAIN emitting' : Follows(budgetLog'[i], emitting'[j])
      <3>1. \A j \in DOMAIN emitting' : 1 < j + 1
        BY <1>4
      <3> QED
        BY <1>4, <1>5, <3>1 DEF EventsInOrder, BudgetInv
    <2> QED
      BY <2>1, <2>2, <2>3 DEF EventsInOrder
  <1>8. EventsPast'
    <2>1. Past' = Past
      BY <1>1 DEF Past
    <2> QED
      BY <1>4, <1>5, <2>1 DEF EventsPast, BudgetInv
  <1>9. HardIsTold'
    <2>1. Told \subseteq Told'
      <3>1. emitFaults' >= emitFaults
        BY <1>1, <1>2 DEF BudgetTypeOK
      <3> QED
        BY <1>1, <1>2, <1>6, <3>1, ToldStays
    <2> QED
      BY <1>1, <1>3, <2>1 DEF HardIsTold, BudgetInv
  <1> QED
    BY <1>6, <1>7, <1>8, <1>9 DEF BudgetInv

\* The head is lost, which the fault that is counted excuses.
LEMMA EmitFailsStep == ASSUME BudgetInv, B!EmitFails PROVE BudgetInv'
  <1>1. /\ emitting # <<>> /\ emitting' = Tail(emitting) /\ emitFaults' = emitFaults + 1
        /\ UNCHANGED <<limitTokens, observed, softFired, hardFired, budgetLog, records,
                       decided, arming, stopped>>
        /\ recording' = [r \in Recorders |->
                IF recording[r].no = Head(emitting).record THEN B!Done ELSE recording[r]]
    BY DEF B!EmitFails, B!ledger
  <1>2. BudgetTypeOK /\ emitting \in Seq(BudgetEvent)
    BY DEF BudgetInv, BudgetTypeOK
  <1>3. B!Done \in [no : Nat, events : Int, level : {"ok", "soft", "hard"}, arming : Nat]
            /\ B!Done.level = "ok"
    BY DEF B!Done
  <1>4. /\ emitting' \in Seq(BudgetEvent)
        /\ DOMAIN emitting = 1..Len(emitting) /\ Len(emitting) \in Nat
        /\ \A i \in DOMAIN emitting' :
              i \in Nat /\ i >= 1 /\ i + 1 \in DOMAIN emitting /\ emitting'[i] = emitting[i + 1]
    BY <1>1, <1>2, TailIndices
  <1>5. BudgetTypeOK'
    BY <1>1, <1>2, <1>3, <1>4 DEF BudgetTypeOK
  <1>6. EventsInOrder'
    <2>1. \A i, j \in DOMAIN emitting' : i < j => i + 1 < j + 1
      BY <1>4
    <2> QED
      BY <1>1, <1>4, <2>1 DEF EventsInOrder, BudgetInv
  <1>7. EventsPast'
    <2>1. Past' = Past
      BY <1>1 DEF Past
    <2> QED
      BY <1>1, <1>4, <2>1 DEF EventsPast, BudgetInv
  <1>8. HardIsTold'
    <2>1. Told' = Nat
      BY <1>1, <1>2 DEF Told, BudgetTypeOK
    <2>2. \A q \in Recorders : recording'[q].arming \in Nat
      BY <1>5 DEF BudgetTypeOK
    <2> QED
      BY <1>1, <1>2, <2>1, <2>2 DEF HardIsTold, BudgetInv, BudgetTypeOK
  <1> QED
    BY <1>5, <1>6, <1>7, <1>8 DEF BudgetInv

\* A raise to a limit that is not reached opens an arming that nothing belongs
\* to yet; one to what is used already leaves everything as it is.
LEMMA RaiseStep == ASSUME BudgetInv, NEW limit \in Limits, B!Raise(limit) PROVE BudgetInv'
  <1>1. /\ limitTokens' = limit
        /\ hardFired' = (hardFired /\ B!Level(limit, observed) = "hard")
        /\ arming' = IF B!Level(limit, observed) = "hard" THEN arming ELSE arming + 1
        /\ softFired' \in BOOLEAN
        /\ UNCHANGED <<observed, emitting, recording, budgetLog, records, emitFaults, decided,
                       stopped>>
    BY DEF B!Raise
  <1>2. limit \in Nat
    BY BudgetAssumption
  <1>3. BudgetTypeOK
    BY DEF BudgetInv
  <1>4. BudgetTypeOK'
    BY <1>1, <1>2, <1>3 DEF BudgetTypeOK
  <1>5. EventsInOrder'
    BY <1>1 DEF EventsInOrder, BudgetInv
  <1>6. EventsPast'
    <2>1. Past \subseteq Past'
      BY <1>1, <1>3 DEF Past, BudgetTypeOK, BudgetEvent
    <2> QED
      BY <1>1, <2>1 DEF EventsPast, BudgetInv
  <1>7. HardIsTold'
    <2>1. Told' = Told
      BY <1>1 DEF Told
    <2> QED
      BY <1>1, <2>1 DEF HardIsTold, BudgetInv
  <1> QED
    BY <1>4, <1>5, <1>6, <1>7 DEF BudgetInv

\* The invariant of the ledger holds at first,
LEMMA BudgetInitInv == B!Init => BudgetInv
  <1> SUFFICES ASSUME B!Init PROVE BudgetInv
    OBVIOUS
  <1>1. B!Done \in [no : Nat, events : Int, level : {"ok", "soft", "hard"}, arming : Nat]
            /\ B!Done.level = "ok"
    BY DEF B!Done
  <1>2. BudgetTypeOK
    <2>1. <<>> \in Seq(BudgetEvent)
      OBVIOUS
    <2> QED
      BY <1>1, <2>1, BudgetAssumption DEF B!Init, BudgetTypeOK
  <1>3. EventsInOrder /\ EventsPast
    BY DEF B!Init, EventsInOrder, EventsPast
  <1>4. HardIsTold
    BY <1>1 DEF B!Init, HardIsTold
  <1> QED
    BY <1>2, <1>3, <1>4 DEF BudgetInv

\* after every step,
LEMMA BudgetStepInv == BudgetInv /\ [B!Next]_(B!vars) => BudgetInv'
  <1> SUFFICES ASSUME BudgetInv, [B!Next]_(B!vars) PROVE BudgetInv'
    OBVIOUS
  <1>1. CASE \E r \in Recorders, tokens \in Amounts : B!Record(r, tokens)
    BY <1>1, RecordStep
  <1>2. CASE B!Emitted
    BY <1>2, EmittedStep
  <1>3. CASE B!EmitFails
    BY <1>3, EmitFailsStep
  <1>4. CASE \E limit \in Limits : B!Raise(limit)
    BY <1>4, RaiseStep
  <1>5. CASE UNCHANGED B!vars
    <2>1. Past' = Past /\ Told' = Told
      BY <1>5 DEF B!vars, B!ledger, Past, Told
    <2> QED
      BY <1>5, <2>1 DEF B!vars, B!ledger, BudgetInv, BudgetTypeOK, EventsInOrder, EventsPast, HardIsTold
  <1> QED
    BY <1>1, <1>2, <1>3, <1>4, <1>5 DEF B!Next

\* and says who was told.
LEMMA BudgetInvTold == BudgetInv => BudgetTold
  <1> SUFFICES ASSUME BudgetInv PROVE B!BudgetTold
    BY DEF BudgetTold
  <1>1. \A i, j \in DOMAIN budgetLog : i < j => Follows(budgetLog[i], budgetLog[j])
    BY DEF BudgetInv, EventsInOrder
  <1>2. ASSUME emitting = <<>>, emitFaults = 0, NEW a \in stopped
        PROVE  \E i \in DOMAIN budgetLog :
                  budgetLog[i].arming = a /\ budgetLog[i].type = "budget.exceeded"
    <2>1. a \in Told
      BY DEF BudgetInv, HardIsTold
    <2> QED
      BY <1>2, <2>1 DEF Told, Tells
  <1> QED
    BY <1>1, <1>2 DEF B!BudgetTold, Follows

\* Nobody is stopped by a budget without being told, and the events of a budget are
\* in order and each due once, however records, raises and appends interleave.
THEOREM LedgerTells == B!Spec => []BudgetTold
  <1>1. B!Init => BudgetInv
    BY BudgetInitInv
  <1>2. BudgetInv /\ [B!Next]_(B!vars) => BudgetInv'
    BY BudgetStepInv
  <1>3. BudgetInv => BudgetTold
    BY BudgetInvTold
  <1> QED
    BY <1>1, <1>2, <1>3, PTL DEF B!Spec

----------------------------------------------------------------------------
(* The event stream.                                                       *)

StreamEvent == [no : Nat, owner : Owners]

StreamTypeOK ==
    /\ shardFiles \in [Shards -> Seq(StreamEvent)] /\ appended \in Nat
    /\ stage \in {"closed", "listing", "replaying", "live"}
    /\ toLoad \subseteq Shards /\ loaded \in Seq(StreamEvent)
    /\ seen \subseteq Nat /\ sent \in Seq(Nat)

InShard(s) == {shardFiles[s][i] : i \in DOMAIN shardFiles[s]}
Stored == UNION {InShard(s) : s \in Shards}
Mine == {e.no : e \in {f \in Stored : E!InScope(f)}}
Sent == {sent[i] : i \in DOMAIN sent}
Loaded == {loaded[i] : i \in DOMAIN loaded}

\* Only events that are stored are sent, each once, and while the replay goes
\* on the stream knows which.
SentOnce ==
    /\ \A e \in Stored : e.no <= appended
    /\ \A i, j \in DOMAIN sent : sent[i] = sent[j] => i = j
    /\ Sent \subseteq Mine /\ seen \subseteq Sent /\ Loaded \subseteq Stored
    /\ stage \in {"listing", "replaying"} => seen = Sent
    /\ stage = "closed" => sent = <<>>
    /\ stage \in {"closed", "listing"} => loaded = <<>>
    /\ stage = "closed" <=> ~subscribed

\* Nothing in scope is overlooked: it is sent, or still to be replayed.
NoneOverlooked ==
    /\ stage = "replaying" =>
          \A s \in Shards : \A e \in InShard(s) :
              E!InScope(e) => e.no \in Sent \/ s \in toLoad \/ e \in Loaded
    /\ stage = "live" /\ ~replayBroke => Mine \subseteq Sent

StreamInv == StreamTypeOK /\ SentOnce /\ NoneOverlooked

\* What Send does to what was sent.
LEMMA SendFacts ==
    ASSUME StreamTypeOK, SentOnce, NEW e, e.no \in Nat, E!Send(e)
    PROVE  /\ sent' \in Seq(Nat) /\ seen' \subseteq Nat
           /\ Sent' = Sent \cup (IF E!InScope(e) /\ e.no \notin seen THEN {e.no} ELSE {})
           /\ seen' = seen \cup (IF E!InScope(e) /\ e.no \notin seen THEN {e.no} ELSE {})
           /\ (E!InScope(e) => e.no \in Sent \/ e.no \in Sent')
           /\ (e.no \in Sent => e.no \in seen \/ ~E!InScope(e)) =>
                  \A i, j \in DOMAIN sent' : sent'[i] = sent'[j] => i = j
  <1>0. sent \in Seq(Nat) /\ seen \subseteq Nat
    BY DEF StreamTypeOK
  <1>1. CASE E!InScope(e) /\ e.no \notin seen
    <2>1. sent' = Append(sent, e.no) /\ seen' = seen \cup {e.no}
      BY <1>1 DEF E!Send
    <2>2. /\ sent' \in Seq(Nat)
          /\ \A i \in DOMAIN sent' : \/ i \in DOMAIN sent /\ sent'[i] = sent[i]
                                     \/ i = Len(sent) + 1 /\ sent'[i] = e.no
          /\ \A i \in DOMAIN sent : i \in DOMAIN sent' /\ sent'[i] = sent[i]
          /\ Len(sent) + 1 \in DOMAIN sent' /\ sent'[Len(sent) + 1] = e.no
      BY <1>0, <2>1, AppendIndices
    <2>3. Sent' = Sent \cup {e.no}
      BY <2>2 DEF Sent
    <2>4. ASSUME e.no \notin Sent, NEW i \in DOMAIN sent', NEW j \in DOMAIN sent',
                 sent'[i] = sent'[j]
          PROVE  i = j
      BY <2>2, <2>4 DEF Sent, SentOnce
    <2> QED
      BY <1>0, <1>1, <2>1, <2>2, <2>3, <2>4
  <1>2. CASE ~(E!InScope(e) /\ e.no \notin seen)
    <2>1. sent' = sent /\ seen' = seen
      BY <1>2 DEF E!Send
    <2> QED
      BY <1>0, <1>2, <2>1 DEF Sent, SentOnce
  <1> QED
    BY <1>1, <1>2

\* The first state.
LEMMA StreamInitInv == E!Init => StreamInv
  <1> SUFFICES ASSUME E!Init PROVE StreamInv
    OBVIOUS
  <1>1. StreamTypeOK
    BY DEF E!Init, StreamTypeOK
  <1>2. Stored = {}
    BY DEF E!Init, Stored, InShard
  <1>3. Sent = {} /\ Loaded = {}
    BY DEF E!Init, Sent, Loaded
  <1> QED
    BY <1>1, <1>2, <1>3 DEF E!Init, StreamInv, SentOnce, NoneOverlooked

\* An event that is appended has a number of its own, and is sent at once.
LEMMA AppendEventStep ==
    ASSUME StreamInv, NEW shard \in Shards, NEW owner \in Owners, E!AppendEvent(shard, owner)
    PROVE  StreamInv'
  <1> DEFINE e == [no |-> appended', owner |-> owner]
  <1>0. StreamTypeOK /\ SentOnce /\ NoneOverlooked
    BY DEF StreamInv
  <1>1. /\ appended \in Nat /\ appended' = appended + 1 /\ e \in StreamEvent
        /\ UNCHANGED <<viewer, stage, subscribed, toLoad, loaded, replayBroke>>
        /\ shardFiles \in [Shards -> Seq(StreamEvent)] /\ shardFiles[shard] \in Seq(StreamEvent)
        /\ shardFiles' = [shardFiles EXCEPT ![shard] = Append(@, e)]
    <2>1. /\ appended \in Nat /\ shardFiles \in [Shards -> Seq(StreamEvent)]
          /\ shardFiles[shard] \in Seq(StreamEvent)
      BY <1>0 DEF StreamTypeOK
    <2>2. /\ appended' = appended + 1
          /\ UNCHANGED <<viewer, stage, subscribed, toLoad, loaded, replayBroke>>
          /\ shardFiles' = [shardFiles EXCEPT ![shard] = Append(@, e)]
      BY DEF E!AppendEvent
    <2>3. e \in StreamEvent
      BY <2>1, <2>2 DEF StreamEvent
    <2> QED
      BY <2>1, <2>2, <2>3
  <1>2. IF subscribed THEN E!Send(e) ELSE UNCHANGED <<sent, seen>>
    BY DEF E!AppendEvent
  <1> HIDE DEF e
  <1>3. /\ shardFiles'[shard] = Append(shardFiles[shard], e)
        /\ shardFiles'[shard] \in Seq(StreamEvent)
        /\ \A s \in Shards : s # shard => shardFiles'[s] = shardFiles[s]
        /\ shardFiles' \in [Shards -> Seq(StreamEvent)]
    <2>1. Append(shardFiles[shard], e) \in Seq(StreamEvent)
      BY <1>1
    <2> QED
      BY <1>1, <2>1
  <1>4. InShard(shard)' = InShard(shard) \cup {e}
    <2>1. /\ \A i \in DOMAIN shardFiles'[shard] :
                \/ i \in DOMAIN shardFiles[shard] /\ shardFiles'[shard][i] = shardFiles[shard][i]
                \/ i = Len(shardFiles[shard]) + 1 /\ shardFiles'[shard][i] = e
          /\ \A i \in DOMAIN shardFiles[shard] :
                i \in DOMAIN shardFiles'[shard] /\ shardFiles'[shard][i] = shardFiles[shard][i]
          /\ Len(shardFiles[shard]) + 1 \in DOMAIN shardFiles'[shard]
          /\ shardFiles'[shard][Len(shardFiles[shard]) + 1] = e
      BY <1>1, <1>3, AppendIndices
    <2> QED
      BY <2>1 DEF InShard
  <1>5. \A s \in Shards : s # shard => InShard(s)' = InShard(s)
    BY <1>3 DEF InShard
  <1>6. Stored' = Stored \cup {e}
    BY <1>4, <1>5 DEF Stored
  <1>7. \A f : E!InScope(f)' = E!InScope(f)
    BY <1>1 DEF E!InScope
  <1>8. Mine' = Mine \cup (IF E!InScope(e) THEN {e.no} ELSE {})
    BY <1>6, <1>7 DEF Mine
  <1>9. e.no = appended + 1 /\ e.no \in Nat
    BY <1>1 DEF e
  <1>10. \A f \in Stored : f \in StreamEvent /\ f.no <= appended
    BY <1>0, <1>1 DEF SentOnce, Stored, InShard
  <1>11. e.no \notin Mine
    <2>1. \A f \in Stored : f.no # e.no
      BY <1>1, <1>9, <1>10 DEF StreamEvent
    <2> QED
      BY <2>1 DEF Mine
  <1>12. e.no \notin Sent /\ e.no \notin seen
    BY <1>0, <1>11 DEF SentOnce
  <1>13. /\ sent' \in Seq(Nat) /\ seen' \subseteq Nat
         /\ Sent' = Sent \cup (IF subscribed /\ E!InScope(e) THEN {e.no} ELSE {})
         /\ seen' = seen \cup (IF subscribed /\ E!InScope(e) THEN {e.no} ELSE {})
         /\ \A i, j \in DOMAIN sent' : sent'[i] = sent'[j] => i = j
         /\ ~subscribed => sent' = sent
    <2>1. CASE subscribed
      <3>1. E!Send(e)
        BY <1>2, <2>1
      <3> QED
        BY <1>0, <1>9, <1>12, <2>1, <3>1, SendFacts
    <2>2. CASE ~subscribed
      BY <1>0, <1>2, <2>2 DEF StreamTypeOK, SentOnce, Sent
    <2> QED
      BY <2>1, <2>2
  <1>14. StreamTypeOK'
    BY <1>0, <1>1, <1>3, <1>13 DEF StreamTypeOK
  <1>15. Loaded' = Loaded
    BY <1>1 DEF Loaded
  <1>16. SentOnce'
    <2>1. \A f \in Stored' : f.no <= appended'
      BY <1>1, <1>6, <1>9, <1>10 DEF StreamEvent
    <2>2. Sent' \subseteq Mine' /\ seen' \subseteq Sent' /\ Loaded' \subseteq Stored'
      BY <1>0, <1>6, <1>8, <1>13, <1>15 DEF SentOnce
    <2>3. /\ stage' \in {"listing", "replaying"} => seen' = Sent'
          /\ stage' = "closed" => sent' = <<>>
          /\ stage' \in {"closed", "listing"} => loaded' = <<>>
          /\ stage' = "closed" <=> ~subscribed'
      BY <1>0, <1>1, <1>13 DEF SentOnce
    <2> QED
      BY <1>13, <2>1, <2>2, <2>3 DEF SentOnce
  <1>17. NoneOverlooked'
    <2>1. stage = "closed" <=> ~subscribed
      BY <1>0 DEF SentOnce
    <2>2. ASSUME stage' = "replaying", NEW s \in Shards, NEW f \in InShard(s)', E!InScope(f)'
          PROVE  f.no \in Sent' \/ s \in toLoad' \/ f \in Loaded'
      <3>1. stage = "replaying" /\ subscribed /\ E!InScope(f)
        BY <1>1, <1>7, <2>1, <2>2
      <3>2. f \in InShard(s) \/ f = e
        BY <1>4, <1>5, <2>2
      <3> QED
        BY <1>0, <1>1, <1>13, <1>15, <3>1, <3>2 DEF NoneOverlooked
    <2>3. stage' = "live" /\ ~replayBroke' => Mine' \subseteq Sent'
      BY <1>0, <1>1, <1>8, <1>13, <2>1 DEF NoneOverlooked
    <2> QED
      BY <2>2, <2>3 DEF NoneOverlooked
  <1> QED
    BY <1>14, <1>16, <1>17 DEF StreamInv

\* Opening the stream, listing the shards and closing it send nothing.
LEMMA OpenStep ==
    ASSUME StreamInv, NEW who \in Owners \cup {Absent}, E!Open(who)
    PROVE  StreamInv'
  <1>1. /\ StreamTypeOK /\ SentOnce /\ stage = "closed" /\ sent = <<>> /\ stage' = "listing"
        /\ subscribed' = TRUE /\ loaded = <<>>
        /\ UNCHANGED <<shardFiles, appended, toLoad, loaded, seen, sent, replayBroke>>
    BY DEF StreamInv, SentOnce, E!Open
  <1>2. Stored' = Stored /\ Sent = {} /\ Sent' = {} /\ Loaded' = {}
    BY <1>1 DEF Stored, InShard, Sent, Loaded
  <1>3. StreamTypeOK'
    BY <1>1 DEF StreamTypeOK
  <1>4. SentOnce'
    BY <1>1, <1>2 DEF SentOnce
  <1> QED
    BY <1>1, <1>3, <1>4 DEF StreamInv, NoneOverlooked

\* Closing sends nothing.
LEMMA CloseStep ==
    ASSUME StreamInv, E!Close
    PROVE  StreamInv'
  <1>1. /\ StreamTypeOK /\ SentOnce /\ stage' = "closed" /\ subscribed' = FALSE
        /\ toLoad' = {} /\ loaded' = <<>> /\ seen' = {} /\ sent' = <<>>
        /\ UNCHANGED <<shardFiles, appended, viewer>>
    BY DEF StreamInv, E!Close
  <1>2. Stored' = Stored /\ Sent' = {} /\ Loaded' = {}
    BY <1>1 DEF Stored, InShard, Sent, Loaded
  <1>3. StreamTypeOK'
    BY <1>1 DEF StreamTypeOK
  <1>4. SentOnce'
    BY <1>1, <1>2 DEF SentOnce
  <1> QED
    BY <1>1, <1>3, <1>4 DEF StreamInv, NoneOverlooked

\* Listing the shards sends nothing, and all there are will be loaded.
LEMMA ListShardsStep ==
    ASSUME StreamInv, E!ListShards
    PROVE  StreamInv'
  <1>1. /\ StreamTypeOK /\ SentOnce /\ stage = "listing" /\ stage' = "replaying"
        /\ toLoad' = {s \in Shards : shardFiles[s] # <<>>}
        /\ UNCHANGED <<shardFiles, appended, viewer, subscribed, loaded, seen, sent, replayBroke>>
    BY DEF StreamInv, E!ListShards
  <1>2. Stored' = Stored /\ Sent' = Sent /\ Loaded' = Loaded /\ Mine' = Mine
    BY <1>1 DEF Stored, InShard, Sent, Loaded, Mine, E!InScope
  <1>3. StreamTypeOK'
    BY <1>1 DEF StreamTypeOK
  <1>4. SentOnce'
    BY <1>1, <1>2 DEF SentOnce
  <1>5. ASSUME NEW s \in Shards, NEW f \in InShard(s)'
        PROVE  s \in toLoad'
    <2>1. shardFiles[s] # <<>>
      BY <1>1, <1>5 DEF InShard
    <2> QED
      BY <1>1, <2>1
  <1> QED
    BY <1>1, <1>3, <1>4, <1>5 DEF StreamInv, NoneOverlooked

\* Loading a shard moves its events from the shards to load to the loaded ones.
LEMMA LoadShardStep ==
    ASSUME StreamInv, NEW shard \in Shards, E!LoadShard(shard)
    PROVE  StreamInv'
  <1>1. /\ StreamTypeOK /\ SentOnce /\ NoneOverlooked /\ stage = "replaying" /\ loaded = <<>>
        /\ toLoad' = toLoad \ {shard} /\ loaded' = shardFiles[shard]
        /\ UNCHANGED <<shardFiles, appended, viewer, stage, subscribed, seen, sent, replayBroke>>
    BY DEF StreamInv, E!LoadShard
  <1>2. /\ Stored' = Stored /\ Sent' = Sent /\ Loaded' = InShard(shard) /\ Mine' = Mine /\ Loaded = {}
        /\ \A s \in Shards : InShard(s)' = InShard(s)
        /\ \A f : E!InScope(f)' = E!InScope(f)
    BY <1>1 DEF Stored, InShard, Sent, Loaded, Mine, E!InScope
  <1>3. StreamTypeOK'
    BY <1>1 DEF StreamTypeOK
  <1>4. SentOnce'
    BY <1>1, <1>2 DEF SentOnce, Stored
  <1>5. NoneOverlooked'
    BY <1>1, <1>2 DEF NoneOverlooked
  <1> QED
    BY <1>3, <1>4, <1>5 DEF StreamInv

\* The first of the loaded events is sent, unless it was.
LEMMA ReplayEventStep ==
    ASSUME StreamInv, E!ReplayEvent
    PROVE  StreamInv'
  <1> DEFINE e == Head(loaded)
  <1>1. /\ StreamTypeOK /\ SentOnce /\ NoneOverlooked /\ stage = "replaying" /\ loaded # <<>>
        /\ E!Send(e) /\ loaded' = Tail(loaded) /\ loaded \in Seq(StreamEvent)
        /\ UNCHANGED <<shardFiles, appended, viewer, stage, subscribed, toLoad, replayBroke>>
    BY DEF StreamInv, StreamTypeOK, E!ReplayEvent
  <1>2. /\ e \in StreamEvent /\ e \in Loaded /\ Tail(loaded) \in Seq(StreamEvent)
        /\ Loaded = {e} \cup Loaded'
    <2>1. /\ loaded' \in Seq(StreamEvent) /\ Len(loaded') = Len(loaded) - 1 /\ Len(loaded) \in Nat \ {0}
          /\ \A i \in 1..Len(loaded') : loaded'[i] = loaded[i + 1]
          /\ e = loaded[1] /\ DOMAIN loaded = 1..Len(loaded) /\ DOMAIN loaded' = 1..Len(loaded')
      BY <1>1
    <2>2. 1 \in DOMAIN loaded /\ e \in StreamEvent /\ e \in Loaded
      <3>1. 1 \in DOMAIN loaded
        BY <2>1
      <3> QED
        BY <1>1, <2>1, <3>1 DEF Loaded
    <2> HIDE DEF e
    <2>3. \A i \in DOMAIN loaded : i = 1 \/ (i - 1 \in DOMAIN loaded' /\ loaded[i] = loaded'[i - 1])
      BY <2>1
    <2>4. \A i \in DOMAIN loaded' : i + 1 \in DOMAIN loaded /\ loaded[i + 1] = loaded'[i]
      BY <2>1
    <2>5. Loaded = {e} \cup Loaded'
      BY <2>1, <2>2, <2>3, <2>4 DEF Loaded
    <2> QED
      BY <1>1, <2>1, <2>2, <2>5
  <1> HIDE DEF e
  <1>3. e \in Stored /\ e.no \in Nat
    BY <1>1, <1>2 DEF SentOnce, StreamEvent
  <1>4. seen = Sent
    BY <1>1 DEF SentOnce
  <1>5. /\ sent' \in Seq(Nat) /\ seen' \subseteq Nat
        /\ Sent' = Sent \cup (IF E!InScope(e) THEN {e.no} ELSE {}) /\ seen' = Sent'
        /\ \A i, j \in DOMAIN sent' : sent'[i] = sent'[j] => i = j
    BY <1>1, <1>3, <1>4, SendFacts
  <1>6. /\ Stored' = Stored /\ Mine' = Mine
        /\ \A s \in Shards : InShard(s)' = InShard(s)
        /\ \A f : E!InScope(f)' = E!InScope(f)
    BY <1>1 DEF Stored, InShard, Mine, E!InScope
  <1>7. StreamTypeOK'
    BY <1>1, <1>2, <1>5 DEF StreamTypeOK
  <1>8. Sent' \subseteq Mine'
    BY <1>1, <1>3, <1>5, <1>6 DEF SentOnce, Mine
  <1>9. SentOnce'
    BY <1>1, <1>2, <1>5, <1>6, <1>8 DEF SentOnce
  <1>10. NoneOverlooked'
    BY <1>1, <1>2, <1>5, <1>6 DEF NoneOverlooked
  <1> QED
    BY <1>7, <1>9, <1>10 DEF StreamInv

\* When the replay ends without an error, nothing is left to load or to send.
LEMMA ReplayEndsStep ==
    ASSUME StreamInv, E!ReplayEnds
    PROVE  StreamInv'
  <1>1. /\ StreamTypeOK /\ SentOnce /\ NoneOverlooked /\ stage = "replaying" /\ loaded = <<>>
        /\ replayBroke' = (toLoad # {}) /\ stage' = "live" /\ toLoad' = {} /\ seen' = {}
        /\ UNCHANGED <<shardFiles, appended, viewer, subscribed, loaded, sent>>
    BY DEF StreamInv, E!ReplayEnds
  <1>2. Stored' = Stored /\ Sent' = Sent /\ Loaded' = Loaded /\ Mine' = Mine /\ Loaded = {}
    BY <1>1 DEF Stored, InShard, Sent, Loaded, Mine, E!InScope
  <1>3. StreamTypeOK'
    BY <1>1 DEF StreamTypeOK
  <1>4. SentOnce'
    BY <1>1, <1>2 DEF SentOnce
  <1>5. ASSUME ~replayBroke'
        PROVE  Mine \subseteq Sent
    <2>1. toLoad = {}
      BY <1>1, <1>5
    <2>2. \A f \in Stored : E!InScope(f) => f.no \in Sent
      BY <1>1, <1>2, <2>1 DEF NoneOverlooked, Stored
    <2> QED
      BY <2>2 DEF Mine
  <1>6. NoneOverlooked'
    <2>1. stage' # "replaying"
      BY <1>1
    <2> QED
      BY <1>2, <1>5, <2>1 DEF NoneOverlooked
  <1> QED
    BY <1>3, <1>4, <1>6 DEF StreamInv

\* Every step keeps the invariant of the stream,
LEMMA StreamStepInv == StreamInv /\ [E!Next]_E!vars => StreamInv'
  <1> SUFFICES ASSUME StreamInv, [E!Next]_E!vars PROVE StreamInv'
    OBVIOUS
  <1>1. CASE UNCHANGED E!vars
    <2>1. UNCHANGED <<shardFiles, appended, viewer, stage, subscribed, toLoad, loaded, seen, sent,
                      replayBroke>>
      BY <1>1 DEF E!vars
    <2>2. StreamTypeOK'
      BY <2>1 DEF StreamInv, StreamTypeOK
    <2>3. /\ Stored' = Stored /\ Mine' = Mine /\ Sent' = Sent /\ Loaded' = Loaded
          /\ \A s \in Shards : InShard(s)' = InShard(s)
          /\ \A f : E!InScope(f)' = E!InScope(f)
      BY <2>1 DEF Stored, InShard, Mine, Sent, Loaded, E!InScope
    <2>4. SentOnce'
      BY <2>1, <2>3 DEF StreamInv, SentOnce
    <2>5. NoneOverlooked'
      BY <2>1, <2>3 DEF StreamInv, NoneOverlooked
    <2> QED
      BY <2>2, <2>4, <2>5 DEF StreamInv
  <1>2. CASE E!Next
    <2>1. ASSUME NEW shard \in Shards, NEW owner \in Owners, E!AppendEvent(shard, owner)
          PROVE  StreamInv'
      BY <2>1, AppendEventStep
    <2>2. ASSUME NEW who \in Owners \cup {Absent}, E!Open(who) PROVE StreamInv'
      BY <2>2, OpenStep
    <2>3. ASSUME NEW s \in Shards, E!LoadShard(s) PROVE StreamInv'
      BY <2>3, LoadShardStep
    <2> QED
      BY <1>2, <2>1, <2>2, <2>3, ListShardsStep, ReplayEventStep, ReplayEndsStep, CloseStep
         DEF E!Next
  <1> QED
    BY <1>1, <1>2

\* which says that nothing was sent twice, and in the end nothing left out.
LEMMA StreamInvOnce == StreamInv => EachEventOnce
  <1> SUFFICES ASSUME StreamInv PROVE E!EachEventOnce
    BY DEF EachEventOnce
  <1>1. \A s \in Shards : InShard(s) = E!Range(shardFiles[s])
    BY DEF InShard, E!Range
  <1>2. Stored = UNION {E!Range(shardFiles[s]) : s \in Shards}
    BY <1>1 DEF Stored
  <1>3. Sent = E!Range(sent)
    BY DEF Sent, E!Range
  <1>4. E!IsInjective(sent)
    BY DEF StreamInv, SentOnce, E!IsInjective
  <1>5. Sent \subseteq Mine /\ (stage = "live" /\ ~replayBroke => Sent = Mine)
    BY DEF StreamInv, SentOnce, NoneOverlooked
  <1> QED
    BY <1>2, <1>3, <1>4, <1>5 DEF E!EachEventOnce, Mine

\* Whatever is appended while a stream replays the log, its reader gets no
\* event twice, none of another owner, and in the end all there are.
THEOREM StreamSendsOnce == E!Spec => []EachEventOnce
  <1>1. E!Spec => []StreamInv
    BY StreamInitInv, StreamStepInv, PTL DEF E!Spec
  <1> QED
    BY <1>1, StreamInvOnce, PTL

----------------------------------------------------------------------------
(* The task record and its replay.                                         *)

TasksTypeOK ==
    /\ live \in T!TaskRecord /\ rebuilt \in T!TaskRecord
    /\ running \subseteq Nodes /\ attempts \in [Nodes -> Nat]

\* The rebuilt record is completed too early, or agrees with the live one; a
\* failure brings them together again.
RecordsTogether ==
    /\ live.doneNodes = rebuilt.doneNodes /\ live.failedAttempt = rebuilt.failedAttempt
    /\ \/ rebuilt.status = live.status
       \/ rebuilt.status = "completed" /\ live.status \notin T!Terminal

TasksInv == TasksTypeOK /\ RecordsTogether

\* The count of the instance is the library's.
LEMMA CountIsCardinality == \A X : T!Cardinality(X) = Cardinality(X)
  BY Zenon DEF T!Cardinality, Cardinality

\* An attempt that starts, on both records.
LEMMA StartedStep ==
    ASSUME TasksInv, NEW n \in Nodes, T!Started(n)
    PROVE  TasksInv'
  <1>1. /\ live' = T!MarkRunning(live, attempts[n] + 1)
        /\ rebuilt' = T!MarkRunning(rebuilt, attempts[n] + 1)
    BY DEF T!Started, T!NodeStarted
  <1>2. running' \subseteq Nodes /\ attempts' \in [Nodes -> Nat]
    BY DEF TasksInv, TasksTypeOK, T!Started
  <1>3. RecordsTogether' /\ live' \in T!TaskRecord /\ rebuilt' \in T!TaskRecord
    BY <1>1 DEF TasksInv, TasksTypeOK, RecordsTogether, T!TaskRecord, T!TaskStatus, T!Terminal,
                T!MarkRunning, T!IsTransitional
  <1> QED
    BY <1>2, <1>3 DEF TasksInv, TasksTypeOK

\* A node that completes completes the live record only if it is the last one,
\* and the rebuilt record in any case.
LEMMA CompletedStep ==
    ASSUME TasksInv, NEW n \in Nodes, T!Completed(n)
    PROVE  TasksInv'
  <1> DEFINE done == live.doneNodes \cup {n}
             liveDone == [live EXCEPT !.doneNodes = done]
             rebuiltDone == [rebuilt EXCEPT !.doneNodes = done]
  <1>1. /\ live \in T!TaskRecord /\ rebuilt \in T!TaskRecord /\ RecordsTogether
        /\ live.doneNodes \subseteq Nodes
    BY DEF TasksInv, TasksTypeOK, T!TaskRecord
  <1>2. /\ liveDone \in T!TaskRecord /\ rebuiltDone \in T!TaskRecord
        /\ liveDone.doneNodes = done /\ rebuiltDone.doneNodes = done
        /\ liveDone.status = live.status /\ rebuiltDone.status = rebuilt.status
        /\ liveDone.failedAttempt = live.failedAttempt
        /\ rebuiltDone.failedAttempt = rebuilt.failedAttempt
    BY <1>1 DEF T!TaskRecord
  <1>3. Cardinality(done) >= 1
    <2>1. IsFiniteSet(done)
      BY <1>1, NodesAssumption, FS_Subset
    <2>2. Cardinality(done) \in Nat /\ (Cardinality(done) = 0 <=> done = {})
      BY <2>1, FS_EmptySet, FS_CardinalityType
    <2> QED
      BY <2>2
  <1>4. /\ live' = IF Cardinality(done) >= Cardinality(Nodes) THEN T!MarkCompleted(liveDone)
                   ELSE liveDone
        /\ rebuilt' = T!MarkCompleted(rebuiltDone)
        /\ running' \subseteq Nodes /\ attempts' = attempts
    <2>1. /\ live' = T!NodeCompleted(live, n, Cardinality(Nodes))
          /\ rebuilt' = T!NodeCompleted(rebuilt, n, 1)
          /\ running' = running \ {n} /\ attempts' = attempts /\ running \subseteq Nodes
      BY CountIsCardinality DEF T!Completed, T!LiveExpected, T!RebuiltExpected, TasksInv, TasksTypeOK
    <2>2. [live EXCEPT !.doneNodes = @ \cup {n}] = liveDone
      OBVIOUS
    <2>3. [rebuilt EXCEPT !.doneNodes = @ \cup {n}] = rebuiltDone
      BY <1>1 DEF RecordsTogether
    <2> HIDE DEF liveDone, rebuiltDone, done
    <2>4. live' = IF Cardinality(done) >= Cardinality(Nodes) THEN T!MarkCompleted(liveDone)
                  ELSE liveDone
      BY <1>2, <2>1, <2>2, CountIsCardinality, Zenon DEF T!NodeCompleted
    <2>5. rebuilt' = IF Cardinality(done) >= 1 THEN T!MarkCompleted(rebuiltDone) ELSE rebuiltDone
      BY <1>2, <2>1, <2>3, CountIsCardinality, Zenon DEF T!NodeCompleted
    <2> QED
      BY <1>3, <2>1, <2>4, <2>5
  <1> HIDE DEF liveDone, rebuiltDone, done
  <1>5. RecordsTogether' /\ live' \in T!TaskRecord /\ rebuilt' \in T!TaskRecord
    BY <1>1, <1>2, <1>4 DEF RecordsTogether, T!TaskRecord, T!TaskStatus, T!Terminal,
                T!MarkCompleted, T!IsTransitional
  <1> QED
    BY <1>4, <1>5 DEF TasksInv, TasksTypeOK

\* A failure is the last word on both records, unless they are cancelled.
LEMMA FailedStep ==
    ASSUME TasksInv, NEW n \in Nodes, T!Failed(n)
    PROVE  TasksInv'
  <1>1. running' \subseteq Nodes /\ attempts' = attempts /\ attempts[n] \in Nat
    BY DEF TasksInv, TasksTypeOK, T!Failed
  <1>2. PICK reason \in {"crash", "budget_paused", "cancelled"} :
            /\ live' = T!NodeFailed(live, reason, attempts[n])
            /\ rebuilt' = T!NodeFailed(rebuilt, reason, attempts[n])
    BY DEF T!Failed
  <1>3. CASE reason = "budget_paused"
    <2>1. live' = T!MarkPaused(live) /\ rebuilt' = T!MarkPaused(rebuilt)
      BY <1>2, <1>3 DEF T!NodeFailed
    <2> QED
      BY <1>1, <2>1 DEF TasksInv, TasksTypeOK, RecordsTogether, T!TaskRecord, T!TaskStatus,
                  T!Terminal, T!MarkPaused, T!IsTransitional
  <1>4. CASE reason = "cancelled"
    <2>1. live' = T!MarkCancelled(live) /\ rebuilt' = T!MarkCancelled(rebuilt)
      BY <1>2, <1>4 DEF T!NodeFailed
    <2> QED
      BY <1>1, <2>1 DEF TasksInv, TasksTypeOK, RecordsTogether, T!TaskRecord, T!TaskStatus,
                  T!Terminal, T!MarkCancelled
  <1>5. CASE reason = "crash"
    <2>1. live' = T!MarkFailed(live, attempts[n]) /\ rebuilt' = T!MarkFailed(rebuilt, attempts[n])
      BY <1>2, <1>5 DEF T!NodeFailed
    <2> QED
      BY <1>1, <2>1 DEF TasksInv, TasksTypeOK, RecordsTogether, T!TaskRecord, T!TaskStatus,
                  T!Terminal, T!MarkFailed
  <1> QED
    BY <1>3, <1>4, <1>5

\* A budget break or a request for an approval reaches both records.
LEMMA SideEventStep ==
    ASSUME TasksInv, T!SideEvent
    PROVE  TasksInv'
  BY DEF T!SideEvent, T!BudgetExceeded, T!ApprovalRequested, T!MarkPaused, T!MarkWaitingApproval,
         T!IsTransitional, TasksInv, TasksTypeOK, RecordsTogether, T!TaskRecord, T!TaskStatus,
         T!Terminal

\* A task that has settled is shown as settled, and how, after a restart.
THEOREM SettledTasksSurvive == T!Spec => []SettledTaskSurvives
  <1>1. T!Init => TasksInv
    BY DEF T!Init, T!NewTask, TasksInv, TasksTypeOK, RecordsTogether, T!TaskRecord, T!TaskStatus
  <1>2. TasksInv /\ [T!Next]_T!vars => TasksInv'
    <2> SUFFICES ASSUME TasksInv, [T!Next]_T!vars PROVE TasksInv'
      OBVIOUS
    <2>1. CASE UNCHANGED T!vars
      BY <2>1 DEF T!vars, TasksInv, TasksTypeOK, RecordsTogether
    <2> QED
      BY <2>1, StartedStep, CompletedStep, FailedStep, SideEventStep DEF T!Next
  <1>3. TasksInv => SettledTaskSurvives
    BY DEF TasksInv, RecordsTogether, SettledTaskSurvives, T!SettledTaskSurvives
  <1> QED
    BY <1>1, <1>2, <1>3, PTL DEF T!Spec

----------------------------------------------------------------------------
(* The secrets.                                                            *)

Envelope == [value : Values, key : Nat]

\* A call of the store, by what it is to do and where it awaits.
SetCall ==
    [op : {"set"}, at : {"start", "newkey", "bin", "meta", "index", "write"},
     slot : S!Slots, value : Values, key : Nat \cup {Absent}, index : SUBSET S!Slots]
DeleteCall ==
    [op : {"delete"}, at : {"start", "clear", "meta", "index", "write"},
     slot : S!Slots, value : {Absent}, key : Nat \cup {Absent}, index : SUBSET S!Slots]
GetCall ==
    [op : {"get"}, at : {"start"},
     slot : S!Slots, value : {Absent}, key : Nat \cup {Absent}, index : SUBSET S!Slots]
\* A get that has found an envelope and has still to open it.
OpenCall ==
    [op : {"get"}, at : {"load", "newkey", "decrypt"},
     slot : S!Slots, value : Envelope, key : Nat \cup {Absent}, index : SUBSET S!Slots]
SecretCall == SetCall \cup DeleteCall \cup GetCall \cup OpenCall

SecretsTypeOK ==
    /\ held \in [S!Slots -> Envelope \cup {Absent}] /\ listed \in [S!Slots -> BOOLEAN]
    /\ secretCalls \in [Callers -> SecretCall \cup {S!None}]
    /\ keysMade \in Nat /\ keysWritten \in Nat

\* What the envelopes are sealed with, as long as one key was made.
Sealing == IF backend = "aes-gcm" THEN keyFile ELSE 0

KeysKnown ==
    /\ IF keysWritten = 0 THEN keyFile = Absent ELSE keyFile \in Nat
    /\ aesKey \in {Absent, keyFile}

\* What is held was set, and so is what a call brings or has found; and a call
\* has the key its next step needs.
SlotKnown(s) ==
    held[s] # Absent =>
        /\ [slot |-> s, value |-> held[s].value] \in written
        /\ keysWritten <= 1 => held[s].key = Sealing

CallKnown(c) ==
    LET call == secretCalls[c]
    IN  /\ call \in SetCall => [slot |-> call.slot, value |-> call.value] \in written
        /\ call \in OpenCall =>
              /\ [slot |-> call.slot, value |-> call.value.value] \in written
              /\ keysWritten <= 1 => call.value.key = Sealing
        /\ call \in SecretCall /\ call.at = "newkey" => backend = "aes-gcm" /\ call.key \in Nat
        /\ call \in SecretCall /\ call.at \in {"bin", "decrypt"} =>
              call.key \in Nat /\ (keysWritten <= 1 => call.key = Sealing)

SecretsKnown ==
    /\ KeysKnown
    /\ \A s \in S!Slots : SlotKnown(s)
    /\ \A c \in Callers : CallKnown(c)
    /\ \A a \in answers :
          a.value = Absent \/ a \in written \/ (a.value = Bad /\ keysWritten > 1)

\* Calls that come one after the other: the one under way has changed what is
\* held and has still to change what is listed, or neither.
Between(c) == secretCalls[c] # S!None /\ secretCalls[c].at \in {"meta", "index", "write"}

InTurn ==
    /\ \A c, d \in Callers : secretCalls[c] # S!None /\ secretCalls[d] # S!None => c = d
    /\ \A s \in S!Slots : \/ listed[s] <=> held[s] # Absent
                          \/ \E c \in Callers : Between(c) /\ secretCalls[c].slot = s
    /\ \A c \in Callers :
          Between(c) =>
              /\ held[secretCalls[c].slot] # Absent <=> secretCalls[c].op = "set"
              /\ secretCalls[c].at = "write" =>
                    secretCalls[c].index = S!List(secretCalls[c].slot[1])

SecretsInv == SecretsTypeOK /\ SecretsKnown /\ (disturbed \/ InTurn)

\* None of what a call may be is no call.
LEMMA CallsAreCalls ==
    /\ S!None \notin SecretCall
    /\ \A call \in SecretCall :
          /\ call.slot \in S!Slots /\ call.index \subseteq S!Slots
          /\ call.op \in {"set", "get", "delete"}
          /\ call \in SetCall <=> call.op = "set"
          /\ call \in DeleteCall <=> call.op = "delete"
          /\ call \in OpenCall <=> call.op = "get" /\ call.at # "start"
  <1>1. S!None.op = Absent
    BY DEF S!None
  <1>2. \A call \in SecretCall : call.op \in {"set", "get", "delete"}
    BY DEF SecretCall, SetCall, DeleteCall, GetCall, OpenCall
  <1>3. S!None \notin SecretCall
    BY <1>1, <1>2, SecretsAssumption
  <1>4. \A call \in SecretCall :
          /\ call.slot \in S!Slots /\ call.index \subseteq S!Slots
          /\ call \in SetCall <=> call.op = "set"
          /\ call \in DeleteCall <=> call.op = "delete"
          /\ call \in OpenCall <=> call.op = "get" /\ call.at # "start"
    BY DEF SecretCall, SetCall, DeleteCall, GetCall, OpenCall
  <1> QED
    BY <1>2, <1>3, <1>4

\* A call at one of its awaits is one.
LEMMA AtCall ==
    ASSUME SecretsTypeOK, NEW c \in Callers, NEW op \in {"set", "get", "delete"}, NEW at,
           S!At(c, op, at)
    PROVE  /\ secretCalls[c] \in SecretCall /\ secretCalls[c] # S!None
           /\ secretCalls[c].op = op /\ secretCalls[c].at = at
           /\ S!Slot(c) \in S!Slots /\ S!Slot(c) = secretCalls[c].slot
  <1>1. S!None.op = Absent
    BY DEF S!None
  <1>2. secretCalls[c].op = op /\ secretCalls[c].at = at
    BY DEF S!At
  <1>3. secretCalls[c] # S!None
    BY <1>1, <1>2, SecretsAssumption
  <1> QED
    BY <1>2, <1>3, CallsAreCalls DEF SecretsTypeOK, S!Slot

\* A step of one call: the others stay what they are, and know what they knew.
LEMMA OneCall ==
    ASSUME SecretsTypeOK, NEW c \in Callers, NEW call \in SecretCall \cup {S!None},
           secretCalls' = [secretCalls EXCEPT ![c] = call]
    PROVE  /\ secretCalls' \in [Callers -> SecretCall \cup {S!None}]
           /\ secretCalls'[c] = call
           /\ \A d \in Callers : d # c => secretCalls'[d] = secretCalls[d]
  BY DEF SecretsTypeOK

\* A call begins.
LEMMA BeginsStep ==
    ASSUME SecretsInv, NEW c \in Callers, NEW slot \in S!Slots,
           NEW value,
           \/ value \in Values /\ S!Set(c, slot, value)
           \/ S!Delete(c, slot)
           \/ \E tenant \in SecretTenants : S!GetFromRef(c, tenant, slot)
    PROVE  SecretsInv'
  <1> DEFINE call(op, v) == [op |-> op, at |-> "start", slot |-> slot, value |-> v,
                             key |-> Absent, index |-> {}]
  <1>1. PICK op \in {"set", "get", "delete"}, v \in Values \cup {Absent} :
          /\ S!Begins(c, op, slot, v)
          /\ op = "set" => v \in Values /\ written' = written \cup {[slot |-> slot, value |-> v]}
          /\ op # "set" => v = Absent /\ written' = written
          /\ UNCHANGED <<backend, held, listed, keyFile, aesKey, keysMade, keysWritten, answers>>
    BY DEF S!Set, S!Delete, S!GetFromRef, S!keys
  <1>2. /\ secretCalls[c] = S!None /\ secretCalls' = [secretCalls EXCEPT ![c] = call(op, v)]
        /\ disturbed' = (disturbed \/ \E d \in Callers : secretCalls[d] # S!None)
    BY <1>1 DEF S!Begins
  <1>3. call(op, v) \in SecretCall
    BY <1>1 DEF SecretCall, SetCall, DeleteCall, GetCall
  <1>4. /\ secretCalls' \in [Callers -> SecretCall \cup {S!None}]
        /\ secretCalls'[c] = call(op, v)
        /\ \A d \in Callers : d # c => secretCalls'[d] = secretCalls[d]
    BY <1>2, <1>3, OneCall DEF SecretsInv
  <1>5. SecretsTypeOK'
    BY <1>1, <1>4 DEF SecretsInv, SecretsTypeOK
  <1>6. CallKnown(c)'
    BY <1>1, <1>3, <1>4, CallsAreCalls DEF CallKnown
  <1>7. SecretsKnown'
    <2>1. /\ UNCHANGED <<backend, held, keyFile, aesKey, keysWritten, answers>>
          /\ written \subseteq written'
      BY <1>1
    <2>2. KeysKnown'
      BY <2>1 DEF SecretsInv, SecretsKnown, KeysKnown
    <2>3. ASSUME NEW s \in S!Slots PROVE SlotKnown(s)'
      BY <2>1 DEF SecretsInv, SecretsKnown, SlotKnown, Sealing
    <2>4. ASSUME NEW d \in Callers, d # c PROVE CallKnown(d)'
      <3>1. secretCalls'[d] = secretCalls[d] /\ CallKnown(d)
        BY <1>4, <2>4 DEF SecretsInv, SecretsKnown
      <3> QED
        BY <2>1, <3>1 DEF CallKnown, Sealing
    <2>5. \A a \in answers :
            a.value = Absent \/ a \in written' \/ (a.value = Bad /\ keysWritten > 1)
      BY <2>1 DEF SecretsInv, SecretsKnown
    <2> QED
      BY <1>6, <2>1, <2>2, <2>3, <2>4, <2>5 DEF SecretsKnown
  <1>8. ASSUME ~disturbed' PROVE InTurn'
    <2>1. InTurn /\ \A d \in Callers : secretCalls[d] = S!None
      BY <1>2, <1>8 DEF SecretsInv
    <2>2. \A d \in Callers : ~Between(d) /\ ~Between(d)'
      BY <2>1, <1>4 DEF Between
    <2> QED
      BY <1>1, <1>4, <2>1, <2>2 DEF InTurn
  <1> QED
    BY <1>5, <1>7, <1>8 DEF SecretsInv

\* A call goes on, or ends, and leaves what is held and listed as it is.
LEMMA GoesOn ==
    ASSUME SecretsInv, NEW c \in Callers, secretCalls[c] # S!None,
           NEW call \in SecretCall \cup {S!None},
           secretCalls' = [secretCalls EXCEPT ![c] = call],
           UNCHANGED <<backend, held, listed, keyFile, keysWritten, written, disturbed>>,
           aesKey' \in {Absent, keyFile}, keysMade' \in Nat,
           CallKnown(c)',
           \A a \in answers' \ answers :
               a.value = Absent \/ a \in written \/ (a.value = Bad /\ keysWritten > 1),
           ~Between(c), ~Between(c)'
    PROVE  SecretsInv'
  <1>1. /\ secretCalls' \in [Callers -> SecretCall \cup {S!None}]
        /\ secretCalls'[c] = call
        /\ \A d \in Callers : d # c => secretCalls'[d] = secretCalls[d]
    BY OneCall DEF SecretsInv
  <1>2. SecretsTypeOK'
    BY <1>1 DEF SecretsInv, SecretsTypeOK
  <1>3. SecretsKnown'
    BY <1>1 DEF SecretsInv, SecretsKnown, KeysKnown, SlotKnown, CallKnown, Sealing
  <1>4. ASSUME ~disturbed' PROVE InTurn'
    <2>1. InTurn
      BY <1>4 DEF SecretsInv
    <2>2. \A d \in Callers : secretCalls'[d] # S!None => secretCalls[d] # S!None
      BY <1>1
    <2>3. \A d \in Callers : (Between(d) <=> Between(d)') /\ (Between(d) => d # c)
      BY <1>1 DEF Between
    <2>4. \A t : S!List(t)' = S!List(t)
      BY DEF S!List
    <2> QED
      BY <1>1, <2>1, <2>2, <2>3, <2>4 DEF InTurn
  <1> QED
    BY <1>2, <1>3, <1>4 DEF SecretsInv

\* A set or a delete has changed what is held, and has the list still to change.
LEMMA HoldsNow ==
    ASSUME SecretsInv, NEW c \in Callers, NEW op \in {"set", "delete"}, NEW from, S!At(c, op, from),
           from \notin {"meta", "index", "write"},
           NEW what \in Envelope \cup {Absent}, what # Absent <=> op = "set",
           held' = [held EXCEPT ![S!Slot(c)] = what],
           NEW at \in {"meta", "index"}, S!Goes(c, at),
           UNCHANGED <<backend, listed, keyFile, aesKey, keysMade, keysWritten, written, answers,
                       disturbed>>,
           what # Absent => /\ [slot |-> S!Slot(c), value |-> what.value] \in written
                            /\ keysWritten <= 1 => what.key = Sealing
    PROVE  SecretsInv'
  <1> DEFINE call == [secretCalls[c] EXCEPT !.at = at]
  <1>1. /\ secretCalls[c] \in SecretCall /\ secretCalls[c] # S!None
        /\ secretCalls[c].op = op /\ secretCalls[c].at = from
        /\ S!Slot(c) \in S!Slots /\ S!Slot(c) = secretCalls[c].slot
    BY AtCall DEF SecretsInv
  <1>2. /\ call \in SecretCall /\ call.at = at /\ call.op = op /\ call.slot = S!Slot(c)
        /\ call.value = secretCalls[c].value
        /\ call \in SetCall <=> secretCalls[c] \in SetCall
        /\ call \notin OpenCall
    <2>1. secretCalls[c] \in SetCall \cup DeleteCall
      BY <1>1, CallsAreCalls
    <2>2. call \in SecretCall /\ call.at = at /\ call.op = op /\ call.slot = secretCalls[c].slot
          /\ call.value = secretCalls[c].value
      BY <1>1, <2>1 DEF SecretCall, SetCall, DeleteCall
    <2> QED
      BY <1>1, <2>2, CallsAreCalls
  <1>3. secretCalls' = [secretCalls EXCEPT ![c] = call]
    BY DEF S!Goes
  <1> HIDE DEF call
  <1>4. /\ secretCalls' \in [Callers -> SecretCall \cup {S!None}]
        /\ secretCalls'[c] = call
        /\ \A d \in Callers : d # c => secretCalls'[d] = secretCalls[d]
    BY <1>2, <1>3, OneCall DEF SecretsInv
  <1>5. SecretsTypeOK'
    BY <1>4 DEF SecretsInv, SecretsTypeOK
  <1>6. \A s \in S!Slots : held'[s] = IF s = S!Slot(c) THEN what ELSE held[s]
    BY DEF SecretsInv, SecretsTypeOK
  <1>7. CallKnown(c)'
    BY <1>1, <1>2, <1>4 DEF SecretsInv, SecretsKnown, CallKnown
  <1>8. SecretsKnown'
    <2>1. \A d \in Callers : CallKnown(d)'
      BY <1>4, <1>7 DEF SecretsInv, SecretsKnown, CallKnown, Sealing
    <2>2. \A s \in S!Slots : SlotKnown(s)'
      BY <1>6 DEF SecretsInv, SecretsKnown, SlotKnown, Sealing
    <2> QED
      BY <2>1, <2>2 DEF SecretsInv, SecretsKnown, KeysKnown
  <1>9. ASSUME ~disturbed' PROVE InTurn'
    <2>1. InTurn
      BY <1>9 DEF SecretsInv
    <2>2. \A d \in Callers : d # c => secretCalls[d] = S!None /\ secretCalls'[d] = S!None
      BY <1>1, <1>4, <2>1 DEF InTurn
    <2>3. \A s \in S!Slots : listed[s] <=> held[s] # Absent
      BY <1>1, <2>1, <2>2 DEF InTurn, Between
    <2>4. Between(c)'
      BY <1>2, <1>4, CallsAreCalls DEF Between
    <2>5. \A s \in S!Slots :
            \/ listed'[s] <=> held'[s] # Absent
            \/ \E d \in Callers : Between(d)' /\ secretCalls'[d].slot = s
      BY <1>2, <1>4, <1>6, <2>3, <2>4
    <2>6. \A d \in Callers : Between(d)' =>
              /\ held'[secretCalls'[d].slot] # Absent <=> secretCalls'[d].op = "set"
              /\ secretCalls'[d].at # "write"
      BY <1>1, <1>2, <1>4, <1>6, <2>2 DEF Between
    <2>7. \A d, e \in Callers : secretCalls'[d] # S!None /\ secretCalls'[e] # S!None => d = e
      BY <2>2
    <2> QED
      BY <2>5, <2>6, <2>7 DEF InTurn
  <1> QED
    BY <1>5, <1>8, <1>9 DEF SecretsInv

\* The list is changed, for the tenant of the call at most, and the call is over.
LEMMA ListsNow ==
    ASSUME SecretsInv, NEW c \in Callers, secretCalls[c] \in SecretCall, S!Ends(c),
           UNCHANGED <<backend, keyFile, aesKey, keysMade, keysWritten, written, answers, disturbed>>,
           listed' \in [S!Slots -> BOOLEAN], held' \in [S!Slots -> Envelope \cup {Absent}],
           \A s \in S!Slots : SlotKnown(s)',
           ~disturbed /\ InTurn => \A s \in S!Slots : listed'[s] <=> held'[s] # Absent
    PROVE  SecretsInv'
  <1>1. /\ secretCalls' \in [Callers -> SecretCall \cup {S!None}]
        /\ secretCalls'[c] = S!None
        /\ \A d \in Callers : d # c => secretCalls'[d] = secretCalls[d]
    BY OneCall DEF SecretsInv, S!Ends
  <1>2. SecretsTypeOK'
    BY <1>1 DEF SecretsInv, SecretsTypeOK
  <1>3. CallKnown(c)'
    BY <1>1, CallsAreCalls DEF CallKnown, SecretCall
  <1>4. SecretsKnown'
    BY <1>1, <1>3 DEF SecretsInv, SecretsKnown, KeysKnown, CallKnown, Sealing
  <1>5. ASSUME ~disturbed' PROVE InTurn'
    <2>1. ~disturbed /\ InTurn
      BY <1>5 DEF SecretsInv
    <2>2. \A d \in Callers : secretCalls'[d] = S!None
      BY <1>1, <2>1, CallsAreCalls DEF InTurn
    <2> QED
      BY <2>1, <2>2 DEF InTurn, Between
  <1> QED
    BY <1>2, <1>4, <1>5 DEF SecretsInv

\* A call that is cut short leaves what it has held or not, and nothing else in doubt.
LEMMA CutShort ==
    ASSUME SecretsInv, NEW c \in Callers, secretCalls[c] \in SecretCall, S!Ends(c),
           UNCHANGED <<backend, listed, keyFile, aesKey, keysMade, keysWritten, written, answers>>,
           held' \in [S!Slots -> Envelope \cup {Absent}],
           \A s \in S!Slots : SlotKnown(s)',
           disturbed'
    PROVE  SecretsInv'
  <1>1. /\ secretCalls' \in [Callers -> SecretCall \cup {S!None}]
        /\ secretCalls'[c] = S!None
        /\ \A d \in Callers : d # c => secretCalls'[d] = secretCalls[d]
    BY OneCall DEF SecretsInv, S!Ends
  <1>2. SecretsTypeOK'
    BY <1>1 DEF SecretsInv, SecretsTypeOK
  <1>3. CallKnown(c)'
    BY <1>1, CallsAreCalls DEF CallKnown, SecretCall
  <1>4. SecretsKnown'
    BY <1>1, <1>3 DEF SecretsInv, SecretsKnown, KeysKnown, CallKnown, Sealing
  <1> QED
    BY <1>2, <1>4 DEF SecretsInv

\* Beside a call that has changed nothing, what is held is listed.
LEMMA NoneBetween ==
    ASSUME InTurn, NEW c \in Callers, secretCalls[c] # S!None, ~Between(c)
    PROVE  \A s \in S!Slots : listed[s] <=> held[s] # Absent
  <1>1. \A d \in Callers : ~Between(d)
    BY DEF InTurn, Between
  <1> QED
    BY <1>1 DEF InTurn

\* The steps of the backend in memory: each call is one.
LEMMA MemoryStep ==
    ASSUME SecretsInv, NEW c \in Callers, S!MemoryCall(c)
    PROVE  SecretsInv'
  <1> USE DEF S!keys, S!told
  <1>1. CASE S!At(c, "set", "start") /\ S!MemoryCall(c) /\ secretCalls[c].op = "set"
    <2> DEFINE entry == [value |-> secretCalls[c].value, key |-> 0]
    <2>1. /\ secretCalls[c] \in SecretCall /\ S!Slot(c) \in S!Slots /\ S!Slot(c) = secretCalls[c].slot
          /\ secretCalls[c] \in SetCall
      BY <1>1, AtCall, CallsAreCalls DEF SecretsInv
    <2>2. /\ held' = [held EXCEPT ![S!Slot(c)] = entry]
          /\ listed' = [listed EXCEPT ![S!Slot(c)] = TRUE]
          /\ S!Ends(c) /\ answers' = answers /\ backend = "memory"
          /\ UNCHANGED <<backend, keyFile, aesKey, keysMade, keysWritten, callsMade, secretFaults,
                         written, disturbed>>
      BY <1>1, SecretsAssumption DEF S!MemoryCall, S!At
    <2>3. entry \in Envelope /\ entry # Absent /\ entry.key = 0 /\ entry.value = secretCalls[c].value
      BY <2>1, SecretsAssumption DEF SetCall, Envelope
    <2>4. [slot |-> S!Slot(c), value |-> entry.value] \in written
      BY <2>1 DEF SecretsInv, SecretsKnown, CallKnown
    <2> HIDE DEF entry
    <2>5. \A s \in S!Slots : /\ held'[s] = IF s = S!Slot(c) THEN entry ELSE held[s]
                             /\ listed'[s] = IF s = S!Slot(c) THEN TRUE ELSE listed[s]
      BY <2>2 DEF SecretsInv, SecretsTypeOK
    <2>6. /\ held' \in [S!Slots -> Envelope \cup {Absent}] /\ listed' \in [S!Slots -> BOOLEAN]
      BY <2>2, <2>3 DEF SecretsInv, SecretsTypeOK
    <2>7. \A s \in S!Slots : SlotKnown(s)'
      BY <2>2, <2>3, <2>4, <2>5 DEF SecretsInv, SecretsKnown, SlotKnown, Sealing
    <2>8. ASSUME ~disturbed, InTurn, NEW s \in S!Slots PROVE listed'[s] <=> held'[s] # Absent
      <3>1. ~Between(c)
        BY <1>1 DEF Between, S!At
      <3> QED
        BY <2>1, <2>3, <2>5, <2>8, <3>1, NoneBetween, CallsAreCalls
    <2> QED
      BY <2>1, <2>2, <2>6, <2>7, <2>8, ListsNow
  <1>2. CASE S!At(c, "delete", "start") /\ S!MemoryCall(c) /\ secretCalls[c].op = "delete"
    <2>1. /\ secretCalls[c] \in SecretCall /\ S!Slot(c) \in S!Slots /\ S!Slot(c) = secretCalls[c].slot
      BY <1>2, AtCall DEF SecretsInv
    <2>2. /\ held' = [held EXCEPT ![S!Slot(c)] = Absent]
          /\ listed' = [listed EXCEPT ![S!Slot(c)] = FALSE]
          /\ S!Ends(c) /\ answers' = answers
          /\ UNCHANGED <<backend, keyFile, aesKey, keysMade, keysWritten, callsMade, secretFaults,
                         written, disturbed>>
      BY <1>2, SecretsAssumption DEF S!MemoryCall, S!At
    <2>3. \A s \in S!Slots : /\ held'[s] = IF s = S!Slot(c) THEN Absent ELSE held[s]
                             /\ listed'[s] = IF s = S!Slot(c) THEN FALSE ELSE listed[s]
      BY <2>2 DEF SecretsInv, SecretsTypeOK
    <2>4. /\ held' \in [S!Slots -> Envelope \cup {Absent}] /\ listed' \in [S!Slots -> BOOLEAN]
      BY <2>2 DEF SecretsInv, SecretsTypeOK
    <2>5. \A s \in S!Slots : SlotKnown(s)'
      BY <2>2, <2>3 DEF SecretsInv, SecretsKnown, SlotKnown, Sealing
    <2>6. ASSUME ~disturbed, InTurn, NEW s \in S!Slots PROVE listed'[s] <=> held'[s] # Absent
      <3>1. ~Between(c)
        BY <1>2 DEF Between, S!At
      <3> QED
        BY <2>1, <2>3, <2>6, <3>1, NoneBetween, CallsAreCalls
    <2> QED
      BY <2>1, <2>2, <2>4, <2>5, <2>6, ListsNow
  <1>3. CASE S!At(c, "get", "start") /\ S!MemoryCall(c) /\ secretCalls[c].op = "get"
    <2>1. /\ secretCalls[c] \in SecretCall /\ secretCalls[c] # S!None
          /\ S!Slot(c) \in S!Slots
      BY <1>3, AtCall DEF SecretsInv
    <2>2. /\ UNCHANGED <<held, listed>> /\ S!Ends(c)
          /\ answers' = answers \cup {[slot |-> S!Slot(c),
                 value |-> IF held[S!Slot(c)] = Absent THEN Absent ELSE held[S!Slot(c)].value]}
          /\ UNCHANGED <<backend, keyFile, aesKey, keysMade, keysWritten, callsMade, secretFaults,
                         written, disturbed>>
      BY <1>3 DEF S!MemoryCall, S!At, S!Answer
    <2>3. \A a \in answers' \ answers : a.value = Absent \/ a \in written
      BY <2>1, <2>2 DEF SecretsInv, SecretsKnown, SlotKnown
    <2>4. ~Between(c)
      BY <1>3 DEF Between, S!At
    <2>5. secretCalls' = [secretCalls EXCEPT ![c] = S!None]
      BY <2>2 DEF S!Ends
    <2>6. ~Between(c)' /\ CallKnown(c)'
      BY <2>5, CallsAreCalls DEF Between, CallKnown, SecretCall, SecretsInv, SecretsTypeOK
    <2>7. aesKey' \in {Absent, keyFile} /\ keysMade' \in Nat
      BY <2>2 DEF SecretsInv, SecretsKnown, KeysKnown, SecretsTypeOK
    <2> QED
      BY <2>1, <2>2, <2>3, <2>4, <2>5, <2>6, <2>7, GoesOn
  <1> QED
    BY <1>1, <1>2, <1>3 DEF S!MemoryCall, S!At

\* The key is looked for: in memory, on disk, or a new one is made.
LEMMA LoadKeyStep ==
    ASSUME SecretsInv, NEW c \in Callers,
           NEW op \in {"set", "get"}, NEW from, NEW to,
           \/ op = "set" /\ from = "start" /\ to = "bin"
           \/ op = "get" /\ from = "load" /\ to = "decrypt",
           S!LoadKey(c, op, from, to)
    PROVE  SecretsInv'
  <1> USE DEF S!keys, S!told
  <1>1. /\ secretCalls[c] \in SecretCall /\ secretCalls[c] # S!None
        /\ secretCalls[c].op = op /\ secretCalls[c].at = from
    BY AtCall DEF SecretsInv, S!LoadKey
  <1>2. /\ backend \in {"aes-gcm", "dpapi"}
        /\ UNCHANGED <<backend, held, listed, keyFile, keysWritten, callsMade, secretFaults,
                       written, disturbed, answers>>
    BY DEF S!LoadKey, S!InFiles
  <1>3. PICK key \in Nat, at \in {to, "newkey"} :
          /\ secretCalls' = [secretCalls EXCEPT ![c] = [@ EXCEPT !.key = key, !.at = at]]
          /\ at = "newkey" => backend = "aes-gcm"
          /\ at = to => (keysWritten <= 1 => key = Sealing)
          /\ aesKey' \in {aesKey, keyFile} /\ keysMade' \in Nat
    <2>1. KeysKnown /\ keysMade \in Nat
      BY DEF SecretsInv, SecretsKnown, SecretsTypeOK
    <2>2. CASE backend = "dpapi"
      BY <1>2, <2>1, <2>2 DEF S!LoadKey, S!KeyLoaded, Sealing
    <2>3. CASE backend # "dpapi" /\ aesKey # Absent
      <3>1. aesKey = keyFile /\ aesKey \in Nat
        BY <2>1, <2>3 DEF KeysKnown
      <3>2. S!KeyLoaded(c, aesKey, to) /\ UNCHANGED <<aesKey, keysMade>>
        BY <1>2, <2>3 DEF S!LoadKey
      <3> QED
        BY <1>2, <2>1, <2>3, <3>1, <3>2 DEF S!KeyLoaded, Sealing
    <2>4. CASE backend # "dpapi" /\ aesKey = Absent /\ keyFile # Absent
      <3>1. keyFile \in Nat
        BY <2>1, <2>4 DEF KeysKnown
      <3>2. S!KeyLoaded(c, keyFile, to) /\ aesKey' = keyFile /\ UNCHANGED keysMade
        BY <1>2, <2>4 DEF S!LoadKey
      <3> QED
        BY <1>2, <2>1, <2>4, <3>1, <3>2 DEF S!KeyLoaded, Sealing
    <2>5. CASE backend # "dpapi" /\ aesKey = Absent /\ keyFile = Absent
      <3>1. S!KeyLoaded(c, keysMade + 1, "newkey") /\ keysMade' = keysMade + 1 /\ UNCHANGED aesKey
        BY <1>2, <2>5 DEF S!LoadKey
      <3>2. to # "newkey"
        OBVIOUS
      <3>3. backend = "aes-gcm" /\ keysMade + 1 \in Nat
        BY <1>2, <2>1, <2>5
      <3>4. secretCalls' = [secretCalls EXCEPT ![c] = [@ EXCEPT !.key = keysMade + 1, !.at = "newkey"]]
        BY <3>1 DEF S!KeyLoaded
      <3> QED
        BY <3>1, <3>2, <3>3, <3>4
    <2> QED
      BY <2>2, <2>3, <2>4, <2>5
  <1> DEFINE call == [secretCalls[c] EXCEPT !.key = key, !.at = at]
  <1>4. /\ call \in SecretCall /\ call.at = at /\ call.key = key /\ call.op = op
        /\ call.slot = secretCalls[c].slot /\ call.value = secretCalls[c].value
        /\ call \in SetCall <=> secretCalls[c] \in SetCall
        /\ call \in OpenCall <=> secretCalls[c] \in OpenCall
    <2>1. CASE op = "set"
      <3>1. secretCalls[c] \in SetCall
        BY <1>1, <2>1, CallsAreCalls
      <3>2. /\ call \in SetCall /\ call.at = at /\ call.key = key /\ call.op = op
            /\ call.slot = secretCalls[c].slot /\ call.value = secretCalls[c].value
        BY <1>1, <2>1, <3>1 DEF SetCall
      <3> QED
        BY <1>1, <2>1, <3>1, <3>2, CallsAreCalls DEF SecretCall
    <2>2. CASE op = "get"
      <3>1. secretCalls[c] \in OpenCall
        BY <1>1, <2>2, CallsAreCalls
      <3>2. /\ call \in OpenCall /\ call.at = at /\ call.key = key /\ call.op = op
            /\ call.slot = secretCalls[c].slot /\ call.value = secretCalls[c].value
        BY <1>1, <2>2, <3>1 DEF OpenCall
      <3> QED
        BY <1>1, <2>2, <3>1, <3>2, CallsAreCalls DEF SecretCall
    <2> QED
      BY <2>1, <2>2
  <1>5. secretCalls' = [secretCalls EXCEPT ![c] = call]
    BY <1>3
  <1> HIDE DEF call
  <1>6. secretCalls'[c] = call
    BY <1>5 DEF SecretsInv, SecretsTypeOK
  <1>7. ~Between(c) /\ ~Between(c)'
    BY <1>1, <1>4, <1>6 DEF Between
  <1>8. CallKnown(c)'
    <2>1. CallKnown(c)
      BY DEF SecretsInv, SecretsKnown
    <2>2. Sealing' = Sealing
      BY <1>2 DEF Sealing
    <2> QED
      BY <1>1, <1>2, <1>3, <1>4, <1>6, <2>1, <2>2 DEF CallKnown
  <1>9. aesKey' \in {Absent, keyFile}
    BY <1>3 DEF SecretsInv, SecretsKnown, KeysKnown
  <1>10. answers' \ answers = {}
    BY <1>2
  <1> QED
    BY <1>1, <1>2, <1>3, <1>4, <1>5, <1>7, <1>8, <1>9, <1>10, GoesOn

\* The key made is renamed in place: the first seals everything, as nothing was
\* sealed before it.
LEMMA KeyWrittenStep ==
    ASSUME SecretsInv, NEW c \in Callers, NEW op \in {"set", "get"}, NEW to,
           \/ op = "set" /\ to = "bin"
           \/ op = "get" /\ to = "decrypt",
           S!KeyWritten(c, op, to)
    PROVE  SecretsInv'
  <1> USE DEF S!keys, S!told
  <1> DEFINE key == secretCalls[c].key
             call == [secretCalls[c] EXCEPT !.at = to]
  <1>1. /\ secretCalls[c] \in SecretCall /\ secretCalls[c] # S!None
        /\ secretCalls[c].op = op /\ secretCalls[c].at = "newkey"
    BY AtCall DEF SecretsInv, S!KeyWritten
  <1>2. key \in Nat /\ backend = "aes-gcm" /\ key # Absent
    BY <1>1, SecretsAssumption DEF SecretsInv, SecretsKnown, CallKnown
  <1>3. /\ secretCalls' = [secretCalls EXCEPT ![c] = call]
        /\ keyFile' = key /\ aesKey' = key /\ keysWritten' = keysWritten + 1
        /\ UNCHANGED <<backend, held, listed, keysMade, callsMade, secretFaults, written, disturbed, answers>>
    BY DEF S!KeyWritten, S!Goes
  <1>4. /\ call \in SecretCall /\ call.at = to /\ call.key = key
        /\ call.slot = secretCalls[c].slot /\ call.value = secretCalls[c].value
        /\ call \in SetCall <=> secretCalls[c] \in SetCall
        /\ call \in OpenCall <=> secretCalls[c] \in OpenCall
    <2>1. CASE op = "set"
      <3>1. secretCalls[c] \in SetCall
        BY <1>1, <2>1, CallsAreCalls
      <3>2. /\ call \in SetCall /\ call.at = to /\ call.key = key /\ call.op = op
            /\ call.slot = secretCalls[c].slot /\ call.value = secretCalls[c].value
        BY <1>1, <2>1, <3>1 DEF SetCall
      <3> QED
        BY <1>1, <2>1, <3>1, <3>2, CallsAreCalls DEF SecretCall
    <2>2. CASE op = "get"
      <3>1. secretCalls[c] \in OpenCall
        BY <1>1, <2>2, CallsAreCalls
      <3>2. /\ call \in OpenCall /\ call.at = to /\ call.key = key /\ call.op = op
            /\ call.slot = secretCalls[c].slot /\ call.value = secretCalls[c].value
        BY <1>1, <2>2, <3>1 DEF OpenCall
      <3> QED
        BY <1>1, <2>2, <3>1, <3>2, CallsAreCalls DEF SecretCall
    <2> QED
      BY <2>1, <2>2
  <1> HIDE DEF call, key
  <1>5. /\ secretCalls' \in [Callers -> SecretCall \cup {S!None}]
        /\ secretCalls'[c] = call
        /\ \A d \in Callers : d # c => secretCalls'[d] = secretCalls[d]
    BY <1>3, <1>4, OneCall DEF SecretsInv
  <1>6. SecretsTypeOK'
    BY <1>2, <1>3, <1>5 DEF SecretsInv, SecretsTypeOK
  <1>7. Sealing' = key /\ KeysKnown'
    BY <1>2, <1>3 DEF Sealing, KeysKnown, SecretsInv, SecretsTypeOK
  <1>8. ASSUME keysWritten' <= 1
        PROVE  /\ \A s \in S!Slots : held[s] = Absent
               /\ \A d \in Callers : secretCalls[d] \in SecretCall =>
                     secretCalls[d].at \notin {"bin", "decrypt"} /\ secretCalls[d] \notin OpenCall
    <2>1. keysWritten = 0 /\ keyFile = Absent /\ Sealing = Absent
      BY <1>2, <1>3, <1>8 DEF SecretsInv, SecretsTypeOK, SecretsKnown, KeysKnown, Sealing
    <2>2. ASSUME NEW s \in S!Slots PROVE held[s] = Absent
      <3>1. SlotKnown(s)
        BY DEF SecretsInv, SecretsKnown
      <3>2. held[s] # Absent => held[s].key \in Nat
        BY DEF SecretsInv, SecretsTypeOK, Envelope
      <3> QED
        BY <2>1, <3>1, <3>2, SecretsAssumption DEF SlotKnown
    <2>3. ASSUME NEW d \in Callers, secretCalls[d] \in SecretCall
          PROVE  secretCalls[d].at \notin {"bin", "decrypt"} /\ secretCalls[d] \notin OpenCall
      <3>1. CallKnown(d)
        BY DEF SecretsInv, SecretsKnown
      <3>2. secretCalls[d] \in OpenCall => secretCalls[d].value.key \in Nat
        BY DEF OpenCall, Envelope
      <3> QED
        BY <2>1, <2>3, <3>1, <3>2, SecretsAssumption DEF CallKnown
    <2> QED
      BY <2>2, <2>3
  <1>9. CallKnown(c)'
    <2>1. CallKnown(c) /\ keysWritten \in Nat
      BY DEF SecretsInv, SecretsKnown, SecretsTypeOK
    <2> QED
      BY <1>1, <1>2, <1>3, <1>4, <1>5, <1>7, <1>8, <2>1 DEF CallKnown
  <1>10. ASSUME NEW d \in Callers, d # c PROVE CallKnown(d)'
    <2>1. CallKnown(d) /\ keysWritten \in Nat
      BY DEF SecretsInv, SecretsKnown, SecretsTypeOK
    <2>2. keysWritten' <= 1 => keysWritten <= 1
      BY <1>3, <2>1
    <2>3. secretCalls[d] \in OpenCall => secretCalls[d] \in SecretCall
      BY DEF SecretCall
    <2> QED
      BY <1>3, <1>5, <1>8, <1>10, <2>1, <2>2, <2>3 DEF CallKnown
  <1>11. SecretsKnown'
    <2>1. \A s \in S!Slots : SlotKnown(s)'
      <3>1. keysWritten' <= 1 => keysWritten <= 1
        BY <1>3 DEF SecretsInv, SecretsTypeOK
      <3> QED
        BY <1>3, <1>8, <3>1 DEF SecretsInv, SecretsKnown, SlotKnown
    <2>2. keysWritten > 1 => keysWritten' > 1
      BY <1>3 DEF SecretsInv, SecretsTypeOK
    <2> QED
      BY <1>3, <1>7, <1>9, <1>10, <2>1, <2>2 DEF SecretsInv, SecretsKnown
  <1>12. ASSUME ~disturbed' PROVE InTurn'
    <2>1. InTurn
      BY <1>3, <1>12 DEF SecretsInv
    <2>2. ~Between(c) /\ ~Between(c)'
      BY <1>1, <1>4, <1>5 DEF Between
    <2>3. \A d \in Callers : (Between(d) <=> Between(d)') /\ (Between(d) => d # c)
      BY <1>5, <2>2 DEF Between
    <2>4. \A d \in Callers : secretCalls'[d] # S!None => secretCalls[d] # S!None
      BY <1>1, <1>5
    <2>5. \A t : S!List(t)' = S!List(t)
      BY <1>3 DEF S!List
    <2> QED
      BY <1>3, <1>5, <2>1, <2>2, <2>3, <2>4, <2>5 DEF InTurn
  <1> QED
    BY <1>6, <1>11, <1>12 DEF SecretsInv

\* An envelope is written to its file.
LEMMA BinWrittenStep ==
    ASSUME SecretsInv, NEW c \in Callers, S!BinWritten(c)
    PROVE  SecretsInv'
  <1> DEFINE what == [value |-> secretCalls[c].value, key |-> secretCalls[c].key]
  <1>1. /\ secretCalls[c] \in SetCall /\ S!Slot(c) = secretCalls[c].slot
        /\ secretCalls[c].at = "bin" /\ S!At(c, "set", "bin") /\ secretCalls[c] \in SecretCall
    BY AtCall, CallsAreCalls DEF SecretsInv, S!BinWritten
  <1>2. /\ held' = [held EXCEPT ![S!Slot(c)] = what] /\ S!Goes(c, "meta")
        /\ UNCHANGED <<backend, listed, keyFile, aesKey, keysMade, keysWritten, written, answers,
                       disturbed>>
    BY DEF S!BinWritten, S!keys, S!told
  <1>3. CallKnown(c)
    BY DEF SecretsInv, SecretsKnown
  <1>4. what \in Envelope
    BY <1>1, <1>3 DEF CallKnown, SetCall, Envelope
  <1>5. what # Absent
    BY <1>4, SecretsAssumption DEF Envelope
  <1>6. /\ [slot |-> S!Slot(c), value |-> what.value] \in written
        /\ keysWritten <= 1 => what.key = Sealing
    BY <1>1, <1>3 DEF CallKnown
  <1> HIDE DEF what
  <1> QED
    BY <1>1, <1>2, <1>4, <1>5, <1>6, HoldsNow

\* The file of a secret is removed.
LEMMA BinRemovedStep ==
    ASSUME SecretsInv, NEW c \in Callers, S!BinRemoved(c)
    PROVE  SecretsInv'
  <1>1. /\ held' = [held EXCEPT ![S!Slot(c)] = Absent] /\ S!Goes(c, "meta")
        /\ S!At(c, "delete", "start")
        /\ UNCHANGED <<backend, listed, keyFile, aesKey, keysMade, keysWritten, written, answers,
                       disturbed>>
    BY DEF S!BinRemoved, S!keys, S!told
  <1>2. Absent \in Envelope \cup {Absent} /\ (Absent # Absent <=> "delete" = "set")
    OBVIOUS
  <1> QED
    BY <1>1, <1>2, HoldsNow

\* A call that has changed what is held is the one its slot's list waits for.
LEMMA BetweenIsKnown ==
    ASSUME SecretsTypeOK, InTurn, NEW c \in Callers, Between(c)
    PROVE  \A s \in S!Slots :
              IF s = secretCalls[c].slot THEN held[s] # Absent <=> secretCalls[c].op = "set"
              ELSE listed[s] <=> held[s] # Absent
  BY DEF InTurn, Between

\* The metadata of a secret is written, or removed.
LEMMA MetaStep ==
    ASSUME SecretsInv, NEW c \in Callers, S!MetaWritten(c) \/ S!MetaRemoved(c)
    PROVE  SecretsInv'
  <1>1. PICK op \in {"set", "delete"} :
          /\ S!At(c, op, "meta") /\ S!Ends(c)
          /\ listed' = [listed EXCEPT ![S!Slot(c)] = (op = "set")]
          /\ UNCHANGED <<backend, held, keyFile, aesKey, keysMade, keysWritten, written, answers,
                         disturbed>>
    <2>1. CASE S!MetaWritten(c)
      BY <2>1, Zenon DEF S!MetaWritten, S!keys, S!told
    <2>2. CASE S!MetaRemoved(c)
      BY <2>2, Zenon DEF S!MetaRemoved, S!keys, S!told
    <2> QED
      BY <2>1, <2>2
  <1>2. /\ secretCalls[c] \in SecretCall /\ secretCalls[c] # S!None
        /\ secretCalls[c].op = op /\ secretCalls[c].at = "meta"
        /\ S!Slot(c) \in S!Slots /\ S!Slot(c) = secretCalls[c].slot
    BY <1>1, AtCall DEF SecretsInv
  <1>3. /\ listed' \in [S!Slots -> BOOLEAN] /\ held' \in [S!Slots -> Envelope \cup {Absent}]
        /\ \A s \in S!Slots : listed'[s] = IF s = S!Slot(c) THEN op = "set" ELSE listed[s]
    BY <1>1, <1>2 DEF SecretsInv, SecretsTypeOK
  <1>4. \A s \in S!Slots : SlotKnown(s)'
    BY <1>1 DEF SecretsInv, SecretsKnown, SlotKnown, Sealing
  <1>5. ASSUME ~disturbed, InTurn PROVE \A s \in S!Slots : listed'[s] <=> held'[s] # Absent
    <2>1. Between(c)
      BY <1>2 DEF Between
    <2> QED
      BY <1>1, <1>2, <1>3, <1>5, <2>1, BetweenIsKnown DEF SecretsInv
  <1> QED
    BY <1>1, <1>2, <1>3, <1>4, <1>5, ListsNow

\* The index is written whole; the call is alone, so it is what is listed.
LEMMA IndexWrittenStep ==
    ASSUME SecretsInv, NEW c \in Callers, S!IndexWritten(c)
    PROVE  SecretsInv'
  <1>1. /\ secretCalls[c] # S!None /\ secretCalls[c].at = "write" /\ S!Ends(c)
        /\ listed' = [s \in S!Slots |-> IF s[1] = S!Slot(c)[1] THEN s \in S!Indexed(c)
                                        ELSE listed[s]]
        /\ UNCHANGED <<backend, held, keyFile, aesKey, keysMade, keysWritten, written, answers,
                       disturbed>>
    BY DEF S!IndexWritten, S!keys, S!told
  <1>2. secretCalls[c] \in SecretCall /\ S!Slot(c) = secretCalls[c].slot
    BY <1>1 DEF SecretsInv, SecretsTypeOK, S!Slot
  <1>3. listed' \in [S!Slots -> BOOLEAN] /\ held' \in [S!Slots -> Envelope \cup {Absent}]
    <2>1. /\ \A s \in S!Slots : listed[s] \in BOOLEAN
          /\ held \in [S!Slots -> Envelope \cup {Absent}]
      BY DEF SecretsInv, SecretsTypeOK
    <2>2. ASSUME NEW s \in S!Slots
          PROVE  (IF s[1] = S!Slot(c)[1] THEN s \in S!Indexed(c) ELSE listed[s]) \in BOOLEAN
      <3>1. CASE s[1] = S!Slot(c)[1]
        <4>1. (s \in S!Indexed(c)) \in BOOLEAN
          OBVIOUS
        <4> QED
          BY <3>1, <4>1, Zenon
      <3>2. CASE s[1] # S!Slot(c)[1]
        BY <2>1, <3>2, Zenon
      <3> QED
        BY <3>1, <3>2
    <2> QED
      BY <1>1, <2>1, <2>2, Zenon
  <1>4. \A s \in S!Slots : SlotKnown(s)'
    BY <1>1 DEF SecretsInv, SecretsKnown, SlotKnown, Sealing
  <1>5. ASSUME ~disturbed, InTurn PROVE \A s \in S!Slots : listed'[s] <=> held'[s] # Absent
    <2>1. Between(c)
      BY <1>1 DEF Between
    <2>2. /\ secretCalls[c].index = S!List(secretCalls[c].slot[1])
          /\ held[secretCalls[c].slot] # Absent <=> secretCalls[c].op = "set"
      BY <1>1, <1>5, <2>1 DEF InTurn
    <2>3. ASSUME NEW s \in S!Slots, s[1] = S!Slot(c)[1]
          PROVE  s \in S!Indexed(c) <=> IF s = S!Slot(c) THEN secretCalls[c].op = "set"
                                         ELSE listed[s]
      BY <1>2, <2>2, <2>3 DEF S!Indexed, S!List
    <2>4. \A s \in S!Slots : listed'[s] <=> IF s = S!Slot(c) THEN secretCalls[c].op = "set"
                                            ELSE listed[s]
      BY <1>1, <2>3
    <2>5. \A s \in S!Slots :
            IF s = S!Slot(c) THEN held[s] # Absent <=> secretCalls[c].op = "set"
            ELSE listed[s] <=> held[s] # Absent
      BY <1>2, <1>5, <2>1, BetweenIsKnown DEF SecretsInv
    <2> QED
      BY <1>1, <2>4, <2>5
  <1> QED
    BY <1>1, <1>2, <1>3, <1>4, <1>5, ListsNow

\* The index is read.
LEMMA IndexReadStep ==
    ASSUME SecretsInv, NEW c \in Callers, S!IndexRead(c)
    PROVE  SecretsInv'
  <1> DEFINE call == [secretCalls[c] EXCEPT !.index = S!List(S!Slot(c)[1]), !.at = "write"]
  <1>1. /\ secretCalls[c] # S!None /\ secretCalls[c].at = "index"
        /\ secretCalls' = [secretCalls EXCEPT ![c] = call]
        /\ UNCHANGED <<backend, held, listed, keyFile, aesKey, keysMade, keysWritten, written, answers,
                       disturbed>>
    BY DEF S!IndexRead, S!keys, S!told
  <1>2. secretCalls[c] \in SecretCall /\ S!Slot(c) = secretCalls[c].slot
    BY <1>1 DEF SecretsInv, SecretsTypeOK, S!Slot
  <1>3. /\ call \in SecretCall /\ call.at = "write" /\ call.op = secretCalls[c].op
        /\ call.slot = secretCalls[c].slot /\ call.value = secretCalls[c].value
        /\ call.index = S!List(secretCalls[c].slot[1])
        /\ call \in SetCall <=> secretCalls[c] \in SetCall
        /\ call \notin OpenCall
    <2>1. secretCalls[c] \in SetCall \cup DeleteCall
      BY <1>1, <1>2 DEF SecretCall, GetCall, OpenCall
    <2>2. S!List(S!Slot(c)[1]) \in SUBSET S!Slots
      BY DEF S!List
    <2>3. /\ call \in SecretCall /\ call.at = "write" /\ call.op = secretCalls[c].op
          /\ call.slot = secretCalls[c].slot /\ call.value = secretCalls[c].value
          /\ call.index = S!List(secretCalls[c].slot[1])
      BY <1>2, <2>1, <2>2 DEF SecretCall, SetCall, DeleteCall
    <2> QED
      BY <1>2, <2>1, <2>3, CallsAreCalls
  <1> HIDE DEF call
  <1>4. /\ secretCalls' \in [Callers -> SecretCall \cup {S!None}]
        /\ secretCalls'[c] = call
        /\ \A d \in Callers : d # c => secretCalls'[d] = secretCalls[d]
    BY <1>1, <1>3, OneCall DEF SecretsInv
  <1>5. SecretsTypeOK'
    BY <1>1, <1>4 DEF SecretsInv, SecretsTypeOK
  <1>6. CallKnown(c)'
    BY <1>1, <1>3, <1>4 DEF SecretsInv, SecretsKnown, CallKnown
  <1>7. SecretsKnown'
    BY <1>1, <1>4, <1>6 DEF SecretsInv, SecretsKnown, KeysKnown, SlotKnown, CallKnown, Sealing
  <1>8. ASSUME ~disturbed' PROVE InTurn'
    <2>1. InTurn
      BY <1>1, <1>8 DEF SecretsInv
    <2>2. Between(c) /\ Between(c)'
      BY <1>1, <1>3, <1>4, CallsAreCalls DEF Between
    <2>3. \A d \in Callers : d # c => secretCalls'[d] = S!None /\ ~Between(d) /\ ~Between(d)'
      BY <1>1, <1>4, <2>1 DEF InTurn, Between
    <2>4. \A t : S!List(t)' = S!List(t)
      BY <1>1 DEF S!List
    <2> QED
      BY <1>1, <1>3, <1>4, <2>1, <2>2, <2>3, <2>4 DEF InTurn
  <1> QED
    BY <1>5, <1>7, <1>8 DEF SecretsInv

\* A call that is over, having left everything but the answers as it was.
LEMMA EndsStep ==
    ASSUME SecretsInv, NEW c \in Callers, secretCalls[c] \in SecretCall,
           secretCalls[c].at \notin {"meta", "index", "write"}, S!Ends(c),
           UNCHANGED <<backend, held, listed, keyFile, aesKey, keysMade, keysWritten, written, disturbed>>,
           \A a \in answers' \ answers :
               a.value = Absent \/ a \in written \/ (a.value = Bad /\ keysWritten > 1)
    PROVE  SecretsInv'
  <1>1. secretCalls[c] # S!None
    BY CallsAreCalls
  <1>2. secretCalls' = [secretCalls EXCEPT ![c] = S!None]
    BY DEF S!Ends
  <1>3. secretCalls'[c] = S!None
    BY <1>2 DEF SecretsInv, SecretsTypeOK
  <1>4. ~Between(c) /\ ~Between(c)'
    BY <1>3 DEF Between
  <1>5. CallKnown(c)'
    BY <1>3, CallsAreCalls DEF CallKnown, SecretCall
  <1>6. aesKey' \in {Absent, keyFile} /\ keysMade' \in Nat
    BY DEF SecretsInv, SecretsTypeOK, SecretsKnown, KeysKnown
  <1> QED
    BY <1>1, <1>2, <1>4, <1>5, <1>6, GoesOn

\* The file of a secret is read, or there is none.
LEMMA BinReadStep ==
    ASSUME SecretsInv, NEW c \in Callers, S!BinRead(c)
    PROVE  SecretsInv'
  <1>1. /\ secretCalls[c] \in SecretCall /\ secretCalls[c] # S!None
        /\ secretCalls[c].op = "get" /\ secretCalls[c].at = "start"
        /\ S!Slot(c) \in S!Slots /\ S!Slot(c) = secretCalls[c].slot
    BY AtCall DEF SecretsInv, S!BinRead
  <1>2. UNCHANGED <<backend, held, listed, keyFile, aesKey, keysMade, keysWritten, written, disturbed>>
    BY DEF S!BinRead, S!keys, S!told
  <1>3. CASE held[S!Slot(c)] = Absent
    <2>1. S!Ends(c) /\ answers' = answers \cup {[slot |-> S!Slot(c), value |-> Absent]}
      BY <1>3 DEF S!BinRead, S!Answer
    <2>2. \A a \in answers' \ answers : a.value = Absent
      BY <2>1
    <2> QED
      BY <1>1, <1>2, <2>1, <2>2, EndsStep
  <1>4. CASE held[S!Slot(c)] # Absent
    <2> DEFINE call == [secretCalls[c] EXCEPT !.value = held[S!Slot(c)], !.at = "load"]
    <2>1. secretCalls' = [secretCalls EXCEPT ![c] = call] /\ answers' = answers
      BY <1>4 DEF S!BinRead
    <2>2. held[S!Slot(c)] \in Envelope
      BY <1>1, <1>4 DEF SecretsInv, SecretsTypeOK
    <2>3. secretCalls[c] \in GetCall
      BY <1>1, CallsAreCalls DEF SecretCall
    <2>4. /\ call \in OpenCall /\ call.at = "load" /\ call.slot = secretCalls[c].slot
          /\ call.op = "get" /\ call.value = held[S!Slot(c)]
      BY <2>2, <2>3 DEF GetCall, OpenCall
    <2> HIDE DEF call
    <2>5. secretCalls'[c] = call
      BY <2>1 DEF SecretsInv, SecretsTypeOK
    <2>6. call \in SecretCall /\ call \notin SetCall
      BY <2>4, CallsAreCalls DEF SecretCall
    <2>7. CallKnown(c)'
      <3>1. SlotKnown(S!Slot(c)) /\ Sealing' = Sealing
        BY <1>1, <1>2 DEF SecretsInv, SecretsKnown, Sealing
      <3> QED
        BY <1>1, <1>2, <1>4, <2>4, <2>5, <2>6, <3>1 DEF SlotKnown, CallKnown
    <2>8. ~Between(c) /\ ~Between(c)'
      BY <1>1, <2>4, <2>5 DEF Between
    <2>9. aesKey' \in {Absent, keyFile} /\ keysMade' \in Nat
      BY <1>2 DEF SecretsInv, SecretsTypeOK, SecretsKnown, KeysKnown
    <2>10. answers' \ answers = {}
      BY <2>1
    <2> QED
      BY <1>1, <1>2, <2>1, <2>6, <2>7, <2>8, <2>9, <2>10, GoesOn
  <1> QED
    BY <1>3, <1>4

\* The envelope is opened: with the key it was sealed with, unless a second was made.
LEMMA DecryptedStep ==
    ASSUME SecretsInv, NEW c \in Callers, S!Decrypted(c)
    PROVE  SecretsInv'
  <1>1. /\ secretCalls[c] \in SecretCall /\ secretCalls[c] # S!None
        /\ secretCalls[c].op = "get" /\ secretCalls[c].at = "decrypt"
        /\ S!Slot(c) \in S!Slots /\ S!Slot(c) = secretCalls[c].slot
    BY AtCall DEF SecretsInv, S!Decrypted
  <1>2. /\ UNCHANGED <<backend, held, listed, keyFile, aesKey, keysMade, keysWritten, written, disturbed>>
        /\ S!Ends(c)
        /\ answers' = answers \cup {[slot |-> S!Slot(c),
                 value |-> S!Decrypt(secretCalls[c].value, secretCalls[c].key)]}
    BY DEF S!Decrypted, S!keys, S!told, S!Answer
  <1>3. secretCalls[c] \in OpenCall /\ CallKnown(c)
    BY <1>1, CallsAreCalls DEF SecretsInv, SecretsKnown
  <1>4. keysWritten \in Nat
    BY DEF SecretsInv, SecretsTypeOK
  <1>5. \A a \in answers' \ answers :
          a.value = Absent \/ a \in written \/ (a.value = Bad /\ keysWritten > 1)
    BY <1>1, <1>2, <1>3, <1>4 DEF CallKnown, S!Decrypt
  <1> QED
    BY <1>1, <1>2, <1>5, EndsStep

\* The steps of the backend on the keyring.
LEMMA ToolStep ==
    ASSUME SecretsInv, NEW c \in Callers,
           S!ToolStores(c) \/ S!ToolLooks(c) \/ S!ToolClears(c) \/ S!ToolFinds(c)
    PROVE  SecretsInv'
  <1> USE DEF S!keys, S!told
  <1>1. CASE S!ToolStores(c) \/ S!ToolClears(c)
    <2>1. PICK op \in {"set", "delete"}, from \in {"start", "clear"} :
            /\ S!At(c, op, from)
            /\ LET what == IF op = "set" THEN [value |-> secretCalls[c].value, key |-> 0] ELSE Absent
               IN  \/ held' = [held EXCEPT ![S!Slot(c)] = what] /\ S!ToolRuns(c)
                   \/ held' \in {held, [held EXCEPT ![S!Slot(c)] = what]} /\ S!ToolFails(c)
            /\ backend = "keyring"
            /\ UNCHANGED <<backend, listed, keyFile, aesKey, keysMade, keysWritten, written, answers>>
      <3>1. CASE S!ToolStores(c)
        BY <3>1 DEF S!ToolStores
      <3>2. CASE S!ToolClears(c)
        BY <3>2 DEF S!ToolClears
      <3> QED
        BY <1>1, <3>1, <3>2
    <2> DEFINE what == IF op = "set" THEN [value |-> secretCalls[c].value, key |-> 0] ELSE Absent
    <2>2. /\ secretCalls[c] \in SecretCall /\ secretCalls[c] # S!None
          /\ secretCalls[c].op = op /\ secretCalls[c].at = from
          /\ S!Slot(c) \in S!Slots /\ S!Slot(c) = secretCalls[c].slot
      BY <2>1, AtCall DEF SecretsInv
    <2>3. /\ what \in Envelope \cup {Absent} /\ (what # Absent <=> op = "set")
          /\ what # Absent => /\ [slot |-> S!Slot(c), value |-> what.value] \in written
                              /\ what.key = Sealing
      <3>1. CASE op = "set"
        <4>1. secretCalls[c] \in SetCall /\ CallKnown(c)
          BY <2>2, <3>1, CallsAreCalls DEF SecretsInv, SecretsKnown
        <4>2. what \in Envelope
          BY <3>1, <4>1 DEF SetCall, Envelope
        <4>3. what # Absent
          BY <4>2, SecretsAssumption DEF Envelope
        <4>4. Sealing = 0
          BY <2>1 DEF Sealing
        <4> QED
          BY <2>2, <3>1, <4>1, <4>2, <4>3, <4>4 DEF CallKnown
      <3>2. CASE op = "delete"
        BY <3>2
      <3> QED
        BY <3>1, <3>2
    <2> HIDE DEF what
    <2>4. CASE held' = [held EXCEPT ![S!Slot(c)] = what] /\ S!ToolRuns(c)
      BY <2>1, <2>3, <2>4, HoldsNow DEF S!ToolRuns
    <2>5. CASE held' \in {held, [held EXCEPT ![S!Slot(c)] = what]} /\ S!ToolFails(c)
      <3>1. S!Ends(c) /\ disturbed'
        BY <2>5 DEF S!ToolFails
      <3>2. \A s \in S!Slots : held'[s] = held[s] \/ (s = S!Slot(c) /\ held'[s] = what)
        BY <2>5 DEF SecretsInv, SecretsTypeOK
      <3>3. held' \in [S!Slots -> Envelope \cup {Absent}]
        BY <2>3, <2>5 DEF SecretsInv, SecretsTypeOK
      <3>4. \A s \in S!Slots : SlotKnown(s)'
        BY <2>1, <2>3, <3>2 DEF SecretsInv, SecretsKnown, SlotKnown, Sealing
      <3> QED
        BY <2>1, <2>2, <3>1, <3>3, <3>4, CutShort
    <2> QED
      BY <2>1, <2>4, <2>5 DEF what
  <1>2. CASE S!ToolLooks(c)
    <2>1. /\ secretCalls[c] \in SecretCall /\ secretCalls[c] # S!None
          /\ secretCalls[c].op = "delete" /\ secretCalls[c].at = "start"
      BY <1>2, AtCall DEF SecretsInv, S!ToolLooks
    <2>2. UNCHANGED <<backend, held, listed, keyFile, aesKey, keysMade, keysWritten, written,
                     disturbed, answers>>
      BY <1>2 DEF S!ToolLooks
    <2>3. CASE S!Ends(c)
      BY <2>1, <2>2, <2>3, EndsStep
    <2>4. CASE S!Goes(c, "clear")
      <3> DEFINE call == [secretCalls[c] EXCEPT !.at = "clear"]
      <3>1. secretCalls' = [secretCalls EXCEPT ![c] = call]
        BY <2>4 DEF S!Goes
      <3>2. secretCalls[c] \in DeleteCall
        BY <2>1, CallsAreCalls
      <3>3. call \in DeleteCall /\ call.at = "clear" /\ call.op = "delete"
        BY <3>2, <2>1 DEF DeleteCall
      <3> HIDE DEF call
      <3>4. call \in SecretCall /\ call \notin SetCall /\ call \notin OpenCall
        BY <3>3, CallsAreCalls DEF SecretCall
      <3>5. secretCalls'[c] = call
        BY <3>1 DEF SecretsInv, SecretsTypeOK
      <3>6. ~Between(c) /\ ~Between(c)'
        BY <2>1, <3>3, <3>5 DEF Between
      <3>7. CallKnown(c)'
        BY <3>3, <3>4, <3>5 DEF CallKnown
      <3>8. aesKey' \in {Absent, keyFile} /\ keysMade' \in Nat
        BY <2>2 DEF SecretsInv, SecretsTypeOK, SecretsKnown, KeysKnown
      <3>9. answers' \ answers = {}
        BY <2>2
      <3> QED
        BY <2>1, <2>2, <3>1, <3>4, <3>6, <3>7, <3>8, <3>9, GoesOn
    <2> QED
      BY <1>2, <2>3, <2>4 DEF S!ToolLooks
  <1>3. CASE S!ToolFinds(c)
    <2>1. /\ secretCalls[c] \in SecretCall /\ secretCalls[c].at = "start"
          /\ S!Slot(c) \in S!Slots
      BY <1>3, AtCall DEF SecretsInv, S!ToolFinds
    <2>2. /\ UNCHANGED <<backend, held, listed, keyFile, aesKey, keysMade, keysWritten, written,
                         disturbed>>
          /\ S!Ends(c)
          /\ answers' = answers \cup {[slot |-> S!Slot(c),
                 value |-> IF held[S!Slot(c)] = Absent THEN Absent ELSE held[S!Slot(c)].value]}
      BY <1>3 DEF S!ToolFinds, S!Answer
    <2>3. \A a \in answers' \ answers : a.value = Absent \/ a \in written
      BY <2>1, <2>2 DEF SecretsInv, SecretsKnown, SlotKnown
    <2> QED
      BY <2>1, <2>2, <2>3, EndsStep
  <1> QED
    BY <1>1, <1>2, <1>3

\* A crash leaves the files and the keyring, and no call.
LEMMA SecretsCrash ==
    ASSUME SecretsInv, S!Crash
    PROVE  SecretsInv'
  <1>1. /\ secretCalls' = [c \in Callers |-> S!None] /\ aesKey' = Absent
        /\ disturbed' = (disturbed \/ \E c \in Callers : secretCalls[c] # S!None)
        /\ UNCHANGED <<backend, keyFile, keysWritten, keysMade, written, answers>>
    BY DEF S!Crash
  <1>2. \/ held' = [s \in S!Slots |-> Absent] /\ listed' = [s \in S!Slots |-> FALSE]
        \/ UNCHANGED <<held, listed>>
    BY DEF S!Crash
  <1>3. SecretsTypeOK'
    BY <1>1, <1>2 DEF SecretsInv, SecretsTypeOK
  <1>4. SecretsKnown'
    <2>1. \A c \in Callers : CallKnown(c)'
      BY <1>1, CallsAreCalls DEF CallKnown, SecretCall
    <2>2. \A s \in S!Slots : SlotKnown(s)'
      BY <1>1, <1>2 DEF SecretsInv, SecretsKnown, SlotKnown, Sealing
    <2> QED
      BY <1>1, <2>1, <2>2 DEF SecretsInv, SecretsKnown, KeysKnown
  <1>5. ASSUME ~disturbed' PROVE InTurn'
    <2>1. InTurn /\ \A c \in Callers : secretCalls[c] = S!None
      BY <1>1, <1>5 DEF SecretsInv
    <2>2. \A s \in S!Slots : listed'[s] <=> held'[s] # Absent
      BY <1>2, <2>1 DEF InTurn, Between
    <2> QED
      BY <1>1, <2>2 DEF InTurn, Between
  <1> QED
    BY <1>3, <1>4, <1>5 DEF SecretsInv

\* Every step of the secrets keeps the invariant.
LEMMA SecretsStep ==
    ASSUME SecretsInv, [S!Next]_S!vars
    PROVE  SecretsInv'
  <1>1. CASE UNCHANGED S!vars
    BY <1>1 DEF S!vars, S!keys, S!told, SecretsInv, SecretsTypeOK, SecretsKnown, KeysKnown, SlotKnown,
                CallKnown, Sealing, InTurn, Between, S!List
  <1>2. CASE S!Crash
    BY <1>2, SecretsCrash
  <1>3. CASE S!Next /\ ~S!Crash
    <2>1. PICK c \in Callers :
            \/ \E slot \in S!Slots, value \in Values : S!Set(c, slot, value)
            \/ \E slot \in S!Slots : S!Delete(c, slot)
            \/ \E tenant \in SecretTenants, ref \in S!Slots : S!GetFromRef(c, tenant, ref)
            \/ S!MemoryCall(c)
            \/ S!LoadKey(c, "set", "start", "bin") \/ S!KeyWritten(c, "set", "bin")
            \/ S!BinWritten(c) \/ S!MetaWritten(c)
            \/ S!BinRead(c) \/ S!LoadKey(c, "get", "load", "decrypt")
            \/ S!KeyWritten(c, "get", "decrypt") \/ S!Decrypted(c)
            \/ S!BinRemoved(c) \/ S!MetaRemoved(c)
            \/ S!ToolStores(c) \/ S!ToolLooks(c) \/ S!ToolClears(c) \/ S!ToolFinds(c)
            \/ S!IndexRead(c) \/ S!IndexWritten(c)
      BY <1>3 DEF S!Next
    <2>2. CASE \E slot \in S!Slots, value \in Values : S!Set(c, slot, value)
      BY <2>2, BeginsStep
    <2>3. CASE \E slot \in S!Slots : S!Delete(c, slot)
      BY <2>3, BeginsStep
    <2>4. CASE \E tenant \in SecretTenants, ref \in S!Slots : S!GetFromRef(c, tenant, ref)
      BY <2>4, BeginsStep
    <2>5. CASE S!LoadKey(c, "set", "start", "bin") \/ S!LoadKey(c, "get", "load", "decrypt")
      BY <2>5, LoadKeyStep
    <2>6. CASE S!KeyWritten(c, "set", "bin") \/ S!KeyWritten(c, "get", "decrypt")
      BY <2>6, KeyWrittenStep
    <2> QED
      BY <2>1, <2>2, <2>3, <2>4, <2>5, <2>6, MemoryStep, BinWrittenStep, BinRemovedStep, MetaStep,
         BinReadStep, DecryptedStep, ToolStep, IndexReadStep, IndexWrittenStep
  <1> QED
    BY <1>1, <1>2, <1>3

\* The secrets start with nothing held, listed or made.
LEMMA SecretsStart ==
    ASSUME S!Init
    PROVE  SecretsInv
  <1>1. SecretsTypeOK
    BY DEF S!Init, SecretsTypeOK
  <1>2. SecretsKnown
    BY CallsAreCalls DEF S!Init, SecretsKnown, KeysKnown, SlotKnown, CallKnown, SecretCall
  <1>3. InTurn
    BY DEF S!Init, InTurn, Between
  <1> QED
    BY <1>1, <1>2, <1>3 DEF SecretsInv

\* A get returns what was set, or that there is nothing; what is held can be
\* opened by the key on disk unless two were made; and calls that come one
\* after the other leave listed what is held (secrets/).
THEOREM SecretsAreKept == S!Spec => []SecretsKept
  <1>1. SecretsInv => SecretsKept
    <2> SUFFICES ASSUME SecretsInv PROVE SecretsKept
      OBVIOUS
    <2>1. \A a \in answers :
            a.value = Absent \/ a \in written \/ (a.value = Bad /\ keysWritten > 1)
      BY DEF SecretsInv, SecretsKnown
    <2>2. keysWritten <= 1 => \A s \in S!Slots : held[s] # Absent => held[s].key \in {0, keyFile}
      BY DEF SecretsInv, SecretsKnown, SlotKnown, Sealing
    <2>3. ~disturbed /\ (\A c \in Callers : secretCalls[c] = S!None) =>
            \A s \in S!Slots : listed[s] <=> held[s] # Absent
      BY DEF SecretsInv, InTurn, Between
    <2> QED
      BY <2>1, <2>2, <2>3 DEF SecretsKept, S!SecretsKept
  <1> QED
    BY <1>1, SecretsStart, SecretsStep, PTL DEF S!Spec

----------------------------------------------------------------------------
(* The messenger.                                                          *)

Handler == [agent : Agents, handler : Nat]
Delivery == [seq : Nat, to : Agents, handler : Nat]
SentMessage == [msg : M!Messages, within : SUBSET Nat]

MessengerTypeOK ==
    /\ handlers \in Seq(Handler) /\ registered \in Nat
    /\ historyList \in Seq(SentMessage) /\ sending \in Seq(Nat)
    /\ calls \in Seq(Delivery) /\ batch \in Seq(Delivery) /\ queue \in Seq(Delivery)
    /\ deadList \in Seq(Nat) /\ taken \subseteq Nat

OneHandlerEach ==
    \A i, j \in DOMAIN handlers : handlers[i].agent = handlers[j].agent => i = j

\* The sends under way are nested: the later a send, the further in it is, and
\* what was sent after one that is still under way was sent within it.
SendsNested ==
    /\ \A i \in DOMAIN sending : sending[i] \in DOMAIN historyList
    /\ \A i, j \in DOMAIN sending : i < j => sending[i] < sending[j]
    /\ \A q \in DOMAIN historyList, i \in DOMAIN sending :
          sending[i] < q => sending[i] \in historyList[q].within

\* A message that was sent and routed.
IsRouted(seq) == seq \in DOMAIN historyList /\ \A i \in DOMAIN sending : sending[i] # seq

\* What becomes of a message: the deliveries and the dead letters it has.
DeliveriesOf(seq) == {i \in DOMAIN M!Deliveries : M!Deliveries[i].seq = seq}
LettersOf(seq) == {i \in DOMAIN deadList : deadList[i] = seq}
One(set) == \E i : set = {i}

NoFate(seq) == DeliveriesOf(seq) = {} /\ LettersOf(seq) = {} /\ seq \notin taken

Fate(seq) ==
    IF historyList[seq].msg.type = "msg.broadcast"
    THEN /\ LettersOf(seq) = {} /\ seq \notin taken
         /\ \A i, j \in DeliveriesOf(seq) : M!Deliveries[i].to = M!Deliveries[j].to => i = j
    ELSE \/ One(DeliveriesOf(seq)) /\ LettersOf(seq) = {} /\ seq \notin taken
         \/ DeliveriesOf(seq) = {} /\ One(LettersOf(seq)) /\ seq \notin taken
         \/ DeliveriesOf(seq) = {} /\ LettersOf(seq) = {} /\ seq \in taken

Fates == \A seq \in Nat : IF IsRouted(seq) THEN Fate(seq) ELSE NoFate(seq)

MessengerInv ==
    /\ MessengerTypeOK /\ OneHandlerEach /\ SendsNested /\ Fates
    /\ CalledInOrder
    /\ queue # <<>> => drainScheduled

\* The operators of the messenger's library are those of this module.
LEMMA MessengerLibrary ==
    /\ \A s : M!Range(s) = Range(s) /\ M!Last(s) = Last(s) /\ M!Front(s) = Front(s)
    /\ \A s, i : M!RemoveAt(s, i) = RemoveAt(s, i)
    /\ \A s : M!Cardinality(s) = Cardinality(s)
  <1>1. \A s : M!Range(s) = Range(s)
    BY Zenon DEF M!Range, Range
  <1>2. \A s : M!Last(s) = Last(s) /\ M!Front(s) = Front(s)
    BY Zenon DEF M!Last, Last, M!Front, Front
  <1>3. \A s, i : M!RemoveAt(s, i) = RemoveAt(s, i)
    BY Zenon DEF M!RemoveAt, RemoveAt
  <1>4. \A s : M!Cardinality(s) = Cardinality(s)
    BY Zenon DEF M!Cardinality, Cardinality
  <1> QED
    BY <1>1, <1>2, <1>3, <1>4

\* The head of a sequence goes to the end of another.
LEMMA HeadMoves ==
    ASSUME NEW Entries, NEW s \in Seq(Entries), NEW t \in Seq(Entries), t # <<>>
    PROVE  /\ Append(s, Head(t)) \in Seq(Entries) /\ Tail(t) \in Seq(Entries)
           /\ Append(s, Head(t)) \o Tail(t) = s \o t
  <1>1. Append(s, Head(t)) \in Seq(Entries) /\ Tail(t) \in Seq(Entries)
    OBVIOUS
  <1>2. Len(Append(s, Head(t)) \o Tail(t)) = Len(s \o t)
    OBVIOUS
  <1>3. \A i \in 1..Len(s \o t) : (Append(s, Head(t)) \o Tail(t))[i] = (s \o t)[i]
    OBVIOUS
  <1>4. Append(s, Head(t)) \o Tail(t) \in Seq(Entries) /\ s \o t \in Seq(Entries)
    OBVIOUS
  <1> QED
    BY <1>2, <1>3, <1>4, SeqEqual

\* What is added to the last of three sequences is added to all of them.
LEMMA FourConcat ==
    ASSUME NEW Entries, NEW s \in Seq(Entries), NEW t \in Seq(Entries), NEW u \in Seq(Entries),
           NEW v \in Seq(Entries)
    PROVE  s \o t \o (u \o v) = (s \o t \o u) \o v
  <1> DEFINE w == s \o t
  <1>1. w \in Seq(Entries)
    OBVIOUS
  <1> HIDE DEF w
  <1>2. w \o (u \o v) = (w \o u) \o v
    <2>1. Len(w \o (u \o v)) = Len((w \o u) \o v)
      BY <1>1
    <2>2. \A i \in 1..Len(w \o (u \o v)) : (w \o (u \o v))[i] = ((w \o u) \o v)[i]
      BY <1>1
    <2>3. w \o (u \o v) \in Seq(Entries) /\ (w \o u) \o v \in Seq(Entries)
      BY <1>1
    <2> QED
      BY <2>1, <2>2, <2>3, SeqEqual
  <1> QED
    BY <1>2 DEF w

\* What one element less leaves: each of the others, once.
LEMMA OneRemoved ==
    ASSUME NEW Entries, NEW s \in Seq(Entries), NEW k \in DOMAIN s
    PROVE  /\ RemoveAt(s, k) \in Seq(Entries)
           /\ DOMAIN RemoveAt(s, k) = 1..(Len(s) - 1)
           /\ \A i \in 1..(Len(s) - 1) :
                  RemoveAt(s, k)[i] = IF i < k THEN s[i] ELSE s[i + 1]
  <1> DEFINE a == SubSeq(s, 1, k - 1)
             b == SubSeq(s, k + 1, Len(s))
  <1>1. /\ k \in 1..Len(s) /\ Len(s) \in Nat /\ \A i \in 1..Len(s) : s[i] \in Entries
    OBVIOUS
  <1>2. /\ a \in Seq(Entries) /\ Len(a) = k - 1
        /\ \A i \in 1..(k - 1) : a[i] = s[i]
    BY <1>1, SubSeqProperties
  <1>3. /\ b \in Seq(Entries) /\ Len(b) = Len(s) - k
        /\ \A i \in 1..(Len(s) - k) : b[i] = s[k + i]
    BY <1>1, SubSeqProperties
  <1>4. RemoveAt(s, k) = a \o b
    BY DEF RemoveAt
  <1> HIDE DEF a, b
  <1>5. /\ a \o b \in Seq(Entries) /\ Len(a \o b) = Len(a) + Len(b)
        /\ \A i \in 1..(Len(a) + Len(b)) :
              (a \o b)[i] = IF i <= Len(a) THEN a[i] ELSE b[i - Len(a)]
    BY <1>2, <1>3, ConcatProperties
  <1>6. Len(a) + Len(b) = Len(s) - 1
    BY <1>1, <1>2, <1>3
  <1>7. ASSUME NEW i \in 1..(Len(s) - 1)
        PROVE  (a \o b)[i] = IF i < k THEN s[i] ELSE s[i + 1]
    <2>1. (a \o b)[i] = IF i <= k - 1 THEN a[i] ELSE b[i - (k - 1)]
      BY <1>2, <1>5, <1>6
    <2>2. CASE i < k
      <3>1. i \in 1..(k - 1)
        BY <1>1, <2>2
      <3> QED
        BY <1>2, <2>1, <2>2, <3>1
    <2>3. CASE i >= k
      <3>1. i - (k - 1) \in 1..(Len(s) - k) /\ k + (i - (k - 1)) = i + 1 /\ ~(i <= k - 1) /\ ~(i < k)
        BY <1>1, <2>3
      <3>2. b[i - (k - 1)] = s[k + (i - (k - 1))]
        BY <1>3, <3>1
      <3>3. b[i - (k - 1)] = s[i + 1]
        BY <3>1, <3>2
      <3> QED
        BY <2>1, <3>1, <3>3
    <2>4. i < k \/ i >= k
      BY <1>1
    <2> QED
      BY <2>2, <2>3, <2>4
  <1>8. DOMAIN (a \o b) = 1..(Len(s) - 1)
    BY <1>5, <1>6, LenProperties
  <1> QED
    BY <1>4, <1>5, <1>7, <1>8

\* A step that leaves the messages where they are, except for the caller's taking
\* of the dead letters and the calls of handlers.
LEMMA FlowStep ==
    ASSUME MessengerInv,
           UNCHANGED <<historyList, sending>>,
           M!Deliveries' = M!Deliveries,
           handlers' \in Seq(Handler), registered' \in Nat, OneHandlerEach',
           calls' \in Seq(Delivery), batch' \in Seq(Delivery), queue' \in Seq(Delivery),
           queue' # <<>> => drainScheduled',
           \/ UNCHANGED <<deadList, taken>>
           \/ deadList' = <<>> /\ taken' = taken \cup Range(deadList)
    PROVE  MessengerInv'
  <1>1. MessengerTypeOK'
    <2>0. deadList \in Seq(Nat)
      BY DEF MessengerInv, MessengerTypeOK
    <2>1. deadList' \in Seq(Nat)
      <3>1. <<>> \in Seq(Nat)
        OBVIOUS
      <3> QED
        BY <2>0, <3>1
    <2>2. \A i \in DOMAIN deadList : deadList[i] \in Nat
      BY <2>0
    <2>3. taken' \subseteq Nat
      <3>1. taken \subseteq Nat
        BY DEF MessengerInv, MessengerTypeOK
      <3>2. Range(deadList) \subseteq Nat
        BY <2>2, Zenon DEF Range
      <3> QED
        BY <3>1, <3>2
    <2> QED
      BY <2>1, <2>3 DEF MessengerInv, MessengerTypeOK
  <1>2. SendsNested' /\ CalledInOrder'
    BY DEF MessengerInv, SendsNested, CalledInOrder, M!CalledInOrder
  <1>3. ASSUME NEW seq \in Nat PROVE IF IsRouted(seq)' THEN Fate(seq)' ELSE NoFate(seq)'
    <2>1. /\ IF IsRouted(seq) THEN Fate(seq) ELSE NoFate(seq)
          /\ IsRouted(seq)' <=> IsRouted(seq)
          /\ DeliveriesOf(seq)' = DeliveriesOf(seq)
      BY DEF MessengerInv, Fates, IsRouted, DeliveriesOf
    <2>2. CASE UNCHANGED <<deadList, taken>>
      BY <2>1, <2>2 DEF Fate, NoFate, LettersOf, DeliveriesOf
    <2>3. CASE deadList' = <<>> /\ taken' = taken \cup Range(deadList)
      <3>1. LettersOf(seq)' = {}
        BY <2>3 DEF LettersOf
      <3>2. seq \in taken' <=> seq \in taken \/ LettersOf(seq) # {}
        BY <2>3 DEF LettersOf, Range
      <3>3. One(LettersOf(seq)) => LettersOf(seq) # {}
        BY DEF One
      <3> QED
        BY <2>1, <3>1, <3>2, <3>3 DEF Fate, NoFate, DeliveriesOf
    <2> QED
      BY <2>2, <2>3
  <1> QED
    BY <1>1, <1>2, <1>3 DEF MessengerInv, Fates

\* A handler comes or goes.
LEMMA HandlersStep ==
    ASSUME MessengerInv, NEW agent \in Agents, M!Register(agent) \/ M!Unregister(agent)
    PROVE  MessengerInv'
  <1>1. /\ UNCHANGED <<historyList, deadList, queue, batch, drainScheduled, sending, calls, taken>>
        /\ registered' \in Nat
    BY DEF M!Register, M!Unregister, MessengerInv, MessengerTypeOK
  <1>2. handlers' \in Seq(Handler) /\ OneHandlerEach'
    <2>0. handlers \in Seq(Handler) /\ OneHandlerEach /\ registered \in Nat
      BY DEF MessengerInv, MessengerTypeOK
    <2>1. CASE M!Register(agent)
      <3> DEFINE entry == [agent |-> agent, handler |-> registered']
      <3>1. entry \in Handler /\ entry.agent = agent
        BY <1>1 DEF Handler
      <3>2. handlers' = IF M!Has(agent)
                        THEN [i \in DOMAIN handlers |->
                                 IF handlers[i].agent = agent THEN entry ELSE handlers[i]]
                        ELSE Append(handlers, entry)
        BY <2>1 DEF M!Register
      <3> HIDE DEF entry
      <3>3. CASE M!Has(agent)
        <4>1. handlers' \in Seq(Handler)
          BY <2>0, <3>1, <3>2, <3>3
        <4>2. DOMAIN handlers' = DOMAIN handlers
              /\ \A i \in DOMAIN handlers : handlers'[i].agent = handlers[i].agent
          BY <3>1, <3>2, <3>3
        <4> QED
          BY <2>0, <4>1, <4>2 DEF OneHandlerEach
      <3>4. CASE ~M!Has(agent)
        <4>1. handlers' = Append(handlers, entry)
          BY <3>2, <3>4
        <4>2. \A i \in DOMAIN handlers : handlers[i].agent # agent
          BY <3>4 DEF M!Has
        <4>3. /\ handlers' \in Seq(Handler) /\ DOMAIN handlers' = 1..(Len(handlers) + 1)
              /\ handlers'[Len(handlers) + 1] = entry
              /\ \A i \in DOMAIN handlers : handlers'[i] = handlers[i]
          BY <2>0, <3>1, <4>1
        <4>4. \A i \in DOMAIN handlers' : i \in DOMAIN handlers \/ i = Len(handlers) + 1
          BY <2>0, <4>3
        <4> QED
          BY <2>0, <3>1, <4>2, <4>3, <4>4 DEF OneHandlerEach
      <3> QED
        BY <3>3, <3>4
    <2>2. CASE M!Unregister(agent)
      <3> DEFINE k == M!PlaceOf(agent)
      <3>1. k \in DOMAIN handlers /\ handlers' = RemoveAt(handlers, k)
        BY <2>2, MessengerLibrary DEF M!Unregister, M!Has, M!PlaceOf
      <3> HIDE DEF k
      <3>2. /\ handlers' \in Seq(Handler) /\ DOMAIN handlers' = 1..(Len(handlers) - 1)
            /\ \A i \in 1..(Len(handlers) - 1) :
                  handlers'[i] = IF i < k THEN handlers[i] ELSE handlers[i + 1]
        BY <2>0, <3>1, OneRemoved
      <3>3. \A i \in 1..(Len(handlers) - 1) : i \in DOMAIN handlers /\ i + 1 \in DOMAIN handlers
        BY <2>0
      <3>4. k \in Nat /\ Len(handlers) \in Nat
        BY <2>0, <3>1
      <3>5. ASSUME NEW i \in DOMAIN handlers', NEW j \in DOMAIN handlers',
                   handlers'[i].agent = handlers'[j].agent
            PROVE  i = j
        <4>1. i \in 1..(Len(handlers) - 1) /\ j \in 1..(Len(handlers) - 1)
          BY <3>2
        <4> DEFINE m == IF i < k THEN i ELSE i + 1
                   n == IF j < k THEN j ELSE j + 1
        <4>2. handlers'[i] = handlers[m] /\ handlers'[j] = handlers[n]
          BY <3>2, <4>1
        <4>3. m \in DOMAIN handlers /\ n \in DOMAIN handlers
          BY <3>3, <4>1
        <4>4. m = n
          BY <2>0, <3>5, <4>2, <4>3 DEF OneHandlerEach
        <4> QED
          BY <3>4, <4>1, <4>4
      <3> QED
        BY <3>2, <3>5 DEF OneHandlerEach
    <2> QED
      BY <2>1, <2>2
  <1>3. M!Deliveries' = M!Deliveries
    BY <1>1 DEF M!Deliveries
  <1> QED
    BY <1>1, <1>2, <1>3, FlowStep DEF MessengerInv, MessengerTypeOK

\* What was delivered or waits to be was routed.
LEMMA DeliveredIsRouted ==
    ASSUME MessengerInv
    PROVE  /\ M!Deliveries \in Seq(Delivery)
           /\ \A i \in DOMAIN M!Deliveries :
                 M!Deliveries[i].seq \in Nat /\ IsRouted(M!Deliveries[i].seq)
  <1>1. M!Deliveries \in Seq(Delivery)
    <2>1. calls \in Seq(Delivery) /\ batch \in Seq(Delivery) /\ queue \in Seq(Delivery)
      BY DEF MessengerInv, MessengerTypeOK
    <2> QED
      BY <2>1 DEF M!Deliveries
  <1>2. ASSUME NEW i \in DOMAIN M!Deliveries
        PROVE  M!Deliveries[i].seq \in Nat /\ IsRouted(M!Deliveries[i].seq)
    <2> DEFINE seq == M!Deliveries[i].seq
    <2>1. M!Deliveries[i] \in Delivery
      BY <1>1, <1>2
    <2>2. seq \in Nat
      BY <2>1 DEF Delivery
    <2>3. i \in DeliveriesOf(seq)
      BY <1>2 DEF DeliveriesOf
    <2>4. ~NoFate(seq)
      BY <2>3 DEF NoFate
    <2> QED
      BY <2>2, <2>4 DEF MessengerInv, Fates
  <1> QED
    BY <1>1, <1>2

\* A message is sent: it is remembered, and routed later.
LEMMA SendStep ==
    ASSUME MessengerInv, NEW raw \in M!Messages, M!Send(raw)
    PROVE  MessengerInv'
  <1> DEFINE n == Len(historyList) + 1
             item == [msg |-> raw, within |-> Range(sending)]
  <1>1. /\ historyList \in Seq(SentMessage) /\ sending \in Seq(Nat)
        /\ SendsNested /\ Fates /\ CalledInOrder
    BY DEF MessengerInv, MessengerTypeOK
  <1>2. /\ historyList' = Append(historyList, item)
        /\ sending' = Append(sending, Len(historyList'))
        /\ UNCHANGED <<handlers, registered, deadList, queue, batch, drainScheduled, calls, taken>>
    BY MessengerLibrary DEF M!Send
  <1>3. \A i \in DOMAIN sending : sending[i] \in Nat
    BY <1>1
  <1>4. item \in SentMessage
    BY <1>3 DEF SentMessage, Range
  <1>5. item.within = Range(sending)
    OBVIOUS
  <1> HIDE DEF item
  <1>6. /\ historyList' \in Seq(SentMessage) /\ Len(historyList') = n /\ n \in Nat \ {0}
        /\ DOMAIN historyList = 1..(n - 1) /\ DOMAIN historyList' = 1..n /\ historyList'[n] = item
        /\ \A q \in DOMAIN historyList : historyList'[q] = historyList[q]
    BY <1>1, <1>2, <1>4
  <1> HIDE DEF n
  <1>7. /\ sending' \in Seq(Nat) /\ DOMAIN sending = 1..Len(sending) /\ Len(sending) \in Nat
        /\ DOMAIN sending' = 1..(Len(sending) + 1) /\ sending'[Len(sending) + 1] = n
        /\ \A i \in DOMAIN sending : sending'[i] = sending[i]
    BY <1>1, <1>2, <1>6
  <1>8. MessengerTypeOK'
    BY <1>2, <1>6, <1>7 DEF MessengerInv, MessengerTypeOK
  <1>9. \A i \in DOMAIN sending : sending[i] \in DOMAIN historyList /\ sending[i] < n
    BY <1>1, <1>6 DEF SendsNested
  <1>10. SendsNested'
    <2>1. \A i \in DOMAIN sending' : i \in DOMAIN sending \/ i = Len(sending) + 1
      BY <1>7
    <2>2. \A q \in DOMAIN historyList' : q \in DOMAIN historyList \/ q = n
      BY <1>6
    <2>3. \A i \in DOMAIN sending' : sending'[i] \in DOMAIN historyList'
      <3>1. n \in DOMAIN historyList' /\ DOMAIN historyList \subseteq DOMAIN historyList'
        BY <1>6
      <3> QED
        BY <1>7, <1>9, <2>1, <3>1
    <2>4. ASSUME NEW i \in DOMAIN sending', NEW j \in DOMAIN sending', i < j
          PROVE  sending'[i] < sending'[j]
      <3>1. i \in DOMAIN sending
        BY <1>7, <2>4
      <3> QED
        BY <1>1, <1>7, <1>9, <2>1, <2>4, <3>1 DEF SendsNested
    <2>5. ASSUME NEW q \in DOMAIN historyList', NEW i \in DOMAIN sending', sending'[i] < q
          PROVE  sending'[i] \in historyList'[q].within
      <3>1. CASE q = n
        <4>1. i \in DOMAIN sending
          BY <1>6, <1>7, <2>1, <2>5, <3>1
        <4>2. sending[i] \in Range(sending)
          BY <4>1 DEF Range
        <4> QED
          BY <1>5, <1>6, <1>7, <3>1, <4>1, <4>2
      <3>2. CASE q # n
        <4>1. q \in DOMAIN historyList /\ q < n
          BY <1>6, <2>2, <3>2
        <4>2. i \in DOMAIN sending
          BY <1>6, <1>7, <2>1, <2>5, <4>1
        <4> QED
          BY <1>1, <1>6, <1>7, <2>5, <4>1, <4>2 DEF SendsNested
      <3> QED
        BY <3>1, <3>2
    <2> QED
      BY <2>3, <2>4, <2>5 DEF SendsNested
  <1>11. M!Deliveries' = M!Deliveries
    BY <1>2 DEF M!Deliveries
  <1>12. ASSUME NEW seq \in Nat PROVE IF IsRouted(seq)' THEN Fate(seq)' ELSE NoFate(seq)'
    <2>1. IF IsRouted(seq) THEN Fate(seq) ELSE NoFate(seq)
      BY <1>1 DEF Fates
    <2>2. IsRouted(seq)' <=> IsRouted(seq)
      <3>1. CASE seq = n
        <4>1. Len(sending) + 1 \in DOMAIN sending' /\ n \notin DOMAIN historyList
          BY <1>6, <1>7
        <4> QED
          BY <1>7, <3>1, <4>1 DEF IsRouted
      <3>2. CASE seq # n
        <4>1. seq \in DOMAIN historyList' <=> seq \in DOMAIN historyList
          BY <1>6, <3>2
        <4>2. (\A i \in DOMAIN sending' : sending'[i] # seq)
                 <=> (\A i \in DOMAIN sending : sending[i] # seq)
          BY <1>7, <3>2
        <4> QED
          BY <4>1, <4>2 DEF IsRouted
      <3> QED
        BY <3>1, <3>2
    <2>3. DeliveriesOf(seq)' = DeliveriesOf(seq) /\ LettersOf(seq)' = LettersOf(seq)
      BY <1>2, <1>11 DEF DeliveriesOf, LettersOf
    <2>4. IsRouted(seq) => historyList'[seq] = historyList[seq]
      BY <1>6 DEF IsRouted
    <2> QED
      BY <1>2, <1>11, <2>1, <2>2, <2>3, <2>4 DEF Fate, NoFate
  <1>13. CalledInOrder'
    <2>1. \A i \in DOMAIN M!Deliveries :
            historyList'[M!Deliveries[i].seq] = historyList[M!Deliveries[i].seq]
      BY <1>6, DeliveredIsRouted DEF IsRouted
    <2> QED
      BY <1>1, <1>11, <2>1 DEF CalledInOrder, M!CalledInOrder
  <1> QED
    BY <1>2, <1>8, <1>10, <1>12, <1>13 DEF MessengerInv, Fates, OneHandlerEach

\* To whom a message goes: to whoever is registered, one agent once.
LEMMA RecipientsOf ==
    ASSUME MessengerInv, NEW msg
    PROVE  LET to == M!Recipients(msg)
           IN  /\ to \in Seq(Handler)
               /\ msg.type = "msg.broadcast" => to = handlers
               /\ msg.type # "msg.broadcast" /\ M!Has(msg.to) => Len(to) = 1
               /\ msg.type # "msg.broadcast" /\ ~M!Has(msg.to) => to = <<>>
  <1>1. handlers \in Seq(Handler)
    BY DEF MessengerInv, MessengerTypeOK
  <1>2. CASE msg.type = "msg.broadcast"
    BY <1>1, <1>2 DEF M!Recipients
  <1>3. CASE msg.type # "msg.broadcast" /\ M!Has(msg.to)
    <2>1. M!PlaceOf(msg.to) \in DOMAIN handlers
      BY <1>3 DEF M!Has, M!PlaceOf
    <2>2. handlers[M!PlaceOf(msg.to)] \in Handler
      BY <1>1, <2>1
    <2>3. M!Recipients(msg) = <<handlers[M!PlaceOf(msg.to)]>>
      BY <1>3 DEF M!Recipients
    <2> QED
      BY <1>3, <2>2, <2>3
  <1>4. CASE msg.type # "msg.broadcast" /\ ~M!Has(msg.to)
    BY <1>4 DEF M!Recipients
  <1> QED
    BY <1>2, <1>3, <1>4

\* What routing a message adds: a delivery for each recipient, or a dead letter.
LEMMA RouteAdds ==
    ASSUME MessengerInv, M!RouteMessage
    PROVE  LET seq == Last(sending)
               to == M!Recipients(historyList[seq].msg)
               new == [i \in DOMAIN to |-> [seq |-> seq, to |-> to[i].agent, handler |-> to[i].handler]]
           IN  /\ seq \in Nat /\ seq \in DOMAIN historyList /\ to \in Seq(Handler)
               /\ new \in Seq(Delivery) /\ Len(new) = Len(to)
               /\ queue' = queue \o new
               /\ M!Deliveries' = M!Deliveries \o new
               /\ deadList' = deadList \o M!Undeliverable(seq)
               /\ sending' = Front(sending)
               /\ drainScheduled'
               /\ UNCHANGED <<handlers, registered, historyList, batch, calls, taken>>
  <1> DEFINE seq == Last(sending)
             to == M!Recipients(historyList[seq].msg)
             new == [i \in DOMAIN to |-> [seq |-> seq, to |-> to[i].agent, handler |-> to[i].handler]]
  <1>1. /\ sending # <<>>
        /\ queue' = queue \o new
        /\ deadList' = deadList \o M!Undeliverable(seq)
        /\ sending' = Front(sending)
        /\ drainScheduled'
        /\ UNCHANGED <<handlers, registered, historyList, batch, calls, taken>>
    BY MessengerLibrary DEF M!RouteMessage, M!Enqueued, M!ScheduleDrain
  <1>2. /\ sending \in Seq(Nat) /\ calls \in Seq(Delivery) /\ batch \in Seq(Delivery)
        /\ queue \in Seq(Delivery) /\ SendsNested
    BY DEF MessengerInv, MessengerTypeOK
  <1>3. Len(sending) \in DOMAIN sending
    BY <1>1, <1>2
  <1>4. seq \in Nat /\ seq \in DOMAIN historyList
    BY <1>2, <1>3 DEF SendsNested, Last
  <1>5. to \in Seq(Handler)
    BY RecipientsOf
  <1> HIDE DEF seq, to
  <1>6. new \in Seq(Delivery) /\ Len(new) = Len(to)
    <2>1. \A i \in DOMAIN to : to[i] \in Handler
      BY <1>5
    <2>2. \A i \in 1..Len(to) :
            [seq |-> seq, to |-> to[i].agent, handler |-> to[i].handler] \in Delivery
      BY <1>4, <1>5, <2>1 DEF Handler, Delivery
    <2>3. DOMAIN to = 1..Len(to) /\ Len(to) \in Nat
      BY <1>5
    <2> QED
      BY <2>2, <2>3
  <1> HIDE DEF new
  <1>7. M!Deliveries' = M!Deliveries \o new
    <2>1. calls \o batch \o (queue \o new) = (calls \o batch \o queue) \o new
      BY SMTT(30), <1>2, <1>6, FourConcat
    <2> QED
      BY <1>1, <2>1, Zenon DEF M!Deliveries
  <1> QED
    BY <1>1, <1>4, <1>5, <1>6, <1>7 DEF seq, to, new

\* The last of a sequence, and what comes before it.
LEMMA FrontLast ==
    ASSUME NEW Entries, NEW s \in Seq(Entries), s # <<>>
    PROVE  /\ Len(s) \in Nat \ {0} /\ DOMAIN s = 1..Len(s)
           /\ Front(s) \in Seq(Entries) /\ DOMAIN Front(s) = 1..(Len(s) - 1)
           /\ \A i \in 1..(Len(s) - 1) : Front(s)[i] = s[i]
           /\ Last(s) = s[Len(s)]
  <1> DEFINE n == Len(s) - 1
  <1>1. Len(s) \in Nat \ {0} /\ DOMAIN s = 1..Len(s) /\ n \in Nat /\ n = Len(s) - 1
    OBVIOUS
  <1> HIDE DEF n
  <1>2. SubSeq(s, 1, n) \in Seq(Entries)
    BY <1>1
  <1>3. Len(SubSeq(s, 1, n)) = n
    BY <1>1
  <1>4. \A i \in 1..n : SubSeq(s, 1, n)[i] = s[i]
    BY <1>1
  <1>5. DOMAIN SubSeq(s, 1, n) = 1..n
    BY <1>2, <1>3, LenProperties
  <1> QED
    BY <1>1, <1>2, <1>4, <1>5 DEF Front, Last, n

\* How routing the innermost send changes the sends under way, the deliveries D
\* and the dead letters.
Routes(n, seq, to, new, letters, D) ==
    /\ DOMAIN sending = 1..n /\ DOMAIN sending' = 1..(n - 1) /\ sending' \in Seq(Nat)
    /\ \A i \in 1..(n - 1) : sending'[i] = sending[i]
    /\ seq = sending[n] /\ seq \in DOMAIN historyList
    /\ D = M!Deliveries /\ M!Deliveries' = D \o new
    /\ queue' = queue \o new /\ deadList' = deadList \o letters
    /\ drainScheduled'
    /\ UNCHANGED <<handlers, registered, historyList, batch, calls, taken>>
    /\ DOMAIN new = DOMAIN to /\ DOMAIN to = 1..Len(to) /\ Len(to) \in Nat
    /\ \A i \in DOMAIN to : new[i].seq = seq /\ new[i].to = to[i].agent
    /\ IF historyList[seq].msg.type = "msg.broadcast" THEN to = handlers /\ letters = <<>>
       ELSE \/ Len(to) = 1 /\ letters = <<>>
            \/ to = <<>> /\ letters = <<seq>>

\* A routing does that, with what its message and its recipients are.
LEMMA RouteIsRoutes ==
    ASSUME MessengerInv, M!RouteMessage
    PROVE  \E n \in Nat \ {0}, seq \in Nat, to \in Seq(Handler), new \in Seq(Delivery),
              letters \in Seq(Nat), D \in Seq(Delivery) : Routes(n, seq, to, new, letters, D)
  <1> DEFINE seq == Last(sending)
             to == M!Recipients(historyList[seq].msg)
             new == [i \in DOMAIN to |-> [seq |-> seq, to |-> to[i].agent, handler |-> to[i].handler]]
             n == Len(sending)
             letters == M!Undeliverable(seq)
             D == M!Deliveries
  <1>1. /\ seq \in Nat /\ seq \in DOMAIN historyList /\ to \in Seq(Handler)
        /\ new \in Seq(Delivery) /\ Len(new) = Len(to)
        /\ queue' = queue \o new
        /\ M!Deliveries' = M!Deliveries \o new
        /\ deadList' = deadList \o M!Undeliverable(seq)
        /\ sending' = Front(sending)
        /\ drainScheduled'
        /\ UNCHANGED <<handlers, registered, historyList, batch, calls, taken>>
    BY RouteAdds
  <1>2. D \in Seq(Delivery)
    BY DeliveredIsRouted
  <1>3. letters \in Seq(Nat)
    <2>1. letters = <<>> \/ letters = <<seq>>
      BY Zenon DEF M!Undeliverable
    <2>2. seq \in Nat
      BY <1>1
    <2> HIDE DEF seq, to, new, n, letters, D
    <2>3. <<>> \in Seq(Nat) /\ <<seq>> \in Seq(Nat)
      BY <2>2
    <2> QED
      BY <2>1, <2>3, Zenon
  <1>4. IF historyList[seq].msg.type = "msg.broadcast"
        THEN to = handlers /\ letters = <<>>
        ELSE \/ Len(to) = 1 /\ letters = <<>>
             \/ to = <<>> /\ letters = <<seq>>
    BY RecipientsOf DEF M!Undeliverable
  <1>5. \A i \in DOMAIN to : new[i].seq = seq /\ new[i].to = to[i].agent
    OBVIOUS
  <1>6. DOMAIN new = DOMAIN to /\ DOMAIN to = 1..Len(to) /\ Len(to) \in Nat
    <2>1. DOMAIN new = DOMAIN to
      BY Zenon
    <2>2. to \in Seq(Handler)
      BY <1>1
    <2> HIDE DEF seq, to, new, n, letters, D
    <2> QED
      BY <2>1, <2>2
  <1>7. sending \in Seq(Nat) /\ sending # <<>>
    BY DEF MessengerInv, MessengerTypeOK, M!RouteMessage
  <1>8. /\ n \in Nat \ {0} /\ DOMAIN sending = 1..n
        /\ sending' \in Seq(Nat) /\ DOMAIN sending' = 1..(n - 1)
        /\ \A i \in 1..(n - 1) : sending'[i] = sending[i]
        /\ seq = sending[n]
    BY <1>1, <1>7, FrontLast
  <1>9. D = M!Deliveries /\ M!Deliveries' = D \o new /\ deadList' = deadList \o letters
    BY <1>1
  <1> HIDE DEF seq, to, new, n, letters, D
  <1>10. Routes(n, seq, to, new, letters, D)
    BY <1>1, <1>4, <1>5, <1>6, <1>8, <1>9 DEF Routes
  <1> QED
    BY <1>1, <1>2, <1>3, <1>8, <1>10

\* Where an entry of two sequences together comes from.
LEMMA EntriesOfTwo ==
    ASSUME NEW Entries, NEW s \in Seq(Entries), NEW t \in Seq(Entries), NEW u, u = s \o t
    PROVE  /\ DOMAIN s = 1..Len(s) /\ Len(s) \in Nat
           /\ u \in Seq(Entries)
           /\ \A i \in DOMAIN s : i \in DOMAIN u /\ u[i] = s[i]
           /\ \A i \in DOMAIN t : i + Len(s) \in DOMAIN u /\ u[i + Len(s)] = t[i]
           /\ \A i \in DOMAIN u :
                 \/ i \in DOMAIN s
                 \/ i > Len(s) /\ i - Len(s) \in DOMAIN t /\ u[i] = t[i - Len(s)]
  BY ConcatIndices

\* The sends under way, one less, are nested as before.
LEMMA RoutedSends ==
    ASSUME MessengerInv, NEW n \in Nat \ {0}, NEW seq \in Nat, NEW to, NEW new, NEW letters, NEW D,
           Routes(n, seq, to, new, letters, D)
    PROVE  /\ SendsNested' /\ ~IsRouted(seq) /\ IsRouted(seq)'
           /\ \A q \in Nat \ {seq} : IsRouted(q)' <=> IsRouted(q)
           /\ \A q \in DOMAIN historyList : seq < q => seq \in historyList[q].within
  <1>1. /\ DOMAIN sending = 1..n /\ DOMAIN sending' = 1..(n - 1)
        /\ \A i \in 1..(n - 1) : sending'[i] = sending[i]
        /\ seq = sending[n] /\ seq \in DOMAIN historyList
        /\ historyList' = historyList
    BY DEF Routes
  <1>2. /\ \A i \in 1..n : i \in 1..(n - 1) \/ i = n
        /\ \A i \in 1..(n - 1) : i \in 1..n /\ i < n
        /\ n \in 1..n
    OBVIOUS
  <1>3. /\ \A i \in 1..n : sending[i] \in DOMAIN historyList
        /\ \A i, j \in 1..n : i < j => sending[i] < sending[j]
        /\ \A q \in DOMAIN historyList, i \in 1..n :
              sending[i] < q => sending[i] \in historyList[q].within
    BY <1>1 DEF MessengerInv, SendsNested
  <1>4. \A i \in 1..(n - 1) : sending[i] < seq
    BY <1>1, <1>2, <1>3
  <1>5. \A i \in 1..n : sending[i] \in Nat
    <2>1. sending \in Seq(Nat)
      BY DEF MessengerInv, MessengerTypeOK
    <2> QED
      BY <1>1, <2>1
  <1>6. \A i \in 1..(n - 1) : sending[i] # seq
    BY <1>2, <1>4, <1>5
  <1>7. SendsNested'
    <2>1. \A i \in 1..(n - 1) : sending'[i] \in DOMAIN historyList
      BY <1>1, <1>2, <1>3
    <2>2. \A i, j \in 1..(n - 1) : i < j => sending'[i] < sending'[j]
      BY <1>1, <1>2, <1>3
    <2>3. \A q \in DOMAIN historyList, i \in 1..(n - 1) :
            sending'[i] < q => sending'[i] \in historyList[q].within
      BY <1>1, <1>2, <1>3
    <2> QED
      BY <1>1, <2>1, <2>2, <2>3, Zenon DEF SendsNested
  <1>8. ~IsRouted(seq)
    BY <1>1, <1>2 DEF IsRouted
  <1>9. IsRouted(seq)'
    <2>1. \A i \in 1..(n - 1) : sending'[i] # seq
      BY <1>1, <1>6
    <2> QED
      BY <1>1, <2>1, Zenon DEF IsRouted
  <1>10. ASSUME NEW q \in Nat \ {seq} PROVE IsRouted(q)' <=> IsRouted(q)
    <2>1. (\A i \in 1..n : sending[i] # q) <=> (\A i \in 1..(n - 1) : sending'[i] # q)
      BY <1>1, <1>2
    <2> QED
      BY <1>1, <2>1, Zenon DEF IsRouted
  <1>11. \A q \in DOMAIN historyList : seq < q => seq \in historyList[q].within
    BY <1>1, <1>2, <1>3
  <1> QED
    BY <1>7, <1>8, <1>9, <1>10, <1>11

\* What routing delivers comes after all else, and only what was sent within it
\* has overtaken it.
LEMMA RoutedInOrder ==
    ASSUME MessengerInv, NEW n \in Nat \ {0}, NEW seq \in Nat, NEW to \in Seq(Handler),
           NEW new \in Seq(Delivery), NEW letters \in Seq(Nat), NEW D \in Seq(Delivery),
           Routes(n, seq, to, new, letters, D)
    PROVE  CalledInOrder'
  <1> DEFINE later == M!Deliveries'
  <1>1. D = M!Deliveries /\ later = D \o new /\ historyList' = historyList
    BY DEF Routes
  <1>2. \A i \in DOMAIN new : new[i].seq = seq
    BY DEF Routes
  <1>3. \A i, j \in DOMAIN D :
           i < j /\ D[i].seq > D[j].seq => D[j].seq \in historyList[D[i].seq].within
    BY <1>1 DEF MessengerInv, CalledInOrder, M!CalledInOrder
  <1>4. \A i \in DOMAIN D : D[i].seq \in Nat /\ D[i].seq \in DOMAIN historyList
    BY <1>1, DeliveredIsRouted DEF IsRouted
  <1>5. \A q \in DOMAIN historyList : seq < q => seq \in historyList[q].within
    BY RoutedSends
  <1>a. (\A i, j \in DOMAIN later : i < j /\ later[i].seq > later[j].seq
               => later[j].seq \in historyList'[later[i].seq].within) => CalledInOrder'
    BY Zenon DEF CalledInOrder, M!CalledInOrder
  <1> HIDE DEF later
  <1>6. /\ DOMAIN D = 1..Len(D) /\ Len(D) \in Nat /\ later \in Seq(Delivery)
        /\ \A i \in DOMAIN D : i \in DOMAIN later /\ later[i] = D[i]
        /\ \A i \in DOMAIN later :
              \/ i \in DOMAIN D
              \/ i > Len(D) /\ i - Len(D) \in DOMAIN new /\ later[i] = new[i - Len(D)]
    BY <1>1, EntriesOfTwo
  <1>7. ASSUME NEW i \in DOMAIN later, NEW j \in DOMAIN later, i < j, later[i].seq > later[j].seq
        PROVE  later[j].seq \in historyList[later[i].seq].within
    <2>0. i \in Nat \ {0} /\ j \in Nat
      BY <1>6
    <2>1. CASE j \in DOMAIN D
      <3>1. i \in DOMAIN D
        BY <1>6, <1>7, <2>0, <2>1
      <3> QED
        BY <1>3, <1>6, <1>7, <2>1, <3>1
    <2>2. CASE j \notin DOMAIN D
      <3>1. later[j].seq = seq
        BY <1>2, <1>6, <2>2
      <3>2. i \in DOMAIN D
        <4>1. CASE i \notin DOMAIN D
          <5>1. later[i].seq = seq
            BY <1>2, <1>6, <4>1
          <5> QED
            BY <1>7, <3>1, <5>1
        <4> QED
          BY <4>1
      <3>3. later[i] = D[i] /\ D[i].seq \in DOMAIN historyList /\ D[i].seq \in Nat
        BY <1>4, <1>6, <3>2
      <3>4. seq < D[i].seq
        BY <1>7, <3>1, <3>3
      <3> QED
        BY <1>5, <3>1, <3>3, <3>4
    <2> QED
      BY <2>1, <2>2
  <1> QED
    BY <1>1, <1>7, <1>a

\* The other messages keep their fate.
LEMMA RoutedOthers ==
    ASSUME MessengerInv, NEW n \in Nat \ {0}, NEW seq \in Nat, NEW to \in Seq(Handler),
           NEW new \in Seq(Delivery), NEW letters \in Seq(Nat), NEW D \in Seq(Delivery),
           Routes(n, seq, to, new, letters, D), NEW q \in Nat \ {seq}
    PROVE  IF IsRouted(q)' THEN Fate(q)' ELSE NoFate(q)'
  <1>1. /\ D = M!Deliveries /\ M!Deliveries' = D \o new /\ deadList' = deadList \o letters
        /\ UNCHANGED <<historyList, taken>>
    BY DEF Routes
  <1>2. \A i \in DOMAIN new : new[i].seq = seq
    BY DEF Routes
  <1>3. \A i \in DOMAIN letters : letters[i] = seq
    BY DEF Routes
  <1>4. IF IsRouted(q) THEN Fate(q) ELSE NoFate(q)
    BY DEF MessengerInv, Fates
  <1>5. IsRouted(q)' <=> IsRouted(q)
    BY RoutedSends
  <1>6. /\ \A i \in DOMAIN D : i \in DOMAIN M!Deliveries' /\ M!Deliveries'[i] = D[i]
        /\ \A i \in DOMAIN M!Deliveries' :
              \/ i \in DOMAIN D
              \/ i > Len(D) /\ i - Len(D) \in DOMAIN new /\ M!Deliveries'[i] = new[i - Len(D)]
    BY SMTT(30), <1>1, EntriesOfTwo
  <1>7. DeliveriesOf(q)' = DeliveriesOf(q)
    <2>1. \A i \in DOMAIN M!Deliveries' : M!Deliveries'[i].seq = q => i \in DOMAIN D
      BY <1>2, <1>6
    <2> QED
      BY <1>1, <1>6, <2>1 DEF DeliveriesOf
  <1>8. \A i \in DeliveriesOf(q) : M!Deliveries'[i] = M!Deliveries[i]
    BY <1>1, <1>6 DEF DeliveriesOf
  <1>9. LettersOf(q)' = LettersOf(q)
    <2>1. deadList \in Seq(Nat)
      BY DEF MessengerInv, MessengerTypeOK
    <2>2. /\ \A i \in DOMAIN deadList : i \in DOMAIN deadList' /\ deadList'[i] = deadList[i]
          /\ \A i \in DOMAIN deadList' :
                \/ i \in DOMAIN deadList
                \/ /\ i > Len(deadList) /\ i - Len(deadList) \in DOMAIN letters
                   /\ deadList'[i] = letters[i - Len(deadList)]
      BY SMTT(30), <1>1, <2>1, EntriesOfTwo
    <2> QED
      BY <1>3, <2>2 DEF LettersOf
  <1> QED
    BY <1>1, <1>4, <1>5, <1>7, <1>8, <1>9 DEF Fate, NoFate

\* The message gets its fate.
LEMMA RoutedFate ==
    ASSUME MessengerInv, NEW n \in Nat \ {0}, NEW seq \in Nat, NEW to \in Seq(Handler),
           NEW new \in Seq(Delivery), NEW letters \in Seq(Nat), NEW D \in Seq(Delivery),
           Routes(n, seq, to, new, letters, D)
    PROVE  Fate(seq)'
  <1>1. /\ D = M!Deliveries /\ M!Deliveries' = D \o new /\ deadList' = deadList \o letters
        /\ UNCHANGED <<historyList, taken>>
    BY DEF Routes
  <1>2. NoFate(seq)
    BY RoutedSends DEF MessengerInv, Fates
  <1>3. \A i \in DOMAIN D : D[i].seq # seq
    BY <1>1, <1>2 DEF NoFate, DeliveriesOf
  <1>4. /\ DOMAIN new = DOMAIN to /\ DOMAIN to = 1..Len(to) /\ Len(to) \in Nat
        /\ \A i \in DOMAIN to : new[i].seq = seq /\ new[i].to = to[i].agent
    BY DEF Routes
  <1>5. IF historyList[seq].msg.type = "msg.broadcast" THEN to = handlers /\ letters = <<>>
        ELSE \/ Len(to) = 1 /\ letters = <<>>
             \/ to = <<>> /\ letters = <<seq>>
    BY DEF Routes
  <1>6. /\ DOMAIN D = 1..Len(D) /\ Len(D) \in Nat /\ M!Deliveries' \in Seq(Delivery)
        /\ \A i \in DOMAIN D : i \in DOMAIN M!Deliveries' /\ M!Deliveries'[i] = D[i]
        /\ \A i \in DOMAIN new : i + Len(D) \in DOMAIN M!Deliveries'
                                     /\ M!Deliveries'[i + Len(D)] = new[i]
        /\ \A i \in DOMAIN M!Deliveries' :
              \/ i \in DOMAIN D
              \/ i > Len(D) /\ i - Len(D) \in DOMAIN new /\ M!Deliveries'[i] = new[i - Len(D)]
    BY SMTT(30), <1>1, EntriesOfTwo
  <1>7. /\ \A i \in DOMAIN new : i + Len(D) \in DeliveriesOf(seq)'
        /\ \A k \in DeliveriesOf(seq)' : \E i \in DOMAIN new : k = i + Len(D)
    <2>1. \A i \in DOMAIN new : i + Len(D) \in DeliveriesOf(seq)'
      BY <1>4, <1>6 DEF DeliveriesOf
    <2>2. ASSUME NEW k \in DeliveriesOf(seq)' PROVE \E i \in DOMAIN new : k = i + Len(D)
      <3>1. k \in DOMAIN M!Deliveries' /\ M!Deliveries'[k].seq = seq
        BY DEF DeliveriesOf
      <3>2. k - Len(D) \in DOMAIN new
        BY <1>3, <1>6, <3>1
      <3>3. k \in Nat
        BY <1>6, <3>1
      <3>4. k = (k - Len(D)) + Len(D)
        BY <1>6, <3>3
      <3> QED
        BY <3>2, <3>4
    <2> QED
      BY <2>1, <2>2
  <1>8. deadList \in Seq(Nat)
    BY DEF MessengerInv, MessengerTypeOK
  <1>9. \A i \in DOMAIN deadList : deadList[i] # seq
    BY <1>2 DEF NoFate, LettersOf
  <1>10. letters = <<>> => LettersOf(seq)' = {}
    <2>1. letters = <<>> => deadList' = deadList
      BY <1>1, <1>8
    <2> QED
      BY <1>9, <2>1 DEF LettersOf
  <1>11. seq \notin taken'
    BY <1>1, <1>2 DEF NoFate
  <1>12. CASE historyList[seq].msg.type = "msg.broadcast"
    <2>1. to = handlers /\ letters = <<>>
      BY <1>5, <1>12
    <2>2. ASSUME NEW i \in DeliveriesOf(seq)', NEW j \in DeliveriesOf(seq)',
                 M!Deliveries'[i].to = M!Deliveries'[j].to
          PROVE  i = j
      <3>1. PICK k \in DOMAIN new : i = k + Len(D)
        BY <1>7
      <3>2. PICK l \in DOMAIN new : j = l + Len(D)
        BY <1>7
      <3>3. M!Deliveries'[i] = new[k] /\ M!Deliveries'[j] = new[l]
        BY <1>6, <3>1, <3>2
      <3>4. k \in DOMAIN handlers /\ l \in DOMAIN handlers
            /\ handlers[k].agent = handlers[l].agent
        BY <1>4, <2>1, <2>2, <3>3
      <3>5. k = l
        BY <3>4 DEF MessengerInv, OneHandlerEach
      <3> QED
        BY <3>1, <3>2, <3>5
    <2>3. LettersOf(seq)' = {}
      BY <1>10, <2>1
    <2> QED
      BY <1>1, <1>11, <1>12, <2>2, <2>3, Zenon DEF Fate
  <1>13. CASE historyList[seq].msg.type # "msg.broadcast" /\ Len(to) = 1 /\ letters = <<>>
    <2>1. DOMAIN new = {1}
      BY <1>4, <1>13
    <2>2. DeliveriesOf(seq)' = {1 + Len(D)}
      BY <1>7, <2>1
    <2>3. One(DeliveriesOf(seq)')
      BY <2>2, Zenon DEF One
    <2>4. LettersOf(seq)' = {}
      BY <1>10, <1>13
    <2> QED
      BY <1>1, <1>11, <1>13, <2>3, <2>4, Zenon DEF Fate, One
  <1>14. CASE historyList[seq].msg.type # "msg.broadcast" /\ to = <<>> /\ letters = <<seq>>
    <2>1. DOMAIN new = {}
      BY <1>4, <1>14
    <2>2. DeliveriesOf(seq)' = {}
      BY <1>7, <2>1
    <2>3. LettersOf(seq)' = {Len(deadList) + 1}
      <3>1. deadList' = Append(deadList, seq)
        BY <1>1, <1>8, <1>14
      <3>2. /\ Len(deadList) \in Nat /\ DOMAIN deadList' = 1..(Len(deadList) + 1)
            /\ deadList'[Len(deadList) + 1] = seq
            /\ \A i \in 1..Len(deadList) : i \in DOMAIN deadList /\ deadList'[i] = deadList[i]
        BY <1>8, <3>1
      <3>3. \A i \in 1..(Len(deadList) + 1) : i \in 1..Len(deadList) \/ i = Len(deadList) + 1
        BY <3>2
      <3>4. Len(deadList) + 1 \in 1..(Len(deadList) + 1)
        BY <3>2
      <3> QED
        BY <1>9, <3>2, <3>3, <3>4 DEF LettersOf
    <2>4. One(LettersOf(seq)')
      BY <2>3, Zenon DEF One
    <2> QED
      BY <1>1, <1>11, <1>14, <2>2, <2>4, Zenon DEF Fate, One
  <1> QED
    BY <1>5, <1>12, <1>13, <1>14

\* A message is routed: it gets its fate, and the others keep theirs.
LEMMA RouteStep ==
    ASSUME MessengerInv, M!RouteMessage
    PROVE  MessengerInv'
  <1>1. PICK n \in Nat \ {0}, seq \in Nat, to \in Seq(Handler), new \in Seq(Delivery),
             letters \in Seq(Nat), D \in Seq(Delivery) : Routes(n, seq, to, new, letters, D)
    BY RouteIsRoutes
  <1>2. /\ sending' \in Seq(Nat) /\ queue' = queue \o new /\ deadList' = deadList \o letters
        /\ drainScheduled'
        /\ UNCHANGED <<handlers, registered, historyList, batch, calls, taken>>
    BY <1>1 DEF Routes
  <1>3. MessengerTypeOK'
    <2>1. queue \in Seq(Delivery) /\ deadList \in Seq(Nat)
      BY DEF MessengerInv, MessengerTypeOK
    <2>2. queue' \in Seq(Delivery) /\ deadList' \in Seq(Nat)
      BY <1>2, <2>1
    <2> QED
      BY <1>2, <2>2 DEF MessengerInv, MessengerTypeOK
  <1>4. SendsNested' /\ IsRouted(seq)'
    BY <1>1, RoutedSends
  <1>5. CalledInOrder'
    BY <1>1, RoutedInOrder
  <1>6. Fate(seq)'
    BY <1>1, RoutedFate
  <1>7. \A q \in Nat \ {seq} : IF IsRouted(q)' THEN Fate(q)' ELSE NoFate(q)'
    BY <1>1, RoutedOthers
  <1>8. Fates'
    BY <1>4, <1>6, <1>7 DEF Fates
  <1> QED
    BY <1>2, <1>3, <1>4, <1>5, <1>8 DEF MessengerInv, OneHandlerEach

\* The handler of the first entry is called: the deliveries stay in their order.
LEMMA CallStep ==
    ASSUME NEW Entries, NEW before \in Seq(Entries), NEW waiting \in Seq(Entries),
           NEW after, NEW left,
           left = IF waiting = <<>> THEN <<>> ELSE Tail(waiting),
           after = IF waiting = <<>> THEN before ELSE Append(before, Head(waiting))
    PROVE  /\ after \in Seq(Entries) /\ left \in Seq(Entries)
           /\ after \o left = before \o waiting
  <1>1. CASE waiting = <<>>
    BY <1>1
  <1>2. CASE waiting # <<>>
    BY <1>2, HeadMoves
  <1> QED
    BY <1>1, <1>2

\* Nothing is added.
LEMMA NothingAdded ==
    ASSUME NEW Entries
    PROVE  \A s \in Seq(Entries) : s \o <<>> = s
  OBVIOUS

\* A drain starts, or goes on with its batch.
LEMMA DrainStep ==
    ASSUME MessengerInv, M!DrainStarts \/ M!Deliver
    PROVE  MessengerInv'
  <1>1. /\ calls \in Seq(Delivery) /\ batch \in Seq(Delivery) /\ queue \in Seq(Delivery)
        /\ <<>> \in Seq(Delivery)
        /\ queue # <<>> => drainScheduled
    BY DEF MessengerInv, MessengerTypeOK
  <1>2. UNCHANGED <<handlers, registered, historyList, deadList, sending, taken>>
    BY DEF M!DrainStarts, M!Deliver
  <1>3. /\ M!Deliveries' = M!Deliveries
        /\ calls' \in Seq(Delivery) /\ batch' \in Seq(Delivery) /\ queue' \in Seq(Delivery)
        /\ queue' # <<>> => drainScheduled'
    <2>1. CASE M!DrainStarts
      <3>1. /\ batch = <<>> /\ queue' = <<>>
            /\ batch' = IF queue = <<>> THEN <<>> ELSE Tail(queue)
            /\ calls' = IF queue = <<>> THEN calls ELSE Append(calls, Head(queue))
        BY <2>1 DEF M!DrainStarts, M!CallFirst
      <3>2. /\ calls' \in Seq(Delivery) /\ batch' \in Seq(Delivery)
            /\ calls' \o batch' = calls \o queue
        BY <1>1, <3>1, CallStep
      <3>3. M!Deliveries' = M!Deliveries
        <4>1. calls \o queue \in Seq(Delivery)
          BY <1>1
        <4>2. (calls \o queue) \o <<>> = calls \o queue /\ calls \o <<>> = calls
          BY <1>1, <4>1, NothingAdded
        <4> QED
          BY <3>1, <3>2, <4>2, Zenon DEF M!Deliveries
      <3> QED
        BY <1>1, <3>1, <3>2, <3>3
    <2>2. CASE M!Deliver
      <3>1. UNCHANGED <<queue, drainScheduled>>
        BY <2>2 DEF M!Deliver
      <3>2. /\ calls' \in Seq(Delivery) /\ batch' \in Seq(Delivery)
            /\ calls' \o batch' = calls \o batch
        <4>1. batch # <<>> /\ batch' = Tail(batch) /\ calls' = Append(calls, Head(batch))
          BY <2>2 DEF M!Deliver, M!CallFirst
        <4>2. /\ Append(calls, Head(batch)) \in Seq(Delivery) /\ Tail(batch) \in Seq(Delivery)
              /\ Append(calls, Head(batch)) \o Tail(batch) = calls \o batch
          BY <1>1, <4>1, HeadMoves
        <4> QED
          BY <4>1, <4>2, Zenon
      <3>3. M!Deliveries' = M!Deliveries
        BY <3>1, <3>2, Zenon DEF M!Deliveries
      <3> QED
        BY <1>1, <3>1, <3>2, <3>3
    <2> QED
      BY <2>1, <2>2
  <1>4. handlers' \in Seq(Handler) /\ registered' \in Nat /\ OneHandlerEach'
    BY <1>2 DEF MessengerInv, MessengerTypeOK, OneHandlerEach
  <1> QED
    BY <1>2, <1>3, <1>4, FlowStep

\* A handler fails, the caller takes the dead letters, or nothing happens.
LEMMA QuietStep ==
    ASSUME MessengerInv,
           (\E i \in DOMAIN calls : M!HandlerFails(i)) \/ M!TakeDeadLetters \/ UNCHANGED M!vars
    PROVE  MessengerInv'
  <1>1. /\ UNCHANGED <<handlers, registered, historyList, queue, batch, drainScheduled, sending, calls>>
        /\ \/ UNCHANGED <<deadList, taken>>
           \/ deadList' = <<>> /\ taken' = taken \cup Range(deadList)
    BY MessengerLibrary DEF M!HandlerFails, M!TakeDeadLetters, M!vars
  <1>2. /\ calls \in Seq(Delivery) /\ batch \in Seq(Delivery) /\ queue \in Seq(Delivery)
        /\ handlers \in Seq(Handler) /\ registered \in Nat /\ OneHandlerEach
        /\ queue # <<>> => drainScheduled
    BY DEF MessengerInv, MessengerTypeOK
  <1>3. M!Deliveries' = M!Deliveries /\ OneHandlerEach'
    BY <1>1, <1>2 DEF M!Deliveries, OneHandlerEach
  <1> QED
    BY <1>1, <1>2, <1>3, FlowStep

\* Every step of the messenger is one of these.
LEMMA MessengerStep ==
    ASSUME MessengerInv, [M!Next]_(M!vars)
    PROVE  MessengerInv'
  <1>1. CASE \E agent \in Agents : M!Register(agent) \/ M!Unregister(agent)
    BY <1>1, HandlersStep
  <1>2. CASE \E raw \in M!Messages : M!Send(raw)
    BY <1>2, SendStep
  <1> QED
    BY <1>1, <1>2, RouteStep, DrainStep, QuietStep DEF M!Next

\* The channel starts with no message.
LEMMA MessengerStarts ==
    ASSUME M!Init
    PROVE  MessengerInv
  <1>1. /\ handlers = <<>> /\ registered = 0 /\ historyList = <<>> /\ deadList = <<>>
        /\ queue = <<>> /\ batch = <<>> /\ sending = <<>> /\ calls = <<>> /\ taken = {}
    BY DEF M!Init
  <1>2. DOMAIN M!Deliveries = {} /\ \A T0 : <<>> \in Seq(T0)
    <2>1. M!Deliveries = <<>>
      BY <1>1 DEF M!Deliveries
    <2> QED
      BY <2>1
  <1>3. MessengerTypeOK
    BY <1>1, <1>2 DEF MessengerTypeOK
  <1>4. OneHandlerEach /\ SendsNested
    BY <1>1 DEF OneHandlerEach, SendsNested
  <1>5. CalledInOrder
    BY <1>2 DEF CalledInOrder, M!CalledInOrder
  <1>6. Fates
    BY <1>1, <1>2 DEF Fates, IsRouted, NoFate, DeliveriesOf, LettersOf
  <1> QED
    BY <1>1, <1>3, <1>4, <1>5, <1>6 DEF MessengerInv

\* So the invariant of the messenger always holds.
LEMMA MessengerHolds == M!Spec => []MessengerInv
  BY MessengerStarts, MessengerStep, PTL DEF M!Spec

\* How many a set of one, and an empty set, has.
LEMMA CountsOfFate ==
    ASSUME NEW set
    PROVE  /\ set = {} => Cardinality(set) = 0
           /\ One(set) => Cardinality(set) = 1
  BY FS_EmptySet, FS_Singleton DEF One

\* A message to one agent is handed to one handler or is a dead letter, a
\* broadcast goes to no agent twice, and what waits has a drain to come, for any
\* nesting of sends, registrations and failing handlers (messenger.ts).
THEOREM MessagesReachOne == M!Spec => []MessagesAccounted
  <1>1. MessengerInv => MessagesAccounted
    <2> SUFFICES ASSUME MessengerInv PROVE MessagesAccounted
      OBVIOUS
    <2>1. ASSUME NEW seq \in DOMAIN historyList \ M!Range(sending)
          PROVE  LET dead == M!Cardinality({i \in DOMAIN deadList : deadList[i] = seq})
                                 + M!Cardinality(taken \cap {seq})
                 IN  IF historyList[seq].msg.type = "msg.broadcast"
                     THEN /\ dead = 0
                          /\ \A i, j \in DOMAIN M!Deliveries :
                                 M!Deliveries[i].seq = seq /\ M!Deliveries[j].seq = seq /\ i # j
                                     => M!Deliveries[i].to # M!Deliveries[j].to
                     ELSE M!CountOf(seq) + dead = 1
      <3>1. seq \in Nat /\ IsRouted(seq)
        <4>1. historyList \in Seq(SentMessage)
          BY DEF MessengerInv, MessengerTypeOK
        <4> QED
          BY <4>1, MessengerLibrary DEF IsRouted, Range
      <3>2. Fate(seq)
        BY <3>1 DEF MessengerInv, Fates
      <3>3. /\ M!Cardinality({i \in DOMAIN deadList : deadList[i] = seq}) = Cardinality(LettersOf(seq))
            /\ M!CountOf(seq) = Cardinality(DeliveriesOf(seq))
            /\ M!Cardinality(taken \cap {seq}) = Cardinality(taken \cap {seq})
        BY MessengerLibrary, Zenon DEF M!CountOf, LettersOf, DeliveriesOf
      <3>4. Cardinality(taken \cap {seq}) = IF seq \in taken THEN 1 ELSE 0
        <4>1. CASE seq \in taken
          <5>1. taken \cap {seq} = {seq}
            BY <4>1
          <5> QED
            BY <4>1, <5>1, FS_Singleton
        <4>2. CASE seq \notin taken
          <5>1. taken \cap {seq} = {}
            BY <4>2
          <5> QED
            BY <4>2, <5>1, FS_EmptySet
        <4> QED
          BY <4>1, <4>2
      <3>5. /\ LettersOf(seq) = {} => Cardinality(LettersOf(seq)) = 0
            /\ One(LettersOf(seq)) => Cardinality(LettersOf(seq)) = 1
            /\ DeliveriesOf(seq) = {} => Cardinality(DeliveriesOf(seq)) = 0
            /\ One(DeliveriesOf(seq)) => Cardinality(DeliveriesOf(seq)) = 1
        BY CountsOfFate
      <3>6. CASE historyList[seq].msg.type = "msg.broadcast"
        <4>1. /\ LettersOf(seq) = {} /\ seq \notin taken
              /\ \A i, j \in DeliveriesOf(seq) : M!Deliveries[i].to = M!Deliveries[j].to => i = j
          BY <3>2, <3>6 DEF Fate
        <4>2. \A i, j \in DOMAIN M!Deliveries :
                 M!Deliveries[i].seq = seq /\ M!Deliveries[j].seq = seq /\ i # j
                     => M!Deliveries[i].to # M!Deliveries[j].to
          BY <4>1 DEF DeliveriesOf
        <4> QED
          BY <3>3, <3>4, <3>5, <3>6, <4>1, <4>2
      <3>7. CASE historyList[seq].msg.type # "msg.broadcast"
        <4>1. \/ One(DeliveriesOf(seq)) /\ LettersOf(seq) = {} /\ seq \notin taken
              \/ DeliveriesOf(seq) = {} /\ One(LettersOf(seq)) /\ seq \notin taken
              \/ DeliveriesOf(seq) = {} /\ LettersOf(seq) = {} /\ seq \in taken
          BY <3>2, <3>7 DEF Fate
        <4> QED
          BY <3>3, <3>4, <3>5, <3>7, <4>1
      <3> QED
        BY <3>6, <3>7
    <2>2. queue # <<>> => drainScheduled
      BY DEF MessengerInv
    <2> QED
      BY <2>1, <2>2, Zenon DEF MessagesAccounted, M!MessagesAccounted
  <1> QED
    BY <1>1, MessengerHolds, PTL

\* Handlers are called in the order of the sends, but for what a subscriber sends
\* in the middle of another send (messenger.ts).
THEOREM CallsKeepOrder == M!Spec => []CalledInOrder
  <1>1. MessengerInv => CalledInOrder
    BY DEF MessengerInv
  <1> QED
    BY <1>1, MessengerHolds, PTL

----------------------------------------------------------------------------
(* The recovery of sandboxes.                                              *)

JournalEvent ==
    [type : {"sandbox.created", "sandbox.destroyed", "grant.granted", "grant.revoked",
             "daemon.started", "daemon.recovered", "correction"},
     id : Sandboxes \cup Caps \cup {Absent}, at : Nat,
     ttl : {Absent, Bad, 1}, duration : {Absent, 9}]

\* What may be in flight.
Thing == {R!Resource(kind, e) : kind \in {"sandbox", "grant"}, e \in JournalEvent}

InFlight == R!CollectInFlight(journal)

RecoveryTypeOK ==
    /\ provider \in {"memory", "docker", "microsandbox"}
    /\ host \in [Sandboxes -> {"none", "created", "running", "stopped"}]
    /\ record \in [Sandboxes -> {"unknown", "provisioning", "running", "stopped", "removed"}]
    /\ holders \in [Sandboxes -> {"none", "creating", "running", "stopped", "frozen",
                                  "discarding", "destroying"}]
    /\ up \in {"down", "recovering", "serving"}
    /\ journal \in Seq(JournalEvent) /\ InFlight \in Seq(Thing)

\* A sandbox is among what is in flight, and some event is about it.
Found(places, s) == \E i \in DOMAIN places : places[i].kind = "sandbox" /\ places[i].id = s
Named(s) == \E i \in DOMAIN journal : journal[i].id = s

\* What the provider and the host have of a sandbox, for each use of it.
StageFits(s) ==
    /\ holders[s] = "none" => host[s] = "none" \/ record[s] = "unknown"
                               \/ s \in excused \cup refused
    /\ holders[s] = "creating" => s \in unlogged /\ record[s] \in {"provisioning", "running"}
    /\ holders[s] = "running" => record[s] = "running"
    /\ holders[s] \in {"stopped", "frozen"} => record[s] = "stopped"
    /\ holders[s] = "discarding" => record[s] \in {"running", "stopped"}
    /\ holders[s] = "destroying" => host[s] = "none"

\* What the provider counts as removed is gone, and what it counts as there is.
RecordFits(s) ==
    /\ record[s] = "removed" => host[s] = "none"
    /\ record[s] \in {"running", "stopped"} => host[s] # "none"

\* A machine the log was told of is in flight; whoever was recorded is named in
\* the log or was kept out of it; and only a daemon that serves has sandboxes.
SandboxKnown(s) ==
    /\ host[s] # "none" /\ s \notin unlogged => Found(InFlight, s)
    /\ record[s] # "unknown" => s \in unlogged \/ Named(s)
    /\ up # "serving" => holders[s] = "none" /\ record[s] = "unknown"
    /\ StageFits(s) /\ RecordFits(s)

RecoveryInv == RecoveryTypeOK /\ \A s \in Sandboxes : SandboxKnown(s)

OfJournal == INSTANCE Folding WITH Op <- R!InFlightAfter, Base <- <<>>

\* The fold of the instance is that of the recovery.
LEMMA JournalFold ==
    ASSUME NEW l PROVE R!CollectInFlight(l) = OfJournal!FoldLeft(R!InFlightAfter, <<>>, l)
  BY Zenon DEF R!CollectInFlight, R!FoldLeft, OfJournal!FoldLeft, R!MapThenFoldSet,
               OfJournal!MapThenFoldSet, R!Max, OfJournal!Max

\* What is seen again is kept, and everything else with it.
LEMMA UpsertFinds ==
    ASSUME NEW l \in Seq(Thing), NEW r \in Thing
    PROVE  /\ R!Upsert(l, r) \in Seq(Thing)
           /\ \A s : Found(l, s) => Found(R!Upsert(l, r), s)
           /\ r.kind = "sandbox" => Found(R!Upsert(l, r), r.id)
  <1> DEFINE P == R!PlacesOf(l, r.kind, r.id)
  <1>1. P \subseteq DOMAIN l /\ \A i \in P : l[i].kind = r.kind /\ l[i].id = r.id
    BY DEF R!PlacesOf
  <1>2. CASE P = {}
    <2>1. R!Upsert(l, r) = Append(l, r)
      BY <1>2 DEF R!Upsert
    <2>2. /\ Append(l, r) \in Seq(Thing) /\ DOMAIN Append(l, r) = 1..(Len(l) + 1)
          /\ Append(l, r)[Len(l) + 1] = r /\ Len(l) + 1 \in 1..(Len(l) + 1)
          /\ \A i \in DOMAIN l : i \in 1..(Len(l) + 1) /\ Append(l, r)[i] = l[i]
      OBVIOUS
    <2> QED
      BY <2>1, <2>2 DEF Found
  <1>3. CASE P # {}
    <2> DEFINE m == [i \in DOMAIN l |-> IF i \in P THEN r ELSE l[i]]
    <2>1. R!Upsert(l, r) = m
      BY <1>3 DEF R!Upsert
    <2> HIDE DEF P
    <2>2. DOMAIN m = DOMAIN l /\ \A i \in DOMAIN l : m[i] = IF i \in P THEN r ELSE l[i]
      OBVIOUS
    <2>3. m \in Seq(Thing)
      OBVIOUS
    <2> HIDE DEF m
    <2>4. ASSUME NEW s, Found(l, s) PROVE Found(m, s)
      BY <1>1, <2>2, <2>4 DEF Found
    <2>5. PICK k \in P : TRUE
      BY <1>3
    <2>6. r.kind = "sandbox" => Found(m, r.id)
      BY <1>1, <2>2, <2>5 DEF Found
    <2> QED
      BY <2>1, <2>3, <2>4, <2>6
  <1> QED
    BY <1>2, <1>3

\* What ends is gone, and nothing else.
LEMMA WithoutFinds ==
    ASSUME NEW l \in Seq(Thing), NEW kind, NEW id
    PROVE  /\ R!Without(l, kind, id) \in Seq(Thing)
           /\ \A s : Found(l, s) /\ ~(kind = "sandbox" /\ id = s) => Found(R!Without(l, kind, id), s)
  <1> DEFINE P == R!PlacesOf(l, kind, id)
  <1>1. P \subseteq DOMAIN l /\ \A i \in P : l[i].kind = kind /\ l[i].id = id
    BY DEF R!PlacesOf
  <1>2. CASE P = {}
    BY <1>2 DEF R!Without
  <1>3. CASE P # {}
    <2> DEFINE k == CHOOSE i \in P : TRUE
    <2>1. R!Without(l, kind, id) = RemoveAt(l, k)
      <3>1. R!Without(l, kind, id) = R!RemoveAt(l, k)
        BY <1>3 DEF R!Without
      <3>2. R!RemoveAt(l, k) = RemoveAt(l, k)
        BY Zenon DEF R!RemoveAt, RemoveAt
      <3> QED
        BY <3>1, <3>2
    <2>2. k \in P
      BY <1>3
    <2> HIDE DEF P, k
    <2>3. k \in DOMAIN l /\ l[k].kind = kind /\ l[k].id = id
      BY <1>1, <2>2
    <2> DEFINE m == RemoveAt(l, k)
    <2>4. /\ m \in Seq(Thing) /\ DOMAIN m = 1..(Len(l) - 1)
          /\ \A i \in 1..(Len(l) - 1) : m[i] = IF i < k THEN l[i] ELSE l[i + 1]
      BY <2>3, OneRemoved
    <2> HIDE DEF m
    <2>5. ASSUME NEW s, Found(l, s), ~(kind = "sandbox" /\ id = s) PROVE Found(m, s)
      <3>1. PICK i \in DOMAIN l : l[i].kind = "sandbox" /\ l[i].id = s
        BY <2>5 DEF Found
      <3>2. i # k
        BY <2>3, <2>5, <3>1
      <3>3. DOMAIN l = 1..Len(l) /\ Len(l) \in Nat /\ i \in 1..Len(l) /\ k \in 1..Len(l)
        BY <2>3, <3>1
      <3>4. CASE i < k
        <4>1. i \in 1..(Len(l) - 1) /\ m[i] = l[i]
          BY <2>4, <3>3, <3>4
        <4> QED
          BY <2>4, <3>1, <4>1 DEF Found
      <3>5. CASE i > k
        <4>1. i - 1 \in 1..(Len(l) - 1) /\ ~(i - 1 < k) /\ (i - 1) + 1 = i
          BY <3>3, <3>5
        <4>2. m[i - 1] = l[i]
          BY <2>4, <4>1
        <4> QED
          BY <2>4, <3>1, <4>1, <4>2 DEF Found
      <3> QED
        BY <3>2, <3>3, <3>4, <3>5
    <2> QED
      BY <2>1, <2>4, <2>5 DEF m
  <1> QED
    BY <1>2, <1>3

\* An event leaves in flight all but the sandbox whose destruction it tells of.
LEMMA EventFinds ==
    ASSUME NEW l \in Seq(Thing), NEW e \in JournalEvent, NEW m, m = R!InFlightAfter(l, e)
    PROVE  /\ m \in Seq(Thing)
           /\ \A s : Found(l, s) /\ ~(e.type = "sandbox.destroyed" /\ e.id = s) => Found(m, s)
           /\ e.type = "sandbox.created" => Found(m, e.id)
  <1>1. \A kind \in {"sandbox", "grant"} :
           /\ R!Resource(kind, e) \in Thing
           /\ R!Resource(kind, e).kind = kind /\ R!Resource(kind, e).id = e.id
    <2>1. \A kind \in {"sandbox", "grant"} : R!Resource(kind, e) \in Thing
      BY DEF Thing
    <2>2. \A kind : R!Resource(kind, e).kind = kind /\ R!Resource(kind, e).id = e.id
      BY DEF R!Resource
    <2> QED
      BY <2>1, <2>2
  <1>2. CASE e.type = "sandbox.created"
    <2>1. m = R!Upsert(l, R!Resource("sandbox", e))
      BY <1>2 DEF R!InFlightAfter
    <2> QED
      BY <1>1, <1>2, <2>1, UpsertFinds
  <1>3. CASE e.type = "grant.granted"
    <2>1. m = R!Upsert(l, R!Resource("grant", e))
      BY <1>3 DEF R!InFlightAfter
    <2> QED
      BY <1>1, <1>3, <2>1, UpsertFinds
  <1>4. CASE e.type = "sandbox.destroyed"
    <2>1. m = R!Without(l, "sandbox", e.id)
      BY <1>4 DEF R!InFlightAfter
    <2> QED
      BY <1>4, <2>1, WithoutFinds
  <1>5. CASE e.type = "grant.revoked"
    <2>1. m = R!Without(l, "grant", e.id)
      BY <1>5 DEF R!InFlightAfter
    <2> QED
      BY <1>5, <2>1, WithoutFinds
  <1>6. CASE e.type \notin {"sandbox.created", "sandbox.destroyed", "grant.granted", "grant.revoked"}
    <2>1. m = l
      BY <1>6 DEF R!InFlightAfter
    <2> QED
      BY <1>6, <2>1
  <1> QED
    BY <1>2, <1>3, <1>4, <1>5, <1>6

\* The log grows by an event.
LEMMA JournalGrows ==
    ASSUME RecoveryInv, NEW e \in JournalEvent, journal' = Append(journal, e)
    PROVE  /\ journal' \in Seq(JournalEvent) /\ InFlight' \in Seq(Thing)
           /\ \A s : Found(InFlight, s) /\ ~(e.type = "sandbox.destroyed" /\ e.id = s)
                        => Found(InFlight', s)
           /\ e.type = "sandbox.created" => Found(InFlight', e.id)
           /\ \A s \in Sandboxes : Named(s) => Named(s)'
           /\ \A s \in Sandboxes : e.id = s => Named(s)'
  <1>1. journal \in Seq(JournalEvent) /\ InFlight \in Seq(Thing)
    BY DEF RecoveryInv, RecoveryTypeOK
  <1>2. InFlight' = R!InFlightAfter(InFlight, e)
    BY <1>1, JournalFold, OfJournal!FoldLeftAppend, Zenon DEF InFlight
  <1>3. /\ journal' \in Seq(JournalEvent)
        /\ \A i \in DOMAIN journal : i \in DOMAIN journal' /\ journal'[i] = journal[i]
        /\ Len(journal) + 1 \in DOMAIN journal' /\ journal'[Len(journal) + 1] = e
    BY <1>1
  <1>4. /\ \A s \in Sandboxes : Named(s) => Named(s)'
        /\ \A s \in Sandboxes : e.id = s => Named(s)'
    BY <1>3 DEF Named
  <1> QED
    BY <1>1, <1>2, <1>3, <1>4, EventFinds

\* An entry written without times is an event.
LEMMA PlainIsEvent ==
    ASSUME RecoveryInv, NEW id \in Sandboxes \cup Caps \cup {Absent},
           NEW type \in {"sandbox.created", "sandbox.destroyed", "grant.revoked",
                         "daemon.started", "daemon.recovered", "correction"}
    PROVE  \E e \in JournalEvent : e = R!Plain(type, id) /\ e.type = type /\ e.id = id
  <1>1. Len(journal) \in Nat
    BY DEF RecoveryInv, RecoveryTypeOK
  <1>2. R!Plain(type, id) = [type |-> type, id |-> id, at |-> Len(journal), ttl |-> Absent,
                             duration |-> Absent]
    BY Zenon DEF R!Plain, R!Entry
  <1> DEFINE e == [type |-> type, id |-> id, at |-> Len(journal), ttl |-> Absent,
                   duration |-> Absent]
  <1>3. e \in JournalEvent /\ e.type = type /\ e.id = id
    BY <1>1 DEF JournalEvent
  <1> HIDE DEF e
  <1> QED
    BY <1>2, <1>3 DEF e

Machines == {"none", "created", "running", "stopped"}
Statuses == {"unknown", "provisioning", "running", "stopped", "removed"}
Stages == {"none", "creating", "running", "stopped", "frozen", "discarding", "destroying"}

\* f becomes g, and nothing but its value at s is another.
Changes(f, g, s, S0) == g = f \/ \E x \in S0 : g = [f EXCEPT ![s] = x]

\* A step of one sandbox leaves the others as they are known.
LEMMA OneSandbox ==
    ASSUME RecoveryInv, NEW s \in Sandboxes, up = "serving", UNCHANGED <<provider, up>>,
           Changes(host, host', s, Machines), Changes(record, record', s, Statuses),
           Changes(holders, holders', s, Stages),
           \A t \in Sandboxes \ {s} : t \in unlogged' <=> t \in unlogged,
           excused \subseteq excused', refused \subseteq refused',
           journal' \in Seq(JournalEvent), InFlight' \in Seq(Thing),
           \A t \in Sandboxes \ {s} : Found(InFlight, t) => Found(InFlight', t),
           \A t \in Sandboxes : Named(t) => Named(t)',
           host'[s] # "none" /\ s \notin unlogged' => Found(InFlight', s),
           RecordFits(s)',
           record'[s] # "unknown" => s \in unlogged' \/ Named(s)',
           StageFits(s)'
    PROVE  RecoveryInv'
  <1>1. /\ host \in [Sandboxes -> Machines] /\ record \in [Sandboxes -> Statuses]
        /\ holders \in [Sandboxes -> Stages]
    BY DEF RecoveryInv, RecoveryTypeOK, Machines, Statuses, Stages
  <1>2. /\ host' \in [Sandboxes -> Machines] /\ record' \in [Sandboxes -> Statuses]
        /\ holders' \in [Sandboxes -> Stages]
        /\ \A t \in Sandboxes \ {s} :
              host'[t] = host[t] /\ record'[t] = record[t] /\ holders'[t] = holders[t]
    <2>1. host' \in [Sandboxes -> Machines] /\ \A t \in Sandboxes \ {s} : host'[t] = host[t]
      BY <1>1 DEF Changes
    <2>2. record' \in [Sandboxes -> Statuses] /\ \A t \in Sandboxes \ {s} : record'[t] = record[t]
      BY <1>1 DEF Changes
    <2>3. holders' \in [Sandboxes -> Stages] /\ \A t \in Sandboxes \ {s} : holders'[t] = holders[t]
      BY <1>1 DEF Changes
    <2> QED
      BY <2>1, <2>2, <2>3
  <1>3. RecoveryTypeOK'
    BY <1>2 DEF RecoveryInv, RecoveryTypeOK, Machines, Statuses, Stages
  <1>4. SandboxKnown(s)'
    BY DEF SandboxKnown
  <1>5. ASSUME NEW t \in Sandboxes \ {s} PROVE SandboxKnown(t)'
    <2>1. SandboxKnown(t)
      BY DEF RecoveryInv
    <2>2. /\ host'[t] = host[t] /\ record'[t] = record[t] /\ holders'[t] = holders[t]
          /\ t \in unlogged' <=> t \in unlogged
          /\ t \in excused \cup refused => t \in excused' \cup refused'
          /\ Found(InFlight, t) => Found(InFlight', t)
          /\ Named(t) => Named(t)'
      BY <1>2
    <2>3. StageFits(t)' /\ RecordFits(t)'
      BY <2>1, <2>2 DEF SandboxKnown, StageFits, RecordFits
    <2> QED
      BY <2>1, <2>2, <2>3 DEF SandboxKnown
  <1> QED
    BY <1>3, <1>4, <1>5 DEF RecoveryInv

\* The same, when the log is not written.
LEMMA OneSandboxUntold ==
    ASSUME RecoveryInv, NEW s \in Sandboxes, up = "serving", UNCHANGED <<provider, up, journal>>,
           Changes(host, host', s, Machines), Changes(record, record', s, Statuses),
           Changes(holders, holders', s, Stages),
           unlogged' = unlogged \/ unlogged' = unlogged \cup {s},
           excused \subseteq excused', refused \subseteq refused',
           host'[s] # "none" => host[s] # "none" \/ s \in unlogged',
           RecordFits(s)',
           record'[s] # "unknown" => record[s] # "unknown" \/ s \in unlogged',
           StageFits(s)'
    PROVE  RecoveryInv'
  <1>1. journal \in Seq(JournalEvent) /\ InFlight \in Seq(Thing) /\ SandboxKnown(s)
    BY DEF RecoveryInv, RecoveryTypeOK
  <1>2. InFlight' = InFlight /\ \A t \in Sandboxes : Named(t)' <=> Named(t)
    BY DEF InFlight, Named
  <1>3. host'[s] # "none" /\ s \notin unlogged' => Found(InFlight', s)
    BY <1>1, <1>2 DEF SandboxKnown
  <1>4. record'[s] # "unknown" => s \in unlogged' \/ Named(s)'
    BY <1>1, <1>2 DEF SandboxKnown
  <1>5. \A t \in Sandboxes \ {s} : t \in unlogged' <=> t \in unlogged
    OBVIOUS
  <1>6. /\ journal' \in Seq(JournalEvent) /\ InFlight' \in Seq(Thing)
        /\ \A t \in Sandboxes \ {s} : Found(InFlight, t) => Found(InFlight', t)
        /\ \A t \in Sandboxes : Named(t) => Named(t)'
    BY <1>1, <1>2
  <1> QED
    BY <1>3, <1>4, <1>5, <1>6, OneSandbox

\* What is known of the sandbox that a step is about.
LEMMA SandboxFacts ==
    ASSUME RecoveryInv, NEW s \in Sandboxes
    PROVE  /\ SandboxKnown(s) /\ StageFits(s) /\ RecordFits(s)
           /\ \A x : /\ [host EXCEPT ![s] = x][s] = x /\ [record EXCEPT ![s] = x][s] = x
                     /\ [holders EXCEPT ![s] = x][s] = x
  BY DEF RecoveryInv, RecoveryTypeOK, SandboxKnown

\* A sandbox is created, or the execution learns that it could not be.
LEMMA CreateStep ==
    ASSUME RecoveryInv, NEW s \in Sandboxes, R!Create(s) \/ R!Launched(s)
    PROVE  RecoveryInv'
  <1>0. SandboxKnown(s) /\ StageFits(s) /\ RecordFits(s)
    BY SandboxFacts
  <1>1. CASE R!Create(s)
    <2>1. /\ up = "serving" /\ UNCHANGED <<provider, up, journal, excused, refused>>
          /\ unlogged' = unlogged \cup {s} /\ holders' = [holders EXCEPT ![s] = "creating"]
          /\ \E r \in {"provisioning", "running"} : record' = [record EXCEPT ![s] = r]
          /\ host' = host \/ host' = [host EXCEPT ![s] = "running"]
      BY <1>1 DEF R!Create, R!Register, R!MemoryCreate, R!CliRegister, R!Is, R!HostHas, R!Holds, R!Rest
    <2>2. holders'[s] = "creating" /\ record'[s] \in {"provisioning", "running"} /\ s \in unlogged'
      BY <2>1, SandboxFacts
    <2>3. /\ Changes(host, host', s, Machines) /\ Changes(record, record', s, Statuses)
          /\ Changes(holders, holders', s, Stages)
      BY <2>1 DEF Changes, Machines, Statuses, Stages
    <2>4. StageFits(s)'
      BY <2>2 DEF StageFits
    <2>5. RecordFits(s)'
      <3>1. \/ record'[s] = "running" /\ host'[s] = "running"
            \/ record'[s] = "provisioning"
        BY <1>1, SandboxFacts DEF R!Create, R!Register, R!MemoryCreate, R!CliRegister, R!Is, R!HostHas
      <3> QED
        BY <3>1 DEF RecordFits
    <2> QED
      BY <2>1, <2>2, <2>3, <2>4, <2>5, OneSandboxUntold
  <1>2. CASE R!Launched(s)
    <2>1. /\ up = "serving" /\ holders[s] = "creating" /\ record[s] = "provisioning"
          /\ UNCHANGED <<provider, up, journal, unlogged, refused>>
      BY <1>2 DEF R!Launched, R!Serving, R!Launch, R!RunFails, R!Rest
    <2>2. s \in unlogged
      BY <1>0, <2>1 DEF StageFits
    <2>3. \/ /\ UNCHANGED <<holders, excused>>
             /\ \/ host' = [host EXCEPT ![s] = "created"] /\ UNCHANGED record
                \/ host' = [host EXCEPT ![s] = "running"] /\ record' = [record EXCEPT ![s] = "running"]
          \/ /\ UNCHANGED <<host, record>>
             /\ holders' = [holders EXCEPT ![s] = "none"] /\ excused' = excused \cup {s}
      BY <1>2 DEF R!Launched, R!Launch, R!DockerCreateStart, R!MsbCreate, R!RunFails, R!Is, R!HostHas,
                  R!Holds, R!Excuse
    <2>4. /\ Changes(host, host', s, Machines) /\ Changes(record, record', s, Statuses)
          /\ Changes(holders, holders', s, Stages)
      BY <2>3 DEF Changes, Machines, Statuses, Stages
    <2>5. \/ holders'[s] = "creating" /\ record'[s] \in {"provisioning", "running"}
          \/ holders'[s] = "none" /\ s \in excused' /\ record'[s] = "provisioning"
      BY <2>1, <2>3, SandboxFacts
    <2>6. StageFits(s)' /\ excused \subseteq excused'
      BY <2>1, <2>2, <2>3, <2>5 DEF StageFits
    <2>7. RecordFits(s)'
      <3>1. \/ record'[s] = "running" /\ host'[s] = "running"
            \/ record'[s] = "provisioning"
        BY <2>1, <2>3, SandboxFacts
      <3> QED
        BY <3>1 DEF RecordFits
    <2> QED
      BY <2>1, <2>2, <2>4, <2>6, <2>7, OneSandboxUntold
  <1> QED
    BY <1>1, <1>2

\* A sandbox comes from the pool.
LEMMA ReuseStep ==
    ASSUME RecoveryInv, NEW s \in Sandboxes, R!Reuse(s)
    PROVE  RecoveryInv'
  <1>0. SandboxKnown(s) /\ StageFits(s) /\ RecordFits(s)
    BY SandboxFacts
  <1>1. /\ up = "serving" /\ UNCHANGED <<provider, up, journal, refused>>
        /\ unlogged' = unlogged \cup {s} /\ holders[s] = "none" /\ s \notin unlogged /\ ~Named(s)
    BY DEF R!Reuse, R!Fresh, Named, R!Rest, R!RestoreRun, R!RestoreUnconfirmed, R!RunFails
  <1>2. record[s] = "unknown"
    BY <1>0, <1>1 DEF SandboxKnown
  <1>3. \/ /\ host' = [host EXCEPT ![s] = "running"] /\ record' = [record EXCEPT ![s] = "running"]
           /\ holders' = [holders EXCEPT ![s] = "running"] /\ UNCHANGED excused
        \/ /\ UNCHANGED <<record, holders>> /\ excused' = excused \cup {s}
           /\ host' = host \/ host' = [host EXCEPT ![s] = "running"]
    BY DEF R!Reuse, R!RestoreRun, R!RestoreUnconfirmed, R!RunFails, R!Is, R!HostHas, R!Holds, R!Excuse
  <1>4. /\ Changes(host, host', s, Machines) /\ Changes(record, record', s, Statuses)
        /\ Changes(holders, holders', s, Stages)
    BY <1>3 DEF Changes, Machines, Statuses, Stages
  <1>5. \/ holders'[s] = "running" /\ record'[s] = "running" /\ host'[s] = "running"
        \/ holders'[s] = "none" /\ record'[s] = "unknown"
    BY <1>1, <1>2, <1>3, SandboxFacts
  <1>6. StageFits(s)' /\ RecordFits(s)'
    BY <1>5 DEF StageFits, RecordFits
  <1>7. excused \subseteq excused' /\ s \in unlogged'
    BY <1>1, <1>3
  <1> QED
    BY <1>1, <1>4, <1>6, <1>7, OneSandboxUntold

\* A sandbox is frozen for the pool, or destroyed.
LEMMA EndStep ==
    ASSUME RecoveryInv, NEW s \in Sandboxes, R!Freeze(s) \/ R!Destroy(s)
    PROVE  RecoveryInv'
  <1>0. SandboxKnown(s) /\ StageFits(s) /\ RecordFits(s)
    BY SandboxFacts
  <1>1. /\ up = "serving" /\ UNCHANGED <<provider, up, journal, unlogged, refused>>
        /\ record[s] \in {"running", "stopped"}
    BY <1>0 DEF R!Freeze, R!Destroy, R!Serving, R!Stop, R!SnapshotCreate, R!RunFails, R!RunRemove,
                R!Rest, StageFits
  <1>2. CASE R!Freeze(s)
    <2>1. /\ UNCHANGED excused
          /\ \/ /\ record[s] = "running"
                /\ host' = [host EXCEPT ![s] = "stopped"] /\ record' = [record EXCEPT ![s] = "stopped"]
                /\ holders' = [holders EXCEPT ![s] = "stopped"]
             \/ /\ record[s] = "stopped" /\ UNCHANGED <<host, record>>
                /\ holders' = [holders EXCEPT ![s] = "frozen"]
             \/ UNCHANGED <<host, record>> /\ holders' = [holders EXCEPT ![s] = "discarding"]
      BY <1>2 DEF R!Freeze, R!Stop, R!SnapshotCreate, R!RunFails, R!Is, R!HostHas, R!Holds
    <2>2. /\ Changes(host, host', s, Machines) /\ Changes(record, record', s, Statuses)
          /\ Changes(holders, holders', s, Stages)
      BY <2>1 DEF Changes, Machines, Statuses, Stages
    <2>3. \/ holders'[s] \in {"stopped", "frozen"} /\ record'[s] = "stopped"
          \/ holders'[s] = "discarding" /\ record'[s] \in {"running", "stopped"}
      BY <1>1, <2>1, SandboxFacts
    <2>4. host[s] # "none" /\ host'[s] # "none"
      BY <1>0, <1>1, <2>1, SandboxFacts DEF RecordFits
    <2>5. StageFits(s)' /\ RecordFits(s)'
      BY <2>3, <2>4 DEF StageFits, RecordFits
    <2> QED
      BY <1>1, <2>1, <2>2, <2>4, <2>5, OneSandboxUntold
  <1>3. CASE R!Destroy(s)
    <2>1. s \in R!Listed
      BY <1>1 DEF R!Listed
    <2>2. \/ /\ host' = [host EXCEPT ![s] = "none"] /\ record' = [record EXCEPT ![s] = "removed"]
             /\ \E st \in {"none", "destroying"} : holders' = [holders EXCEPT ![s] = st]
             /\ UNCHANGED excused
          \/ /\ UNCHANGED <<host, record>> /\ excused' = excused \cup {s}
             /\ holders' = [holders EXCEPT ![s] = "none"]
      BY <1>3, <2>1 DEF R!Destroy, R!RunRemove, R!RunFails, R!Is, R!HostHas, R!Holds, R!Excuse
    <2>3. /\ Changes(host, host', s, Machines) /\ Changes(record, record', s, Statuses)
          /\ Changes(holders, holders', s, Stages)
      BY <2>2 DEF Changes, Machines, Statuses, Stages
    <2>4. \/ host'[s] = "none" /\ holders'[s] \in {"none", "destroying"}
          \/ /\ host'[s] = host[s] /\ record'[s] = record[s]
             /\ holders'[s] = "none" /\ s \in excused'
      BY <2>2, SandboxFacts
    <2>5. StageFits(s)'
      BY <2>4 DEF StageFits
    <2>6. /\ host'[s] # "none" => host[s] # "none"
          /\ excused \subseteq excused'
      BY <2>2, <2>4
    <2>7. RecordFits(s)'
      <3>1. \/ record'[s] = "removed" /\ host'[s] = "none"
            \/ record'[s] = record[s] /\ host'[s] = host[s]
        BY <2>2, SandboxFacts
      <3> QED
        BY <1>0, <3>1 DEF RecordFits
    <2> QED
      BY <1>1, <1>0, <2>3, <2>5, <2>6, <2>7, OneSandboxUntold
  <1> QED
    BY <1>2, <1>3

\* An append that the log refuses ends an execution, and is remembered.
LEMMA RefusedStep ==
    ASSUME RecoveryInv, NEW s \in Sandboxes, up = "serving", R!AppendRefused(s)
    PROVE  RecoveryInv'
  <1>0. SandboxKnown(s) /\ StageFits(s) /\ RecordFits(s)
    BY SandboxFacts
  <1>1. /\ UNCHANGED <<provider, up, journal, host, record, unlogged, excused>>
        /\ holders' = [holders EXCEPT ![s] = "none"] /\ refused' = refused \cup {s}
    BY DEF R!AppendRefused, R!Holds, R!providerVars, R!Rest
  <1>2. /\ Changes(host, host', s, Machines) /\ Changes(record, record', s, Statuses)
        /\ Changes(holders, holders', s, Stages)
    BY <1>1 DEF Changes, Stages
  <1>3. holders'[s] = "none" /\ s \in refused'
    BY <1>1, SandboxFacts
  <1>4. StageFits(s)'
    BY <1>3 DEF StageFits
  <1>5. RecordFits(s)'
    BY <1>0, <1>1 DEF RecordFits
  <1> QED
    BY <1>1, <1>2, <1>4, <1>5, OneSandboxUntold

\* The log is told of a creation or of a destruction, or of neither.
LEMMA LogStep ==
    ASSUME RecoveryInv, NEW s \in Sandboxes, R!LogCreated(s) \/ R!LogDestroyed(s) \/ R!LogFailed(s)
    PROVE  RecoveryInv'
  <1>0. SandboxKnown(s) /\ StageFits(s) /\ RecordFits(s)
    BY SandboxFacts
  <1>1. up = "serving"
    BY DEF R!LogCreated, R!LogDestroyed, R!LogFailed, R!Serving
  <1>2. CASE R!AppendRefused(s)
    BY <1>1, <1>2, RefusedStep
  <1>3. CASE R!LogCreated(s) /\ ~R!AppendRefused(s)
    <2>0. UNCHANGED <<provider, up, host, record, excused, refused>>
      BY <1>3 DEF R!LogCreated, R!providerVars, R!Rest
    <2>1. /\ record[s] = "running" /\ holders' = [holders EXCEPT ![s] = "running"]
          /\ unlogged' = unlogged \ {s} /\ journal' = Append(journal, R!Plain("sandbox.created", s))
      BY <1>3 DEF R!LogCreated, R!Holds
    <2>2. PICK e \in JournalEvent :
             e = R!Plain("sandbox.created", s) /\ e.type = "sandbox.created" /\ e.id = s
      BY PlainIsEvent
    <2>3. /\ journal' \in Seq(JournalEvent) /\ InFlight' \in Seq(Thing)
          /\ \A t : Found(InFlight, t) => Found(InFlight', t)
          /\ Found(InFlight', s)
          /\ \A t \in Sandboxes : Named(t) => Named(t)'
          /\ Named(s)'
      BY <2>1, <2>2, JournalGrows
    <2>4. /\ Changes(host, host', s, Machines) /\ Changes(record, record', s, Statuses)
          /\ Changes(holders, holders', s, Stages)
      BY <2>0, <2>1 DEF Changes, Stages
    <2>5. holders'[s] = "running" /\ record'[s] = "running"
      BY <2>0, <2>1, SandboxFacts
    <2>6. StageFits(s)' /\ RecordFits(s)'
      BY <1>0, <2>0, <2>5 DEF StageFits, RecordFits
    <2>7. /\ \A t \in Sandboxes \ {s} : t \in unlogged' <=> t \in unlogged
          /\ excused \subseteq excused' /\ refused \subseteq refused'
      BY <2>0, <2>1
    <2> QED
      BY <1>1, <2>0, <2>3, <2>4, <2>6, <2>7, OneSandbox
  <1>4. CASE R!LogDestroyed(s) /\ ~R!AppendRefused(s)
    <2>0. UNCHANGED <<provider, up, host, record, excused, refused>>
      BY <1>4 DEF R!LogDestroyed, R!providerVars, R!Rest
    <2>1. /\ holders[s] = "destroying" /\ holders' = [holders EXCEPT ![s] = "none"]
          /\ unlogged' = unlogged /\ journal' = Append(journal, R!Plain("sandbox.destroyed", s))
      BY <1>4 DEF R!LogDestroyed, R!Holds, R!Serving
    <2>2. PICK e \in JournalEvent :
             e = R!Plain("sandbox.destroyed", s) /\ e.type = "sandbox.destroyed" /\ e.id = s
      BY PlainIsEvent
    <2>3. /\ journal' \in Seq(JournalEvent) /\ InFlight' \in Seq(Thing)
          /\ \A t \in Sandboxes \ {s} : Found(InFlight, t) => Found(InFlight', t)
          /\ \A t \in Sandboxes : Named(t) => Named(t)'
          /\ Named(s)'
      BY <2>1, <2>2, JournalGrows
    <2>4. /\ Changes(host, host', s, Machines) /\ Changes(record, record', s, Statuses)
          /\ Changes(holders, holders', s, Stages)
      BY <2>0, <2>1 DEF Changes, Stages
    <2>5. holders'[s] = "none" /\ host'[s] = "none"
      BY <1>0, <2>0, <2>1, SandboxFacts DEF StageFits
    <2>6. StageFits(s)' /\ RecordFits(s)'
      BY <1>0, <2>0, <2>5 DEF StageFits, RecordFits
    <2>7. /\ \A t \in Sandboxes \ {s} : t \in unlogged' <=> t \in unlogged
          /\ excused \subseteq excused' /\ refused \subseteq refused'
      BY <2>0, <2>1
    <2> QED
      BY <1>1, <2>0, <2>3, <2>4, <2>5, <2>6, <2>7, OneSandbox
  <1> QED
    BY <1>2, <1>3, <1>4 DEF R!LogFailed

\* The log is told of something else; or the daemon starts, goes through what
\* it has found, or serves.
LEMMA OtherEvent ==
    ASSUME RecoveryInv, NEW e \in JournalEvent, journal' = Append(journal, e),
           e.type # "sandbox.destroyed",
           UNCHANGED <<host, record, provider, holders, unlogged, excused, refused>>,
           up' \in {"down", "recovering", "serving"},
           up' = "serving" \/ up # "serving"
    PROVE  RecoveryInv'
  <1>1. /\ journal' \in Seq(JournalEvent) /\ InFlight' \in Seq(Thing)
        /\ \A s : Found(InFlight, s) => Found(InFlight', s)
        /\ \A s \in Sandboxes : Named(s) => Named(s)'
    BY JournalGrows
  <1>2. RecoveryTypeOK'
    BY <1>1 DEF RecoveryInv, RecoveryTypeOK
  <1>3. ASSUME NEW s \in Sandboxes PROVE SandboxKnown(s)'
    <2>1. SandboxKnown(s)
      BY DEF RecoveryInv
    <2>2. StageFits(s)' /\ RecordFits(s)'
      BY <2>1 DEF SandboxKnown, StageFits, RecordFits
    <2> QED
      BY <1>1, <2>1, <2>2 DEF SandboxKnown
  <1> QED
    BY <1>2, <1>3 DEF RecoveryInv

\* Grants share the log.
LEMMA GrantStep ==
    ASSUME RecoveryInv, NEW cap \in Caps,
           \/ \E ttl \in {Absent, Bad, 1}, duration \in {Absent, 9} : R!Grant(cap, ttl, duration)
           \/ R!Revoke(cap)
    PROVE  RecoveryInv'
  <1>1. UNCHANGED <<host, record, provider, holders, unlogged, excused, refused, up>> /\ up = "serving"
    BY DEF R!Grant, R!Revoke, R!providerVars, R!Rest
  <1>2. PICK e \in JournalEvent : journal' = Append(journal, e) /\ e.type # "sandbox.destroyed"
    <2>1. CASE R!Revoke(cap)
      <3>1. \E e \in JournalEvent : e = R!Plain("grant.revoked", cap) /\ e.type = "grant.revoked"
        BY PlainIsEvent
      <3> QED
        BY <2>1, <3>1 DEF R!Revoke
    <2>2. ASSUME NEW ttl \in {Absent, Bad, 1}, NEW duration \in {Absent, 9}, R!Grant(cap, ttl, duration)
          PROVE  \E e \in JournalEvent : journal' = Append(journal, e) /\ e.type # "sandbox.destroyed"
      <3> DEFINE e == [type |-> "grant.granted", id |-> cap, at |-> Len(journal), ttl |-> ttl,
                       duration |-> duration]
      <3>1. Len(journal) \in Nat
        BY DEF RecoveryInv, RecoveryTypeOK
      <3>2. e \in JournalEvent /\ e.type # "sandbox.destroyed"
        BY <3>1 DEF JournalEvent
      <3>3. journal' = Append(journal, e)
        BY <2>2, Zenon DEF R!Grant, R!Entry
      <3> HIDE DEF e
      <3> QED
        BY <3>2, <3>3
    <2> QED
      BY <2>1, <2>2
  <1> QED
    BY <1>1, <1>2, OtherEvent

\* A start goes through what it has found; the provider of this life knows none of it.
LEMMA StartStep ==
    ASSUME RecoveryInv, R!Start \/ R!Reconcile \/ R!Recovered
    PROVE  RecoveryInv'
  <1>1. up # "serving" /\ up' \in {"down", "recovering", "serving"} /\ UNCHANGED <<holders, unlogged, excused, refused>>
    BY DEF R!Start, R!Reconcile, R!Recovered, RecoveryInv, RecoveryTypeOK
  <1>2. \A s : s \notin R!Listed
    BY <1>1 DEF R!Listed, RecoveryInv, SandboxKnown
  <1>3. UNCHANGED <<host, record, provider>>
    BY <1>2 DEF R!Start, R!Reconcile, R!Recovered, R!Reconciled, R!providerVars
  <1>4. CASE UNCHANGED journal
    <2>1. R!Reconcile
      <3>1. journal \in Seq(JournalEvent)
        BY DEF RecoveryInv, RecoveryTypeOK
      <3>2. \A x : Append(journal, x) # journal
        BY <3>1
      <3> QED
        BY <1>4, <3>2 DEF R!Start, R!Recovered
    <2>2. InFlight' = InFlight /\ up' = up /\ \A s \in Sandboxes : Named(s)' <=> Named(s)
      BY <1>4, <2>1 DEF InFlight, Named, R!Reconcile
    <2>3. RecoveryTypeOK'
      BY <1>1, <1>3, <1>4, <2>2 DEF RecoveryInv, RecoveryTypeOK
    <2>4. ASSUME NEW s \in Sandboxes PROVE SandboxKnown(s)'
      <3>1. SandboxKnown(s)
        BY DEF RecoveryInv
      <3> QED
        BY <1>1, <1>3, <2>2, <3>1 DEF SandboxKnown, StageFits, RecordFits
    <2> QED
      BY <2>3, <2>4 DEF RecoveryInv
  <1>5. CASE journal' # journal
    <2>1. \E type \in {"daemon.started", "daemon.recovered", "correction"} :
             journal' = Append(journal, R!Plain(type, Absent))
      BY <1>5 DEF R!Start, R!Reconcile, R!Recovered
    <2>2. PICK e \in JournalEvent : journal' = Append(journal, e) /\ e.type # "sandbox.destroyed"
      <3>1. PICK type \in {"daemon.started", "daemon.recovered", "correction"} :
               journal' = Append(journal, R!Plain(type, Absent))
        BY <2>1
      <3>2. \E e \in JournalEvent : e = R!Plain(type, Absent) /\ e.type = type
        BY PlainIsEvent
      <3> QED
        BY <3>1, <3>2
    <2> QED
      BY <1>1, <1>3, <2>2, OtherEvent
  <1> QED
    BY <1>4, <1>5

\* A crash takes what executions hold and what the provider recorded.
LEMMA CrashStep ==
    ASSUME RecoveryInv, R!Crash
    PROVE  RecoveryInv'
  <1>1. /\ up' = "down" /\ UNCHANGED <<journal, unlogged, provider>>
        /\ holders' = [s \in Sandboxes |-> "none"] /\ record' = [s \in Sandboxes |-> "unknown"]
        /\ host' = [s \in Sandboxes |-> "none"] \/ host' = host
    BY DEF R!Crash, R!ProviderDies
  <1>2. InFlight' = InFlight
    BY <1>1 DEF InFlight
  <1>3. RecoveryTypeOK'
    BY <1>1, <1>2 DEF RecoveryInv, RecoveryTypeOK
  <1>4. ASSUME NEW s \in Sandboxes PROVE SandboxKnown(s)'
    <2>1. SandboxKnown(s)
      BY DEF RecoveryInv
    <2>2. /\ holders'[s] = "none" /\ record'[s] = "unknown"
          /\ host'[s] # "none" => host[s] # "none"
      BY <1>1
    <2>3. StageFits(s)' /\ RecordFits(s)'
      BY <2>2 DEF StageFits, RecordFits
    <2> QED
      BY <1>1, <1>2, <2>1, <2>2, <2>3 DEF SandboxKnown
  <1> QED
    BY <1>3, <1>4 DEF RecoveryInv

\* Nothing happens to the sandboxes.
LEMMA RecoveryIdle ==
    ASSUME RecoveryInv, UNCHANGED R!vars
    PROVE  RecoveryInv'
  <1>1. UNCHANGED <<provider, host, record, journal, holders, up, unlogged, excused, refused>>
    BY DEF R!vars, R!providerVars
  <1>2. InFlight' = InFlight /\ \A s \in Sandboxes : Named(s)' <=> Named(s)
    BY <1>1 DEF InFlight, Named
  <1> QED
    BY <1>1, <1>2 DEF RecoveryInv, RecoveryTypeOK, SandboxKnown, StageFits, RecordFits

\* Every step of the recovery is one of these.
LEMMA RecoveryStep ==
    ASSUME RecoveryInv, [R!Next]_(R!vars)
    PROVE  RecoveryInv'
  <1>1. ASSUME NEW s \in Sandboxes,
               \/ R!Create(s) \/ R!Launched(s) \/ R!LogCreated(s) \/ R!Reuse(s)
               \/ R!LogFailed(s) \/ R!Freeze(s) \/ R!Destroy(s) \/ R!LogDestroyed(s)
        PROVE  RecoveryInv'
    BY <1>1, CreateStep, ReuseStep, EndStep, LogStep
  <1>2. ASSUME NEW cap \in Caps,
               \/ \E ttl \in {Absent, Bad, 1}, duration \in {Absent, 9} : R!Grant(cap, ttl, duration)
               \/ R!Revoke(cap)
        PROVE  RecoveryInv'
    BY <1>2, GrantStep
  <1> QED
    BY <1>1, <1>2, CrashStep, StartStep, RecoveryIdle DEF R!Next

\* A first start finds no machine and an empty log.
LEMMA RecoveryStarts ==
    ASSUME R!Init
    PROVE  RecoveryInv
  <1>1. InFlight = <<>>
    BY JournalFold, OfJournal!FoldLeftEmpty, Zenon DEF R!Init, InFlight
  <1>2. RecoveryTypeOK
    BY <1>1 DEF R!Init, R!ProviderInit, RecoveryTypeOK
  <1>3. \A s \in Sandboxes : SandboxKnown(s)
    BY DEF R!Init, R!ProviderInit, SandboxKnown, StageFits, RecordFits
  <1> QED
    BY <1>2, <1>3 DEF RecoveryInv

\* Every machine whose creation was logged is in flight for the next start; none
\* the provider knows is left behind but by a call of the provider that failed or
\* an append the log refused; and what counts as removed is gone: for any sandboxes,
\* providers, crashes, failing calls and refused appends (events/recover.ts,
\* engine/node-executor.ts).
THEOREM SandboxesAreAccounted == R!Spec => []SandboxesAccounted
  <1>1. RecoveryInv => SandboxesAccounted
    <2> SUFFICES ASSUME RecoveryInv, NEW s \in Sandboxes
                 PROVE  /\ host[s] # "none" /\ s \notin unlogged => Found(InFlight, s)
                        /\ host[s] # "none" /\ holders[s] = "none" =>
                              record[s] = "unknown" \/ s \in excused \cup refused
                        /\ record[s] = "removed" => host[s] = "none"
      BY Zenon DEF SandboxesAccounted, R!SandboxesAccounted, Found, InFlight
    <2> QED
      BY SandboxFacts DEF SandboxKnown, StageFits, RecordFits
  <1> QED
    BY <1>1, RecoveryStarts, RecoveryStep, PTL DEF R!Spec

----------------------------------------------------------------------------
(* The approval policy.                                                    *)

\* A set of naturals that is not empty has a least element.
LEMMA LeastNatural ==
    ASSUME NEW gaps, gaps \subseteq Nat, gaps # {}
    PROVE  \E x \in gaps : \A y \in gaps : x <= y
  BY OfJournal!LeastNatural

IsCap(cap) == cap = <<cap[1], cap[2]>> /\ cap[2] # "*"

\* The specificity of the best pattern, and of none, is what the property says.
LEMMA BestIsSpecific ==
    ASSUME NEW cap, NEW patterns, IsCap(cap)
    PROVE  /\ BestOf(cap, patterns) = Specific(cap, patterns) - 1
           /\ Specific(cap, patterns) \in 0..3
  <1> DEFINE found == {PatternSpecificity(cap, p) : p \in patterns} \cup {-1}
             best == Specific(cap, patterns) - 1
  <1>1. All # Under(cap[1]) /\ All # cap /\ Under(cap[1]) # cap
    <2>1. Under(cap[1])[2] = "*"
      BY DEF Under
    <2>2. Len(All) = 1 /\ Len(Under(cap[1])) = 2 /\ Len(<<cap[1], cap[2]>>) = 2
      BY DEF All, Under
    <2> QED
      BY <2>1, <2>2 DEF IsCap
  <1>2. \A p : PatternSpecificity(cap, p) =
                IF p = cap THEN 2 ELSE IF p = Under(cap[1]) THEN 1
                ELSE IF p = All THEN 0 ELSE -1
    BY <1>1 DEF PatternSpecificity, MatchCapPattern
  <1>3. best \in found /\ Specific(cap, patterns) \in 0..3
    BY <1>2 DEF Specific
  <1>4. found \subseteq Int /\ \A t \in found : t <= best
    BY <1>2 DEF Specific
  <1>5. BestOf(cap, patterns) = CHOOSE s \in found : \A t \in found : t <= s
    BY DEF BestOf
  <1> HIDE DEF found, best
  <1>6. best = CHOOSE s \in found : \A t \in found : t <= s
    <2>1. \A s \in found : (\A t \in found : t <= s) => s = best
      BY <1>3, <1>4
    <2> QED
      BY <1>3, <1>4, <2>1
  <1> QED
    BY <1>3, <1>5, <1>6 DEF best

Matches(n) == [outcome : {"require", "auto"}, at : 1..n, specificity : 0..2]

\* Among some matches there is one that the reduction keeps beside every other.
LEMMA StrongestIs ==
    ASSUME NEW n \in Nat, NEW found, found \subseteq Matches(n), found # {}
    PROVE  \E m \in found : \A k \in found : Stronger(m, k)
  <1>1. PICK s \in found : \A k \in found : k.specificity <= s.specificity
    <2> DEFINE gaps == {2 - m.specificity : m \in found}
    <2>1. gaps \subseteq Nat /\ gaps # {}
      BY DEF Matches
    <2> HIDE DEF gaps
    <2>2. PICK x \in gaps : \A y \in gaps : x <= y
      BY <2>1, LeastNatural
    <2>3. PICK s \in found : x = 2 - s.specificity
      BY DEF gaps
    <2>4. ASSUME NEW k \in found PROVE k.specificity <= s.specificity
      <3>1. 2 - k.specificity \in gaps
        BY DEF gaps
      <3>2. 2 - s.specificity <= 2 - k.specificity
        BY <2>2, <2>3, <3>1
      <3>3. k.specificity \in 0..2 /\ s.specificity \in 0..2
        BY DEF Matches
      <3> QED
        BY <3>2, <3>3
    <2> QED
      BY <2>4
  <1> DEFINE strict == {m \in found : m.specificity = s.specificity /\ m.outcome = "require"}
             close == IF strict # {} THEN strict
                      ELSE {m \in found : m.specificity = s.specificity}
  <1>2. close # {} /\ close \subseteq found
    OBVIOUS
  <1>3. \A m \in close : m.specificity = s.specificity /\
            \A k \in found : k.specificity = s.specificity =>
                \/ k.outcome = m.outcome /\ k \in close
                \/ m.outcome = "require" /\ k.outcome = "auto"
    BY DEF Matches
  <1> HIDE DEF close
  <1>4. PICK m \in close : \A k \in close : k.at <= m.at
    <2> DEFINE gaps == {n - m.at : m \in close}
    <2>0. \A m \in close : m.at \in 1..n
      BY <1>2 DEF Matches
    <2>1. gaps \subseteq Nat /\ gaps # {}
      BY <1>2, <2>0
    <2> HIDE DEF gaps
    <2>2. PICK x \in gaps : \A y \in gaps : x <= y
      BY <2>1, LeastNatural
    <2>3. PICK m \in close : x = n - m.at
      BY DEF gaps
    <2>4. ASSUME NEW k \in close PROVE k.at <= m.at
      <3>1. n - k.at \in gaps
        BY DEF gaps
      <3>2. n - m.at <= n - k.at
        BY <2>2, <2>3, <3>1
      <3> QED
        BY <2>0, <3>2
    <2> QED
      BY <2>4
  <1>5. ASSUME NEW k \in found PROVE Stronger(m, k)
    <2>1. k.specificity <= s.specificity /\ m.specificity = s.specificity
      BY <1>1, <1>3
    <2>2. k.specificity \in Int /\ s.specificity \in Int
      BY DEF Matches
    <2>3. CASE k.specificity = s.specificity
      BY <1>2, <1>3, <1>4, <2>3 DEF Stronger, Matches
    <2> QED
      BY <2>1, <2>2, <2>3 DEF Stronger
  <1> QED
    BY <1>2, <1>5

\* The layers that compete are the configured ones.
LEMMA ConfiguredAre ==
    ASSUME NEW layers, IsList(layers)
    PROVE  /\ Len(WithBuiltin(layers)) \in Nat
           /\ Configured(WithBuiltin(layers)) \subseteq 1..Len(WithBuiltin(layers))
           /\ {WithBuiltin(layers)[i] : i \in Configured(WithBuiltin(layers))}
                = {layer \in {layers[i] : i \in DOMAIN layers} : layer.id # "builtin:default"}
  <1>1. layers \in Seq({layers[i] : i \in DOMAIN layers})
    BY DEF IsList
  <1>2. BuiltinLayer.id = "builtin:default"
    BY DEF BuiltinLayer
  <1>3. CASE \E i \in DOMAIN layers : layers[i].id = BuiltinLayer.id
    <2>1. WithBuiltin(layers) = layers
      BY <1>3 DEF WithBuiltin
    <2>2. Len(layers) \in Nat /\ DOMAIN layers = 1..Len(layers)
      BY <1>1
    <2>3. Configured(layers) = {i \in DOMAIN layers : layers[i].id # "builtin:default"}
      BY <1>2 DEF Configured
    <2> HIDE DEF Configured
    <2>4. {layers[i] : i \in Configured(layers)} =
            {layer \in {layers[i] : i \in DOMAIN layers} : layer.id # "builtin:default"}
      BY <2>3
    <2> QED
      BY <2>1, <2>2, <2>3, <2>4
  <1>4. CASE ~ \E i \in DOMAIN layers : layers[i].id = BuiltinLayer.id
    <2> DEFINE stack == <<BuiltinLayer>> \o layers
    <2>1. WithBuiltin(layers) = stack
      BY <1>4 DEF WithBuiltin
    <2>2. /\ Len(layers) \in Nat /\ DOMAIN layers = 1..Len(layers)
          /\ Len(stack) = Len(layers) + 1 /\ DOMAIN stack = 1..(Len(layers) + 1)
          /\ stack[1] = BuiltinLayer
          /\ \A i \in 1..Len(layers) : stack[i + 1] = layers[i]
      BY <1>1
    <2> HIDE DEF stack
    <2>3. \A i \in 2..(Len(layers) + 1) : i - 1 \in 1..Len(layers) /\ stack[i] = layers[i - 1]
      <3> TAKE i \in 2..(Len(layers) + 1)
      <3>1. i - 1 \in 1..Len(layers) /\ (i - 1) + 1 = i
        BY <2>2
      <3> QED
        BY <2>2, <3>1
    <2>4. Configured(stack) = 2..(Len(layers) + 1)
      BY <1>4, <2>2, <2>3 DEF Configured
    <2>5. {stack[i] : i \in Configured(stack)} = {layers[i] : i \in DOMAIN layers}
      <3>1. ASSUME NEW i \in DOMAIN layers PROVE layers[i] \in {stack[k] : k \in Configured(stack)}
        <4>1. i + 1 \in Configured(stack) /\ stack[i + 1] = layers[i]
          BY <2>2, <2>4
        <4> QED
          BY <4>1
      <3> QED
        BY <2>2, <2>3, <2>4, <3>1
    <2>6. {layers[i] : i \in DOMAIN layers} =
            {layer \in {layers[i] : i \in DOMAIN layers} : layer.id # "builtin:default"}
      BY <1>2, <1>4
    <2>7. Len(stack) \in Nat /\ Configured(stack) \subseteq 1..Len(stack)
      BY <2>2, <2>4
    <2> QED
      BY <2>1, <2>5, <2>6, <2>7, Zenon
  <1> QED
    BY <1>3, <1>4

\* What the configured layers match: their best patterns that fit.
LEMMA MatchesAre ==
    ASSUME NEW stack, Len(stack) \in Nat, Configured(stack) \subseteq 1..Len(stack),
           NEW cap, IsCap(cap)
    PROVE  /\ CollectMatches(stack, cap) \subseteq Matches(Len(stack))
           /\ \A m \in CollectMatches(stack, cap) :
                /\ m.at \in Configured(stack)
                /\ m.specificity + 1 =
                    IF m.outcome = "require" THEN Specific(cap, stack[m.at].require_approval)
                    ELSE Specific(cap, stack[m.at].auto_approve)
           /\ \A i \in Configured(stack) :
                /\ Specific(cap, stack[i].require_approval) # 0 =>
                    \E m \in CollectMatches(stack, cap) : m.outcome = "require" /\
                        m.specificity + 1 = Specific(cap, stack[i].require_approval)
                /\ Specific(cap, stack[i].auto_approve) # 0 =>
                    \E m \in CollectMatches(stack, cap) : m.outcome = "auto" /\
                        m.specificity + 1 = Specific(cap, stack[i].auto_approve)
  <1> DEFINE Strict(i) == [outcome |-> "require", at |-> i,
                        specificity |-> Specific(cap, stack[i].require_approval) - 1]
             Free(i) == [outcome |-> "auto", at |-> i,
                         specificity |-> Specific(cap, stack[i].auto_approve) - 1]
  <1>1. \A i : /\ Specific(cap, stack[i].require_approval) \in 0..3
               /\ Specific(cap, stack[i].auto_approve) \in 0..3
    BY BestIsSpecific
  <1>2. \A i : MatchesOf(stack, i, cap) = {m \in {Strict(i), Free(i)} : m.specificity >= 0}
    BY BestIsSpecific DEF MatchesOf
  <1>3. CollectMatches(stack, cap)
            = UNION {{m \in {Strict(i), Free(i)} : m.specificity >= 0} : i \in Configured(stack)}
    BY <1>2 DEF CollectMatches
  <1>4. \A m : m \in CollectMatches(stack, cap) <=>
            \E i \in Configured(stack) : m \in {Strict(i), Free(i)} /\ m.specificity >= 0
    BY <1>3
  <1>5. ASSUME NEW m \in CollectMatches(stack, cap)
        PROVE  /\ m \in Matches(Len(stack)) /\ m.at \in Configured(stack)
               /\ m.specificity + 1 =
                    IF m.outcome = "require" THEN Specific(cap, stack[m.at].require_approval)
                    ELSE Specific(cap, stack[m.at].auto_approve)
    <2>1. PICK i \in Configured(stack) : m \in {Strict(i), Free(i)} /\ m.specificity >= 0
      BY <1>4
    <2>2. i \in 1..Len(stack)
      OBVIOUS
    <2>3. CASE m = Strict(i)
      BY <1>1, <2>1, <2>2, <2>3 DEF Matches
    <2>4. CASE m = Free(i)
      BY <1>1, <2>1, <2>2, <2>4 DEF Matches
    <2> QED
      BY <2>1, <2>3, <2>4
  <1>6. ASSUME NEW i \in Configured(stack), Specific(cap, stack[i].require_approval) # 0
        PROVE  \E m \in CollectMatches(stack, cap) : m.outcome = "require" /\
                    m.specificity + 1 = Specific(cap, stack[i].require_approval)
    <2>1. Strict(i) \in CollectMatches(stack, cap)
      BY <1>1, <1>4, <1>6
    <2> QED
      BY <1>1, <2>1
  <1>7. ASSUME NEW i \in Configured(stack), Specific(cap, stack[i].auto_approve) # 0
        PROVE  \E m \in CollectMatches(stack, cap) : m.outcome = "auto" /\
                    m.specificity + 1 = Specific(cap, stack[i].auto_approve)
    <2>1. Free(i) \in CollectMatches(stack, cap)
      BY <1>1, <1>4, <1>7
    <2> QED
      BY <1>1, <2>1
  <1> HIDE DEF Strict, Free
  <1> QED
    BY <1>5, <1>6, <1>7

\* What an evaluation answers is what the policy says of the request.
LEMMA EvaluationDecides ==
    ASSUME NEW layers, IsList(layers), NEW cap, IsCap(cap), NEW scope, NEW risk,
           Absent # "high"
    PROVE  EvaluateRequest(WithBuiltin(layers), cap, scope, risk).outcome = "auto" <=>
                /\ risk # Absent
                /\ ~(risk = "high" /\ scope \in {"write", "admin"})
                /\ LET configured == {layer \in {layers[i] : i \in DOMAIN layers} :
                                            layer.id # "builtin:default"}
                   IN  \E a \in configured : \A b \in configured :
                        Specific(cap, a.auto_approve) > Specific(cap, b.require_approval)
  <1> DEFINE stack == WithBuiltin(layers)
             found == CollectMatches(stack, cap)
             best == CHOOSE m \in found : \A n \in found : Stronger(m, n)
             permitted == risk # Absent /\ ~(risk = "high" /\ scope \in {"write", "admin"})
             configured == {layer \in {layers[i] : i \in DOMAIN layers} :
                                layer.id # "builtin:default"}
             approves == \E a \in configured : \A b \in configured :
                            Specific(cap, a.auto_approve) > Specific(cap, b.require_approval)
  <1>1. /\ Len(stack) \in Nat /\ Configured(stack) \subseteq 1..Len(stack)
        /\ {stack[i] : i \in Configured(stack)} = configured
    BY ConfiguredAre
  <1>2. EvaluateRequest(stack, cap, scope, risk).outcome = "auto" <=>
            permitted /\ found # {} /\ best.outcome = "auto"
    <2>1. (HardlineVerdict(risk, scope) = "permitted") <=> permitted
      BY DEF HardlineVerdict
    <2>2. EvaluateRequest(stack, cap, scope, risk).outcome =
            IF ~(HardlineVerdict(risk, scope) = "permitted") THEN "require"
            ELSE IF found = {} THEN "require" ELSE best.outcome
      BY DEF EvaluateRequest
    <2> HIDE DEF stack, found, best, permitted
    <2> QED
      BY <2>1, <2>2
  <1> HIDE DEF stack, found, configured
  <1>3. /\ found \subseteq Matches(Len(stack))
        /\ \A m \in found :
            /\ m.at \in Configured(stack)
            /\ m.specificity + 1 =
                IF m.outcome = "require" THEN Specific(cap, stack[m.at].require_approval)
                ELSE Specific(cap, stack[m.at].auto_approve)
        /\ \A i \in Configured(stack) :
            /\ Specific(cap, stack[i].require_approval) # 0 =>
                \E m \in found : m.outcome = "require" /\
                    m.specificity + 1 = Specific(cap, stack[i].require_approval)
            /\ Specific(cap, stack[i].auto_approve) # 0 =>
                \E m \in found : m.outcome = "auto" /\
                    m.specificity + 1 = Specific(cap, stack[i].auto_approve)
    BY <1>1, MatchesAre DEF found
  <1>4. \A i : /\ Specific(cap, stack[i].require_approval) \in 0..3
               /\ Specific(cap, stack[i].auto_approve) \in 0..3
    BY BestIsSpecific
  <1>5. approves <=> \E i \in Configured(stack) : \A j \in Configured(stack) :
            Specific(cap, stack[i].auto_approve) > Specific(cap, stack[j].require_approval)
    BY <1>1
  <1>6. found # {} => best \in found /\ \A n \in found : Stronger(best, n)
    BY <1>1, <1>3, StrongestIs
  <1> HIDE DEF best, approves
  <1>7. ASSUME found # {}, best.outcome = "auto" PROVE approves
    <2>1. best \in found /\ best.at \in Configured(stack) /\ best.specificity \in 0..2
      BY <1>3, <1>6, <1>7 DEF Matches
    <2>2. best.specificity + 1 = Specific(cap, stack[best.at].auto_approve)
      BY <1>3, <1>7, <2>1
    <2>3. ASSUME NEW j \in Configured(stack)
          PROVE  Specific(cap, stack[best.at].auto_approve) > Specific(cap, stack[j].require_approval)
      <3>1. CASE Specific(cap, stack[j].require_approval) = 0
        BY <1>4, <2>1, <2>2, <3>1
      <3>2. CASE Specific(cap, stack[j].require_approval) # 0
        <4>1. PICK m \in found : m.outcome = "require" /\
                    m.specificity + 1 = Specific(cap, stack[j].require_approval)
          BY <1>3, <3>2
        <4>2. Stronger(best, m) /\ m.specificity \in 0..2
          BY <1>3, <1>6, <4>1 DEF Matches
        <4>3. best.specificity > m.specificity
          BY <1>7, <4>1, <4>2 DEF Stronger
        <4> QED
          BY <2>1, <2>2, <4>1, <4>2, <4>3
      <3> QED
        BY <3>1, <3>2
    <2> QED
      BY <1>5, <2>1, <2>3
  <1>8. ASSUME approves PROVE found # {} /\ best.outcome = "auto"
    <2>1. PICK i \in Configured(stack) : \A j \in Configured(stack) :
            Specific(cap, stack[i].auto_approve) > Specific(cap, stack[j].require_approval)
      BY <1>5, <1>8
    <2>2. Specific(cap, stack[i].auto_approve) # 0
      BY <1>4, <2>1
    <2>3. PICK m \in found : m.outcome = "auto" /\
            m.specificity + 1 = Specific(cap, stack[i].auto_approve)
      BY <1>3, <2>2
    <2>4. best \in found /\ Stronger(best, m) /\ best.at \in Configured(stack)
      BY <1>3, <1>6, <2>3
    <2>5. best.specificity \in 0..2 /\ m.specificity \in 0..2
            /\ best.outcome \in {"require", "auto"}
      BY <1>3, <2>3, <2>4 DEF Matches
    <2>6. SUFFICES ASSUME best.outcome = "require" PROVE FALSE
      BY <2>3, <2>5
    <2>7. best.specificity + 1 = Specific(cap, stack[best.at].require_approval)
      BY <1>3, <2>4, <2>6
    <2>8. best.specificity >= m.specificity
      BY <2>4, <2>5 DEF Stronger
    <2> QED
      BY <1>4, <2>1, <2>3, <2>4, <2>5, <2>7, <2>8
  <1>9. EvaluateRequest(stack, cap, scope, risk).outcome = "auto" <=> permitted /\ approves
    BY <1>2, <1>7, <1>8
  <1> QED
    BY <1>9 DEF approves, configured, stack

\* A step asks one question.
LEMMA StepsAre ==
    ASSUME DecisionsNext
    PROVE  \/ \E layers \in LayerStacks, r \in CapRequests : Decide(layers, r)
           \/ \E items \in Registries \ {<<>>}, first, second \in Feedbacks :
                    Rank(items, first, second) /\ question'.kind = "rank"
           \/ \E raw \in SessionInits, profile \in Profiles :
                    Shake(raw, profile) /\ question'.kind = "session"
           \/ \E client \in Versions, supported \in VersionLists :
                    Agree(client, supported) /\ question'.kind = "version"
  <1>1. ASSUME NEW items, NEW first, NEW second, Rank(items, first, second)
        PROVE  question'.kind = "rank"
    BY <1>1 DEF Rank, Ask
  <1>2. ASSUME NEW raw, NEW profile, Shake(raw, profile) PROVE question'.kind = "session"
    BY <1>2 DEF Shake, Ask
  <1>3. ASSUME NEW client, NEW supported, Agree(client, supported)
        PROVE  question'.kind = "version"
    BY <1>3 DEF Agree, Ask
  <1> QED
    BY <1>1, <1>2, <1>3, Zenon DEF DecisionsNext

\* A request goes without a decision only where the policy allows it, for every
\* stack of layers and every set of patterns (policy.ts:1-18).
THEOREM ThePolicyDecides == DecisionsSpec => []PolicyDecides
  <1>1. DecisionsInit => PolicyDecides
    BY DEF DecisionsInit, PolicyDecides
  <1>2. PolicyDecides /\ [DecisionsNext]_<<question, answer>> => PolicyDecides'
    <2> SUFFICES ASSUME PolicyDecides, [DecisionsNext]_<<question, answer>>
                 PROVE  PolicyDecides'
      OBVIOUS
    <2>1. ASSUME NEW layers \in LayerStacks, NEW r \in CapRequests, Decide(layers, r)
          PROVE  PolicyDecides'
      <3>1. /\ question' = [kind |-> "policy", of |-> [layers |-> layers, request |-> r]]
            /\ answer' = EvaluateRequest(WithBuiltin(layers), r.cap, r.scope, r.risk)
        BY <2>1 DEF Decide, Ask
      <3>2. question'.of.request = r /\ question'.of.layers = layers
        BY <3>1
      <3>3. IsList(layers) /\ IsCap(r.cap) /\ Absent # "high"
        BY PolicyAssumption DEF IsCap
      <3>4. EvaluateRequest(WithBuiltin(layers), r.cap, r.scope, r.risk).outcome = "auto" <=>
                /\ r.risk # Absent
                /\ ~(r.risk = "high" /\ r.scope \in {"write", "admin"})
                /\ LET configured == {layer \in {layers[i] : i \in DOMAIN layers} :
                                            layer.id # "builtin:default"}
                   IN  \E a \in configured : \A b \in configured :
                        Specific(r.cap, a.auto_approve) > Specific(r.cap, b.require_approval)
        BY <3>3, EvaluationDecides
      <3> QED
        BY <3>1, <3>2, <3>4 DEF PolicyDecides
    <2>2. ASSUME question'.kind # "policy" PROVE PolicyDecides'
      BY <2>2 DEF PolicyDecides
    <2>3. CASE DecisionsNext
      BY <2>1, <2>2, <2>3, StepsAre
    <2>4. CASE UNCHANGED <<question, answer>>
      BY <2>4 DEF PolicyDecides
    <2> QED
      BY <2>3, <2>4
  <1> QED
    BY <1>1, <1>2, PTL DEF DecisionsSpec

----------------------------------------------------------------------------
(* The handshake.                                                          *)

\* What the version of a text is, and how far it is from another one.
LEMMA LevelIsGap ==
    ASSUME NEW v, NEW w, IsVersion(v), IsVersion(w), v # Bad, w # Bad,
           Absent \notin Nat \X Nat \X Nat
    PROVE  /\ ParseSemver(v) # Absent
           /\ LevelOf(ParseSemver(w), ParseSemver(v)) \in
                {"exact", "minor_drift", "major_adjacent", "incompatible"}
           /\ RANK[LevelOf(ParseSemver(w), ParseSemver(v))] = Gap(v, w)
           /\ LevelOf(ParseSemver(w), ParseSemver(v)) = "incompatible" <=> Gap(v, w) = 3
  <1> DEFINE Full(u) == <<u[1], u[2], Patch(u)>>
  <1>1. ASSUME NEW u, IsVersion(u), u # Bad
        PROVE  /\ u[1] \in Nat /\ u[2] \in Nat /\ Patch(u) \in Nat
               /\ ParseSemver(u) = Full(u)
    <2>1. CASE u \in Nat \X Nat
      <3>1. PICK a \in Nat, b \in Nat : u = <<a, b>>
        BY <2>1
      <3>2. Len(u) = 2
        BY <3>1
      <3>3. ParseSemver(u) = <<a, b, 0>> /\ Patch(u) = 0
        BY <1>1, <3>1, <3>2 DEF ParseSemver, Patch
      <3> QED
        BY <3>1, <3>3
    <2>2. CASE u \in Nat \X Nat \X Nat
      <3>1. PICK a \in Nat, b \in Nat, c \in Nat : u = <<a, b, c>>
        BY <2>2
      <3>2. Len(u) = 3
        BY <3>1
      <3>3. ParseSemver(u) = u /\ Patch(u) = c
        BY <1>1, <3>1, <3>2 DEF ParseSemver, Patch
      <3> QED
        BY <3>1, <3>3
    <2> QED
      BY <1>1, <2>1, <2>2 DEF IsVersion
  <1>2. /\ v[1] \in Nat /\ v[2] \in Nat /\ Patch(v) \in Nat /\ ParseSemver(v) = Full(v)
        /\ w[1] \in Nat /\ w[2] \in Nat /\ Patch(w) \in Nat /\ ParseSemver(w) = Full(w)
    BY <1>1
  <1>3. ParseSemver(v) # Absent
    <2>1. Full(v) \in Nat \X Nat \X Nat
      BY <1>2
    <2> QED
      BY <1>2, <2>1
  <1>4. /\ Full(v) = Full(w) <=> v[1] = w[1] /\ v[2] = w[2] /\ Patch(v) = Patch(w)
        /\ Full(v)[1] = v[1] /\ Full(w)[1] = w[1]
    OBVIOUS
  <1> HIDE DEF Full
  <1>5. LevelOf(Full(w), Full(v)) =
            IF v[1] = w[1] THEN IF v[2] = w[2] /\ Patch(v) = Patch(w) THEN "exact" ELSE "minor_drift"
            ELSE IF v[1] = w[1] + 1 \/ w[1] = v[1] + 1 THEN "major_adjacent"
            ELSE "incompatible"
    BY <1>2, <1>4 DEF LevelOf
  <1> QED
    BY <1>2, <1>3, <1>5 DEF Gap, RANK

\* Of some positions with a number each there is one whose number is least, and
\* which is the first of those.
LEMMA NearestIs ==
    ASSUME NEW n \in Nat, NEW close, close \subseteq 1..n, close # {},
           NEW far, \A i \in close : far[i] \in Nat
    PROVE  \E i \in close : \A j \in close :
                far[i] < far[j] \/ (far[i] = far[j] /\ i <= j)
  <1>1. PICK k \in close : \A j \in close : far[k] <= far[j]
    <2> DEFINE gaps == {far[i] : i \in close}
    <2>1. gaps \subseteq Nat /\ gaps # {}
      OBVIOUS
    <2>2. PICK x \in gaps : \A y \in gaps : x <= y
      <3> HIDE DEF gaps
      <3> QED
        BY <2>1, LeastNatural
    <2> QED
      BY <2>2
  <1> DEFINE firsts == {i \in close : far[i] = far[k]}
  <1>2. firsts \subseteq Nat /\ firsts # {}
    <2>1. k \in firsts
      OBVIOUS
    <2>2. 1..n \subseteq Nat
      OBVIOUS
    <2> QED
      BY <2>1, <2>2
  <1>3. PICK i \in firsts : \A j \in firsts : i <= j
    <2> HIDE DEF firsts
    <2> QED
      BY <1>2, LeastNatural
  <1>4. ASSUME NEW j \in close PROVE far[i] < far[j] \/ (far[i] = far[j] /\ i <= j)
    <2>1. far[i] = far[k] /\ far[k] <= far[j] /\ far[k] \in Nat /\ far[j] \in Nat
      BY <1>1, <1>3
    <2> QED
      BY <1>3, <2>1
  <1> QED
    BY <1>3, <1>4

\* The version agreed on is one of those offered and none is closer; there is
\* none only where all are too far away.
LEMMA CompatIsClosest ==
    ASSUME NEW client \in Versions, NEW supported \in VersionLists
    PROVE  LET compat == CheckProtocolCompat(client, supported)
               offered == Range(supported) \ {Bad}
           IN  \/ /\ compat.level = "incompatible"
                  /\ client = Bad \/ \A v \in offered : Gap(v, client) = 3
               \/ /\ client # Bad /\ compat.matched \in offered
                  /\ compat.level # "incompatible"
                  /\ RANK[compat.level] = Gap(compat.matched, client)
                  /\ \A v \in offered : Gap(compat.matched, client) <= Gap(v, client)
  <1> DEFINE parsed == ParseSemver(client)
             level(i) == IF ParseSemver(supported[i]) = Absent THEN "incompatible"
                         ELSE LevelOf(parsed, ParseSemver(supported[i]))
             Nearer(i, j) == \/ RANK[level(i)] < RANK[level(j)]
                             \/ RANK[level(i)] = RANK[level(j)] /\ i <= j
             near == {i \in DOMAIN supported : level(i) # "incompatible"}
             best == CHOOSE i \in near : \A j \in near : Nearer(i, j)
             compat == CheckProtocolCompat(client, supported)
             offered == Range(supported) \ {Bad}
  <1>1. /\ IsVersion(client) /\ Absent \notin Nat \X Nat \X Nat
        /\ Len(supported) \in Nat /\ DOMAIN supported = 1..Len(supported)
        /\ \A i \in DOMAIN supported : IsVersion(supported[i])
    <2>1. supported \in Seq({supported[i] : i \in DOMAIN supported})
      BY VersionAssumption DEF IsList
    <2> QED
      BY <2>1, VersionAssumption
  <1>2. compat = IF parsed = Absent \/ near = {}
                 THEN [level |-> "incompatible", matched |-> Absent]
                 ELSE [level |-> level(best), matched |-> supported[best]]
    BY Zenon DEF CheckProtocolCompat
  <1>3. CASE client = Bad
    <2>1. parsed = Absent
      BY <1>3 DEF ParseSemver
    <2>2. compat.level = "incompatible"
      BY <1>2, <2>1
    <2> QED
      BY <1>3, <2>2
  <1>4. CASE client # Bad
    <2>1. parsed # Absent
      BY <1>1, <1>4, LevelIsGap
    <2>2. ASSUME NEW i \in DOMAIN supported, supported[i] = Bad
          PROVE  level(i) = "incompatible"
      BY <2>2 DEF ParseSemver
    <2>3. ASSUME NEW i \in DOMAIN supported, supported[i] # Bad
          PROVE  /\ RANK[level(i)] = Gap(supported[i], client)
                 /\ level(i) = "incompatible" <=> Gap(supported[i], client) = 3
                 /\ Gap(supported[i], client) \in 0..3
      <3>1. Gap(supported[i], client) \in 0..3
        BY DEF Gap
      <3> QED
        BY <1>1, <1>4, <2>3, <3>1, LevelIsGap
    <2> HIDE DEF level, parsed
    <2>4. ASSUME NEW v \in offered
          PROVE  \E i \in DOMAIN supported : supported[i] = v /\ supported[i] # Bad
      BY <2>4 DEF Range
    <2>5. CASE near = {}
      <3>1. compat.level = "incompatible"
        BY <1>2, <2>5
      <3>2. ASSUME NEW v \in offered PROVE Gap(v, client) = 3
        <4>1. PICK i \in DOMAIN supported : supported[i] = v /\ supported[i] # Bad
          BY <2>4
        <4> QED
          BY <2>3, <2>5, <4>1
      <3> QED
        BY <3>1, <3>2
    <2>6. CASE near # {}
      <3>1. near \subseteq 1..Len(supported) /\ \A i \in near : supported[i] # Bad
        BY <1>1, <2>2
      <3>2. \A i \in near : RANK[level(i)] \in Nat
        BY <2>3, <3>1
      <3>3. \E i \in near : \A j \in near : Nearer(i, j)
        <4> DEFINE far == [i \in near |-> RANK[level(i)]]
        <4>1. \A i \in near : far[i] = RANK[level(i)] /\ far[i] \in Nat
          BY <3>2
        <4> HIDE DEF far, near
        <4>2. PICK i \in near : \A j \in near : far[i] < far[j] \/ (far[i] = far[j] /\ i <= j)
          BY <1>1, <2>6, <3>1, <4>1, NearestIs
        <4> QED
          BY <4>1, <4>2
      <3>4. best \in near /\ \A j \in near : Nearer(best, j)
        BY <3>3
      <3>5. compat = [level |-> level(best), matched |-> supported[best]]
        BY <1>2, <2>1, <2>6
      <3>6. /\ best \in DOMAIN supported /\ supported[best] # Bad
            /\ level(best) # "incompatible"
        BY <3>1, <3>4
      <3> HIDE DEF best, compat
      <3>7. supported[best] \in offered
        BY <3>6 DEF Range
      <3>8. ASSUME NEW v \in offered PROVE Gap(supported[best], client) <= Gap(v, client)
        <4>1. PICK i \in DOMAIN supported : supported[i] = v /\ supported[i] # Bad
          BY <2>4
        <4>2. CASE i \in near
          BY <2>3, <3>4, <3>6, <4>1, <4>2
        <4>3. CASE i \notin near
          BY <2>3, <3>6, <4>1, <4>3
        <4> QED
          BY <4>2, <4>3
      <3>9. /\ compat.matched = supported[best] /\ compat.level = level(best)
        BY <3>5
      <3>10. RANK[level(best)] = Gap(supported[best], client)
        BY <2>3, <3>6
      <3> HIDE DEF offered
      <3> QED
        BY <1>4, <3>6, <3>7, <3>8, <3>9, <3>10 DEF offered, compat
    <2> QED
      BY <2>5, <2>6
  <1> QED
    BY <1>3, <1>4

\* What a session is told of its features.
LEMMA SessionIsExplained ==
    ASSUME NEW raw, NEW profile,
           \A f \in Features : profile.capabilities[f] \in BOOLEAN,
           SessionResponse(raw, profile).outcome = "ok"
    PROVE  LET client == raw.params.capabilities
               daemon == profile.capabilities
               told == SessionResponse(raw, profile)
               blamed(f) == {d.by : d \in {e \in told.degradations : e.feature = f}}
           IN  \A f \in Features :
                /\ told.effective[f] = (client[f] = TRUE /\ daemon[f])
                /\ blamed(f) = (IF (client[f] = TRUE) = daemon[f] THEN {}
                                ELSE IF daemon[f] THEN {"client"} ELSE {"daemon"})
  <1> DEFINE client == raw.params.capabilities
             daemon == profile.capabilities
             told == SessionResponse(raw, profile)
             has(f) == client[f] = TRUE
             lost == {g \in Features : ~(has(g) /\ daemon[g]) /\ (has(g) \/ daemon[g])}
             by(f) == IF has(f) THEN "daemon" ELSE "client"
             degradations == {[feature |-> f, by |-> by(f)] : f \in lost}
  <1>1. /\ told.effective = [f \in Features |-> NegotiateCapability(client, daemon, f)]
        /\ told.degradations = BuildDegradations(client, daemon)
    BY DEF SessionResponse
  <1>2. /\ told.effective = [f \in Features |-> has(f) /\ daemon[f]]
        /\ told.degradations = degradations
    BY <1>1 DEF NegotiateCapability, BuildDegradations
  <1> HIDE DEF has, told, client
  <1>3. ASSUME NEW f \in Features
        PROVE  {d.by : d \in {e \in degradations : e.feature = f}}
                = IF f \in lost THEN {by(f)} ELSE {}
    <2>1. {e \in degradations : e.feature = f}
            = IF f \in lost THEN {[feature |-> f, by |-> by(f)]} ELSE {}
      OBVIOUS
    <2> HIDE DEF degradations, lost, by
    <2>2. CASE f \in lost
      <3> DEFINE d == [feature |-> f, by |-> by(f)]
      <3>1. {e \in degradations : e.feature = f} = {d} /\ d.by = by(f)
        BY <2>1, <2>2
      <3> HIDE DEF d
      <3> QED
        BY <2>2, <3>1
    <2>3. CASE f \notin lost
      <3>1. {e \in degradations : e.feature = f} = {}
        BY <2>1, <2>3
      <3> QED
        BY <2>3, <3>1
    <2> QED
      BY <2>2, <2>3
  <1>4. ASSUME NEW f \in Features
        PROVE  /\ told.effective[f] = (has(f) /\ daemon[f])
               /\ {d.by : d \in {e \in told.degradations : e.feature = f}}
                    = (IF has(f) = daemon[f] THEN {}
                       ELSE IF daemon[f] THEN {"client"} ELSE {"daemon"})
    <2>1. daemon[f] \in BOOLEAN /\ has(f) \in BOOLEAN
      BY DEF has
    <2>2. (IF f \in lost THEN {by(f)} ELSE {})
            = (IF has(f) = daemon[f] THEN {}
               ELSE IF daemon[f] THEN {"client"} ELSE {"daemon"})
      BY <2>1
    <2>3. told.effective[f] = (has(f) /\ daemon[f])
      BY <1>2
    <2> HIDE DEF degradations, lost, by, daemon
    <2> QED
      BY <1>2, <1>3, <2>2, <2>3
  <1> QED
    BY <1>4, Zenon DEF has, told, client

\* Whatever is declared and offered: each side finds what it has and the other
\* lacks explained, and no offered version is closer than the one agreed on
\* (handshake.ts:128-158, semver.ts:56-100).
THEOREM TheHandshakeExplains == DecisionsSpec => []HandshakeExplained
  <1>1. DecisionsInit => HandshakeExplained
    BY DEF DecisionsInit, HandshakeExplained
  <1>2. HandshakeExplained /\ [DecisionsNext]_<<question, answer>> => HandshakeExplained'
    <2> SUFFICES ASSUME HandshakeExplained, [DecisionsNext]_<<question, answer>>
                 PROVE  HandshakeExplained'
      OBVIOUS
    <2>1. ASSUME question'.kind # "session", question'.kind # "version"
          PROVE  HandshakeExplained'
      BY <2>1 DEF HandshakeExplained
    <2>2. ASSUME NEW layers, NEW r, Decide(layers, r)
          PROVE  HandshakeExplained'
      BY <2>1, <2>2 DEF Decide, Ask
    <2>3. ASSUME NEW raw \in SessionInits, NEW profile \in Profiles, Shake(raw, profile)
          PROVE  HandshakeExplained'
      <3>1. /\ question'.kind = "session" /\ question'.of.raw = raw
            /\ question'.of.profile = profile /\ answer' = SessionResponse(raw, profile)
        BY <2>3 DEF Shake, Ask
      <3>2. \A f \in Features : profile.capabilities[f] \in BOOLEAN
        BY VersionAssumption
      <3>3. SessionResponse(raw, profile).outcome = "ok" =>
                LET client == raw.params.capabilities
                    daemon == profile.capabilities
                    told == SessionResponse(raw, profile)
                    blamed(f) == {d.by : d \in {e \in told.degradations : e.feature = f}}
                IN  \A f \in Features :
                     /\ told.effective[f] = (client[f] = TRUE /\ daemon[f])
                     /\ blamed(f) = (IF (client[f] = TRUE) = daemon[f] THEN {}
                                     ELSE IF daemon[f] THEN {"client"} ELSE {"daemon"})
        BY <3>2, SessionIsExplained
      <3> QED
        BY <3>1, <3>3 DEF HandshakeExplained
    <2>4. ASSUME NEW client \in Versions, NEW supported \in VersionLists,
                 Agree(client, supported)
          PROVE  HandshakeExplained'
      <3>1. /\ question'.kind = "version" /\ question'.of.client = client
            /\ question'.of.supported = supported
            /\ answer' = CheckProtocolCompat(client, supported)
        BY <2>4 DEF Agree, Ask
      <3>2. LET compat == CheckProtocolCompat(client, supported)
                offered == Range(supported) \ {Bad}
            IN  \/ /\ compat.level = "incompatible"
                   /\ client = Bad \/ \A v \in offered : Gap(v, client) = 3
                \/ /\ client # Bad /\ compat.matched \in offered
                   /\ compat.level # "incompatible"
                   /\ RANK[compat.level] = Gap(compat.matched, client)
                   /\ \A v \in offered : Gap(compat.matched, client) <= Gap(v, client)
        BY CompatIsClosest
      <3> QED
        BY <3>1, <3>2 DEF HandshakeExplained
    <2>5. CASE DecisionsNext
      BY <2>1, <2>2, <2>3, <2>4, <2>5, StepsAre
    <2>6. CASE UNCHANGED <<question, answer>>
      BY <2>6 DEF HandshakeExplained
    <2> QED
      BY <2>5, <2>6
  <1> QED
    BY <1>1, <1>2, PTL DEF DecisionsSpec

----------------------------------------------------------------------------
(* The ranking of models.                                                  *)

\* One strict order of the positions, in which any two can be compared.
Orders(before, n) ==
    /\ \A i \in 1..n : <<i, i>> \notin before
    /\ \A i, j \in 1..n : i # j => <<i, j>> \in before \/ <<j, i>> \in before
    /\ \A i, j, k \in 1..n : <<i, j>> \in before /\ <<j, k>> \in before => <<i, k>> \in before

CountBefore(before, n, i) == 1 + Cardinality({j \in 1..n : <<j, i>> \in before})

\* The number of those before a position is its place: each place is taken by
\* one of them, in the same order.
LEMMA CountsArePlaces ==
    ASSUME NEW n \in Nat, NEW before, Orders(before, n)
    PROVE  /\ \A i \in 1..n : CountBefore(before, n, i) \in 1..n
           /\ \A i, j \in 1..n : <<i, j>> \in before =>
                CountBefore(before, n, i) < CountBefore(before, n, j)
           /\ \A i, j \in 1..n :
                CountBefore(before, n, i) = CountBefore(before, n, j) => i = j
           /\ \A k \in 1..n : \E i \in 1..n : CountBefore(before, n, i) = k
  <1> DEFINE Below(i) == {j \in 1..n : <<j, i>> \in before}
  <1>0. IsFiniteSet(1..n) /\ Cardinality(1..n) = n
    BY FS_Interval
  <1>1. ASSUME NEW i \in 1..n
        PROVE  /\ IsFiniteSet(Below(i)) /\ Cardinality(Below(i)) \in 0..(n - 1)
    <2>1. Below(i) \in SUBSET (1..n)
      OBVIOUS
    <2>2. IsFiniteSet(Below(i)) /\ Cardinality(Below(i)) <= Cardinality(1..n)
            /\ (Cardinality(1..n) = Cardinality(Below(i)) => 1..n = Below(i))
      BY <1>0, <2>1, FS_Subset
    <2>3. Cardinality(Below(i)) \in Nat
      BY <2>2, FS_CardinalityType
    <2>4. i \notin Below(i)
      BY DEF Orders
    <2>5. 1..n # Below(i)
      BY <2>4
    <2> HIDE DEF Below
    <2> QED
      BY <1>0, <2>2, <2>3, <2>5
  <1>2. ASSUME NEW i \in 1..n, NEW j \in 1..n, <<i, j>> \in before
        PROVE  Cardinality(Below(i)) < Cardinality(Below(j))
    <2>1. Below(i) \in SUBSET Below(j)
      BY <1>2 DEF Orders
    <2>2. i \in Below(j) /\ i \notin Below(i)
      BY <1>2 DEF Orders
    <2> HIDE DEF Below
    <2>3. /\ Cardinality(Below(i)) <= Cardinality(Below(j))
          /\ (Cardinality(Below(j)) = Cardinality(Below(i)) => Below(j) = Below(i))
      BY <1>1, <2>1, FS_Subset
    <2>4. Cardinality(Below(i)) \in Nat /\ Cardinality(Below(j)) \in Nat
      BY <1>1
    <2> QED
      BY <2>2, <2>3, <2>4
  <1>3. \A i : CountBefore(before, n, i) = 1 + Cardinality(Below(i))
    BY DEF CountBefore
  <1> HIDE DEF Below
  <1>4. ASSUME NEW i \in 1..n PROVE CountBefore(before, n, i) \in 1..n
    BY <1>1, <1>3
  <1>5. ASSUME NEW i \in 1..n, NEW j \in 1..n, <<i, j>> \in before
        PROVE  CountBefore(before, n, i) < CountBefore(before, n, j)
    <2>1. Cardinality(Below(i)) \in Int /\ Cardinality(Below(j)) \in Int
      BY <1>1
    <2> QED
      BY <1>2, <1>3, <1>5, <2>1
  <1>6. ASSUME NEW i \in 1..n, NEW j \in 1..n,
               CountBefore(before, n, i) = CountBefore(before, n, j)
        PROVE  i = j
    <2>1. CountBefore(before, n, i) \in Int /\ CountBefore(before, n, j) \in Int
      BY <1>4
    <2>2. <<i, j>> \notin before /\ <<j, i>> \notin before
      BY <1>5, <1>6, <2>1
    <2> QED
      BY <2>2 DEF Orders
  <1>7. ASSUME NEW k \in 1..n PROVE \E i \in 1..n : CountBefore(before, n, i) = k
    <2> DEFINE f == [i \in 1..n |-> CountBefore(before, n, i)]
    <2>1. f \in Injection(1..n, 1..n)
      BY <1>4, <1>6 DEF Injection, IsInjective
    <2>2. f \in Surjection(1..n, 1..n)
      <3> HIDE DEF f
      <3> QED
        BY <1>0, <2>1, FS_Injection
    <2> QED
      BY <2>2 DEF Surjection
  <1> QED
    BY <1>4, <1>5, <1>6, <1>7

\* The models of a file can be told apart by their names.
IsRanked(items, n, tier) ==
    /\ DOMAIN items = 1..n
    /\ \A i \in 1..n : Weight(items[i], tier) \in Int /\ items[i].rank \in Nat
    /\ \A i, j \in 1..n : i # j => items[i].rank # items[j].rank

BeforeOf(items, n, tier) ==
    {pair \in (1..n) \X (1..n) : Before(items[pair[1]], items[pair[2]], tier)}

\* Then the comparison orders them, and the place of one is the number of those
\* before it.
LEMMA RankingOrders ==
    ASSUME NEW n \in Nat, NEW items, NEW tier, IsRanked(items, n, tier)
    PROVE  /\ Orders(BeforeOf(items, n, tier), n)
           /\ \A i \in 1..n : Place(items, i, tier) = CountBefore(BeforeOf(items, n, tier), n, i)
  <1> DEFINE before == BeforeOf(items, n, tier)
             w(i) == Weight(items[i], tier)
             r(i) == items[i].rank
  <1>1. \A i, j \in 1..n : <<i, j>> \in before <=> w(i) > w(j) \/ (w(i) = w(j) /\ r(i) < r(j))
    BY DEF BeforeOf, Before
  <1>2. \A i, j \in 1..n : <<i, j>> \in before <=> Before(items[i], items[j], tier)
    BY DEF BeforeOf
  <1>3. /\ \A i \in 1..n : w(i) \in Int /\ r(i) \in Nat
        /\ \A i, j \in 1..n : i # j => r(i) # r(j)
    BY DEF IsRanked
  <1> HIDE DEF before, w, r
  <1>4. /\ \A i \in 1..n : <<i, i>> \notin before
        /\ \A i, j \in 1..n : i # j => <<i, j>> \in before \/ <<j, i>> \in before
        /\ \A i, j, k \in 1..n : <<i, j>> \in before /\ <<j, k>> \in before => <<i, k>> \in before
    BY <1>1, <1>3
  <1>5. Orders(before, n)
    BY <1>4 DEF Orders
  <1>6. ASSUME NEW i \in 1..n
        PROVE  {j \in DOMAIN items : Precedes(items, j, i, tier)} = {j \in 1..n : <<j, i>> \in before}
    <2>1. DOMAIN items = 1..n
      BY DEF IsRanked
    <2>2. ASSUME NEW j \in 1..n PROVE Precedes(items, j, i, tier) <=> <<j, i>> \in before
      <3>1. Precedes(items, j, i, tier) <=>
                <<j, i>> \in before \/ (j < i /\ <<i, j>> \notin before)
        BY <1>2 DEF Precedes
      <3>2. j < i => j # i
        OBVIOUS
      <3> QED
        BY <1>4, <3>1, <3>2
    <2> QED
      BY <2>1, <2>2
  <1>7. ASSUME NEW i \in 1..n PROVE Place(items, i, tier) = CountBefore(before, n, i)
    BY <1>6 DEF Place, CountBefore
  <1> QED
    BY <1>5, <1>7 DEF before

\* Every place of the ranking is that of one model, the best first.
IsRanking(items, n, tier) ==
    /\ DOMAIN RankForTier(items, tier) = 1..n
    /\ \A i \in 1..n : /\ Place(items, i, tier) \in 1..n
                       /\ RankForTier(items, tier)[Place(items, i, tier)] = items[i]
    /\ \A k \in 1..n : \E i \in 1..n : Place(items, i, tier) = k
    /\ \A i, j \in 1..n : Place(items, i, tier) < Place(items, j, tier) =>
            Weight(items[i], tier) >= Weight(items[j], tier)

\* From the places of the models to the ranking: each place is taken once.
LEMMA RankingIs ==
    ASSUME NEW n \in Nat, NEW items, NEW tier, IsRanked(items, n, tier)
    PROVE  IsRanking(items, n, tier)
  <1> DEFINE before == BeforeOf(items, n, tier)
             place(i) == Place(items, i, tier)
             ranked == RankForTier(items, tier)
  <1>1. Orders(before, n) /\ \A i \in 1..n : place(i) = CountBefore(before, n, i)
    BY RankingOrders
  <1> HIDE DEF before
  <1>2. /\ \A i \in 1..n : place(i) \in 1..n
        /\ \A i, j \in 1..n : <<i, j>> \in before => place(i) < place(j)
        /\ \A i, j \in 1..n : place(i) = place(j) => i = j
        /\ \A k \in 1..n : \E i \in 1..n : place(i) = k
    <2>1. /\ \A i \in 1..n : CountBefore(before, n, i) \in 1..n
          /\ \A i, j \in 1..n : <<i, j>> \in before =>
                CountBefore(before, n, i) < CountBefore(before, n, j)
          /\ \A i, j \in 1..n :
                CountBefore(before, n, i) = CountBefore(before, n, j) => i = j
          /\ \A k \in 1..n : \E i \in 1..n : CountBefore(before, n, i) = k
      BY <1>1, CountsArePlaces
    <2> HIDE DEF place
    <2> QED
      BY <1>1, <2>1
  <1>3. DOMAIN items = 1..n
    BY DEF IsRanked
  <1>4. ranked = [k \in 1..n |-> items[CHOOSE i \in 1..n : place(i) = k]]
    BY <1>3 DEF RankForTier
  <1> HIDE DEF place, ranked
  <1>5. ASSUME NEW i \in 1..n PROVE ranked[place(i)] = items[i]
    <2>1. (CHOOSE j \in 1..n : place(j) = place(i)) = i
      BY <1>2
    <2>2. place(i) \in 1..n
      BY <1>2
    <2> QED
      BY <1>4, <2>1, <2>2
  <1>6. ASSUME NEW i \in 1..n, NEW j \in 1..n, place(i) < place(j)
        PROVE  Weight(items[i], tier) >= Weight(items[j], tier)
    <2>1. place(i) \in 1..n /\ place(j) \in 1..n
      BY <1>2
    <2>2. i # j /\ ~(place(j) < place(i))
      BY <1>6, <2>1
    <2>3. <<i, j>> \in before
      BY <1>1, <1>2, <2>2 DEF Orders
    <2>4. Before(items[i], items[j], tier)
      BY <2>3 DEF before, BeforeOf
    <2> QED
      BY <2>4 DEF Before, IsRanked
  <1>7. DOMAIN ranked = 1..n
    BY <1>4
  <1> QED
    BY <1>2, <1>5, <1>6, <1>7 DEF place, ranked, IsRanking

\* The ranking does not depend on the order of the file.
LEMMA RankingKeeps ==
    ASSUME NEW n \in Nat, NEW items, NEW tier, IsRanked(items, n, tier),
           NEW p \in Bijection(1..n, 1..n)
    PROVE  RankForTier([i \in 1..n |-> items[p[i]]], tier) = RankForTier(items, tier)
  <1> DEFINE mixed == [i \in 1..n |-> items[p[i]]]
             before == BeforeOf(items, n, tier)
             after == BeforeOf(mixed, n, tier)
  <1>1. /\ p \in [1..n -> 1..n]
        /\ \A i, j \in 1..n : p[i] = p[j] => i = j
        /\ \A k \in 1..n : \E i \in 1..n : p[i] = k
    BY DEF Bijection, Injection, Surjection, IsInjective
  <1>2. DOMAIN mixed = 1..n /\ \A i \in 1..n : p[i] \in 1..n /\ mixed[i] = items[p[i]]
    BY <1>1
  <1> HIDE DEF mixed
  <1>3. IsRanked(mixed, n, tier)
    <2>1. \A i \in 1..n : Weight(mixed[i], tier) \in Int /\ mixed[i].rank \in Nat
      BY <1>2 DEF IsRanked
    <2>2. \A i, j \in 1..n : i # j => mixed[i].rank # mixed[j].rank
      <3> SUFFICES ASSUME NEW i \in 1..n, NEW j \in 1..n, i # j
                   PROVE  mixed[i].rank # mixed[j].rank
        OBVIOUS
      <3>1. p[i] \in 1..n /\ p[j] \in 1..n /\ p[i] # p[j]
        BY <1>1
      <3> QED
        BY <1>2, <3>1 DEF IsRanked
    <2> QED
      BY <1>2, <2>1, <2>2, Zenon DEF IsRanked
  <1>4. \A i, j \in 1..n : <<i, j>> \in after <=> <<p[i], p[j]>> \in before
    BY <1>2 DEF BeforeOf
  <1>5. ASSUME NEW i \in 1..n PROVE Place(mixed, i, tier) = Place(items, p[i], tier)
    <2> DEFINE new == {j \in 1..n : <<j, i>> \in after}
               old == {j \in 1..n : <<j, p[i]>> \in before}
               f == [j \in new |-> p[j]]
    <2> HIDE DEF before, after
    <2>1. f \in Bijection(new, old)
      <3>1. f \in [new -> old]
        BY <1>2, <1>4
      <3>2. \A j, k \in new : f[j] = f[k] => j = k
        BY <1>1
      <3>3. \A k \in old : \E j \in new : f[j] = k
        <4> TAKE k \in old
        <4>1. PICK j \in 1..n : p[j] = k
          BY <1>1
        <4>2. j \in new
          BY <1>4, <4>1
        <4> QED
          BY <4>1, <4>2
      <3> HIDE DEF f, new, old
      <3> QED
        BY <3>1, <3>2, <3>3 DEF Bijection, Injection, Surjection, IsInjective
    <2>2. IsFiniteSet(new)
      <3>1. new \in SUBSET (1..n) /\ IsFiniteSet(1..n)
        BY FS_Interval
      <3> HIDE DEF new
      <3> QED
        BY <3>1, FS_Subset
    <2>3. Cardinality(old) = Cardinality(new)
      <3> HIDE DEF f, new, old
      <3>1. ExistsBijection(new, old)
        BY <2>1 DEF ExistsBijection
      <3> QED
        BY <2>2, <3>1, FS_Bijection
    <2>4. /\ Place(mixed, i, tier) = CountBefore(after, n, i)
          /\ Place(items, p[i], tier) = CountBefore(before, n, p[i])
      BY <1>2, <1>3, RankingOrders DEF before, after
    <2> QED
      BY <2>3, <2>4 DEF CountBefore
  <1>6. ASSUME NEW k \in 1..n
        PROVE  RankForTier(mixed, tier)[k] = RankForTier(items, tier)[k]
    <2>0. IsRanking(mixed, n, tier) /\ IsRanking(items, n, tier)
      BY <1>3, RankingIs
    <2>1. PICK i \in 1..n : Place(mixed, i, tier) = k
      BY <2>0 DEF IsRanking
    <2>2. RankForTier(mixed, tier)[k] = mixed[i]
      BY <2>0, <2>1 DEF IsRanking
    <2>3. Place(items, p[i], tier) = k /\ p[i] \in 1..n
      BY <1>2, <1>5, <2>1
    <2>4. RankForTier(items, tier)[k] = items[p[i]]
      BY <2>0, <2>3 DEF IsRanking
    <2> QED
      BY <1>2, <2>2, <2>4
  <1>7. /\ DOMAIN RankForTier(mixed, tier) = 1..n
        /\ DOMAIN RankForTier(items, tier) = 1..n
    BY <1>3, RankingIs DEF IsRanking
  <1>8. /\ RankForTier(mixed, tier) = [k \in 1..n |-> RankForTier(mixed, tier)[k]]
        /\ RankForTier(items, tier) = [k \in 1..n |-> RankForTier(items, tier)[k]]
    BY <1>7 DEF RankForTier
  <1> QED
    BY <1>6, <1>8 DEF mixed

\* An entry the loader finds no fault with.
Faultless(e) ==
    /\ e # Bad
    /\ \A tier \in TIERS : e.tier_fit[tier] \in 0..SCALE
    /\ e.score \notin Unset
    /\ \A tier \in TIERS : e.score.prior[tier] \in 0..SCALE
    /\ e.score.observed \notin Unset
    /\ \A tier \in TIERS : e.score.observed[tier] \in MaybeScore

\* A table without a fault has a proper value for every tier.
LEMMA NoTableFault ==
    ASSUME NEW table, NEW field, NEW allowed, TableFaults(table, field, allowed) = {}
    PROVE  table \notin Unset /\ \A tier \in TIERS : table[tier] \in allowed
  BY DEF TableFaults, When

\* An entry without a fault has every field the ranking reads.
LEMMA NoEntryFault ==
    ASSUME NEW e, NEW at, EntryFaults(e, at) = {}
    PROVE  Faultless(e)
  <1>1. e # Bad
    BY DEF EntryFaults
  <1>2. TableFaults(e.tier_fit, "tier_fit", 0..SCALE) = {} /\ ScoreFaults(e.score) = {}
    BY <1>1 DEF EntryFaults
  <1>3. e.score \notin Unset
    BY <1>2 DEF ScoreFaults
  <1>4. /\ TableFaults(e.score.prior, "score.prior", 0..SCALE) = {}
        /\ TableFaults(e.score.observed, "score.observed", MaybeScore) = {}
    BY <1>2, <1>3 DEF ScoreFaults
  <1> QED
    BY <1>1, <1>2, <1>3, <1>4, NoTableFault DEF Faultless

\* A registry that loads keeps its entries, none at fault and no model twice.
LEMMA LoadedAreSound ==
    ASSUME NEW items,
           LoadModelRegistry([container |-> TRUE, models |-> items]).ok
    PROVE  /\ LoadModelRegistry([container |-> TRUE, models |-> items]).entries = items
           /\ \A i \in DOMAIN items : Faultless(items[i])
           /\ IsList(items) => \A i, j \in DOMAIN items : i # j => items[i].model # items[j].model
  <1>1. /\ LoadModelRegistry([container |-> TRUE, models |-> items]).entries = items
        /\ ModelRegistryFaults(items) = {}
    BY DEF LoadModelRegistry
  <1>2. /\ Each(items, <<>>, EntryFaults) = {}
        /\ {j \in DOMAIN items : Sound(items, j) /\ \E k \in 1..(j - 1) :
                Sound(items, k) /\ items[k].model = items[j].model} = {}
    BY <1>1 DEF ModelRegistryFaults
  <1>3. \A i \in DOMAIN items : EntryFaults(items[i], Append(<<>>, i)) = {}
    BY <1>2 DEF Each
  <1>4. \A i \in DOMAIN items : Faultless(items[i])
    BY <1>3, NoEntryFault
  <1>5. \A i \in DOMAIN items : Sound(items, i)
    <2>1. \A i : Append(<<>>, i) = <<i>>
      OBVIOUS
    <2> QED
      BY <1>3, <2>1 DEF Sound
  <1>6. ASSUME IsList(items), NEW i \in DOMAIN items, NEW j \in DOMAIN items, i # j
        PROVE  items[i].model # items[j].model
    <2>1. items \in Seq({items[m] : m \in DOMAIN items})
      BY <1>6 DEF IsList
    <2>2. Len(items) \in Nat /\ DOMAIN items = 1..Len(items)
      BY <2>1
    <2>3. ASSUME NEW k \in DOMAIN items, NEW l \in DOMAIN items, k < l
          PROVE  items[k].model # items[l].model
      <3>1. k \in 1..(l - 1)
        BY <2>2, <2>3
      <3>2. Sound(items, k) /\ Sound(items, l)
        BY <1>5
      <3> QED
        BY <1>2, <3>1, <3>2
    <2>4. i < j \/ j < i
      BY <1>6, <2>2
    <2> QED
      BY <2>3, <2>4
  <1> QED
    BY <1>1, <1>4, <1>6

\* The models of a file that loads can be ranked.
LEMMA LoadedAreRanked ==
    ASSUME NEW items \in Registries, NEW tier \in TIERS,
           LoadModelRegistry([container |-> TRUE, models |-> items]).ok
    PROVE  Len(items) \in Nat /\ IsRanked(items, Len(items), tier)
  <1>1. /\ \A i \in DOMAIN items : Faultless(items[i])
        /\ \A i, j \in DOMAIN items : i # j => items[i].model # items[j].model
    BY LoadedAreSound, RankingAssumption
  <1>2. Len(items) \in Nat /\ DOMAIN items = 1..Len(items)
    <2>1. items \in Seq({items[m] : m \in DOMAIN items})
      BY RankingAssumption DEF IsList
    <2> QED
      BY <2>1
  <1>3. ASSUME NEW i \in DOMAIN items PROVE Weight(items[i], tier) \in Int
    <2> DEFINE fit == items[i].tier_fit[tier]
               effective == EffectiveScore(items[i], tier)
    <2>1. fit \in 0..SCALE
      BY <1>1 DEF Faultless
    <2>2. effective \in 0..SCALE
      BY <1>1 DEF Faultless, EffectiveScore, Default, MaybeScore, Null
    <2>3. Weight(items[i], tier) = fit * effective
      BY DEF Weight
    <2> HIDE DEF fit, effective
    <2>4. fit \in Int /\ effective \in Int
      BY <2>1, <2>2
    <2> QED
      BY <2>3, <2>4
  <1>4. ASSUME NEW i \in DOMAIN items PROVE items[i].rank \in Nat
    BY <1>1, RankingAssumption DEF Faultless, IsEntry
  <1>5. ASSUME NEW i \in DOMAIN items, NEW j \in DOMAIN items, i # j
        PROVE  items[i].rank # items[j].rank
    <2>1. items[i] # Bad /\ items[j] # Bad /\ items[i].model # items[j].model
      BY <1>1, <1>5 DEF Faultless
    <2> QED
      BY <2>1, RankingAssumption
  <1> QED
    BY <1>2, <1>3, <1>4, <1>5 DEF IsRanked

----------------------------------------------------------------------------
(* The average.                                                            *)

\* A moving average stays between what it was and what was seen.
LEMMA EmaMoves ==
    ASSUME NEW old \in 0..SCALE, NEW sample \in 0..SCALE, NEW alpha \in {ALPHA, 2 * ALPHA}
    PROVE  /\ Ema(old, sample, alpha) \in 0..SCALE
           /\ \/ old <= Ema(old, sample, alpha) /\ Ema(old, sample, alpha) <= sample
              \/ sample <= Ema(old, sample, alpha) /\ Ema(old, sample, alpha) <= old
  <1> DEFINE v == ((200 - alpha) * old + alpha * sample) \div 200
  <1>1. SCALE \in Nat
    BY ModelScoresAssumption
  <1>2. v \in Int /\ (old <= sample => old <= v /\ v <= sample)
            /\ (sample <= old => sample <= v /\ v <= old)
    <2>1. CASE alpha = 15
      BY <1>1, <2>1
    <2>2. CASE alpha = 30
      BY <1>1, <2>2
    <2> QED
      BY <2>1, <2>2 DEF ALPHA
  <1> HIDE DEF v
  <1>3. Clamp(v) = v
    BY <1>1, <1>2 DEF Clamp
  <1>4. Ema(old, sample, alpha) = v
    BY <1>3 DEF Ema, v
  <1> QED
    BY <1>1, <1>2, <1>4

\* What a task tells of its model is on the scale.
LEMMA SampleIsScore ==
    ASSUME NEW f \in Feedbacks
    PROVE  SampleScore(f) = SampleOf(f) /\ SampleOf(f) \in 0..SCALE /\ f.tier \in TIERS
  <1>1. /\ f.quality \in {Absent} \cup (0..SCALE) /\ f.success \in BOOLEAN /\ f.tier \in TIERS
        /\ SCALE \in Nat /\ Absent \notin 0..SCALE
    BY RankingAssumption, ModelScoresAssumption DEF Unset
  <1> DEFINE success == IF f.success THEN SCALE ELSE 0
  <1>2. success \in 0..SCALE
    BY <1>1
  <1>3. ASSUME f.quality # Absent
        PROVE  (f.quality + success) \div 2 \in 0..SCALE
    <2>1. f.quality \in 0..SCALE
      BY <1>1, <1>3
    <2> HIDE DEF success
    <2> QED
      BY <1>1, <1>2, <2>1
  <1> QED
    BY <1>1, <1>2, <1>3 DEF SampleOf, SampleScore

\* A score that may hear of a task.
Hears(e) ==
    /\ "score" \in DOMAIN e /\ "observed" \in DOMAIN e.score
    /\ DOMAIN e.score.observed = TIERS
    /\ \A tier \in TIERS : e.score.observed[tier] \in MaybeScore

\* Hearing of a task moves the average of its tier as Moves says, and the
\* score can hear of the next one.
LEMMA FeedbackMoves ==
    ASSUME NEW e, Hears(e), NEW f \in Feedbacks
    PROVE  Hears(RecordFeedback(e, f)) /\ Moves(e, RecordFeedback(e, f), f)
  <1> DEFINE new == RecordFeedback(e, f)
             old == e.score.observed[f.tier]
             value == NewObserved(e, f)
  <1>1. /\ SampleScore(f) = SampleOf(f) /\ SampleOf(f) \in 0..SCALE /\ f.tier \in TIERS
        /\ Absent \notin 0..SCALE /\ StepOf(f) \in {ALPHA, 2 * ALPHA}
    BY SampleIsScore, RankingAssumption DEF Unset, StepOf
  <1>2. /\ "score" \in DOMAIN new /\ "observed" \in DOMAIN new.score
        /\ new.score.observed = [e.score.observed EXCEPT ![f.tier] = value]
    BY DEF RecordFeedback, Hears
  <1>3. /\ value \in 0..SCALE
        /\ IF old = Absent THEN value = SampleOf(f)
           ELSE (old <= value /\ value <= SampleOf(f)) \/ (SampleOf(f) <= value /\ value <= old)
    <2>1. CASE old = Absent
      BY <1>1, <2>1 DEF NewObserved, Null
    <2>2. CASE old # Absent
      <3>1. old \in 0..SCALE
        BY <1>1, <2>2 DEF Hears, MaybeScore, Null
      <3>2. value = Ema(old, SampleOf(f), StepOf(f))
        BY <1>1, <2>2 DEF NewObserved, Null
      <3> QED
        BY <1>1, <2>2, <3>1, <3>2, EmaMoves
    <2> QED
      BY <2>1, <2>2
  <1> HIDE DEF new, value
  <1>4. new.score.observed[f.tier] = value
    BY <1>1, <1>2 DEF Hears
  <1>5. Hears(new)
    BY <1>1, <1>2, <1>3 DEF Hears, MaybeScore
  <1>6. Moves(e, new, f)
    BY <1>3, <1>4 DEF Moves
  <1> QED
    BY <1>5, <1>6 DEF new

\* What a registry of models answers is a ranking, and two moves of one average.
LEMMA RankAnswers ==
    ASSUME NEW items \in Registries \ {<<>>}, NEW first \in Feedbacks, NEW second \in Feedbacks,
           LoadModelRegistry([container |-> TRUE, models |-> items]).ok
    PROVE  LET ranked == RankForTier(items, first.tier)
               once == RecordFeedback(items[1], first)
           IN  /\ Range(ranked) = Range(items)
               /\ \A i, j \in DOMAIN ranked : i < j =>
                    Weight(ranked[i], first.tier) >= Weight(ranked[j], first.tier)
               /\ \A p \in Bijection(DOMAIN items, DOMAIN items) :
                    ranked = RankForTier([i \in DOMAIN items |-> items[p[i]]], first.tier)
               /\ Moves(items[1], once, first)
               /\ Moves(once, RecordFeedback(once, second), second)
  <1> DEFINE n == Len(items)
             tier == first.tier
             ranked == RankForTier(items, tier)
             once == RecordFeedback(items[1], first)
  <1>1. tier \in TIERS
    BY SampleIsScore
  <1>2. n \in Nat /\ IsRanked(items, n, tier)
    BY <1>1, LoadedAreRanked
  <1>3. DOMAIN items = 1..n
    BY <1>2 DEF IsRanked
  <1>4. IsRanking(items, n, tier)
    BY <1>2, RankingIs
  <1>5. Range(ranked) = Range(items)
    <2>1. \A i \in 1..n : \E k \in DOMAIN ranked : ranked[k] = items[i]
      BY <1>4 DEF IsRanking
    <2>2. \A k \in DOMAIN ranked : \E i \in 1..n : ranked[k] = items[i]
      BY <1>4 DEF IsRanking
    <2> HIDE DEF ranked, n
    <2> QED
      BY <1>3, <2>1, <2>2 DEF Range
  <1>6. ASSUME NEW i \in DOMAIN ranked, NEW j \in DOMAIN ranked, i < j
        PROVE  Weight(ranked[i], tier) >= Weight(ranked[j], tier)
    <2>1. i \in 1..n /\ j \in 1..n
      BY <1>4 DEF IsRanking
    <2>2. PICK k \in 1..n : Place(items, k, tier) = i /\ ranked[i] = items[k]
      BY <1>4, <2>1 DEF IsRanking
    <2>3. PICK l \in 1..n : Place(items, l, tier) = j /\ ranked[j] = items[l]
      BY <1>4, <2>1 DEF IsRanking
    <2> HIDE DEF ranked
    <2> QED
      BY <1>4, <1>6, <2>2, <2>3 DEF IsRanking
  <1>7. ASSUME NEW p \in Bijection(DOMAIN items, DOMAIN items)
        PROVE  ranked = RankForTier([i \in DOMAIN items |-> items[p[i]]], tier)
    <2>1. p \in Bijection(1..n, 1..n)
      BY <1>3
    <2>2. RankForTier([i \in 1..n |-> items[p[i]]], tier) = ranked
      BY <1>2, <2>1, RankingKeeps
    <2> HIDE DEF ranked, n
    <2> QED
      BY <1>3, <2>2
  <1>8. Hears(items[1])
    <2>1. items \in Registries /\ items # <<>>
      OBVIOUS
    <2>2. items \in Seq({items[m] : m \in DOMAIN items})
      BY <2>1, RankingAssumption DEF IsList
    <2>3. 1 \in DOMAIN items
      BY <2>1, <2>2
    <2>4. Faultless(items[1]) /\ IsEntry(items[1])
      BY <2>3, LoadedAreSound, RankingAssumption
    <2> QED
      BY <2>4 DEF Faultless, IsEntry, Hears
  <1>9. Hears(once) /\ Moves(items[1], once, first)
    BY <1>8, FeedbackMoves
  <1>10. Moves(once, RecordFeedback(once, second), second)
    <2> HIDE DEF once
    <2> QED
      BY <1>9, FeedbackMoves
  <1> QED
    BY <1>5, <1>6, <1>7, <1>9, <1>10

\* The ranking has every model, the best first, whatever the order of the file;
\* and an average stays between what it was and what was seen, for every
\* registry that loads and any two tasks (registry.ts:262-309).
THEOREM TheRankingHolds == DecisionsSpec => []RankingHolds
  <1>1. DecisionsInit => RankingHolds
    BY DEF DecisionsInit, RankingHolds
  <1>2. RankingHolds /\ [DecisionsNext]_<<question, answer>> => RankingHolds'
    <2> SUFFICES ASSUME RankingHolds, [DecisionsNext]_<<question, answer>>
                 PROVE  RankingHolds'
      OBVIOUS
    <2>1. ASSUME question'.kind # "rank" PROVE RankingHolds'
      BY <2>1 DEF RankingHolds
    <2>2. ASSUME NEW layers, NEW r, Decide(layers, r) PROVE RankingHolds'
      BY <2>1, <2>2 DEF Decide, Ask
    <2>3. ASSUME NEW items \in Registries \ {<<>>},
                 NEW first \in Feedbacks, NEW second \in Feedbacks, Rank(items, first, second)
          PROVE  RankingHolds'
      <3> DEFINE read == LoadModelRegistry([container |-> TRUE, models |-> items])
                 once == RecordFeedback(items[1], first)
      <3>1. /\ question'.of.items = items /\ question'.of.first = first
            /\ question'.of.second = second
            /\ answer' = IF ~read.ok THEN [ok |-> FALSE]
                         ELSE [ok |-> TRUE, ranked |-> RankForTier(read.entries, first.tier),
                               once |-> once, twice |-> RecordFeedback(once, second)]
        BY <2>3 DEF Rank, Ask
      <3>2. CASE ~read.ok
        <4>1. ~answer'.ok
          BY <3>1, <3>2
        <4> QED
          BY <4>1 DEF RankingHolds
      <3>3. CASE read.ok
        <4>1. read.entries = items
          BY <3>3, LoadedAreSound
        <4>2. /\ answer'.ranked = RankForTier(items, first.tier)
              /\ answer'.once = once /\ answer'.twice = RecordFeedback(once, second)
          BY <3>1, <3>3, <4>1
        <4>3. LET ranked == RankForTier(items, first.tier)
              IN  /\ Range(ranked) = Range(items)
                  /\ \A i, j \in DOMAIN ranked : i < j =>
                        Weight(ranked[i], first.tier) >= Weight(ranked[j], first.tier)
                  /\ \A p \in Bijection(DOMAIN items, DOMAIN items) :
                        ranked = RankForTier([i \in DOMAIN items |-> items[p[i]]], first.tier)
                  /\ Moves(items[1], once, first)
                  /\ Moves(once, RecordFeedback(once, second), second)
          BY <3>3, RankAnswers
        <4> HIDE DEF once, read
        <4> QED
          BY <3>1, <4>2, <4>3 DEF RankingHolds
      <3> QED
        BY <3>2, <3>3
    <2>4. CASE DecisionsNext
      BY <2>1, <2>2, <2>3, <2>4, StepsAre
    <2>5. CASE UNCHANGED <<question, answer>>
      BY <2>5 DEF RankingHolds
    <2> QED
      BY <2>4, <2>5
  <1> QED
    BY <1>1, <1>2, PTL DEF DecisionsSpec
=============================================================================
