---------------------------- MODULE ModelScores ----------------------------
(***************************************************************************)
(* The model score registry: daemon/src/modelscore/registry.ts.            *)
(*                                                                         *)
(* A score of the code is a number from 0 to 1: here a whole number of the *)
(* SCALE parts of 1, and the products of the moving average are rounded    *)
(* down. Tiers are the keys of the three score tables.                     *)
(***************************************************************************)
EXTENDS Documents, Integers, SequencesExt

CONSTANTS SCALE, TIERS

ASSUME ModelScoresAssumption == SCALE \in Nat \ {0}

----------------------------------------------------------------------------
(* loadModelRegistry *)

IsUnit(v) == v \in 0..SCALE

TableFaults(table, field, allowed) ==
    IF table \in Unset THEN {Fault(field, <<>>)}
    ELSE When(\E tier \in TIERS : table[tier] \notin allowed, field, <<>>)

\* null is a value of observed: no sample yet.
Null == Absent

MaybeScore == (0..SCALE) \cup {Null}

ScoreFaults(score) ==
    IF score \in Unset THEN {Fault("score", <<>>)}
    ELSE TableFaults(score.prior, "score.prior", 0..SCALE)
            \cup TableFaults(score.observed, "score.observed", MaybeScore)
            \cup TableFaults(score.samples, "score.samples", Nat)
            \cup IF score.dimensions \in Unset THEN {Fault("dimensions", <<>>)}
                 ELSE UNION {When(~IsUnit(score.dimensions[k]), k, <<>>) :
                                k \in DOMAIN score.dimensions}

RecordFaults(record, at) ==
    IF record = Bad THEN {Fault("sample_records", at)}
    ELSE (UNION {Required(record[k], k, at) :
                    k \in {"ts", "tier", "task_type", "budget_tier", "traversals"}})
            \cup (UNION {Optional(record[k], k, at) : k \in {"success", "quality"}})

SampleRecordFaults(records, at) ==
    IF records = Absent THEN {}
    ELSE IF records = Bad THEN {Fault("sample_records", at)}
    ELSE Each(records, at, RecordFaults)

EntryFaults(raw, at) ==
    IF raw = Bad THEN {Fault("models", at)}
    ELSE (UNION {Required(raw[k], k, at) :
                    k \in {"protocol", "spec_version", "model", "updated_at"}})
            \cup TableFaults(raw.tier_fit, "tier_fit", 0..SCALE)
            \cup ScoreFaults(raw.score)
            \cup SampleRecordFaults(raw.sample_records, at)

\* Only an entry without a fault is remembered: a faulty one is no repeat.
Sound(items, i) == EntryFaults(items[i], <<i>>) = {}

ModelRegistryFaults(items) ==
    Each(items, <<>>, EntryFaults)
        \cup {Fault("model", <<i>>) : i \in {j \in DOMAIN items :
                 Sound(items, j) /\ \E k \in 1..(j - 1) :
                     Sound(items, k) /\ items[k].model = items[j].model}}

\* A container holds the items; any other document is the one item itself.
LoadModelRegistry(raw) ==
    LET items == IF raw.container THEN raw.models ELSE <<raw.entry>>
        faults == ModelRegistryFaults(items)
    IN  IF items = Bad THEN [ok |-> FALSE, faults |-> {Fault("models", <<>>)}]
        ELSE IF faults # {} THEN [ok |-> FALSE, faults |-> faults]
        ELSE [ok |-> TRUE, entries |-> items]

----------------------------------------------------------------------------
(* Admission and ranking *)

CheckAdmission(model, allowed) == \E pattern \in allowed : MatchModelPattern(model, pattern)

EffectiveScore(entry, tier) == Default(entry.score.observed[tier], entry.score.prior[tier])

Weight(entry, tier) == entry.tier_fit[tier] * EffectiveScore(entry, tier)

\* Faulty variant: equal weights keep the order of the registry.
Before_Unstable(a, b, tier) == Weight(a, tier) > Weight(b, tier)

\* NameOf numbers the models in the order of their names.
Before(a, b, tier) ==
    \/ Weight(a, tier) > Weight(b, tier)
    \/ Weight(a, tier) = Weight(b, tier) /\ a.rank < b.rank

\* The sort is stable: of two equal entries the first stays first.
Precedes(entries, i, j, tier) ==
    \/ Before(entries[i], entries[j], tier)
    \/ i < j /\ ~Before(entries[j], entries[i], tier)

Place(entries, i, tier) ==
    1 + Cardinality({j \in DOMAIN entries : Precedes(entries, j, i, tier)})

RankForTier(entries, tier) ==
    [k \in DOMAIN entries |->
        entries[CHOOSE i \in DOMAIN entries : Place(entries, i, tier) = k]]

----------------------------------------------------------------------------
(* recordFeedback *)

ALPHA == 15  \* per cent

Clamp(v) == CASE v < 0 -> 0 [] v > SCALE -> SCALE [] OTHER -> v

\* alpha is given in parts of 200, so that half of ALPHA is whole.
Ema(old, sample, alpha) == Clamp(((200 - alpha) * old + alpha * sample) \div 200)

StepOf(feedback) == IF feedback.quality = Absent THEN ALPHA ELSE 2 * ALPHA

SampleScore(feedback) ==
    LET success == IF feedback.success THEN SCALE ELSE 0
    IN  IF feedback.quality = Absent THEN success ELSE (feedback.quality + success) \div 2

NewObserved(entry, feedback) ==
    IF entry.score.observed[feedback.tier] = Null THEN SampleScore(feedback)
    ELSE Ema(entry.score.observed[feedback.tier], SampleScore(feedback), StepOf(feedback))

RecordFeedback(entry, feedback) ==
    LET average(old, sample) == IF sample = Absent THEN old ELSE Ema(old, sample, 2 * ALPHA)
        dims == entry.score.dimensions
    IN  [entry EXCEPT
            !.score.observed[feedback.tier] = NewObserved(entry, feedback),
            !.score.samples[feedback.tier] = @ + 1,
            !.score.dimensions =
                [quality |-> average(dims.quality, feedback.quality),
                 success_rate |-> average(dims.success_rate,
                                          IF feedback.success THEN SCALE ELSE 0),
                 cost_efficiency |-> average(dims.cost_efficiency, feedback.costEfficiency)]]
=============================================================================
