----------------------------- MODULE Decisions -----------------------------
(***************************************************************************)
(* Three algorithms of the daemon that answer a question and keep nothing: *)
(* the approval policy, the ranking of the models with the average that    *)
(* moves it, and the handshake of a session with its rule of versions.     *)
(*                                                                         *)
(* One step asks one question: question is what was asked, answer what the *)
(* code makes of it. The properties say what an answer should mean without *)
(* the definitions that compute it; ServicesProofs proves them for every   *)
(* value of the constants.                                                 *)
(***************************************************************************)
EXTENDS ApprovalPolicy, ModelScores, Handshake

CONSTANTS LayerStacks,   \* what ApprovalBoard.#layers may answer
          CapRequests,   \* [cap, scope, risk]
          Registries,    \* the entries of a file of models
          Feedbacks,     \* [tier, success, quality, costEfficiency]
          SessionInits,  \* what a client sends
          Profiles,      \* what the daemon offers
          Versions,      \* of the protocol
          VersionLists   \* of those the daemon supports

VARIABLES question, answer

IsList(list) == list \in Seq({list[i] : i \in DOMAIN list})

\* A capability has no "*" for its name (CAP_ID_RE), and a risk that is absent
\* is none of the levels.
ASSUME PolicyAssumption ==
    /\ Absent # "high"
    /\ \A layers \in LayerStacks : IsList(layers)
    /\ \A r \in CapRequests : r.cap = <<r.cap[1], r.cap[2]>> /\ r.cap[2] # "*"

\* What a record of a document has, whatever its values are; and the names of
\* models that differ are numbered differently.
IsEntry(e) ==
    e # Bad =>
        /\ "score" \in DOMAIN e /\ e.rank \in Nat
        /\ e.score \notin Unset =>
            /\ "observed" \in DOMAIN e.score
            /\ e.score.observed \notin Unset => DOMAIN e.score.observed = TIERS

ASSUME RankingAssumption ==
    /\ Unset \cap (0..SCALE) = {}
    /\ \A items \in Registries :
        /\ IsList(items)
        /\ \A i \in DOMAIN items : IsEntry(items[i])
        /\ \A i, j \in DOMAIN items :
            items[i] # Bad /\ items[j] # Bad /\ items[i].model # items[j].model =>
                items[i].rank # items[j].rank
    /\ Feedbacks \subseteq [tier : TIERS, success : BOOLEAN,
                            quality : {Absent} \cup (0..SCALE),
                            costEfficiency : {Absent} \cup (0..SCALE)]

IsVersion(v) ==
    \/ v = Bad
    \/ v \notin Unset /\ v \in (Nat \X Nat) \cup (Nat \X Nat \X Nat)

ASSUME VersionAssumption ==
    /\ Absent \notin Nat \X Nat \X Nat
    /\ \A v \in Versions : IsVersion(v)
    /\ \A list \in VersionLists : IsList(list) /\ \A i \in DOMAIN list : list[i] \in Versions
    /\ \A profile \in Profiles : \A f \in Features : profile.capabilities[f] \in BOOLEAN

----------------------------------------------------------------------------
(* One action per algorithm *)

Ask(kind, asked, answered) ==
    /\ question' = [kind |-> kind, of |-> asked]
    /\ answer' = answered

Decide(layers, r) ==
    Ask("policy", [layers |-> layers, request |-> r],
        EvaluateRequest(WithBuiltin(layers), r.cap, r.scope, r.risk))

\* The first entry of the registry hears of two tasks.
Rank(items, first, second) ==
    LET loaded == LoadModelRegistry([container |-> TRUE, models |-> items])
        once == RecordFeedback(items[1], first)
    IN  Ask("rank", [items |-> items, first |-> first, second |-> second],
            IF ~loaded.ok THEN [ok |-> FALSE]
            ELSE [ok |-> TRUE, ranked |-> RankForTier(loaded.entries, first.tier),
                  once |-> once, twice |-> RecordFeedback(once, second)])

Shake(raw, profile) ==
    Ask("session", [raw |-> raw, profile |-> profile], SessionResponse(raw, profile))

Agree(client, supported) ==
    Ask("version", [client |-> client, supported |-> supported],
        CheckProtocolCompat(client, supported))

DecisionsInit == question = [kind |-> "none"] /\ answer = Absent

DecisionsNext ==
    /\ question.kind = "none"
    /\ \/ \E layers \in LayerStacks, r \in CapRequests : Decide(layers, r)
       \/ \E items \in Registries \ {<<>>}, first, second \in Feedbacks : Rank(items, first, second)
       \/ \E raw \in SessionInits, profile \in Profiles : Shake(raw, profile)
       \/ \E client \in Versions, supported \in VersionLists : Agree(client, supported)

DecisionsSpec == DecisionsInit /\ [][DecisionsNext]_<<question, answer>>

----------------------------------------------------------------------------
(* Properties *)

Specific(cap, patterns) ==
    IF cap \in patterns THEN 3 ELSE IF Under(cap[1]) \in patterns THEN 2
    ELSE IF All \in patterns THEN 1 ELSE 0

\* A request goes without a decision only if its risk is known and no hard
\* line forbids it, and if among the patterns of all configured layers that fit
\* it the most specific one that approves is more specific than any that does
\* not (policy.ts:1-18).
PolicyDecides ==
    question.kind = "policy" =>
        LET r == question.of.request
            layers == {question.of.layers[i] : i \in DOMAIN question.of.layers}
            configured == {layer \in layers : layer.id # "builtin:default"}
        IN  answer.outcome = "auto" <=>
                /\ r.risk # Absent
                /\ ~(r.risk = "high" /\ r.scope \in {"write", "admin"})
                /\ \E a \in configured : \A b \in configured :
                        Specific(r.cap, a.auto_approve) > Specific(r.cap, b.require_approval)

SampleOf(f) ==
    IF f.quality = Absent THEN IF f.success THEN SCALE ELSE 0
    ELSE (f.quality + IF f.success THEN SCALE ELSE 0) \div 2

\* What a task tells of a model: the first sample is taken as it is, a later one
\* moves the average towards itself, and never past it.
Moves(before, after, f) ==
    LET old == before.score.observed[f.tier]
        new == after.score.observed[f.tier]
        sample == SampleOf(f)
    IN  IF old = Absent THEN new = sample
        ELSE (old <= new /\ new <= sample) \/ (sample <= new /\ new <= old)

\* The ranking has every model of the file, the best first, and does not depend
\* on the order of the file; and the average of a model stays between what it
\* was and what was seen (registry.ts:262-309).
RankingHolds ==
    question.kind = "rank" /\ answer.ok =>
        LET items == question.of.items
            tier == question.of.first.tier
        IN  /\ Range(answer.ranked) = Range(items)
            /\ \A i, j \in DOMAIN answer.ranked : i < j =>
                    Weight(answer.ranked[i], tier) >= Weight(answer.ranked[j], tier)
            /\ \A p \in Bijection(DOMAIN items, DOMAIN items) :
                    answer.ranked = RankForTier([i \in DOMAIN items |-> items[p[i]]], tier)
            /\ Moves(items[1], answer.once, question.of.first)
            /\ Moves(answer.once, answer.twice, question.of.second)

Patch(v) == IF Len(v) = 3 THEN v[3] ELSE 0

\* How far two versions are apart: the same, of one major, of neighbours, further.
Gap(v, w) ==
    IF v[1] = w[1] THEN IF v[2] = w[2] /\ Patch(v) = Patch(w) THEN 0 ELSE 1
    ELSE IF v[1] = w[1] + 1 \/ w[1] = v[1] + 1 THEN 2 ELSE 3

\* Whatever a client declares: a feature is effective if both sides have it,
\* and a side that has one the other lacks finds it in the degradations, with
\* the side to blame. The version agreed on is one of those offered and none
\* of them is closer; there is none only if all are too far away
\* (handshake.ts:128-158, semver.ts:56-100).
HandshakeExplained ==
    /\ question.kind = "session" /\ answer.outcome = "ok" =>
        LET client == question.of.raw.params.capabilities
            daemon == question.of.profile.capabilities
            blamed(f) == {d.by : d \in {e \in answer.degradations : e.feature = f}}
        IN  \A f \in Features :
                /\ answer.effective[f] = (client[f] = TRUE /\ daemon[f])
                /\ blamed(f) = (IF (client[f] = TRUE) = daemon[f] THEN {}
                                ELSE IF daemon[f] THEN {"client"} ELSE {"daemon"})
    /\ question.kind = "version" =>
        LET client == question.of.client
            offered == Range(question.of.supported) \ {Bad}
        IN  \/ /\ answer.level = "incompatible"
               /\ client = Bad \/ \A v \in offered : Gap(v, client) = 3
            \/ /\ client # Bad /\ answer.matched \in offered
               /\ answer.level # "incompatible"
               /\ RANK[answer.level] = Gap(answer.matched, client)
               /\ \A v \in offered : Gap(answer.matched, client) <= Gap(v, client)
=============================================================================
