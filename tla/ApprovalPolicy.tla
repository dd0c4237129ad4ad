--------------------------- MODULE ApprovalPolicy ---------------------------
(***************************************************************************)
(* Which escalations need a decision: daemon/src/approval/policy.ts and    *)
(* the hard line of capability/hardline.ts. A layer is [id, auto_approve,  *)
(* require_approval], two sets of patterns; the stack is a sequence, from  *)
(* the lowest to the highest layer.                                        *)
(***************************************************************************)
EXTENDS Documents, Integers, SequencesExt

BuiltinLayer == [id |-> "builtin:default", auto_approve |-> {}, require_approval |-> {All}]

Pushed(layer) == IF layer = Absent THEN <<>> ELSE <<layer>>

\* Each part is Absent or a layer; the built-in one is always the lowest.
PolicyStack(global, preset, session) ==
    <<BuiltinLayer>> \o Pushed(global) \o Pushed(preset) \o Pushed(session)

\* The board puts the built-in layer below a stack that has none.
WithBuiltin(layers) ==
    IF \E i \in DOMAIN layers : layers[i].id = BuiltinLayer.id THEN layers
    ELSE <<BuiltinLayer>> \o layers

HardlineVerdict(risk, scope) ==
    CASE risk = Absent -> "unknown_risk"
      [] risk = "high" /\ scope \in {"write", "admin"} -> "forbidden"
      [] OTHER -> "permitted"

PatternSpecificity(cap, pattern) ==
    IF ~MatchCapPattern(cap, pattern) THEN -1
    ELSE IF pattern = All THEN 0
    ELSE IF pattern = Under(cap[1]) THEN 1
    ELSE 2

BestOf(cap, patterns) ==
    LET found == {PatternSpecificity(cap, p) : p \in patterns} \cup {-1}
    IN  CHOOSE s \in found : \A t \in found : t <= s

\* What the layer at a position of the stack says of the capability.
MatchesOf(stack, i, cap) ==
    LET match(outcome, patterns) ==
            [outcome |-> outcome, at |-> i, specificity |-> BestOf(cap, patterns)]
    IN  {m \in {match("require", stack[i].require_approval),
                match("auto", stack[i].auto_approve)} : m.specificity >= 0}

\* Faulty variant: the built-in layer competes with the configured ones.
CollectMatches_BuiltinToo(stack, cap) == UNION {MatchesOf(stack, i, cap) : i \in DOMAIN stack}

Configured(stack) == {i \in DOMAIN stack : stack[i].id # BuiltinLayer.id}

CollectMatches(stack, cap) == UNION {MatchesOf(stack, i, cap) : i \in Configured(stack)}

\* a is kept beside b: it is more specific, or as specific and stricter, or
\* the same in both and of a layer that is not lower.
Stronger(a, b) ==
    \/ a.specificity > b.specificity
    \/ a.specificity = b.specificity /\ a.outcome = "require" /\ b.outcome = "auto"
    \/ a.specificity = b.specificity /\ a.outcome = b.outcome /\ a.at >= b.at

EvaluateRequest(stack, cap, scope, risk) ==
    LET verdict == HardlineVerdict(risk, scope)
        matches == CollectMatches(stack, cap)
        best == CHOOSE m \in matches : \A n \in matches : Stronger(m, n)
    IN  IF verdict # "permitted" THEN [outcome |-> "require", rule |-> verdict]
        ELSE IF matches = {} THEN [outcome |-> "require", rule |-> "default:require"]
        ELSE [outcome |-> best.outcome, rule |-> stack[best.at].id]
=============================================================================
