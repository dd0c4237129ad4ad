----------------------------- MODULE Documents -----------------------------
(***************************************************************************)
(* Raw JSON documents and the faults their parsers report:                 *)
(* daemon/src/capability/validation.ts and the helpers at the head of      *)
(* plancheck/parse.ts.                                                     *)
(*                                                                         *)
(* A field of a raw document is Absent, Bad (a value of another type, or   *)
(* outside its pattern) or a proper value; an object has a Boolean field   *)
(* extra: whether it has a key nobody knows. A parser collects every fault *)
(* it sees, as [field, at], and rejects the document if there is one; at   *)
(* are the positions in the arrays the field lies in.                      *)
(*                                                                         *)
(* The wildcard patterns such documents hold, for capabilities and models: *)
(* plancheck/match.ts and modelscore/registry.ts. A capability "ns:name"   *)
(* is <<ns, name>>, a pattern "ns:*" is <<ns, "*">>. A model of the        *)
(* registry has no provider in its name and is <<name>>: MODEL_RE allows   *)
(* no slash.                                                               *)
(***************************************************************************)
EXTENDS Naturals, Sequences, FiniteSets

CONSTANTS Absent, Bad

Unset == {Absent, Bad}

Fault(field, at) == [field |-> field, at |-> at]

When(condition, field, at) == IF condition THEN {Fault(field, at)} ELSE {}

Required(value, field, at) == When(value \in Unset, field, at)

Optional(value, field, at) == When(value = Bad, field, at)

Unknown(object, field, at) == When(object.extra, field \o ".extra", at)

\* The faults of every item of an array.
Each(array, at, Faults(_, _)) ==
    UNION {Faults(array[i], Append(at, i)) : i \in DOMAIN array}

\* value ?? default
Default(value, default) == IF value = Absent THEN default ELSE value

\* An identifier given to an earlier item of the array.
Repeats(array, i, Id(_)) ==
    /\ Id(array[i]) \notin Unset
    /\ \E j \in 1..(i - 1) : array[j] \notin Unset /\ Id(array[j]) = Id(array[i])

----------------------------------------------------------------------------
(* Patterns *)

All == <<"*">>

Under(space) == <<space, "*">>

MatchCapPattern(cap, pattern) == pattern \in {All, Under(cap[1]), cap}

MatchAnyCapPattern(cap, patterns) ==
    \E pattern \in patterns : MatchCapPattern(cap, pattern)

MatchModelPattern(model, pattern) ==
    \/ pattern \in {All, model}
    \/ Len(model) = 2 /\ pattern = Under(model[1])
=============================================================================
