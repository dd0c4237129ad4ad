----------------------------- MODULE PlanParse -----------------------------
(***************************************************************************)
(* The structure of an intent and of a workflow document:                  *)
(* daemon/src/plancheck/parse.ts. A document with a fault is rejected with *)
(* all its faults; one without is turned into its typed form.              *)
(***************************************************************************)
EXTENDS Documents

\* A fault of extra is an unknown key; "protocol" is one that no document
\* of this kind may carry, and is reported twice.
RootFaults(raw) ==
    Required(raw.api, "api", <<>>)
        \cup When(raw.extra = "protocol", "root", <<>>)
        \cup When(raw.extra # "none", "root.extra", <<>>)

----------------------------------------------------------------------------
(* parseIntent *)

Constraint == {"max_parallel", "budget_tokens", "forbidden_caps", "allowed_models"}

ConstraintFaults(constraints) ==
    IF constraints \in Unset THEN {Fault("constraints", <<>>)}
    ELSE Unknown(constraints, "constraints", <<>>)
            \cup UNION {Optional(constraints[k], k, <<>>) : k \in Constraint}

IntentFaults(raw) ==
    IF raw = Bad THEN {Fault("root", <<>>)}
    ELSE RootFaults(raw)
            \cup Required(raw.goal, "goal", <<>>)
            \cup Required(raw.acceptance, "acceptance", <<>>)
            \cup ConstraintFaults(raw.constraints)

ParseIntent(raw) ==
    IF IntentFaults(raw) # {} THEN [ok |-> FALSE, faults |-> IntentFaults(raw)]
    ELSE [ok |-> TRUE,
          doc |-> [acceptance |-> raw.acceptance,
                   constraints |-> [k \in Constraint |-> raw.constraints[k]]]]

----------------------------------------------------------------------------
(* parseWorkflow *)

RetryFaults(retry, at) ==
    CASE retry = Absent -> {}
      [] retry = Bad -> {Fault("retry", at)}
      [] OTHER -> Unknown(retry, "retry", at)
                    \cup Required(retry.max, "retry.max", at)
                    \cup Required(retry.on, "retry.on", at)

BindingFaults(binding, at) ==
    IF binding = Bad THEN {Fault("inputs", at)}
    ELSE Unknown(binding, "inputs", at) \cup Required(binding.from, "inputs.from", at)

InputFaults(bindings, at) ==
    CASE bindings = Absent -> {}
      [] bindings = Bad -> {Fault("inputs", at)}
      [] OTHER -> Each(bindings, at, BindingFaults)

NodeFaults(node, at) ==
    IF node = Bad THEN {Fault("nodes", at)}
    ELSE Unknown(node, "nodes", at)
            \cup Required(node.id, "id", at)
            \cup Required(node.preset, "preset", at)
            \cup Optional(node.timeout, "timeout", at)
            \cup RetryFaults(node.retry, at)
            \cup Optional(node.parallel, "parallel", at)
            \cup InputFaults(node.inputs, at)

RepeatedIds(nodes) ==
    {Fault("id", <<i>>) : i \in {j \in DOMAIN nodes :
        nodes[j] # Bad /\ Repeats(nodes, j, LAMBDA n : n.id)}}

NodesFaults(nodes) ==
    IF nodes \in Unset \/ nodes = <<>> THEN {Fault("nodes", <<>>)}
    ELSE Each(nodes, <<>>, NodeFaults) \cup RepeatedIds(nodes)

OutputFaults(out, at) ==
    IF out = Bad THEN {Fault("outputs", at)}
    ELSE Unknown(out, "outputs", at)
            \cup IF out.from \in Unset THEN {Fault("outputs.from", at)}
                 ELSE Optional(out.required, "outputs.required", at)

FeedbackFaults(edge, at) ==
    IF edge = Bad THEN {Fault("feedback", at)}
    ELSE Unknown(edge, "feedback", at)
            \cup UNION {Required(edge[k], k, at) : k \in {"from", "to", "max_traversals"}}

EvidenceFaults(decl, at) ==
    IF decl = Bad THEN {Fault("evidence", at)}
    ELSE Unknown(decl, "evidence", at)
            \cup UNION {Required(decl[k], k, at) :
                            k \in {"node", "artifact", "must_exist", "sha256_recorded"}}

\* The three arrays the schema requires beside the nodes.
ArrayFaults(array, field, faults) ==
    IF array \in Unset THEN {Fault(field, <<>>)} ELSE faults

WorkflowFaults(raw) ==
    IF raw = Bad THEN {Fault("root", <<>>)}
    ELSE RootFaults(raw)
            \cup Required(raw.intent_ref, "intent_ref", <<>>)
            \cup NodesFaults(raw.nodes)
            \cup ArrayFaults(raw.outputs, "outputs", Each(raw.outputs, <<>>, OutputFaults))
            \cup ArrayFaults(raw.feedback, "feedback", Each(raw.feedback, <<>>, FeedbackFaults))
            \cup ArrayFaults(raw.evidence, "evidence", Each(raw.evidence, <<>>, EvidenceFaults))

\* The typed node: what its spread operators leave out is Absent still.
TypedNode(node) ==
    [id |-> node.id, preset |-> node.preset, timeout |-> node.timeout,
     retry |-> IF node.retry = Absent THEN Absent
               ELSE [max |-> node.retry.max, on |-> node.retry.on],
     parallel |-> node.parallel,
     inputs |-> [j \in DOMAIN Default(node.inputs, <<>>) |-> node.inputs[j].from]]

IsRequired(out) == out.required = TRUE

ParseWorkflow(raw) ==
    IF WorkflowFaults(raw) # {} THEN [ok |-> FALSE, faults |-> WorkflowFaults(raw)]
    ELSE [ok |-> TRUE,
          doc |-> [nodes |-> [i \in DOMAIN raw.nodes |-> TypedNode(raw.nodes[i])],
                   outputs |-> [i \in DOMAIN raw.outputs |->
                                   [from |-> raw.outputs[i].from,
                                    required |-> IsRequired(raw.outputs[i])]],
                   feedback |-> raw.feedback,
                   evidence |-> raw.evidence]]
=============================================================================
