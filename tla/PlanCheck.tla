----------------------------- MODULE PlanCheck -----------------------------
(***************************************************************************)
(* The static check of a workflow: daemon/src/plancheck/plancheck.ts, the  *)
(* order the engine computes afterwards (topoSort of                       *)
(* engine/workflow-engine.ts), and what workflow.run makes of the two.     *)
(*                                                                         *)
(* A binding "n.outputs.a" is [node, artifact]. The ports of a preset are  *)
(* functions from names to types. ctx is the PlanCheckContext: presets (a  *)
(* function from names), caps (the registry), models and intent, which may *)
(* be Absent.                                                              *)
(***************************************************************************)
EXTENDS PlanParse, SequencesExt

Issue(code, at) == {[code |-> code, at |-> at]}
NoIssue == {}

Ids(doc) == {doc.nodes[i].id : i \in DOMAIN doc.nodes}
NodeById(doc, id) == doc.nodes[CHOOSE i \in DOMAIN doc.nodes : doc.nodes[i].id = id]

KnownPreset(ctx, node) == node.preset \in DOMAIN ctx.presets
PresetOf(ctx, node) == ctx.presets[node.preset]

\* The type of the output port a binding names, Absent if there is none.
OutputPort(doc, ctx, ref) ==
    LET source == NodeById(doc, ref.node)
    IN  IF KnownPreset(ctx, source) /\ ref.artifact \in DOMAIN PresetOf(ctx, source).outputs
        THEN PresetOf(ctx, source).outputs[ref.artifact]
        ELSE Absent

----------------------------------------------------------------------------
(* The checks of semanticChecks, in their order *)

PresetIssues(ctx, node, at) ==
    IF KnownPreset(ctx, node) THEN NoIssue ELSE Issue("preset_unknown", at)

BindingIssues(doc, ctx, node, ref, at) ==
    CASE ref.node \notin Ids(doc) -> Issue("binding_node_unknown", at)
      [] ref.node \in Ids(doc) /\ OutputPort(doc, ctx, ref) = Absent ->
            Issue("output_port_unknown", at)
      [] OTHER ->
            IF ~KnownPreset(ctx, node) THEN NoIssue
            ELSE LET ports == PresetOf(ctx, node).inputs
                 IN  IF ref.artifact \notin DOMAIN ports THEN Issue("input_port_unknown", at)
                     ELSE IF ports[ref.artifact] = OutputPort(doc, ctx, ref) THEN NoIssue
                     ELSE Issue("contract_type_mismatch", at)

InputIssues(doc, ctx, node, at) ==
    UNION {BindingIssues(doc, ctx, node, node.inputs[j], Append(at, j)) :
                j \in DOMAIN node.inputs}

\* detectCycles: a node that reads its own output is no cycle here.
Sources(node) ==
    LET others == SelectSeq(node.inputs, LAMBDA ref : ref.node # node.id)
    IN  [j \in DOMAIN others |-> others[j].node]

RECURSIVE Visit(_, _, _), VisitWhite(_, _, _)

\* Faulty variant: a node under way is taken for one that is finished.
MeetsGray_Ignored(walk, id) == FALSE

MeetsGray(walk, id) == walk.color[id] = "gray"

VisitWhite(doc, todo, walk) ==
    IF todo = <<>> THEN walk
    ELSE LET id == Head(todo)
         IN  VisitWhite(doc, Tail(todo),
                CASE id \notin Ids(doc) -> walk
                  [] id \in Ids(doc) /\ MeetsGray(walk, id) -> [walk EXCEPT !.cyclic = TRUE]
                  [] id \in Ids(doc) /\ walk.color[id] = "white" -> Visit(doc, id, walk)
                  [] OTHER -> walk)

Visit(doc, id, walk) ==
    LET below == VisitWhite(doc, Sources(NodeById(doc, id)),
                            [walk EXCEPT !.color[id] = "gray"])
    IN  [below EXCEPT !.color[id] = "black"]

CycleIssues(doc) ==
    LET walk == VisitWhite(doc, [i \in DOMAIN doc.nodes |-> doc.nodes[i].id],
                           [color |-> [id \in Ids(doc) |-> "white"], cyclic |-> FALSE])
    IN  IF walk.cyclic THEN Issue("dependency_cycle", <<>>) ELSE NoIssue

FeedbackIssues(doc, edge, at) ==
    (IF {edge.from, edge.to} \subseteq Ids(doc)
     THEN NoIssue ELSE Issue("feedback_node_unknown", at))
        \cup IF edge.from = edge.to THEN Issue("feedback_self", at) ELSE NoIssue

HasEvidence(doc, ref) ==
    \E i \in DOMAIN doc.evidence :
        LET decl == doc.evidence[i]
        IN  /\ decl.node = ref.node /\ decl.artifact = ref.artifact
            /\ decl.must_exist /\ decl.sha256_recorded

PortIssues(doc, ctx, ref, at) ==
    IF KnownPreset(ctx, NodeById(doc, ref.node)) /\ OutputPort(doc, ctx, ref) = Absent
    THEN Issue("port_unknown", at) ELSE NoIssue

OutputIssues(doc, ctx, out, at) ==
    IF out.from.node \notin Ids(doc) THEN Issue("output_node_unknown", at)
    ELSE PortIssues(doc, ctx, out.from, at)
            \cup IF out.required /\ ~HasEvidence(doc, out.from)
                 THEN Issue("evidence_missing", at) ELSE NoIssue

EvidenceIssues(doc, ctx, decl, at) ==
    IF decl.node \notin Ids(doc) THEN Issue("evidence_node_unknown", at)
    ELSE PortIssues(doc, ctx, decl, at)

Forbidden(ctx) ==
    IF ctx.intent = Absent THEN {} ELSE Default(ctx.intent.constraints["forbidden_caps"], {})

GrantIssues(ctx, node, at) ==
    IF ~KnownPreset(ctx, node) THEN NoIssue
    ELSE LET grants == {grant.cap : grant \in PresetOf(ctx, node).grants}
         IN  (IF grants \subseteq ctx.caps THEN NoIssue ELSE Issue("cap_unknown", at))
                \cup IF \E cap \in grants : MatchAnyCapPattern(cap, Forbidden(ctx))
                     THEN Issue("cap_forbidden", at) ELSE NoIssue

Allowed(ctx) ==
    IF ctx.intent = Absent THEN {All}
    ELSE Default(ctx.intent.constraints["allowed_models"], {All})

ModelIssues(ctx, node, at) ==
    IF ctx.models = Absent \/ ~KnownPreset(ctx, node) \/ PresetOf(ctx, node).tier = Absent
    THEN NoIssue
    ELSE IF \E entry \in ctx.models :
                /\ entry.tier_fit[PresetOf(ctx, node).tier] > 0
                /\ \E pattern \in Allowed(ctx) : MatchModelPattern(entry.model, pattern)
         THEN NoIssue ELSE Issue("model_admission_empty", at)

RetryIssues(ctx, node, at) ==
    IF /\ node.retry # Absent /\ KnownPreset(ctx, node)
       /\ "timeout" \in node.retry.on /\ ~PresetOf(ctx, node).idempotent
    THEN Issue("retry_timeout_requires_idempotent", at) ELSE NoIssue

\* An acceptance item is the set of the artifacts it refers to.
Resolved(doc, artifact) ==
    \/ \E i \in DOMAIN doc.outputs :
            doc.outputs[i].required /\ doc.outputs[i].from.artifact = artifact
    \/ \E i \in DOMAIN doc.evidence : doc.evidence[i].artifact = artifact

Covered(doc) ==
    \E i \in DOMAIN doc.outputs :
        doc.outputs[i].required /\ HasEvidence(doc, doc.outputs[i].from)

AcceptanceIssues(doc, item, at) ==
    IF item = {} THEN IF Covered(doc) THEN NoIssue ELSE Issue("acceptance_uncovered", at)
    ELSE IF \A artifact \in item : Resolved(doc, artifact) THEN NoIssue
         ELSE Issue("acceptance_artifact_unresolved", at)

IntentIssues(doc, ctx) ==
    IF ctx.intent = Absent THEN NoIssue
    ELSE UNION {AcceptanceIssues(doc, ctx.intent.acceptance[i], <<i>>) :
                    i \in DOMAIN ctx.intent.acceptance}

SemanticIssues(doc, ctx) ==
    UNION {LET node == doc.nodes[i]
           IN  PresetIssues(ctx, node, <<i>>) \cup InputIssues(doc, ctx, node, <<i>>)
                 \cup GrantIssues(ctx, node, <<i>>) \cup ModelIssues(ctx, node, <<i>>)
                 \cup RetryIssues(ctx, node, <<i>>) : i \in DOMAIN doc.nodes}
    \cup CycleIssues(doc)
    \cup UNION {FeedbackIssues(doc, doc.feedback[i], <<i>>) : i \in DOMAIN doc.feedback}
    \cup UNION {OutputIssues(doc, ctx, doc.outputs[i], <<i>>) : i \in DOMAIN doc.outputs}
    \cup UNION {EvidenceIssues(doc, ctx, doc.evidence[i], <<i>>) : i \in DOMAIN doc.evidence}
    \cup IntentIssues(doc, ctx)

CheckWorkflow(raw, ctx) ==
    LET parsed == ParseWorkflow(raw)
    IN  IF ~parsed.ok THEN [ok |-> FALSE, issues |-> Issue("schema_invalid", <<>>)]
        ELSE LET issues == SemanticIssues(parsed.doc, ctx)
             IN  [ok |-> issues = {}, issues |-> issues]

----------------------------------------------------------------------------
(* topoSort: Kahn's algorithm over all inputs, a node's own included *)

RECURSIVE Kahn(_, _, _, _)

Kahn(doc, ready, left, order) ==
    IF ready = <<>> THEN order
    ELSE LET id == Head(ready)
             reads(n) == Cardinality({j \in DOMAIN n.inputs : n.inputs[j].node = id})
             after == [i \in DOMAIN doc.nodes |-> left[i] - reads(doc.nodes[i])]
             freed == SelectSeq([i \in DOMAIN doc.nodes |-> i],
                                LAMBDA i : left[i] > 0 /\ after[i] = 0)
         IN  Kahn(doc, Tail(ready) \o [k \in DOMAIN freed |-> doc.nodes[freed[k]].id],
                  after, Append(order, id))

TopoSort(doc) ==
    LET free == SelectSeq(doc.nodes, LAMBDA n : n.inputs = <<>>)
    IN  Kahn(doc, [k \in DOMAIN free |-> free[k].id],
             [i \in DOMAIN doc.nodes |-> Len(doc.nodes[i].inputs)], <<>>)

\* workflow.run checks the workflow without the intent of the call, parses
\* the intent, and leaves the order to the engine's run.
WorkflowRun(raw, intent, ctx) ==
    CASE ~CheckWorkflow(raw, [ctx EXCEPT !.intent = Absent]).ok -> "WORKFLOW_INVALID"
      [] OTHER ->
            IF intent # Absent /\ ~ParseIntent(intent).ok THEN "INTENT_INVALID"
            ELSE IF Len(TopoSort(ParseWorkflow(raw).doc)) # Len(raw.nodes)
            THEN "WORKFLOW_CYCLE" ELSE "running"
=============================================================================
