---------------------------- MODULE MCDecisions ----------------------------
(* Decisions, the static check of a workflow and its export: question is     *)
(* drawn from bounded sets of inputs, answer is what the code makes of it,   *)
(* and the properties compare it with what the answer should mean.           *)
EXTENDS Portability, Decisions

----------------------------------------------------------------------------
(* Workflows *)

Read == <<"fs", "read">>
Write == <<"fs", "write">>
Net == <<"mcp", "net">>

Ref(node, artifact) == [node |-> node, artifact |-> artifact]

Node(id, preset, refs) ==
    [id |-> id, preset |-> preset, timeout |-> Absent, retry |-> Absent, parallel |-> Absent,
     inputs |-> [j \in DOMAIN refs |-> [from |-> refs[j], extra |-> FALSE]], extra |-> FALSE]

Flow(nodes, outputs, evidence) ==
    [api |-> "workflow/1.0", intent_ref |-> "intent", extra |-> "none", nodes |-> nodes,
     outputs |-> outputs, feedback |-> <<>>, evidence |-> evidence]

Out(required) == [from |-> Ref("n1", "a"), required |-> required, extra |-> FALSE]
Evidence(exists, recorded) ==
    [node |-> "n1", artifact |-> "a", must_exist |-> exists, sha256_recorded |-> recorded,
     extra |-> FALSE]

Id(i) == <<"n1", "n2", "n3">>[i]

\* Every graph over three nodes, a node's own output included.
Graphs ==
    {Flow([i \in 1..3 |-> LET from == SetToSeq(reads[i])
                          IN  Node(Id(i), "user", [j \in DOMAIN from |-> Ref(Id(from[j]), "a")])],
          <<>>, <<>>) : reads \in [1..3 -> SUBSET (1..3)]}

\* Two nodes with every pair of presets and every single binding.
Bindings == {<<>>} \cup {<<Ref(n, a)>> : n \in {"n1", "n2", "ghost"}, a \in {"a", "b"}}
Typed ==
    {Flow(<<Node("n1", p1, r1), Node("n2", p2, r2)>>, <<>>, <<>>) :
        p1, p2 \in {"maker", "user", "odd", "nobody"}, r1, r2 \in Bindings}

\* One node that promises an output, and may be repeated.
Retries == {Absent, [max |-> 1, on |-> {"crash"}, extra |-> FALSE],
            [max |-> 1, on |-> {"timeout"}, extra |-> FALSE]}
Promises ==
    {Flow(<<[Node("n1", preset, <<>>) EXCEPT !.retry = retry]>>, <<Out(required)>>, evidence) :
        preset \in {"maker", "scholar"}, retry \in Retries, required \in {TRUE, FALSE, Absent},
        evidence \in {<<>>} \cup {<<Evidence(e, r)>> : e, r \in BOOLEAN}}

\* One fault each, in a document that is in order otherwise.
Sound1 == Flow(<<Node("n1", "maker", <<>>), Node("n2", "user", <<Ref("n1", "a")>>)>>, <<>>, <<>>)
Broken ==
    {Bad, [Sound1 EXCEPT !.api = Bad], [Sound1 EXCEPT !.extra = "protocol"],
     [Sound1 EXCEPT !.nodes = <<>>], [Sound1 EXCEPT !.nodes[2] = Bad],
     [Sound1 EXCEPT !.nodes[2].id = "n1"], [Sound1 EXCEPT !.nodes[2].extra = TRUE],
     [Sound1 EXCEPT !.nodes[1].timeout = Bad], [Sound1 EXCEPT !.nodes[1].retry = Bad],
     [Sound1 EXCEPT !.nodes[2].inputs = Bad], [Sound1 EXCEPT !.nodes[2].inputs[1].from = Bad],
     [Sound1 EXCEPT !.outputs = Bad], [Sound1 EXCEPT !.outputs = <<Out(Bad)>>],
     [Sound1 EXCEPT !.evidence = <<[Evidence(TRUE, TRUE) EXCEPT !.node = Absent]>>]}
    \cup {[Sound1 EXCEPT !.feedback = <<[from |-> f, to |-> t, max_traversals |-> n,
                                         extra |-> FALSE]>>] :
            f \in {"n2", "ghost"}, t \in {"n1", "n2"}, n \in {1, Absent}}

----------------------------------------------------------------------------
(* The documents of a machine *)

Capability(id) ==
    [id |-> id, kind |-> "mcp", description |-> "text", tools |-> Absent, risk_level |-> "low",
     grantable_scopes |-> <<"read">>, path_template |-> Absent, extra |-> FALSE]

Registry(items) ==
    [protocol |-> "1.0", spec_version |-> "1.0", extra |-> FALSE, capabilities |-> items]

CapRegistries ==
    {Registry(<<Capability(Read), Capability(Net)>>), Registry(<<Capability(Net)>>),
     Registry(<<Capability(Read), Capability(Read)>>),
     Registry(<<[Capability(Read) EXCEPT !.kind = "fs_path"]>>)}

GoodRegistry == Registry(<<Capability(Read), Capability(Net)>>)

Port(name, type) == [name |-> name, type |-> type, extra |-> FALSE]
Preset(name, tier, idempotent, caps, ins, outs) ==
    [api |-> "preset/1.0", protocol |-> Absent, spec_version |-> Absent, extra |-> FALSE,
     name |-> name, description |-> "text", base |-> "any", skills |-> Absent,
     idempotent |-> idempotent,
     model |-> IF tier = Absent THEN Absent
               ELSE [tier |-> tier, fallback |-> Absent, extra |-> FALSE],
     baseline_grants |-> [i \in DOMAIN caps |-> [cap |-> caps[i], scope |-> "read",
                                                 extra |-> FALSE]],
     io_contracts |-> [inputs |-> ins, outputs |-> outs, extra |-> FALSE],
     escalation_policy |-> [auto_approve |-> {}, require_approval |-> {}, extra |-> FALSE]]

Maker == Preset("maker", Absent, Absent, <<Read>>, <<>>, <<Port("a", "text")>>)
User == Preset("user", Absent, FALSE, <<>>, <<Port("a", "text")>>,
               <<Port("a", "text"), Port("b", "text")>>)
Odd == Preset("odd", Absent, Absent, <<>>, <<Port("a", "json")>>, <<Port("b", "json")>>)
Scholar == Preset("scholar", "plan", TRUE, <<Read, Net>>, <<>>, <<Port("a", "text")>>)

Json(raw) == [kind |-> "json", raw |-> raw]
Home == <<Json(Maker), Json(User), Json(Odd), Json(Scholar)>>

Directories ==
    {<<Home>>, <<Append(Home, Json([Maker EXCEPT !.api = "workflow/1.0"]))>>,
     <<Home, <<Json([Maker EXCEPT !.idempotent = TRUE])>>>>,
     <<Append(Home, [kind |-> "yaml", raw |-> Bad])>>, <<Append(Home, Json(Bad))>>,
     <<Home, Bad>>, <<<<Json(Maker)>>, <<Json(User), [kind |-> "text", raw |-> Bad]>>>>}

Intent(acceptance, forbidden, allowed) ==
    [api |-> "intent/1.0", extra |-> "none", goal |-> "goal", acceptance |-> acceptance,
     constraints |-> [max_parallel |-> Absent, budget_tokens |-> Absent,
                      forbidden_caps |-> forbidden, allowed_models |-> allowed,
                      extra |-> FALSE]]

Intents ==
    {Absent, [Intent(<<{}>>, Absent, Absent) EXCEPT !.goal = Bad]}
    \cup {Intent(<<item>>, forbidden, allowed) : item \in {{}, {"a"}, {"b"}},
            forbidden \in {Absent, {Under("mcp")}, {Write}},
            allowed \in {Absent, {<<"gpt">>}, {Under("lab")}}}

ByTier(plan, code) == [tier \in TIERS |-> IF tier = "plan" THEN plan ELSE code]
ScoreEntry(name, rank, fit, prior, observed) ==
    [protocol |-> "1.0", spec_version |-> "1.0", model |-> <<name>>, rank |-> rank,
     updated_at |-> 0, tier_fit |-> ByTier(fit, SCALE), sample_records |-> Absent,
     score |-> [prior |-> ByTier(prior, SCALE), observed |-> ByTier(observed, Absent),
                samples |-> ByTier(0, 0),
                dimensions |-> [quality |-> SCALE, success_rate |-> SCALE,
                                cost_efficiency |-> SCALE]]]

Scores(items) == [container |-> TRUE, models |-> items]
Host(registry, models, intent) == [registry |-> registry, models |-> models, intent |-> intent]

Machines ==
    {Host(r, Absent, Absent) : r \in CapRegistries}
    \cup {Host(GoodRegistry, m, Absent) :
            m \in {Scores(<<ScoreEntry("gpt", 1, fit, 1, Absent)>>) : fit \in {0, 1, Bad}}}
    \cup {Host(GoodRegistry, m, intent) : intent \in Intents,
            m \in {Absent, Scores(<<ScoreEntry("gpt", 1, 1, 1, Absent)>>)}}

----------------------------------------------------------------------------
(* Objects of three levels, some of whose keys are a credential's *)

Leaf(text, string) == [tag |-> "leaf", text |-> text, string |-> string]
Leaves == {Leaf("a", TRUE), Leaf("7", FALSE)}
Lists(values) == {[tag |-> "list", items |-> <<v, w>>] : v, w \in values}
Objects(values) ==
    {[tag |-> "object", entries |-> <<[key |-> "token", value |-> v],
                                      [key |-> "name", value |-> w]>>] : v, w \in values}
Below == Leaves \cup Lists(Leaves) \cup Objects({Leaf("b", TRUE)})
JsonObjects == Objects(Below \cup Lists(Objects(Leaves)) \cup Objects({Leaf("b", TRUE)}
                                                           \cup Lists(Leaves)))

----------------------------------------------------------------------------
(* Policies, scores and sessions *)

Patterns1 == SUBSET {All, Under("fs"), Read}
Layers(id) ==
    {Absent} \cup {[id |-> id, auto_approve |-> a, require_approval |-> r] : a, r \in Patterns1}

\* The stack with a global layer, and the daemon's own, which has none.
Stacks ==
    {PolicyStack(global, preset, Absent) :
        global \in Layers("global"), preset \in Layers("preset:user")}
    \cup {Tail(PolicyStack(Absent, preset, session)) :
            preset \in {layer \in Layers("preset:user") :
                            layer = Absent \/ layer.auto_approve = {Read}},
            session \in {layer \in Layers("session") :
                            layer = Absent \/ layer.auto_approve = {}}}
Requests == [cap : {Read, Net}, scope : {"read", "write"}, risk : {Absent, "low", "high"}]

ModelFiles ==
    {<<ScoreEntry("x", 1, f1, p1, o1), ScoreEntry("y", 2, f2, p2, o2),
       ScoreEntry("z", 3, 1, SCALE, Absent)>> :
        f1, f2 \in {0, 1, SCALE}, p1, p2 \in {1, SCALE}, o1, o2 \in {Absent, 0, SCALE}}
    \cup {<<>>, <<ScoreEntry("x", 1, 1, Bad, Absent)>>, <<Bad>>,
          <<ScoreEntry("x", 1, 1, 1, 0), ScoreEntry("x", 2, 1, 1, 0)>>}

Heard == [tier : {"plan"}, success : BOOLEAN, quality : {Absent, 0, SCALE},
          costEfficiency : {Absent, 0}]

SomeVersions == {<<1, 0>>, <<1, 0, 0>>, <<1, 2>>, <<2, 0>>, <<3, 1>>, Bad}
Pairs == {<<v, w>> : v, w \in SomeVersions}

Init1(version, declared) ==
    [method |-> "session.init",
     params |-> [protocol |-> version, role |-> "planner", harness |-> "cli",
                 principal |-> [tenant |-> "t", session |-> "s"], capabilities |-> declared]]

Inits == {Init1(version, declared) :
            version \in SomeVersions, declared \in [Features -> {TRUE, FALSE, Absent, Bad}]}

Offers ==
    {[daemonVersion |-> <<1, 0, 0>>, supportedProtocols |-> <<<<1, 0>>>>,
      capabilities |-> offered,
      documentKinds |-> [kind \in REQUIRED_DOCUMENT_KINDS |-> <<<<1, 0>>>>]] :
        offered \in [Features -> BOOLEAN]}

----------------------------------------------------------------------------
(* One action per algorithm *)

PlanContext(host) ==
    [presets |-> LoadPresetsFromDirs(<<Home>>).presets,
     caps |-> DOMAIN LoadRegistry(host.registry).get, models |-> Absent, intent |-> Absent]

CheckPlan(raw) ==
    LET host == Host(GoodRegistry, Absent, Absent)
        check == CheckWorkflow(raw, PlanContext(host))
    IN  Ask("plan", raw,
            [check |-> check, run |-> WorkflowRun(raw, Absent, PlanContext(host)),
             order |-> IF check.ok THEN TopoSort(ParseWorkflow(raw).doc) ELSE <<>>])

ExportPlan(raw, dirs, host) ==
    Ask("bundle", [raw |-> raw, dirs |-> dirs, host |-> host],
        RunExport(raw, dirs, host, "full"))

\* buildExportBundle takes any object; the export's own comes from the parser.
ExportObject(rest, level) ==
    Ask("object", rest,
        BuildExportBundle([doc |-> WorkflowToDoc(ParseWorkflow(Sound1).doc), rest |-> rest], level,
                          LoadPresetsFromDirs(<<Home>>).presets, LoadRegistry(GoodRegistry).get,
                          Absent))

AlgorithmsNext ==
    \/ DecisionsNext
    \/ /\ question.kind = "none"
       /\ \/ \E raw \in Graphs \cup Typed \cup Promises \cup Broken : CheckPlan(raw)
          \/ \E raw \in Promises \cup {Sound1}, host \in Machines :
                  ExportPlan(raw, <<Home>>, host)
          \/ \E dirs \in Directories :
                  ExportPlan(Sound1, dirs, Host(GoodRegistry, Absent, Absent))
          \/ \E rest \in JsonObjects, level \in {"minimal", "brief", "full"} :
                  ExportObject(rest, level)

----------------------------------------------------------------------------
(* Properties *)

ReadsOf(raw, i) == {raw.nodes[i].inputs[j].from.node : j \in DOMAIN raw.nodes[i].inputs}

\* A set of nodes each of which reads another of them.
Cyclic(raw) ==
    \E S \in (SUBSET DOMAIN raw.nodes) \ {{}} :
        \A i \in S : \E k \in S \ {i} : raw.nodes[k].id \in ReadsOf(raw, i)

PortType(preset, way, name) ==
    LET docs == {Home[i].raw : i \in DOMAIN Home}
    IN  {port.type : port \in {p \in UNION {Range(d.io_contracts[way]) :
                                    d \in {e \in docs : e.name = preset}} : p.name = name}}

\* A workflow the check accepts can be run: the engine finds an order, in which
\* each node follows those it reads, unless a node reads its own output, which
\* the check does not see; every binding joins ports of one type; every output
\* that is required is recorded with its hash. And a graph is refused as cyclic
\* just if it has a cycle (plancheck.ts:5-18, workflow-engine.ts topoSort).
PlanRuns ==
    question.kind = "plan" =>
        LET raw == question.of
            selfish == {i \in DOMAIN raw.nodes : raw.nodes[i].id \in ReadsOf(raw, i)}
            position(id) == CHOOSE k \in DOMAIN answer.order : answer.order[k] = id
        IN  /\ answer.check.ok =>
                /\ answer.run = (IF selfish = {} THEN "running" ELSE "WORKFLOW_CYCLE")
                /\ selfish = {} =>
                    \A i \in DOMAIN raw.nodes : \A id \in ReadsOf(raw, i) :
                        position(id) < position(raw.nodes[i].id)
                /\ \A i \in DOMAIN raw.nodes : \A j \in DOMAIN raw.nodes[i].inputs :
                    LET ref == raw.nodes[i].inputs[j].from
                    IN  \E k \in DOMAIN raw.nodes :
                            /\ raw.nodes[k].id = ref.node
                            /\ PortType(raw.nodes[k].preset, "outputs", ref.artifact)
                                = PortType(raw.nodes[i].preset, "inputs", ref.artifact)
                /\ \A i \in DOMAIN raw.outputs : raw.outputs[i].required = TRUE =>
                    \E k \in DOMAIN raw.evidence :
                        /\ raw.evidence[k].node = raw.outputs[i].from.node
                        /\ raw.evidence[k].must_exist /\ raw.evidence[k].sha256_recorded
            /\ raw \in Graphs => (answer.check.ok <=> ~Cyclic(raw))

RECURSIVE Texts(_, _, _), References(_)

\* The texts of the leaves in a value, in order: those that stand under the
\* key of a credential, or those that do not.
Texts(value, wanted, under) ==
    CASE value.tag = "leaf" -> IF under = wanted THEN <<value.text>> ELSE <<>>
      [] value.tag = "list" ->
            FlattenSeq([i \in DOMAIN value.items |-> Texts(value.items[i], wanted, under)])
      [] value.tag = "object" ->
            FlattenSeq([i \in DOMAIN value.entries |->
                LET e == value.entries[i]
                IN  Texts(e.value, wanted, under \/ e.key \in CREDENTIAL_KEYS)])
      [] OTHER -> <<>>

\* For each key of a credential, the strings of its value if that is a list.
References(value) ==
    CASE value.tag = "list" ->
            FlattenSeq([i \in DOMAIN value.items |-> References(value.items[i])])
      [] value.tag = "object" ->
            FlattenSeq([i \in DOMAIN value.entries |->
                LET e == value.entries[i]
                IN  IF e.key \notin CREDENTIAL_KEYS THEN References(e.value)
                    ELSE IF e.value.tag # "list" THEN <<<<>>>>
                    ELSE LET kept == SelectSeq(e.value.items,
                                           LAMBDA v : v.tag = "leaf" /\ v.string)
                         IN  <<[k \in DOMAIN kept |-> kept[k].text]>>])
      [] OTHER -> <<>>

\* What leaves the machine as a full bundle passes the same check again, with
\* the presets of the bundle alone, and these are read as they were at home
\* (workflow.ts:172-176). And of an object with credentials, at every level, the
\* document keeps each text that stands under no key of a credential and none
\* that does; while the list of credentials and the README of the bundle, which
\* are to say only what kind is needed (bundle.ts:10-12), have one entry for
\* each such key, and with it the strings of its value if that is a list, and
\* no other of its texts: strings that do leave the machine (bundle.ts:152-158,
\* 364-366; bundle.test.ts:206).
BundleTravels ==
    /\ question.kind = "bundle" /\ answer # Absent =>
            LET home == LoadPresetsFromDirs(question.of.dirs).presets
                carried == {path \in DOMAIN answer.files : path[1] = "presets"}
                dir == [i \in 1..Cardinality(carried) |->
                          [kind |-> "json", raw |-> answer.files[SetToSeq(carried)[i]].doc]]
                there == LoadPresetsFromDirs(<<dir>>).presets
            IN  /\ RunCheck(answer.files[<<"workflow">>].doc, <<dir>>, question.of.host)
                /\ \A name \in DOMAIN there : there[name] = home[name]
    /\ question.kind = "object" =>
            LET sent == answer.files[<<"workflow">>].rest
            IN  /\ Texts(sent, FALSE, FALSE) = Texts(question.of, FALSE, FALSE)
                /\ Texts(sent, TRUE, FALSE) = <<>>
                /\ \A told \in {answer.credentials, answer.readme.credentials} :
                    [i \in DOMAIN told |-> told[i].ids] = References(question.of)
=============================================================================
