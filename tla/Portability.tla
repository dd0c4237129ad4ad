---------------------------- MODULE Portability ----------------------------
(***************************************************************************)
(* Taking a workflow to another machine: workflow check and export of      *)
(* daemon/src/cli/commands/workflow.ts over portability/bundle.ts.         *)
(*                                                                         *)
(* A directory is a sequence of files, in the order of their paths, or     *)
(* Bad; a file is [kind, raw], where raw is Bad for a text that is no JSON *)
(* object. A JSON value is a node [tag, ...]: a "leaf" with its text that   *)
(* may be a string, a "list" with its items or an "object" with its        *)
(* entries [key, value].                                                   *)
(***************************************************************************)
EXTENDS Presets, PlanCheck, ModelScores

----------------------------------------------------------------------------
(* loadPresetsFromDirs *)

LoadError(dir, file, why) == [dir |-> dir, file |-> file, why |-> why]

\* The first preset of a name stays, the later one is an error.
Added(report, preset, dir, file) ==
    IF preset.name \in DOMAIN report.presets
    THEN [report EXCEPT !.errors = @ \cup {LoadError(dir, file, "repeated")}]
    ELSE [report EXCEPT !.presets = (preset.name :> preset) @@ @]

\* A document of another kind beside the presets is passed over.
IsOtherKind(raw) == raw # Bad /\ raw.api \notin {Absent, "preset/1.0"}

LoadFile(report, file, dir, i) ==
    CASE file.kind = "yaml" -> [report EXCEPT !.errors = @ \cup {LoadError(dir, i, "yaml")}]
      [] file.kind = "json" ->
            IF IsOtherKind(file.raw) THEN report
            ELSE LET parsed == ParsePreset(file.raw)
                 IN  IF parsed.ok THEN Added(report, parsed.preset, dir, i)
                     ELSE [report EXCEPT !.errors = @ \cup {LoadError(dir, i, "invalid")}]
      [] OTHER -> report

LoadDir(report, files, dir) ==
    IF files = Bad THEN [report EXCEPT !.errors = @ \cup {LoadError(dir, 0, "unreadable")}]
    ELSE FoldLeftDomain(LAMBDA so, i : LoadFile(so, files[i], dir, i), report, files)

LoadPresetsFromDirs(dirs) ==
    FoldLeftDomain(LAMBDA so, d : LoadDir(so, dirs[d], d),
                   [presets |-> <<>>, errors |-> {}], dirs)

----------------------------------------------------------------------------
(* scrubCredentials *)

CREDENTIAL_KEYS == {"secret", "token", "password", "credential", "api_key", "private_key"}

Placeholder == [tag |-> "placeholder"]

\* What is told of a credential: its place, and the strings of a list, which
\* are taken for references. path is the positions on the way to its key.
DescribeCredential(path, value) ==
    [path |-> path,
     ids |-> IF value.tag # "list" THEN <<>>
             ELSE LET strings == SelectSeq(value.items,
                                           LAMBDA v : v.tag = "leaf" /\ v.string)
                  IN  [i \in DOMAIN strings |-> strings[i].text]]

\* A list keeps its length.
Replaced(value) ==
    IF value.tag = "list" THEN [value EXCEPT !.items = [i \in DOMAIN @ |-> Placeholder]]
    ELSE Placeholder

RECURSIVE ScrubCredentials(_, _)

\* The value without its credentials, and what is told of them, in order.
ScrubCredentials(value, path) ==
    LET items == [i \in DOMAIN value.items |->
                    ScrubCredentials(value.items[i], Append(path, i))]
        member(i) == LET e == value.entries[i]
                     IN  IF e.key \in CREDENTIAL_KEYS
                         THEN [clean |-> Replaced(e.value),
                               creds |-> <<DescribeCredential(Append(path, i), e.value)>>]
                         ELSE ScrubCredentials(e.value, Append(path, i))
        members == [i \in DOMAIN value.entries |-> member(i)]
        all(parts) == FlattenSeq([i \in DOMAIN parts |-> parts[i].creds])
    IN  CASE value.tag = "list" ->
                [clean |-> [value EXCEPT !.items = [i \in DOMAIN @ |-> items[i].clean]],
                 creds |-> all(items)]
          [] value.tag = "object" ->
                [clean |-> [value EXCEPT !.entries =
                                [i \in DOMAIN @ |-> [@[i] EXCEPT !.value = members[i].clean]]],
                 creds |-> all(members)]
          [] OTHER -> [clean |-> value, creds |-> <<>>]

----------------------------------------------------------------------------
(* The bundle *)

UsedPresetNames(doc) ==
    FoldLeft(LAMBDA seen, node : IF node.preset \in Range(seen) THEN seen
                                 ELSE Append(seen, node.preset), <<>>, doc.nodes)

\* Faulty variant: the document of a preset leaves out that it may be repeated.
PresetToDoc_NoIdempotent(p) ==
    [api |-> "preset/1.0", protocol |-> Absent, spec_version |-> Absent, extra |-> FALSE,
     name |-> p.name, description |-> "text", base |-> "any", skills |-> Absent,
     idempotent |-> Absent,
     model |-> IF p.tier = Absent THEN Absent
               ELSE [tier |-> p.tier, fallback |-> Absent, extra |-> FALSE],
     baseline_grants |-> LET grants == SetToSeq(p.grants)
                         IN  [i \in DOMAIN grants |->
                                [cap |-> grants[i].cap, scope |-> grants[i].scope,
                                 extra |-> FALSE]],
     io_contracts |-> [d \in {"inputs", "outputs", "extra"} |->
                        IF d = "extra" THEN FALSE
                        ELSE LET names == SetToSeq(DOMAIN p[d])
                             IN  [i \in DOMAIN names |->
                                    [name |-> names[i], type |-> p[d][names[i]],
                                     extra |-> FALSE]]],
     escalation_policy |-> p.policy]

\* The order of grants and ports does not matter to a reader of the document.
PresetToDoc(p) ==
    [PresetToDoc_NoIdempotent(p) EXCEPT !.idempotent = IF p.idempotent THEN TRUE ELSE Absent]

\* The typed workflow written out again: an undefined field is left out.
WorkflowToDoc(doc) ==
    [api |-> "workflow/1.0", intent_ref |-> "intent", extra |-> "none",
     nodes |-> [i \in DOMAIN doc.nodes |->
        [id |-> doc.nodes[i].id, preset |-> doc.nodes[i].preset,
         timeout |-> doc.nodes[i].timeout, parallel |-> doc.nodes[i].parallel, extra |-> FALSE,
         retry |-> IF doc.nodes[i].retry = Absent THEN Absent
                   ELSE [max |-> doc.nodes[i].retry.max, on |-> doc.nodes[i].retry.on,
                         extra |-> FALSE],
         inputs |-> [j \in DOMAIN doc.nodes[i].inputs |->
                        [from |-> doc.nodes[i].inputs[j], extra |-> FALSE]]]],
     outputs |-> [i \in DOMAIN doc.outputs |->
                    [from |-> doc.outputs[i].from, required |-> doc.outputs[i].required,
                     extra |-> FALSE]],
     feedback |-> doc.feedback, evidence |-> doc.evidence]

\* A document of the bundle is [doc, rest]: doc is what its schema knows, where
\* no key is a credential's, and rest an object of whatever other members it has.
Known(doc) == [doc |-> doc, rest |-> [tag |-> "object", entries |-> <<>>]]

File(path, document) == [path |-> path, document |-> document]

\* pushJson: every document goes through the scrub, which adds to the list.
PushJson(bundle, file) ==
    LET scrubbed == ScrubCredentials(file.document.rest, <<>>)
        clean == [file.document EXCEPT !.rest = scrubbed.clean]
    IN  [files |-> (file.path :> clean) @@ bundle.files,
         credentials |-> bundle.credentials \o scrubbed.creds]

GrantsOf(used, presets) ==
    UNION {{[preset |-> used[i], cap |-> grant.cap, scope |-> grant.scope] :
                grant \in presets[used[i]].grants} : i \in DOMAIN used}

\* caps.json: what the used presets need, and which of it is not registered here.
CapsDoc(used, presets, get) ==
    {[cap |-> c, missing |-> c \notin DOMAIN get,
      used_by |-> {g.preset : g \in {h \in GrantsOf(used, presets) : h.cap = c}}] :
        c \in {g.cap : g \in GrantsOf(used, presets)}}

\* renderReadme: the credentials with all that is told of them, and what else
\* the other machine has to bring. This text is not scrubbed, nor is the next.
RenderReadme(level, names, used, presets, missing, intent, credentials) ==
    LET allowed == IF intent = Absent THEN Absent ELSE intent.constraints.allowed_models
    IN  [level |-> level, presets |-> names, credentials |-> credentials, missing |-> missing,
         tiers |-> {presets[used[i]].tier : i \in DOMAIN used} \ {Absent},
         models |-> IF allowed = Absent \/ All \in allowed THEN {} ELSE allowed]

RenderEnvironment(used, caps) ==
    [presets |-> used, servers |-> {c \in caps : c[1] = "mcp"}]

\* buildExportBundle: what a level holds. Each level has what the one below has.
BuildExportBundle(workflow, level, presets, get, intent) ==
    LET names == UsedPresetNames(workflow.doc)
        used == SelectSeq(names, LAMBDA name : name \in DOMAIN presets)
        caps == {g.cap : g \in GrantsOf(used, presets)}
        missing == caps \ DOMAIN get
        brief == <<File(<<"capabilities">>, Known({get[c] : c \in caps \ missing}))>>
        full == Append([i \in DOMAIN used |->
                            File(<<"presets", used[i]>>, Known(PresetToDoc(presets[used[i]])))],
                       File(<<"baseline-grants">>, Known(GrantsOf(used, presets))))
        pushed == FoldLeft(PushJson, [files |-> <<>>, credentials |-> <<>>],
                           <<File(<<"workflow">>, workflow),
                             File(<<"caps">>, Known(CapsDoc(used, presets, get)))>>
                           \o (IF level = "minimal" THEN <<>> ELSE brief)
                           \o (IF level = "full" THEN full ELSE <<>>))
    IN  [files |-> pushed.files, credentials |-> pushed.credentials, missingCaps |-> missing,
         readme |-> RenderReadme(level, names, used, presets, missing, intent,
                                 pushed.credentials),
         environment |-> IF level # "full" THEN Absent ELSE RenderEnvironment(used, caps)]

----------------------------------------------------------------------------
(* workflow check and workflow export *)

MissesModels(parsed, presets) ==
    parsed.ok /\ \E i \in DOMAIN parsed.doc.nodes :
        LET name == parsed.doc.nodes[i].preset
        IN  name \in DOMAIN presets /\ presets[name].tier # Absent

\* A registry, models or an intent with a fault ends the command; models and
\* intent may be left out. host has the documents of the machine.
RunCheck(raw, dirs, host) ==
    LET loaded == LoadPresetsFromDirs(dirs)
        registry == LoadRegistry(host.registry)
        given(document, Load(_)) == IF document = Absent THEN [ok |-> TRUE] ELSE Load(document)
        intent == given(host.intent, ParseIntent)
        models == given(host.models, LoadModelRegistry)
    IN  /\ registry.ok /\ intent.ok /\ models.ok
        /\ loaded.errors = {}
        /\ host.models = Absent => ~MissesModels(ParseWorkflow(raw), loaded.presets)
        /\ CheckWorkflow(raw, [presets |-> loaded.presets, caps |-> DOMAIN registry.get,
                models |-> IF host.models = Absent THEN Absent ELSE Range(models.entries),
                intent |-> IF host.intent = Absent THEN Absent ELSE intent.doc]).ok

\* A workflow that is not in order does not leave the machine.
RunExport(raw, dirs, host, level) ==
    IF ~RunCheck(raw, dirs, host) THEN Absent
    ELSE BuildExportBundle(Known(WorkflowToDoc(ParseWorkflow(raw).doc)), level,
                           LoadPresetsFromDirs(dirs).presets,
                           LoadRegistry(host.registry).get,
                           IF host.intent = Absent THEN Absent ELSE ParseIntent(host.intent).doc)
=============================================================================
