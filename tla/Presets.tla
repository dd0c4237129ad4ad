------------------------------ MODULE Presets ------------------------------
(***************************************************************************)
(* The loaders of the capability registry and of presets:                  *)
(* daemon/src/capability/registry.ts and preset.ts. Both collect every     *)
(* fault and reject the document if there is one.                          *)
(***************************************************************************)
EXTENDS Documents

----------------------------------------------------------------------------
(* loadCapabilityRegistry *)

\* A scope list is a sequence of scopes, Bad if one of them is no scope.
ScopeFaults(scopes, at) ==
    IF scopes \in Unset \/ scopes = <<>> THEN {Fault("grantable_scopes", at)}
    ELSE When(\E i, j \in DOMAIN scopes : i < j /\ scopes[i] = scopes[j],
              "grantable_scopes", at)

PathFaults(item, at) ==
    IF item.kind = "fs_path" THEN Required(item.path_template, "path_template", at)
    ELSE Optional(item.path_template, "path_template", at)

CapabilityFaults(item, at) ==
    IF item = Bad THEN {Fault("capabilities", at)}
    ELSE Unknown(item, "capabilities", at)
            \cup Required(item.id, "id", at)
            \cup Required(item.kind, "kind", at)
            \cup Required(item.description, "description", at)
            \cup Optional(item.tools, "tools", at)
            \cup Optional(item.risk_level, "risk_level", at)
            \cup ScopeFaults(item.grantable_scopes, at)
            \cup PathFaults(item, at)

RepeatedCaps(items) ==
    {Fault("id", <<i>>) : i \in {j \in DOMAIN items :
        items[j] # Bad /\ Repeats(items, j, LAMBDA item : item.id)}}

RegistryFaults(raw) ==
    IF raw = Bad THEN {Fault("root", <<>>)}
    ELSE Required(raw.protocol, "protocol", <<>>)
            \cup Required(raw.spec_version, "spec_version", <<>>)
            \cup Unknown(raw, "root", <<>>)
            \cup IF raw.capabilities \in Unset THEN {Fault("capabilities", <<>>)}
                 ELSE Each(raw.capabilities, <<>>, CapabilityFaults)
                        \cup RepeatedCaps(raw.capabilities)

\* The registry is what get(id) finds: a function from the ids.
LoadRegistry(raw) ==
    IF RegistryFaults(raw) # {} THEN [ok |-> FALSE, faults |-> RegistryFaults(raw)]
    ELSE LET ids == {raw.capabilities[i].id : i \in DOMAIN raw.capabilities}
             at(id) == CHOOSE i \in DOMAIN raw.capabilities : raw.capabilities[i].id = id
         IN  [ok |-> TRUE, get |-> [id \in ids |-> raw.capabilities[at(id)]]]

----------------------------------------------------------------------------
(* parsePreset *)

ModelFaults(model) ==
    CASE model = Absent -> {}
      [] model = Bad -> {Fault("model", <<>>)}
      [] OTHER -> Unknown(model, "model", <<>>)
                    \cup Required(model.tier, "model.tier", <<>>)
                    \cup Optional(model.fallback, "model.fallback", <<>>)

BaselineFaults(grant, at) ==
    IF grant = Bad THEN {Fault("baseline_grants", at)}
    ELSE Unknown(grant, "baseline_grants", at)
            \cup Required(grant.cap, "cap", at)
            \cup Required(grant.scope, "scope", at)

PortFaults(port, at) ==
    IF port = Bad THEN {Fault("io_contracts", at)}
    ELSE Unknown(port, "io_contracts", at)
            \cup Required(port.name, "name", at)
            \cup Required(port.type, "type", at)

ContractFaults(io) ==
    IF io \in Unset THEN {Fault("io_contracts", <<>>)}
    ELSE Unknown(io, "io_contracts", <<>>)
            \cup UNION {IF io[d] \in Unset THEN {Fault(d, <<>>)}
                        ELSE Each(io[d], <<>>, PortFaults) : d \in {"inputs", "outputs"}}

EscalationFaults(policy) ==
    IF policy \in Unset THEN {Fault("escalation_policy", <<>>)}
    ELSE Unknown(policy, "escalation_policy", <<>>)
            \cup UNION {Required(policy[k], k, <<>>) :
                            k \in {"auto_approve", "require_approval"}}

\* protocol and spec_version must not be there at all.
PresetFaults(raw) ==
    IF raw = Bad THEN {Fault("root", <<>>)}
    ELSE UNION {When(raw[k] # Absent, k, <<>>) : k \in {"protocol", "spec_version"}}
            \cup UNION {Required(raw[k], k, <<>>) : k \in {"api", "name", "description", "base"}}
            \cup Unknown(raw, "root", <<>>)
            \cup UNION {Optional(raw[k], k, <<>>) : k \in {"skills", "idempotent"}}
            \cup ModelFaults(raw.model)
            \cup (IF raw.baseline_grants \in Unset THEN {Fault("baseline_grants", <<>>)}
                  ELSE Each(raw.baseline_grants, <<>>, BaselineFaults))
            \cup ContractFaults(raw.io_contracts)
            \cup EscalationFaults(raw.escalation_policy)

\* Ports of one name are not refused; the first of them is the one found.
Ports(list) ==
    LET names == {list[i].name : i \in DOMAIN list}
        first(name) == CHOOSE i \in DOMAIN list :
                            /\ list[i].name = name
                            /\ \A j \in 1..(i - 1) : list[j].name # name
    IN  [name \in names |-> list[first(name)].type]

ParsePreset(raw) ==
    IF PresetFaults(raw) # {} THEN [ok |-> FALSE, faults |-> PresetFaults(raw)]
    ELSE [ok |-> TRUE,
          preset |-> [name |-> raw.name,
                      tier |-> IF raw.model = Absent THEN Absent ELSE raw.model.tier,
                      idempotent |-> raw.idempotent = TRUE,
                      grants |-> {[cap |-> raw.baseline_grants[i].cap,
                                   scope |-> raw.baseline_grants[i].scope] :
                                      i \in DOMAIN raw.baseline_grants},
                      inputs |-> Ports(raw.io_contracts.inputs),
                      outputs |-> Ports(raw.io_contracts.outputs),
                      policy |-> raw.escalation_policy]]
=============================================================================
