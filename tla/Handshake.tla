----------------------------- MODULE Handshake -----------------------------
(***************************************************************************)
(* session.init: the check of the request, the version rule and the answer *)
(* (daemon/src/session/handshake.ts and semver.ts).                        *)
(*                                                                         *)
(* A version is <<major, minor>> or <<major, minor, patch>>, Bad if its    *)
(* text is none. A client declares a feature TRUE, FALSE or not at all.    *)
(***************************************************************************)
EXTENDS Documents, Integers, SequencesExt

Features == {"broadcast", "async_events", "interactive_approval"}

----------------------------------------------------------------------------
(* semver.ts *)

ParseSemver(text) ==
    IF text = Bad THEN Absent ELSE IF Len(text) = 2 THEN <<text[1], text[2], 0>> ELSE text

RANK == [exact |-> 0, minor_drift |-> 1, major_adjacent |-> 2, incompatible |-> 3]

LevelOf(client, daemon) ==
    IF daemon = client THEN "exact"
    ELSE IF daemon[1] = client[1] THEN "minor_drift"
    ELSE IF daemon[1] - client[1] \in {-1, 1} THEN "major_adjacent"
    ELSE "incompatible"

\* The first of the closest supported versions, at a position of the list.
CheckProtocolCompat(text, supported) ==
    LET client == ParseSemver(text)
        level(i) == IF ParseSemver(supported[i]) = Absent THEN "incompatible"
                    ELSE LevelOf(client, ParseSemver(supported[i]))
        Nearer(i, j) == \/ RANK[level(i)] < RANK[level(j)]
                        \/ RANK[level(i)] = RANK[level(j)] /\ i <= j
        compatible == {i \in DOMAIN supported : level(i) # "incompatible"}
        best == CHOOSE i \in compatible : \A j \in compatible : Nearer(i, j)
    IN  IF client = Absent \/ compatible = {}
        THEN [level |-> "incompatible", matched |-> Absent]
        ELSE [level |-> level(best), matched |-> supported[best]]

\* Versions of documents are compared as texts: the digits of the major, a
\* point (it sorts before every digit), the digits of the minor.
Digits(n) == IF n < 10 THEN <<n>> ELSE <<n \div 10, n % 10>>
VersionText(version) == Digits(version[1]) \o <<-1>> \o Digits(version[2])

TextAfter(a, b) ==
    \/ Len(a) > Len(b) /\ SubSeq(a, 1, Len(b)) = b
    \/ \E i \in DOMAIN a \cap DOMAIN b :
            a[i] > b[i] /\ SubSeq(a, 1, i - 1) = SubSeq(b, 1, i - 1)

IsDocVersion(version) == version # Bad /\ Len(version) = 2

CheckDocumentKind(requested, supported) ==
    LET higher(matched, version) ==
            IF ~IsDocVersion(version) \/ version \notin Range(supported) THEN matched
            ELSE IF matched = Absent THEN version
            ELSE IF TextAfter(VersionText(version), VersionText(matched))
            THEN version ELSE matched
    IN  FoldLeft(higher, Absent, requested)

CheckDocumentKindSupported(kind, requested, mapping) ==
    IF kind \notin DOMAIN mapping
    THEN [kindSupported |-> FALSE, matched |-> Absent]
    ELSE [kindSupported |-> TRUE, matched |-> CheckDocumentKind(requested, mapping[kind])]

----------------------------------------------------------------------------
(* handshake.ts *)

REQUIRED_DOCUMENT_KINDS == {"preset", "intent", "workflow", "artifact-manifest"}

\* parseSessionInit stops at the first fault; unknown fields are ignored.
SessionInitFault(raw) ==
    IF raw = Bad THEN "body"
    ELSE IF raw.method # "session.init" THEN "method"
    ELSE IF raw.params \in Unset THEN "params"
    ELSE LET p == raw.params
         IN  IF p.protocol # <<1, 0>> THEN "protocol"
             ELSE IF p.role \notin {"orchestrator", "planner", "observer"} THEN "role"
             ELSE IF p.principal \in Unset THEN "principal"
             ELSE IF p.principal.tenant \in Unset THEN "principal.tenant"
             ELSE IF p.principal.session \in Unset THEN "principal.session"
             ELSE IF p.harness \in Unset THEN "harness"
             ELSE IF p.capabilities \in Unset THEN "capabilities"
             ELSE IF \E f \in Features : p.capabilities[f] = Bad THEN "capabilities.feature"
             ELSE "none"

NegotiateCapability(client, daemon, feature) == client[feature] = TRUE /\ daemon[feature]

\* Faulty variant: only what the client misses is explained.
BuildDegradations_ClientSide(client, daemon) ==
    {[feature |-> f, by |-> "daemon"] : f \in {g \in Features : client[g] = TRUE /\ ~daemon[g]}}

\* An explanation names the side that has not got the feature; the order of
\* the explanations is left out.
BuildDegradations(client, daemon) ==
    {[feature |-> f, by |-> IF client[f] = TRUE THEN "daemon" ELSE "client"] :
        f \in {g \in Features : /\ ~NegotiateCapability(client, daemon, g)
                                /\ client[g] = TRUE \/ daemon[g]}}

\* documentKinds of the profile: a function from kinds to version lists.
DocumentKindsOk(mapping) ==
    \A kind \in REQUIRED_DOCUMENT_KINDS :
        /\ kind \in DOMAIN mapping /\ mapping[kind] # <<>>
        /\ Cardinality(Range(mapping[kind])) = Len(mapping[kind])
        /\ \A i \in DOMAIN mapping[kind] : IsDocVersion(mapping[kind][i])

\* What session.init answers, before the session is registered.
SessionResponse(raw, profile) ==
    LET fault == SessionInitFault(raw)
        compat == CheckProtocolCompat(raw.params.protocol, profile.supportedProtocols)
        client == raw.params.capabilities
    IN  IF fault # "none" THEN [outcome |-> "InvalidHandshake", field |-> fault]
        ELSE IF \/ ParseSemver(profile.daemonVersion) = Absent
                \/ profile.supportedProtocols = <<>>
                \/ ~DocumentKindsOk(profile.documentKinds)
        THEN [outcome |-> "ProfileInvalid"]
        ELSE IF compat.level = "incompatible" THEN [outcome |-> "VersionIncompatible"]
        ELSE [outcome |-> "ok",
              capabilities |-> profile.capabilities,
              effective |-> [f \in Features |->
                                NegotiateCapability(client, profile.capabilities, f)],
              degradations |-> BuildDegradations(client, profile.capabilities),
              warning |-> compat.level # "exact"]
=============================================================================
