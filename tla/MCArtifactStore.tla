-------------------------- MODULE MCArtifactStore --------------------------
(* Two publications that share an object; the first one may expire.       *)
EXTENDS ArtifactStore, TLC

CONSTANTS a, b, j1, j2

SomePayload == j1 :> {a} @@ j2 :> {a, b}
SomeRetention == j1 :> "day" @@ j2 :> "huge"
=============================================================================
