----------------------------- MODULE MCFrontDoor ----------------------------
(* FrontDoor with two presets, one of which asks for a capability the        *)
(* registry does not have after one it has.                                  *)
EXTENDS FrontDoor

MCPresetGrants == [reader |-> <<"read", "net">>, stranger |-> <<"read", "paint">>]
=============================================================================
