-------------------------- MODULE MCApprovalBoard --------------------------
(* Two requests for one key, beside a baseline grant of another; the       *)
(* policy lets the second one through.                                     *)
EXTENDS ApprovalBoard, TLC

CONSTANTS r1, r2, k1, k2

SharedKey == r1 :> k1 @@ r2 :> k1
=============================================================================
