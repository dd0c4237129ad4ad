----------------------------- MODULE MCWarmPool -----------------------------
(* Four requests; the last may have a signature of its own.              *)
EXTENDS WarmPool, TLC

CONSTANTS p, q, r, s

OneSignature == p :> "x" @@ q :> "x" @@ r :> "x" @@ s :> "x"
OddSignature == p :> "x" @@ q :> "x" @@ r :> "x" @@ s :> "y"
=============================================================================
