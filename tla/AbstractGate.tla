---------------------------- MODULE AbstractGate ----------------------------
(***************************************************************************)
(* What a bounded semaphore promises its users: a slot is taken only while *)
(* fewer than slots are out, and given back by one of those it is out to.  *)
(* A slot may be handed over in one step. ResourceGate implements it.      *)
(***************************************************************************)
EXTENDS Naturals, FiniteSets

CONSTANTS Request, slots

VARIABLE holders  \* the requests a slot is out to

Init == holders = {}

Take(r) ==
    /\ r \notin holders
    /\ Cardinality(holders) < slots
    /\ holders' = holders \cup {r}

GiveBack(r) ==
    /\ r \in holders
    /\ holders' = holders \ {r}

HandOver(r, s) ==
    /\ r \in holders
    /\ s \notin holders
    /\ holders' = (holders \ {r}) \cup {s}

Next == \E r \in Request : Take(r) \/ GiveBack(r) \/ \E s \in Request : HandOver(r, s)

Spec == Init /\ [][Next]_holders
=============================================================================
