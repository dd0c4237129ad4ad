---------------------------- MODULE AbstractLog ----------------------------
(***************************************************************************)
(* What the event log promises its users: a sequence that only grows at    *)
(* its end, of which a crash may take a suffix nobody has been told of.    *)
(* EventLog implements it.                                                 *)
(***************************************************************************)
EXTENDS Naturals, Sequences

CONSTANT Event

VARIABLES log,   \* the events a reader of the log finds, in order
          told   \* the events whose caller knows they are kept

Init == log = <<>> /\ told = {}

Add(e) ==
    /\ log' = Append(log, e)
    /\ told' = told

Tell(e) ==
    /\ \E i \in 1..Len(log) : log[i] = e
    /\ told' = told \cup {e}
    /\ log' = log

\* A crash keeps the first k events, the ones somebody was told of among them.
Lose(k) ==
    /\ \A e \in told : \E i \in 1..k : log[i] = e
    /\ log' = SubSeq(log, 1, k)
    /\ told' = told

Next ==
    \/ \E e \in Event : Add(e) \/ Tell(e)
    \/ \E k \in 0..Len(log) : Lose(k)

Spec == Init /\ [][Next]_<<log, told>>
=============================================================================
