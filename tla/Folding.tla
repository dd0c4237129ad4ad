------------------------------ MODULE Folding ------------------------------
(***************************************************************************)
(* What a fold over a sequence does with one more element. The components  *)
(* that rebuild their state from a log are written with FoldLeft; their    *)
(* proofs instantiate this module with the operator they fold with.        *)
(*                                                                         *)
(* FoldLeft of the community modules picks a function that satisfies a     *)
(* recursive equation over the sets of positions. That there is one, and   *)
(* that it does not depend on what comes later in the sequence, is proved  *)
(* here by induction over the naturals.                                    *)
(***************************************************************************)
EXTENDS Integers, SequencesExt, WellFoundedInduction, TLAPS

CONSTANTS Op(_, _),  \* what is done with an element
          Base       \* where the fold begins

\* A set of naturals that is not empty has a least element.
LEMMA LeastNatural ==
    ASSUME NEW T, T \subseteq Nat, T # {}
    PROVE  \E x \in T : \A y \in T : x <= y
  <1>1. IsWellFoundedOn(OpToRel(<, Nat), Nat)
    BY NatLessThanWellFounded, Zenon
  <1>2. PICK x \in T : \A y \in T : ~ (<<y, x>> \in OpToRel(<, Nat))
    BY <1>1, WFMin, Zenon
  <1>3. \A y \in T : ~ (y < x)
    BY <1>2 DEF OpToRel
  <1> QED
    BY <1>3

\* Induction over the naturals, on a set instead of a predicate: an instance of
\* the library's theorem would have to substitute an operator.
LEMMA Induction ==
    ASSUME NEW T, 0 \in T, \A k \in Nat : k \in T => k + 1 \in T
    PROVE  Nat \subseteq T
  <1> SUFFICES ASSUME Nat \ T # {} PROVE FALSE
    OBVIOUS
  <1>1. PICK x \in Nat \ T : \A y \in Nat \ T : x <= y
    BY LeastNatural
  <1>2. x # 0 /\ x - 1 \in Nat
    BY <1>1
  <1>3. x - 1 \in T
    BY <1>1, <1>2
  <1>4. (x - 1) + 1 \in T
    BY <1>2, <1>3
  <1> QED
    BY <1>1, <1>2, <1>4

\* The equation of the fold over the positions up to k.
Folds(f, seq, k) ==
    f = [s \in SUBSET (1..k) |-> IF s = {} THEN Base ELSE Op(f[s \ {Max(s)}], seq[Max(s)])]

\* The last of some positions of a sequence.
LEMMA MaxOfPositions ==
    ASSUME NEW k \in Nat, NEW s \in SUBSET (1..k), s # {}
    PROVE  /\ Max(s) \in s
           /\ \A i \in s : i <= Max(s)
  <1> DEFINE T == {n \in Nat : \A i \in s : i <= n}
  <1>1. k \in T
    OBVIOUS
  <1>2. PICK m \in T : \A n \in T : m <= n
    <2> HIDE DEF T
    <2>1. T \subseteq Nat
      BY DEF T
    <2> QED
      BY <1>1, <2>1, LeastNatural
  <1>3. m \in s
    <2>1. SUFFICES ASSUME m \notin s PROVE FALSE
      OBVIOUS
    <2>2. m # 0
      <3>1. PICK i \in s : TRUE
        OBVIOUS
      <3>2. i \in 1..k /\ i <= m
        BY <3>1
      <3> QED
        BY <3>2
    <2>3. m - 1 \in T
      BY <1>2, <2>1, <2>2
    <2> QED
      BY <1>2, <2>3
  <1> QED
    BY <1>2, <1>3 DEF Max

\* The equation has a solution, so the one that FoldLeft chooses is one.
LEMMA FoldsExist ==
    ASSUME NEW seq
    PROVE  \A k \in Nat : \E f : Folds(f, seq, k)
  <1> DEFINE T == {k \in Nat : \E f : Folds(f, seq, k)}
  <1>1. 0 \in T
    <2>1. Folds([s \in SUBSET (1..0) |-> Base], seq, 0)
      BY DEF Folds
    <2> QED
      BY <2>1
  <1>2. ASSUME NEW k \in Nat, k \in T PROVE k + 1 \in T
    <2>1. PICK f : Folds(f, seq, k)
      BY <1>2
    <2> DEFINE g == [s \in SUBSET (1..(k + 1)) |->
                        IF k + 1 \in s THEN Op(f[s \ {k + 1}], seq[k + 1]) ELSE f[s]]
    <2>2. ASSUME NEW s \in SUBSET (1..(k + 1))
          PROVE  g[s] = IF s = {} THEN Base ELSE Op(g[s \ {Max(s)}], seq[Max(s)])
      <3>1. CASE k + 1 \in s
        <4>1. Max(s) = k + 1
          <5>1. Max(s) \in s /\ k + 1 <= Max(s)
            BY <3>1, MaxOfPositions, k + 1 \in Nat
          <5>2. Max(s) \in 1..(k + 1)
            BY <5>1
          <5> QED
            BY <5>1, <5>2
        <4>2. s \ {k + 1} \in SUBSET (1..(k + 1)) /\ k + 1 \notin s \ {k + 1}
          OBVIOUS
        <4> QED
          BY <3>1, <4>1, <4>2
      <3>2. CASE k + 1 \notin s /\ s # {}
        <4>1. s \in SUBSET (1..k) /\ Max(s) \in s
          BY <3>2, MaxOfPositions
        <4>2. f[s] = Op(f[s \ {Max(s)}], seq[Max(s)])
          BY <2>1, <3>2, <4>1 DEF Folds
        <4>3. s \ {Max(s)} \in SUBSET (1..(k+1)) /\ k + 1 \notin s \ {Max(s)}
          BY <3>2
        <4> QED
          BY <3>2, <4>2, <4>3
      <3>3. CASE s = {}
        <4>1. f[{}] = Base
          BY <2>1 DEF Folds
        <4> QED
          BY <3>3, <4>1
      <3> QED
        BY <3>1, <3>2, <3>3
    <2>3. Folds(g, seq, k + 1)
      BY <2>2 DEF Folds
    <2> QED
      BY <2>3
  <1> QED
    BY <1>1, <1>2, Induction

\* Solutions agree on the positions where their sequences agree.
LEMMA FoldsUnique ==
    ASSUME NEW seq, NEW e, NEW n \in Nat, NEW f, NEW g, NEW k \in Nat,
           Folds(f, seq, k), Folds(g, e, n), k <= n, \A i \in 1..k : seq[i] = e[i]
    PROVE  \A s \in SUBSET (1..k) : f[s] = g[s]
  <1> DEFINE T == {j \in Nat : \A s \in SUBSET (1..k) : s \subseteq 1..j => f[s] = g[s]}
  <1>0. \A s \in SUBSET (1..k) : s \in SUBSET (1..n)
    OBVIOUS
  <1>a. f[{}] = Base /\ g[{}] = Base
    BY DEF Folds
  <1>1. 0 \in T
    <2>1. \A s \in SUBSET (1..k) : s \subseteq 1..0 => s = {}
      OBVIOUS
    <2> QED
      BY <1>a, <2>1
  <1>2. ASSUME NEW j \in Nat, j \in T PROVE j + 1 \in T
    <2>1. SUFFICES ASSUME NEW s \in SUBSET (1..k), s \subseteq 1..(j + 1), s # {}
                   PROVE  f[s] = g[s]
      <3>1. j + 1 \in Nat
        OBVIOUS
      <3> QED
        BY <1>a, <3>1, Zenon
    <2>2. Max(s) \in s /\ \A i \in s : i <= Max(s)
      BY <2>1, MaxOfPositions
    <2>3. s \ {Max(s)} \subseteq 1..j /\ s \ {Max(s)} \in SUBSET (1..k)
      <3>1. Max(s) \in 1..(j + 1)
        BY <2>1, <2>2
      <3>2. ASSUME NEW i \in s, i # Max(s) PROVE i \in 1..j
        <4>1. i \in 1..(j + 1) /\ i <= Max(s)
          BY <2>1, <2>2
        <4> QED
          BY <3>1, <3>2, <4>1
      <3> QED
        BY <3>2
    <2>4. f[s \ {Max(s)}] = g[s \ {Max(s)}]
      BY <1>2, <2>3
    <2>5. f[s] = Op(f[s \ {Max(s)}], seq[Max(s)])
      BY <2>1 DEF Folds
    <2>6. g[s] = Op(g[s \ {Max(s)}], e[Max(s)])
      BY <2>1, <1>0 DEF Folds
    <2> QED
      BY <2>2, <2>4, <2>5, <2>6
  <1>3. Nat \subseteq T
    <2> HIDE DEF T
    <2> QED
      BY <1>1, <1>2, Induction
  <1> QED
    BY <1>3

\* What FoldLeft is, in terms of the equation.
LEMMA FoldLeftIs ==
    ASSUME NEW seq, NEW k \in Nat, DOMAIN seq = 1..k
    PROVE  \E f : Folds(f, seq, k) /\ FoldLeft(Op, Base, seq) = f[1..k]
  <1> DEFINE h == CHOOSE f : Folds(f, seq, k)
  <1>1. Folds(h, seq, k)
    BY FoldsExist
  <1>2. FoldLeft(Op, Base, seq) = h[1..k]
    BY DEF FoldLeft, MapThenFoldSet, Folds
  <1> QED
    BY <1>1, <1>2

\* A fold over nothing is its base.
THEOREM FoldLeftEmpty == FoldLeft(Op, Base, <<>>) = Base
  <1>1. PICK f : Folds(f, <<>>, 0) /\ FoldLeft(Op, Base, <<>>) = f[1..0]
    BY FoldLeftIs, DOMAIN <<>> = 1..0
  <1> QED
    BY <1>1 DEF Folds

\* A fold goes on with what is appended: the state that a restart rebuilds from
\* a log with one more event is one step from what it would have rebuilt before
\* (restoreFromEvents of approval/board.ts, the replays of tasks.ts and recover.ts).
THEOREM FoldLeftAppend ==
    ASSUME NEW S, NEW s \in Seq(S), NEW e \in S
    PROVE  FoldLeft(Op, Base, Append(s, e)) = Op(FoldLeft(Op, Base, s), e)
  <1> DEFINE k == Len(s)
             t == Append(s, e)
  <1>1. /\ k \in Nat /\ DOMAIN s = 1..k /\ DOMAIN t = 1..(k + 1)
        /\ t[k + 1] = e /\ \A i \in 1..k : s[i] = t[i]
    OBVIOUS
  <1>2. PICK f : Folds(f, s, k) /\ FoldLeft(Op, Base, s) = f[1..k]
    BY <1>1, FoldLeftIs
  <1>3. PICK g : Folds(g, t, k + 1) /\ FoldLeft(Op, Base, t) = g[1..(k + 1)]
    BY <1>1, FoldLeftIs, k + 1 \in Nat
  <1>4. f[1..k] = g[1..k]
    <2> HIDE DEF k, t
    <2> QED
      BY <1>1, <1>2, <1>3, FoldsUnique, k <= k + 1, k + 1 \in Nat
  <1>5. Max(1..(k + 1)) = k + 1
    <2>1. 1..(k + 1) # {} /\ k + 1 \in 1..(k + 1)
      BY <1>1
    <2>2. Max(1..(k + 1)) \in 1..(k + 1) /\ k + 1 <= Max(1..(k + 1))
      BY <1>1, <2>1, MaxOfPositions, k + 1 \in Nat
    <2> QED
      BY <1>1, <2>2
  <1>6. g[1..(k + 1)] = Op(g[(1..(k + 1)) \ {k + 1}], t[k + 1])
    <2>1. 1..(k + 1) # {} /\ 1..(k + 1) \in SUBSET (1..(k + 1))
      <3>1. k + 1 \in 1..(k + 1)
        BY <1>1
      <3> QED
        BY <3>1
    <2> HIDE DEF k, t
    <2> QED
      BY <1>3, <1>5, <2>1 DEF Folds
  <1>7. (1..(k + 1)) \ {k + 1} = 1..k
    BY <1>1
  <1> QED
    BY <1>1, <1>2, <1>3, <1>4, <1>6, <1>7

\* A fold stays in a set that holds its base and that no element leads out of.
THEOREM FoldLeftStays ==
    ASSUME NEW S, NEW seq \in Seq(S), NEW A, Base \in A, \A a \in A, e \in S : Op(a, e) \in A
    PROVE  FoldLeft(Op, Base, seq) \in A
  <1> DEFINE k == Len(seq)
  <1>1. k \in Nat /\ DOMAIN seq = 1..k /\ \A i \in 1..k : seq[i] \in S
    OBVIOUS
  <1> HIDE DEF k
  <1>2. PICK f : Folds(f, seq, k) /\ FoldLeft(Op, Base, seq) = f[1..k]
    BY <1>1, FoldLeftIs
  <1> DEFINE T == {j \in Nat : \A s \in SUBSET (1..k) : s \subseteq 1..j => f[s] \in A}
  <1>3. 0 \in T
    <2>1. \A s \in SUBSET (1..k) : s \subseteq 1..0 => s = {}
      OBVIOUS
    <2>2. f[{}] = Base
      BY <1>2 DEF Folds
    <2> QED
      BY <2>1, <2>2
  <1>4. ASSUME NEW j \in Nat, j \in T PROVE j + 1 \in T
    <2>1. SUFFICES ASSUME NEW s \in SUBSET (1..k), s \subseteq 1..(j + 1), s # {}
                   PROVE  f[s] \in A
      <3>1. f[{}] = Base
        BY <1>2 DEF Folds
      <3>2. j + 1 \in Nat
        OBVIOUS
      <3> QED
        BY <3>1, <3>2, Zenon
    <2>2. Max(s) \in s /\ \A i \in s : i <= Max(s)
      BY <1>1, <2>1, MaxOfPositions
    <2>3. s \ {Max(s)} \subseteq 1..j /\ s \ {Max(s)} \in SUBSET (1..k)
      <3>1. Max(s) \in 1..(j + 1)
        BY <2>1, <2>2
      <3>2. ASSUME NEW i \in s, i # Max(s) PROVE i \in 1..j
        <4>1. i \in 1..(j + 1) /\ i <= Max(s)
          BY <2>1, <2>2
        <4> QED
          BY <3>1, <3>2, <4>1
      <3> QED
        BY <3>2
    <2>4. f[s \ {Max(s)}] \in A
      BY <1>4, <2>3
    <2>5. f[s] = Op(f[s \ {Max(s)}], seq[Max(s)])
      BY <1>2, <2>1 DEF Folds
    <2>6. seq[Max(s)] \in S
      BY <1>1, <2>1, <2>2
    <2> QED
      BY <2>4, <2>5, <2>6
  <1>5. Nat \subseteq T
    <2> HIDE DEF T
    <2> QED
      BY <1>3, <1>4, Induction
  <1> QED
    BY <1>1, <1>2, <1>5
=============================================================================
