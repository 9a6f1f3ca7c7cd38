------------------------------ MODULE LeftFolds ------------------------------
(***************************************************************************)
(* The laws of FoldLeft that the proofs about parsers and sessions rest    *)
(* on. A module that folds with a step of its own instantiates this one    *)
(* with that step for Op.                                                  *)
(***************************************************************************)
EXTENDS SequencesExt, WellFoundedInduction, TLAPS

CONSTANT Op(_, _)  \* one step of the fold

Fold(base, s) == FoldLeft(Op, base, s)

-----------------------------------------------------------------------------
(* Induction without operator parameters.                                  *)

(* A set of naturals that is not empty has a least element. *)
LEMMA LeastNatural ==
    ASSUME NEW T, T \subseteq Nat, T # {}
    PROVE  \E m \in T : \A k \in T : m <= k
<1>1. PICK m \in T : \A k \in T : <<k, m>> \notin OpToRel(<, Nat)
    BY NatLessThanWellFounded, WFMin
<1>2. ASSUME NEW k \in T PROVE m <= k
    <2>1. <<k, m>> \in Nat \X Nat
        OBVIOUS
    <2>2. <<k, m>> \notin {pair \in Nat \X Nat : pair[1] < pair[2]}
        BY <1>1 DEF OpToRel
    <2>3. QED
        BY <2>1, <2>2
<1>3. QED
    BY <1>2

(* Induction over the naturals, for a set in place of a predicate. *)
LEMMA Induct ==
    ASSUME NEW T, 0 \in T, \A n \in Nat : n \in T => n + 1 \in T
    PROVE  \A n \in Nat : n \in T
<1>1. SUFFICES ASSUME Nat \ T # {} PROVE FALSE
    OBVIOUS
<1>2. PICK m \in Nat \ T : \A k \in Nat \ T : m <= k
    BY <1>1, LeastNatural
<1>3. m # 0 /\ m - 1 \in Nat /\ m - 1 \in T
    BY <1>2
<1>4. QED
    BY <1>3

-----------------------------------------------------------------------------

(* What one turn of the fold in MapThenFoldSet makes of the results `rest` *)
(* of smaller sets of indices.                                             *)
LastTurn(base, s, rest, set) ==
    IF set = {} THEN base ELSE Op(rest[set \ {Max(set)}], s[Max(set)])

(* The definition of FoldLeft, written out. *)
LEMMA FoldIsIteration ==
    ASSUME NEW base, NEW s
    PROVE  Fold(base, s) =
               (CHOOSE g : g = [set \in SUBSET (DOMAIN s) |-> LastTurn(base, s, g, set)])
                   [DOMAIN s]
BY DEF Fold, FoldLeft, MapThenFoldSet, LastTurn

(* A set of indices has a largest one. *)
LEMMA Largest ==
    ASSUME NEW n \in Nat, NEW set \in SUBSET (1..n), set # {}
    PROVE  /\ Max(set) \in set
           /\ \A i \in set : i <= Max(set)
<1> DEFINE T == {n - i : i \in set}
<1>1. T \subseteq Nat /\ T # {}
    <2>1. \A i \in set : i \in Nat /\ n - i \in Nat
        OBVIOUS
    <2>2. QED
        BY <2>1
<1>2. PICK m \in T : \A k \in T : m <= k
    BY <1>1, LeastNatural
<1>3. PICK x \in set : m = n - x
    BY <1>2
<1>4. ASSUME NEW i \in set PROVE x >= i
    <2>1. n - i \in T
        OBVIOUS
    <2>2. n - x <= n - i
        BY <1>2, <1>3, <2>1
    <2>3. x \in Int /\ i \in Int
        OBVIOUS
    <2> HIDE DEF T
    <2>4. QED
        BY <2>2, <2>3
<1>5. Max(set) \in set /\ \A i \in set : Max(set) >= i
    BY <1>4 DEF Max
<1>6. QED
    BY <1>5

(* There is a function of sets of indices that satisfies the equation of   *)
(* the fold.                                                               *)
LEMMA IterationExists ==
    ASSUME NEW base, NEW s, NEW n \in Nat
    PROVE  \E g : g = [set \in SUBSET (1..n) |-> LastTurn(base, s, g, set)]
<1> DEFINE Solves(g, k) == g = [set \in SUBSET (1..k) |-> LastTurn(base, s, g, set)]
           T == {k \in Nat : \E g : Solves(g, k)}
<1>1. 0 \in T
    <2>1. SUBSET (1..0) = {{}}
        OBVIOUS
    <2>2. Solves([set \in SUBSET (1..0) |-> base], 0)
        BY <2>1 DEF LastTurn
    <2>3. QED
        BY <2>2
<1>2. ASSUME NEW k \in Nat, k \in T PROVE k + 1 \in T
    <2>1. PICK g : Solves(g, k)
        BY <1>2
    <2> DEFINE h == [set \in SUBSET (1..(k + 1)) |-> LastTurn(base, s, g, set)]
    <2>2. ASSUME NEW set \in SUBSET (1..k) PROVE h[set] = g[set]
        BY <2>1
    <2>3. ASSUME NEW set \in SUBSET (1..(k + 1))
          PROVE  LastTurn(base, s, g, set) = LastTurn(base, s, h, set)
        <3>1. CASE set = {}
            BY <3>1 DEF LastTurn
        <3>2. CASE set # {}
            <4>1. set \ {Max(set)} \in SUBSET (1..k)
                <5>1. k + 1 \in Nat
                    OBVIOUS
                <5>2. Max(set) \in set /\ \A i \in set : i <= Max(set)
                    BY <3>2, <5>1, Largest
                <5>3. ASSUME NEW i \in set \ {Max(set)} PROVE i \in 1..k
                    <6>1. i \in 1..(k + 1) /\ Max(set) \in 1..(k + 1)
                        BY <5>2
                    <6>2. i <= Max(set) /\ i # Max(set)
                        BY <5>2
                    <6>3. QED
                        BY <6>1, <6>2
                <5>4. QED
                    BY <5>3
            <4>2. QED
                BY <2>2, <3>2, <4>1 DEF LastTurn
        <3>3. QED
            BY <3>1, <3>2
    <2>4. Solves(h, k + 1)
        BY <2>3
    <2> HIDE DEF Solves
    <2>5. QED
        BY <2>4
<1>3. n \in T
    <2> HIDE DEF T
    <2>1. QED
        BY <1>1, <1>2, Induct
<1>4. QED
    BY <1>3

(* The results `run` on the way through the first n elements.              *)
IsRun(run, base, s, n) ==
    /\ run[0] = base
    /\ \A k \in 1..n : run[k] = Op(run[k - 1], s[k])

(* A fold runs from its base through the elements of the sequence, in      *)
(* their order.                                                            *)
THEOREM FoldRuns ==
    ASSUME NEW base, NEW s, NEW n \in Nat, DOMAIN s = 1..n
    PROVE  \E run : IsRun(run, base, s, n) /\ Fold(base, s) = run[n]
<1> DEFINE Solves(g) == g = [set \in SUBSET (1..n) |-> LastTurn(base, s, g, set)]
           iter == CHOOSE g : Solves(g)
           run == [k \in 0..n |-> iter[1..k]]
<1>1. Solves(iter)
    <2>1. \E g : Solves(g)
        BY IterationExists
    <2>2. QED
        BY <2>1
<1>2. Fold(base, s) = iter[1..n]
    BY FoldIsIteration
<1> HIDE DEF iter
<1>3. run[0] = base
    <2>1. 1..0 = {}
        OBVIOUS
    <2>2. {} \in SUBSET (1..n)
        OBVIOUS
    <2>3. iter[{}] = LastTurn(base, s, iter, {})
        BY <1>1, <2>2
    <2>4. QED
        BY <2>1, <2>3 DEF LastTurn
<1>4. ASSUME NEW k \in 1..n PROVE run[k] = Op(run[k - 1], s[k])
    <2>1. /\ 1..k \in SUBSET (1..n)
          /\ k \in 1..k
          /\ (1..k) \ {k} = 1..(k - 1)
        OBVIOUS
    <2>2. k \in 0..n /\ k - 1 \in 0..n
        OBVIOUS
    <2>5. Max(1..k) = k
        <3>1. Max(1..k) \in 1..k /\ \A i \in 1..k : i <= Max(1..k)
            BY <2>1, Largest
        <3>2. QED
            BY <2>1, <3>1
    <2>3. iter[1..k] = LastTurn(base, s, iter, 1..k)
        BY <1>1, <2>1
    <2>6. iter[1..k] = Op(iter[1..(k - 1)], s[k])
        BY <2>1, <2>3, <2>5 DEF LastTurn
    <2>7. QED
        BY <2>2, <2>6
<1>5. Fold(base, s) = run[n]
    BY <1>2
<1> HIDE DEF run
<1>6. QED
    BY <1>3, <1>4, <1>5 DEF IsRun

(* What holds of the base at stage 0 and is carried by every step from one *)
(* stage to the next holds of the fold at the last one.                    *)
THEOREM FoldReaches ==
    ASSUME NEW base, NEW s, NEW n \in Nat, DOMAIN s = 1..n,
           NEW stage, base \in stage[0],
           \A k \in 1..n : \A a \in stage[k - 1] : Op(a, s[k]) \in stage[k]
    PROVE  Fold(base, s) \in stage[n]
<1>1. PICK run : IsRun(run, base, s, n) /\ Fold(base, s) = run[n]
    BY FoldRuns
<1> DEFINE T == {k \in Nat : k <= n => run[k] \in stage[k]}
<1>2. 0 \in T
    BY <1>1 DEF IsRun
<1>3. ASSUME NEW k \in Nat, k \in T PROVE k + 1 \in T
    <2>1. CASE k + 1 <= n
        <3>1. k + 1 \in 1..n /\ k + 1 - 1 = k
            BY <2>1
        <3>2. run[k] \in stage[k]
            BY <1>3, <2>1
        <3>3. run[k + 1] \in stage[k + 1]
            BY <1>1, <3>1, <3>2 DEF IsRun
        <3>4. QED
            BY <3>3
    <2>2. QED
        BY <2>1
<1>4. n \in T
    <2> HIDE DEF T
    <2>1. QED
        BY <1>2, <1>3, Induct
<1>5. QED
    BY <1>1, <1>4

(* Nothing to fold leaves the base. *)
THEOREM FoldOfNone ==
    ASSUME NEW base
    PROVE  Fold(base, <<>>) = base
<1>1. DOMAIN <<>> = 1..0
    OBVIOUS
<1>2. QED
    BY <1>1, FoldRuns DEF IsRun

(* Two sequences that agree on their first n elements: the fold over the   *)
(* longer one by one element takes one step more.                          *)
THEOREM FoldOfOneMore ==
    ASSUME NEW base, NEW s, NEW t, NEW n \in Nat,
           DOMAIN s = 1..n, DOMAIN t = 1..(n + 1),
           \A k \in 1..n : t[k] = s[k]
    PROVE  Fold(base, t) = Op(Fold(base, s), t[n + 1])
<1>1. PICK run : IsRun(run, base, s, n) /\ Fold(base, s) = run[n]
    BY FoldRuns
<1>n. n + 1 \in Nat
    OBVIOUS
<1>2. PICK more : IsRun(more, base, t, n + 1) /\ Fold(base, t) = more[n + 1]
    BY <1>n, FoldRuns
<1> DEFINE T == {k \in Nat : k <= n => run[k] = more[k]}
<1>3. 0 \in T
    BY <1>1, <1>2 DEF IsRun
<1>4. ASSUME NEW k \in Nat, k \in T PROVE k + 1 \in T
    <2>1. CASE k + 1 <= n
        <3>1. k + 1 \in 1..n /\ k + 1 \in 1..(n + 1) /\ k + 1 - 1 = k
            BY <2>1
        <3>2. run[k + 1] = more[k + 1]
            BY <1>1, <1>2, <1>4, <2>1, <3>1 DEF IsRun
        <3>3. QED
            BY <3>2
    <2>2. QED
        BY <2>1
<1>5. n \in T
    <2> HIDE DEF T
    <2>1. QED
        BY <1>3, <1>4, Induct
<1>6. n + 1 \in 1..(n + 1) /\ n + 1 - 1 = n
    OBVIOUS
<1>7. QED
    BY <1>1, <1>2, <1>5, <1>6 DEF IsRun

=============================================================================
