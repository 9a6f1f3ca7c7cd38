------------------------ MODULE SourceRegistry_proofs ------------------------
(***************************************************************************)
(* Proofs about SourceRegistry for any set of ids and tabs, any budget and *)
(* any bound. How many bytes the entries come to (Total) is not used until *)
(* the last part: to the rest, a charge may unload any set of evictable    *)
(* uploads and end either way.                                             *)
(***************************************************************************)
EXTENDS SourceRegistry, FiniteSetTheorems, TLAPS

Counting == INSTANCE LeftFolds WITH Op <- +

-----------------------------------------------------------------------------
(* The laws of a finite sum, which the last part rests on.                 *)

Sum(f, S) == MapThenSumSet(LAMBDA x : f[x], S)

(* What one turn of the fold in MapThenSumSet makes of the sums `rest` of  *)
(* smaller sets.                                                           *)
Turn(f, rest, s) ==
    IF s = {} THEN 0
    ELSE f[CHOOSE x \in s : TRUE] + rest[s \ {CHOOSE x \in s : TRUE}]

(* The definition of Sum, written out. *)
LEMMA SumIsFold ==
    ASSUME NEW f, NEW S
    PROVE  Sum(f, S) = (CHOOSE g : g = [s \in SUBSET S |-> Turn(f, g, s)])[S]
BY DEF Sum, MapThenSumSet, MapThenFoldSet, Turn

(* There is a function of the subsets of a finite set that satisfies the   *)
(* equation of the fold.                                                   *)
LEMMA FoldExists ==
    ASSUME NEW f, NEW S, IsFiniteSet(S), \A x \in S : f[x] \in Nat
    PROVE  \E g \in [SUBSET S -> Nat] : g = [s \in SUBSET S |-> Turn(f, g, s)]
<1> DEFINE Small(n) == {s \in SUBSET S : Cardinality(s) <= n}
           T == {n \in Nat : \E g \in [Small(n) -> Nat] :
                                 \A s \in Small(n) : g[s] = Turn(f, g, s)}
<1>0. \A s \in SUBSET S : IsFiniteSet(s) /\ Cardinality(s) \in Nat
    BY FS_Subset, FS_CardinalityType
<1>1. \A s \in SUBSET S, n \in Nat :
          s # {} /\ Cardinality(s) <= n + 1 =>
              /\ (CHOOSE x \in s : TRUE) \in s
              /\ s \ {CHOOSE x \in s : TRUE} \in Small(n)
    <2> SUFFICES ASSUME NEW s \in SUBSET S, NEW n \in Nat, s # {}, Cardinality(s) <= n + 1
                 PROVE  /\ (CHOOSE x \in s : TRUE) \in s
                        /\ s \ {CHOOSE x \in s : TRUE} \in Small(n)
        OBVIOUS
    <2>1. PICK c \in s : c = CHOOSE x \in s : TRUE
        OBVIOUS
    <2>2. Cardinality(s \ {c}) = Cardinality(s) - 1
        BY <1>0, FS_RemoveElement
    <2>3. s \ {c} \in Small(n)
        BY <1>0, <2>2
    <2>4. QED
        BY <2>1, <2>3
<1>2. 0 \in T
    <2>1. Small(0) = {{}}
        BY <1>0, FS_EmptySet
    <2>2. /\ [s \in Small(0) |-> 0] \in [Small(0) -> Nat]
          /\ \A s \in Small(0) :
                 [r \in Small(0) |-> 0][s] = Turn(f, [r \in Small(0) |-> 0], s)
        BY <2>1 DEF Turn
    <2>3. QED
        BY <2>2
<1>3. ASSUME NEW n \in Nat, n \in T PROVE n + 1 \in T
    <2>1. PICK g \in [Small(n) -> Nat] : \A s \in Small(n) : g[s] = Turn(f, g, s)
        BY <1>3
    <2> DEFINE h == [s \in Small(n + 1) |-> Turn(f, g, s)]
    <2>2. h \in [Small(n + 1) -> Nat]
        BY <1>1 DEF Turn
    <2>3. \A s \in Small(n) : h[s] = g[s]
        BY <1>0, <2>1
    <2>4. ASSUME NEW s \in Small(n + 1) PROVE h[s] = Turn(f, h, s)
        <3> DEFINE c == CHOOSE x \in s : TRUE
        <3>1. s = {} \/ s \ {c} \in Small(n)
            BY <1>1
        <3>2. s = {} \/ h[s \ {c}] = g[s \ {c}]
            BY <2>3, <3>1
        <3>3. Turn(f, g, s) = Turn(f, h, s)
            BY <3>2 DEF Turn
        <3>4. QED
            BY <3>3
    <2>5. n + 1 \in Nat
        OBVIOUS
    <2> HIDE DEF h
    <2>6. \E e \in [Small(n + 1) -> Nat] : \A s \in Small(n + 1) : e[s] = Turn(f, e, s)
        BY <2>2, <2>4
    <2>7. QED
        BY <2>5, <2>6
<1>4. Cardinality(S) \in T
    <2> HIDE DEF T
    <2>1. QED
        BY <1>0, <1>2, <1>3, Counting!Induct
<1>5. Small(Cardinality(S)) = SUBSET S
    BY FS_Subset
<1>6. PICK g \in [SUBSET S -> Nat] : \A s \in SUBSET S : g[s] = Turn(f, g, s)
    BY <1>4, <1>5
<1>7. QED
    BY <1>6

(* A function that satisfies the equation of the fold. *)
IsFold(f, g, S) == g = [s \in SUBSET S |-> Turn(f, g, s)]

(* The equation has one solution, whatever set it is solved for. *)
LEMMA FoldUnique ==
    ASSUME NEW f, NEW S, NEW R, IsFiniteSet(S), R \subseteq S,
           NEW g, NEW h, IsFold(f, g, S), IsFold(f, h, R)
    PROVE  \A s \in SUBSET R : g[s] = h[s]
<1> DEFINE T == {n \in Nat : \A s \in SUBSET R : Cardinality(s) <= n => g[s] = h[s]}
<1>0. \A s \in SUBSET R : IsFiniteSet(s) /\ Cardinality(s) \in Nat
    BY FS_Subset, FS_CardinalityType
<1>1. \A s \in SUBSET R : g[s] = Turn(f, g, s) /\ h[s] = Turn(f, h, s)
    BY DEF IsFold
<1>2. 0 \in T
    <2>1. ASSUME NEW s \in SUBSET R, Cardinality(s) <= 0 PROVE g[s] = h[s]
        <3>1. s = {}
            BY <1>0, <2>1, FS_EmptySet
        <3>2. QED
            BY <1>1, <3>1 DEF Turn
    <2>2. QED
        BY <2>1
<1>3. ASSUME NEW n \in Nat, n \in T PROVE n + 1 \in T
    <2>1. ASSUME NEW s \in SUBSET R, Cardinality(s) <= n + 1 PROVE g[s] = h[s]
        <3>1. CASE s = {}
            BY <1>1, <3>1 DEF Turn
        <3>2. CASE s # {}
            <4> DEFINE c == CHOOSE x \in s : TRUE
            <4>1. c \in s
                BY <3>2
            <4> HIDE DEF c
            <4>2. Cardinality(s \ {c}) = Cardinality(s) - 1
                BY <1>0, <4>1, FS_RemoveElement
            <4>3. Cardinality(s \ {c}) <= n /\ s \ {c} \in SUBSET R
                BY <1>0, <2>1, <4>2
            <4>4. g[s \ {c}] = h[s \ {c}]
                BY <1>3, <4>3
            <4>5. g[s] = f[c] + g[s \ {c}] /\ h[s] = f[c] + h[s \ {c}]
                BY <1>1, <3>2 DEF Turn, c
            <4>6. QED
                BY <4>4, <4>5
        <3>3. QED
            BY <3>1, <3>2
    <2>2. QED
        BY <2>1
<1>4. \A n \in Nat : n \in T
    <2> HIDE DEF T
    <2>1. QED
        BY <1>2, <1>3, Counting!Induct
<1>5. QED
    BY <1>0, <1>4

(* The sum of a set that is not empty is one of its values and the sum of  *)
(* the others.                                                             *)
LEMMA SumTurn ==
    ASSUME NEW f, NEW S, IsFiniteSet(S), \A x \in S : f[x] \in Nat
    PROVE  /\ Sum(f, {}) = 0
           /\ S # {} => \E c \in S : Sum(f, S) = f[c] + Sum(f, S \ {c})
<1> DEFINE Fold(R) == CHOOSE g : IsFold(f, g, R)
<1>1. ASSUME NEW R \in SUBSET S
      PROVE  IsFold(f, Fold(R), R) /\ Sum(f, R) = Fold(R)[R]
    <2>1. IsFiniteSet(R) /\ \A x \in R : f[x] \in Nat
        BY FS_Subset
    <2>2. PICK g \in [SUBSET R -> Nat] : g = [s \in SUBSET R |-> Turn(f, g, s)]
        BY <2>1, FoldExists, Zenon
    <2>3. Sum(f, R) = Fold(R)[R]
        BY SumIsFold DEF IsFold
    <2>4. QED
        BY <2>2, <2>3 DEF IsFold
<1> HIDE DEF Fold
<1>2. Sum(f, {}) = 0
    <2>1. Fold({})[{}] = Turn(f, Fold({}), {})
        BY <1>1 DEF IsFold
    <2>2. QED
        BY <1>1, <2>1 DEF Turn
<1>3. ASSUME S # {} PROVE \E c \in S : Sum(f, S) = f[c] + Sum(f, S \ {c})
    <2> DEFINE c == CHOOSE x \in S : TRUE
    <2>1. c \in S
        BY <1>3
    <2>2. Fold(S)[S] = Turn(f, Fold(S), S)
        BY <1>1 DEF IsFold
    <2>3. Fold(S)[S] = f[c] + Fold(S)[S \ {c}]
        BY <1>3, <2>2 DEF Turn
    <2> HIDE DEF c
    <2>4. Fold(S)[S \ {c}] = Fold(S \ {c})[S \ {c}]
        BY <1>1, FoldUnique
    <2>5. Sum(f, S) = Fold(S)[S] /\ Sum(f, S \ {c}) = Fold(S \ {c})[S \ {c}]
        BY <1>1
    <2>6. Sum(f, S) = f[c] + Sum(f, S \ {c})
        BY <2>3, <2>4, <2>5
    <2>7. QED
        BY <2>1, <2>6
<1>4. QED
    BY <1>2, <1>3

(* Sums are naturals, and any value may be split off first.                *)
LEMMA SumRemove ==
    ASSUME NEW f, NEW S, IsFiniteSet(S), \A x \in S : f[x] \in Nat
    PROVE  /\ Sum(f, S) \in Nat
           /\ \A x \in S : Sum(f, S) = f[x] + Sum(f, S \ {x})
<1> DEFINE Law(R) == /\ Sum(f, R) \in Nat
                     /\ \A x \in R : Sum(f, R) = f[x] + Sum(f, R \ {x})
           T == {n \in Nat : \A R \in SUBSET S : Cardinality(R) <= n => Law(R)}
<1>0. \A R \in SUBSET S : IsFiniteSet(R) /\ Cardinality(R) \in Nat
    BY FS_Subset, FS_CardinalityType
<1>1. 0 \in T
    <2>1. ASSUME NEW R \in SUBSET S, Cardinality(R) <= 0 PROVE Law(R)
        <3>1. R = {}
            BY <1>0, <2>1, FS_EmptySet
        <3>2. QED
            BY <3>1, SumTurn, FS_EmptySet
    <2>2. QED
        BY <2>1
<1>2. ASSUME NEW n \in Nat, n \in T PROVE n + 1 \in T
    <2>1. ASSUME NEW R \in SUBSET S, Cardinality(R) <= n + 1 PROVE Law(R)
        <3>1. CASE R = {}
            BY <3>1, SumTurn, FS_EmptySet
        <3>2. CASE R # {}
            <4>1. PICK c \in R : Sum(f, R) = f[c] + Sum(f, R \ {c})
                BY <1>0, <3>2, SumTurn
            <4>2. \A x \in R : /\ R \ {x} \in SUBSET S
                               /\ Cardinality(R \ {x}) <= n
                BY <1>0, <2>1, FS_RemoveElement
            <4>3. \A x \in R : Law(R \ {x})
                BY <1>2, <4>2
            <4>4. Sum(f, R) \in Nat
                <5>1. Sum(f, R \ {c}) \in Nat /\ f[c] \in Nat
                    BY <4>3
                <5>2. QED
                    BY <4>1, <5>1
            <4>5. ASSUME NEW x \in R PROVE Sum(f, R) = f[x] + Sum(f, R \ {x})
                <5>1. CASE x = c
                    BY <4>1, <5>1
                <5>2. CASE x # c
                    <6>1. Sum(f, R \ {c}) = f[x] + Sum(f, (R \ {c}) \ {x})
                        BY <4>3, <5>2
                    <6>2. Sum(f, R \ {x}) = f[c] + Sum(f, (R \ {x}) \ {c})
                        BY <4>3, <5>2
                    <6>3. (R \ {c}) \ {x} = (R \ {x}) \ {c}
                        OBVIOUS
                    <6>4. Sum(f, (R \ {c}) \ {x}) \in Nat
                        <7>1. /\ (R \ {c}) \ {x} \in SUBSET (R \ {c})
                              /\ IsFiniteSet(R \ {c})
                              /\ Cardinality(R \ {c}) <= n
                              /\ R \ {c} \in SUBSET S
                            BY <1>0, <4>2
                        <7>2. /\ (R \ {c}) \ {x} \in SUBSET S
                              /\ Cardinality((R \ {c}) \ {x}) <= Cardinality(R \ {c})
                            BY <7>1, FS_Subset
                        <7>3. Cardinality((R \ {c}) \ {x}) <= n
                            BY <1>0, <7>1, <7>2
                        <7>4. QED
                            BY <1>2, <7>2, <7>3
                    <6> HIDE DEF Law
                    <6>5. QED
                        BY <4>1, <6>1, <6>2, <6>3, <6>4
                <5>3. QED
                    BY <5>1, <5>2
            <4>6. QED
                BY <4>4, <4>5
        <3>3. QED
            BY <3>1, <3>2
    <2>2. QED
        BY <2>1
<1>3. \A n \in Nat : n \in T
    <2> HIDE DEF T
    <2>1. QED
        BY <1>1, <1>2, Counting!Induct
<1>4. Law(S)
    BY <1>0, <1>3
<1>5. QED
    BY <1>4

(* A sum sees no more of its function than the values it adds up.          *)
LEMMA SumSame ==
    ASSUME NEW f, NEW g, NEW S, \A x \in S : f[x] = g[x]
    PROVE  Sum(f, S) = Sum(g, S)
<1>1. ASSUME NEW h, NEW s \in SUBSET S PROVE Turn(f, h, s) = Turn(g, h, s)
    <2>1. CASE s = {}
        BY <2>1 DEF Turn
    <2>2. CASE s # {}
        <3>1. (CHOOSE x \in s : TRUE) \in S
            BY <2>2
        <3>2. QED
            BY <3>1 DEF Turn
    <2>3. QED
        BY <2>1, <2>2
<1>2. \A h : [s \in SUBSET S |-> Turn(f, h, s)] = [s \in SUBSET S |-> Turn(g, h, s)]
    BY <1>1
<1>3. (CHOOSE h : h = [s \in SUBSET S |-> Turn(f, h, s)])
          = (CHOOSE h : h = [s \in SUBSET S |-> Turn(g, h, s)])
    BY <1>2
<1>4. QED
    BY <1>3, SumIsFold

(* Zeros add nothing, and fewer naturals come to no more. *)
LEMMA SumMonotone ==
    ASSUME NEW f, NEW S, IsFiniteSet(S), \A x \in S : f[x] \in Nat,
           NEW R \in SUBSET S
    PROVE  /\ Sum(f, R) <= Sum(f, S)
           /\ (\A x \in S \ R : f[x] = 0) => Sum(f, R) = Sum(f, S)
<1> DEFINE Law(Q) == /\ Sum(f, R) <= Sum(f, Q)
                     /\ (\A x \in Q \ R : f[x] = 0) => Sum(f, R) = Sum(f, Q)
           T == {n \in Nat : \A Q \in SUBSET S :
                     R \subseteq Q /\ Cardinality(Q) <= n => Law(Q)}
<1>0. \A Q \in SUBSET S : /\ IsFiniteSet(Q) /\ Cardinality(Q) \in Nat
                          /\ Sum(f, Q) \in Nat
    BY FS_Subset, FS_CardinalityType, SumRemove
<1>1. 0 \in T
    <2>1. ASSUME NEW Q \in SUBSET S, R \subseteq Q, Cardinality(Q) <= 0
          PROVE  Law(Q)
        <3>1. Q = {} /\ R = {}
            BY <1>0, <2>1, FS_EmptySet
        <3>2. QED
            BY <1>0, <3>1
    <2>2. QED
        BY <2>1
<1>2. ASSUME NEW n \in Nat, n \in T PROVE n + 1 \in T
    <2>1. ASSUME NEW Q \in SUBSET S, R \subseteq Q, Cardinality(Q) <= n + 1
          PROVE  Law(Q)
        <3>1. CASE R = Q
            BY <1>0, <3>1
        <3>2. CASE R # Q
            <4>1. PICK x \in Q : x \notin R
                BY <2>1, <3>2
            <4>2. Q \ {x} \in SUBSET S /\ R \subseteq Q \ {x} /\ Cardinality(Q \ {x}) <= n
                BY <1>0, <2>1, <4>1, FS_RemoveElement
            <4>3. Law(Q \ {x})
                BY <1>2, <4>2
            <4>4. Sum(f, Q) = f[x] + Sum(f, Q \ {x})
                BY <1>0, <2>1, SumRemove
            <4>5. f[x] \in Nat /\ Sum(f, Q \ {x}) \in Nat /\ Sum(f, R) \in Nat
                BY <1>0, <4>2
            <4>6. QED
                BY <4>1, <4>3, <4>4, <4>5
        <3>3. QED
            BY <3>1, <3>2
    <2>2. QED
        BY <2>1
<1>3. \A n \in Nat : n \in T
    <2> HIDE DEF T
    <2>1. QED
        BY <1>1, <1>2, Counting!Induct
<1>4. QED
    BY <1>0, <1>3

-----------------------------------------------------------------------------
(* Type correctness.                                                       *)

(* What Registry::remove leaves is well typed. *)
LEMMA RemoveType ==
    ASSUME TypeOK, NEW V \in SUBSET Source, NEW reason \in Reasons,
           NEW booked \in [Source -> Nat],
           NEW orphaned \in [Source -> Nat \union {None}],
           Remove(V, reason, booked, orphaned)
    PROVE  /\ sources' \subseteq Source
           /\ gone' \in [Source -> Reasons \union {None}]
           /\ retained' \in [Source -> Nat]
           /\ tabs' \in [Source -> Nat]
           /\ orphaned_since' \in [Source -> Nat \union {None}]
           /\ closed' \in [Source -> Reasons \union {None}]
           /\ held' \in [Source -> 0..MaxHeld]
           /\ finished' \in [Source -> BOOLEAN]
<1>1. 0 \in 0..MaxHeld
    BY RegistryAssumption
<1>2. sources' \subseteq Source
    BY DEF TypeOK, Remove
<1>3. /\ gone' \in [Source -> Reasons \union {None}]
      /\ closed' \in [Source -> Reasons \union {None}]
    BY DEF TypeOK, Remove
<1>4. retained' \in [Source -> Nat] /\ tabs' \in [Source -> Nat]
    BY DEF TypeOK, Remove
<1>5. orphaned_since' \in [Source -> Nat \union {None}]
    BY DEF Remove
<1>6. held' \in [Source -> 0..MaxHeld]
    BY <1>1 DEF TypeOK, Remove
<1>7. finished' \in [Source -> BOOLEAN]
    BY DEF TypeOK, Remove
<1>8. QED
    BY <1>2, <1>3, <1>4, <1>5, <1>6, <1>7

(* Registry::charge, whatever it unloads and however it ends. *)
LEMMA ChargeType ==
    ASSUME TypeOK, NEW s \in Source, NEW fits \in ReaderState,
           NEW full \in ReaderState,
           NEW orphaned \in [Source -> Nat \union {None}],
           Charge(s, fits, orphaned, full)
    PROVE  TypeOK'
<1> DEFINE booked == Recorded(s, measured[s])
<1>1. booked \in [Source -> Nat]
    BY DEF TypeOK, Recorded
<1>2. PICK V \in SUBSET Evictable(s) :
        /\ \/ /\ Remove(V, "budget", booked, orphaned)
              /\ pc' = [pc EXCEPT ![s] = fits]
           \/ /\ Remove(V, "budget", booked, orphaned_since)
              /\ pc' = [pc EXCEPT ![s] = full]
        /\ measured' = [measured EXCEPT ![s] = 0]
        /\ UNCHANGED <<error, tabVars, now>>
    BY DEF Charge
<1>3. V \in SUBSET Source
    BY DEF Evictable, Source
<1>4. "budget" \in Reasons /\ 0 \in 0..MaxHeld
    BY RegistryAssumption DEF Reasons
<1>5. orphaned_since \in [Source -> Nat \union {None}]
    BY DEF TypeOK
<1> HIDE DEF booked
<1>6. /\ sources' \subseteq Source
      /\ gone' \in [Source -> Reasons \union {None}]
      /\ retained' \in [Source -> Nat]
      /\ tabs' \in [Source -> Nat]
      /\ orphaned_since' \in [Source -> Nat \union {None}]
      /\ closed' \in [Source -> Reasons \union {None}]
      /\ held' \in [Source -> 0..MaxHeld]
      /\ finished' \in [Source -> BOOLEAN]
    BY <1>1, <1>2, <1>3, <1>4, <1>5, RemoveType
<1>7. QED
    BY <1>2, <1>4, <1>6, ZenonT(60) DEF TypeOK, tabVars


(* A reader feeding or finishing its session, with sizes within the bound. *)
LEMMA FeedType ==
    ASSUME TypeOK, NEW s \in Source, NEW sizes \in SUBSET (0..MaxHeld),
           NEW ends \in BOOLEAN, NEW next \in ReaderState,
           Feed(s, sizes, ends, next)
    PROVE  /\ held' \in [Source -> 0..MaxHeld]
           /\ measured' \in [Source -> 0..MaxHeld]
           /\ finished' \in [Source -> BOOLEAN]
           /\ pc' \in [Source -> ReaderState]
<1>1. held' \in [Source -> 0..MaxHeld] /\ measured' \in [Source -> 0..MaxHeld]
    BY DEF TypeOK, Feed
<1>2. finished' \in [Source -> BOOLEAN]
    BY DEF TypeOK, Feed
<1>3. pc' \in [Source -> ReaderState]
    BY DEF TypeOK, Feed
<1>4. QED
    BY <1>1, <1>2, <1>3

(* The sizes the sessions may come to are within the bound. *)
LEMMA SizesType ==
    ASSUME TypeOK, NEW s \in Source
    PROVE  /\ AfterIngest(s) \in SUBSET (0..MaxHeld)
           /\ AfterFinish(s) \in SUBSET (0..MaxHeld)
           /\ AfterReparse(s) \in SUBSET (0..MaxHeld)
<1>1. held[s] \in 0..MaxHeld /\ MaxHeld \in Nat
    BY RegistryAssumption DEF TypeOK
<1>2. QED
    BY <1>1 DEF AfterIngest, AfterFinish, AfterReparse

(* TypeOK alone is not inductive: a set_format in progress measures the    *)
(* source that its connection shows, so there must be one.                 *)
LEMMA NextType == TypeOK /\ ConnOK /\ [Next]_vars => TypeOK'
<1> SUFFICES ASSUME TypeOK, ConnOK, [Next]_vars PROVE TypeOK'
    OBVIOUS
<1>0. /\ Argv \subseteq Source /\ Stdin \subseteq Source /\ Upload \subseteq Source
      /\ MaxHeld \in Nat /\ MaxTime \in Nat
      /\ 0 \in 0..MaxHeld
    BY RegistryAssumption DEF Source
<1>a. ASSUME NEW s \in Source, NEW next \in ReaderState, Goto(s, next)
      PROVE  TypeOK'
    BY <1>a DEF TypeOK, Goto, registryVars, sourceVars, tabVars
<1>1. ASSUME NEW s \in Source, ArgvRead(s) PROVE TypeOK'
    <2>1. /\ held' \in [Source -> 0..MaxHeld]
          /\ measured' \in [Source -> 0..MaxHeld]
          /\ finished' \in [Source -> BOOLEAN]
          /\ pc' \in [Source -> ReaderState]
        BY <1>1, FeedType, SizesType DEF ArgvRead, ReaderState
    <2>2. error' \in [Source -> BOOLEAN]
        BY <1>1 DEF ArgvRead, TypeOK
    <2>3. QED
        BY <1>1, <2>1, <2>2 DEF ArgvRead, TypeOK, registryVars, tabVars
<1>2. ASSUME NEW s \in Source, ArgvStop(s) PROVE TypeOK'
    BY <1>2, <1>a DEF ArgvStop, ReaderState
<1>3. ASSUME NEW s \in Source, ArgvCharge(s) PROVE TypeOK'
    BY <1>3, ChargeType DEF ArgvCharge, ReaderState, TypeOK
<1>4. ASSUME NEW s \in Source, ArgvSettle(s) PROVE TypeOK'
    BY <1>4, <1>a DEF ArgvSettle, ReaderState
<1>5. ASSUME NEW s \in Source, ArgvGiveUp(s) PROVE TypeOK'
    <2>1. held' \in [Source -> 0..MaxHeld]
        BY <1>5, SizesType DEF ArgvGiveUp, TypeOK
    <2>2. /\ error' \in [Source -> BOOLEAN]
          /\ finished' \in [Source -> BOOLEAN]
          /\ pc' \in [Source -> ReaderState]
        BY <1>5 DEF ArgvGiveUp, TypeOK, ReaderState
    <2>3. QED
        BY <1>5, <2>1, <2>2 DEF ArgvGiveUp, TypeOK, registryVars, tabVars
<1>6. ASSUME NEW s \in Source, StdinRead(s) PROVE TypeOK'
    <2>1. /\ held' \in [Source -> 0..MaxHeld]
          /\ measured' \in [Source -> 0..MaxHeld]
          /\ finished' \in [Source -> BOOLEAN]
          /\ pc' \in [Source -> ReaderState]
        BY <1>6, FeedType, SizesType DEF StdinRead, ReaderState
    <2>2. QED
        BY <1>6, <2>1 DEF StdinRead, TypeOK, registryVars, tabVars
<1>7. ASSUME NEW s \in Source, StdinRecord(s) PROVE TypeOK'
    <2>1. retained' \in [Source -> Nat]
        BY <1>7 DEF StdinRecord, Recorded, TypeOK
    <2>2. pc' \in [Source -> ReaderState] /\ measured' \in [Source -> 0..MaxHeld]
        BY <1>0, <1>7 DEF StdinRecord, TypeOK, ReaderState
    <2>3. QED
        BY <1>7, <2>1, <2>2 DEF StdinRecord, TypeOK, sourceVars, tabVars
<1>8. ASSUME NEW s \in Source, DetectionHold(s) PROVE TypeOK'
    <2>1. held' \in [Source -> 0..MaxHeld]
        BY <1>8, SizesType DEF DetectionHold, TypeOK
    <2>2. QED
        BY <1>8, <2>1 DEF DetectionHold, TypeOK, registryVars, readerVars, tabVars
<1>9. ASSUME NEW s \in Source, UploadBegin(s) PROVE TypeOK'
    BY <1>9 DEF UploadBegin, TypeOK, ReaderState, sourceVars, tabVars
<1>10. ASSUME NEW s \in Source, UploadChunk(s) PROVE TypeOK'
    <2>1. /\ held' \in [Source -> 0..MaxHeld]
          /\ measured' \in [Source -> 0..MaxHeld]
          /\ finished' \in [Source -> BOOLEAN]
          /\ pc' \in [Source -> ReaderState]
        BY <1>10, FeedType, SizesType DEF UploadChunk, ReaderState
    <2>2. QED
        BY <1>10, <2>1 DEF UploadChunk, TypeOK, registryVars, tabVars
<1>11. ASSUME NEW s \in Source, UploadConflict(s) PROVE TypeOK'
    BY <1>11, <1>a DEF UploadConflict, ReaderState
<1>12. ASSUME NEW s \in Source, UploadAbort(s) PROVE TypeOK'
    BY <1>12, <1>a DEF UploadAbort, ReaderState
<1>13. ASSUME NEW s \in Source, UploadEnd(s) PROVE TypeOK'
    <2>1. /\ held' \in [Source -> 0..MaxHeld]
          /\ measured' \in [Source -> 0..MaxHeld]
          /\ finished' \in [Source -> BOOLEAN]
          /\ pc' \in [Source -> ReaderState]
        BY <1>13, FeedType, SizesType DEF UploadEnd, ReaderState
    <2>2. QED
        BY <1>13, <2>1 DEF UploadEnd, TypeOK, registryVars, tabVars
<1>14. ASSUME NEW s \in Source, UploadStep(s) PROVE TypeOK'
    <2>1. CASE UploadCharge(s)
        BY <2>1, ChargeType DEF UploadCharge, ReaderState, TypeOK
    <2>2. CASE UploadAccept(s)
        <3>1. Done(s) \in [Source -> Nat \union {None}]
            BY DEF Done, TypeOK
        <3>2. QED
            BY <2>2, <3>1, ChargeType DEF UploadAccept, ReaderState
    <2>3. CASE DropPartial(s)
        <3>1. /\ {s} \intersect sources \in SUBSET Source
              /\ (IF pc[s] = "dropped" THEN "closed" ELSE "budget") \in Reasons
              /\ retained \in [Source -> Nat]
              /\ orphaned_since \in [Source -> Nat \union {None}]
            BY DEF TypeOK, Reasons
        <3>2. pc' \in [Source -> ReaderState]
            BY <2>3 DEF DropPartial, TypeOK, ReaderState
        <3>3. UNCHANGED <<error, measured, tabVars, now>>
            BY <2>3 DEF DropPartial
        <3>4. Remove({s} \intersect sources,
                     IF pc[s] = "dropped" THEN "closed" ELSE "budget",
                     retained, orphaned_since)
            BY <2>3 DEF DropPartial
        <3>5. QED
            BY <3>1, <3>2, <3>3, <3>4, RemoveType DEF TypeOK, tabVars
    <2>4. QED
        BY <1>14, <2>1, <2>2, <2>3 DEF UploadStep
<1>15. ASSUME NEW s \in Source, Close(s) PROVE TypeOK'
    <2>1. /\ {s} \in SUBSET Source /\ "closed" \in Reasons
          /\ retained \in [Source -> Nat]
          /\ orphaned_since \in [Source -> Nat \union {None}]
        BY DEF TypeOK, Reasons
    <2>2. QED
        BY <1>15, <2>1, RemoveType DEF Close, TypeOK, readerVars, tabVars
<1>16. ASSUME NEW t \in Tabs, NEW s \in Source, Attach(t, s) PROVE TypeOK'
    <2>1. /\ tabs' \in [Source -> Nat]
          /\ orphaned_since' \in [Source -> Nat \union {None}]
        BY <1>16 DEF Attach, TypeOK
    <2>2. /\ guard' \in [Tabs -> Source \union {None}]
          /\ shown' \in [Tabs -> Source \union {None}]
          /\ told' \in [Tabs -> Nat]
          /\ conn' \in [Tabs -> {"idle", "open", "reformatted", "measured"}]
        BY <1>16 DEF Attach, TypeOK
    <2>3. QED
        BY <1>16, <2>1, <2>2 DEF Attach, TypeOK, sourceVars, readerVars
<1>17. ASSUME NEW t \in Tabs, Detach(t) PROVE TypeOK'
    <2>1. /\ guard' \in [Tabs -> Source \union {None}]
          /\ shown' \in [Tabs -> Source \union {None}]
          /\ told' \in [Tabs -> Nat]
          /\ conn' \in [Tabs -> {"idle", "open", "reformatted", "measured"}]
        BY <1>17 DEF Detach, TypeOK
    <2>2. tabs' \in [Source -> Nat]
        <3>1. CASE guard[t] \in sources
            <4>1. guard[t] \in Source /\ tabs[guard[t]] \in Nat
                BY <3>1 DEF TypeOK
            <4>2. (IF tabs[guard[t]] = 0 THEN 0 ELSE tabs[guard[t]] - 1) \in Nat
                BY <4>1
            <4>3. QED
                BY <1>17, <3>1, <4>2 DEF Detach, TypeOK
        <3>2. CASE guard[t] \notin sources
            BY <1>17, <3>2 DEF Detach, TypeOK
        <3>3. QED
            BY <3>1, <3>2
    <2>3. orphaned_since' \in [Source -> Nat \union {None}]
        BY <1>17, <1>0 DEF Detach, TypeOK
    <2>4. QED
        BY <1>17, <2>1, <2>2, <2>3 DEF Detach, TypeOK, sourceVars, readerVars
<1>18. ASSUME NEW t \in Tabs, Notify(t) PROVE TypeOK'
    BY <1>18 DEF Notify, TypeOK, registryVars, sourceVars, readerVars
<1>19. ASSUME NEW t \in Tabs, SetFormat(t) PROVE TypeOK'
    <2>1. shown[t] \in Source
        BY <1>19 DEF SetFormat, TypeOK
    <2>2. held' \in [Source -> 0..MaxHeld]
        BY <1>19, <2>1, SizesType DEF SetFormat, TypeOK
    <2>3. QED
        BY <1>19, <2>2 DEF SetFormat, TypeOK, registryVars, readerVars
<1>20. ASSUME NEW t \in Tabs, Measure(t) PROVE TypeOK'
    <2>1. shown[t] \in Source
        BY <1>20 DEF Measure, TypeOK, ConnOK
    <2>2. QED
        BY <1>20, <2>1 DEF Measure, TypeOK, registryVars, sourceVars, readerVars
<1>21. ASSUME NEW t \in Tabs, Rebook(t) PROVE TypeOK'
    <2>1. retained' \in [Source -> Nat]
        BY <1>21 DEF Rebook, Recorded, TypeOK
    <2>2. QED
        BY <1>0, <1>21, <2>1 DEF Rebook, TypeOK, sourceVars, readerVars
<1>22. CASE Sweep
    <2>1. /\ Expired \in SUBSET Source /\ "unloaded" \in Reasons
          /\ retained \in [Source -> Nat]
          /\ orphaned_since \in [Source -> Nat \union {None}]
        BY DEF TypeOK, Reasons, Expired
    <2>2. QED
        BY <1>22, <2>1, RemoveType DEF Sweep, TypeOK, readerVars, tabVars
<1>23. CASE Tick
    BY <1>0, <1>23 DEF Tick, TypeOK, registryVars, sourceVars, readerVars, tabVars
<1>24. CASE UNCHANGED vars
    BY <1>24 DEF TypeOK, vars, registryVars, sourceVars, readerVars, tabVars
<1>25. QED
    BY <1>1, <1>2, <1>3, <1>4, <1>5, <1>6, <1>7, <1>8, <1>9, <1>10, <1>11, <1>12,
       <1>13, <1>14, <1>15, <1>16, <1>17, <1>18, <1>19, <1>20, <1>21, <1>22, <1>23,
       <1>24 DEF Next, ArgvStep

-----------------------------------------------------------------------------
(* The inductive invariant.                                                *)

(* A reader moves on, without touching the registry and without putting    *)
(* anything into a closed session.                                         *)
LEMMA ReaderInv ==
    ASSUME TypeOK, IInv,
           UNCHANGED <<sources, gone, tabs, orphaned_since, closed, guard, shown,
                       told, conn>>,
           held' \in [Source -> 0..MaxHeld], pc' \in [Source -> ReaderState],
           \A x \in Source : closed[x] # None => held'[x] = 0,
           \A x \in Source : pc'[x] = "unborn" <=> pc[x] = "unborn",
           \A x \in Source : pc'[x] = "created" => pc[x] = "created",
           \A x \in Source : pc'[x] = "refused" => pc[x] = "refused"
    PROVE  IInv'
<1>1. ConnOK'
    BY DEF IInv, ConnOK, TypeOK
<1>2. EntriesOK'
    BY DEF IInv, EntriesOK, TypeOK
<1>3. ClosedHoldsNothing'
    BY DEF IInv, ClosedHoldsNothing
<1>4. RefusedLeavesNothing'
    <2> SUFFICES ASSUME NEW s \in Upload, pc'[s] = "refused"
                 PROVE  s \notin sources /\ held'[s] = 0
        BY DEF RefusedLeavesNothing
    <2>1. s \in Source /\ pc[s] = "refused"
        BY DEF Source
    <2>2. s \notin sources /\ closed[s] # None
        BY <2>1 DEF IInv, RefusedLeavesNothing, EntriesOK
    <2>3. QED
        BY <2>1, <2>2
<1>5. TabsCounted'
    BY DEF IInv, TabsCounted, Holders
<1>6. HeldNeverOrphaned'
    BY DEF IInv, HeldNeverOrphaned, Holders
<1>7. AcceptedNeverLeaks'
    BY DEF IInv, AcceptedNeverLeaks, Holders, TypeOK
<1>8. ToldOnce'
    BY DEF IInv, ToldOnce
<1>9. QED
    BY <1>1, <1>2, <1>3, <1>4, <1>5, <1>6, <1>7, <1>8 DEF IInv

(* Registry::remove of entries other than stdin, leaving the others with   *)
(* graces only where they may have one.                                    *)
LEMMA RemoveInv ==
    ASSUME TypeOK, IInv, NEW V \in SUBSET sources, V \intersect Stdin = {},
           NEW reason \in Reasons, NEW booked, NEW orphaned,
           Remove(V, reason, booked, orphaned),
           UNCHANGED <<guard, shown, told, conn>>,
           \A x \in Source \ sources : orphaned[x] = None,
           \A x \in sources \ V :
               orphaned[x] # None => x \in Upload /\ Holders(x) = {},
           \A x \in sources \ V :
               pc'[x] = "created" /\ Holders(x) = {} => orphaned[x] # None,
           \A x \in Source : pc'[x] = "unborn" <=> pc[x] = "unborn",
           \A x \in Source : pc'[x] \in {"created", "refused"} => x \in Upload,
           \A x \in Source : pc'[x] = "refused" => x \notin sources \ V
    PROVE  IInv'
<1>0. V \subseteq Source /\ reason # None
    BY RegistryAssumption DEF TypeOK, Reasons
<1>a. /\ sources' = sources \ V
      /\ \A x \in V : /\ closed'[x] = reason
                      /\ gone'[x] = reason
                      /\ held'[x] = 0
                      /\ tabs'[x] = 0
                      /\ orphaned_since'[x] = None
      /\ \A x \in Source \ V : /\ closed'[x] = closed[x]
                               /\ gone'[x] = gone[x]
                               /\ held'[x] = held[x]
                               /\ tabs'[x] = tabs[x]
                               /\ orphaned_since'[x] = orphaned[x]
    BY <1>0 DEF Remove
<1>b. \A x : Holders(x)' = Holders(x)
    BY DEF Holders
<1>1. ConnOK'
    BY DEF IInv, ConnOK, TypeOK
<1>2. EntriesOK'
    BY <1>0, <1>a DEF IInv, EntriesOK, Remove
<1>3. ClosedHoldsNothing'
    BY <1>0, <1>a DEF IInv, ClosedHoldsNothing
<1>4. RefusedLeavesNothing'
    <2> SUFFICES ASSUME NEW s \in Upload, pc'[s] = "refused"
                 PROVE  s \notin sources' /\ held'[s] = 0
        BY DEF RefusedLeavesNothing
    <2>1. s \in Source /\ s \notin sources \ V
        BY DEF Source
    <2>2. pc[s] # "unborn"
        BY <2>1
    <2>3. CASE s \in V
        BY <1>a, <2>3
    <2>4. CASE s \notin V
        <3>1. closed[s] # None
            BY <2>1, <2>2, <2>4 DEF IInv, EntriesOK
        <3>2. QED
            BY <1>a, <2>1, <2>4, <3>1 DEF IInv, ClosedHoldsNothing
    <2>5. QED
        BY <2>3, <2>4
<1>5. TabsCounted'
    BY <1>a, <1>b DEF IInv, TabsCounted, TypeOK
<1>6. HeldNeverOrphaned'
    BY <1>a, <1>b DEF HeldNeverOrphaned, TypeOK
<1>7. AcceptedNeverLeaks'
    BY <1>a, <1>b DEF AcceptedNeverLeaks, TypeOK
<1>8. ToldOnce'
    BY DEF IInv, ToldOnce
<1>9. QED
    BY <1>1, <1>2, <1>3, <1>4, <1>5, <1>6, <1>7, <1>8 DEF IInv

(* The holders of a source are finitely many, and none means a count of 0. *)
LEMMA HoldersCounted ==
    ASSUME NEW s
    PROVE  /\ IsFiniteSet(Holders(s))
           /\ Cardinality(Holders(s)) \in Nat
           /\ Cardinality(Holders(s)) = 0 <=> Holders(s) = {}
<1>1. IsFiniteSet(Holders(s))
    BY FS_Subset, RegistryAssumption DEF Holders
<1>2. QED
    BY <1>1, FS_CardinalityType, FS_EmptySet

(* A charge unloads only what it may. *)
LEMMA ChargeInv ==
    ASSUME TypeOK, IInv, NEW s \in Source, pc[s] # "unborn", pc[s] # "created",
           NEW fits \in ReaderState \ {"unborn", "refused"},
           NEW full \in ReaderState \ {"unborn", "refused", "created"},
           fits = "created" => s \in Upload,
           NEW orphaned,
           fits # "created" => orphaned = orphaned_since,
           fits = "created" => orphaned = Done(s),
           Charge(s, fits, orphaned, full)
    PROVE  IInv'
<1> DEFINE booked == Recorded(s, measured[s])
<1>2. PICK V \in SUBSET Evictable(s) :
        /\ \/ /\ Remove(V, "budget", booked, orphaned)
              /\ pc' = [pc EXCEPT ![s] = fits]
           \/ /\ Remove(V, "budget", booked, orphaned_since)
              /\ pc' = [pc EXCEPT ![s] = full]
        /\ UNCHANGED tabVars
    BY DEF Charge
<1> HIDE DEF booked
<1>3. /\ V \in SUBSET sources /\ V \intersect Stdin = {} /\ "budget" \in Reasons
      /\ UNCHANGED <<guard, shown, told, conn>>
    BY <1>2, RegistryAssumption DEF Evictable, Reasons, tabVars
<1>4. /\ \A x \in Source : pc'[x] = "unborn" <=> pc[x] = "unborn"
      /\ \A x \in Source : pc'[x] \in {"created", "refused"} => x \in Upload
      /\ \A x \in Source : pc'[x] = "refused" => x \notin sources \ V
    <2>1. \A x \in Source : pc[x] = "refused" => x \in Upload /\ x \notin sources
        BY DEF IInv, RefusedLeavesNothing, EntriesOK
    <2>2. QED
        BY <1>2, <2>1 DEF IInv, EntriesOK, TypeOK
<1>5. CASE /\ Remove(V, "budget", booked, orphaned_since)
           /\ \A x \in Source : pc'[x] = "created" => pc[x] = "created"
    <2>1. /\ \A x \in Source \ sources : orphaned_since[x] = None
          /\ \A x \in sources \ V :
                 orphaned_since[x] # None => x \in Upload /\ Holders(x) = {}
          /\ \A x \in sources \ V :
                 pc'[x] = "created" /\ Holders(x) = {} => orphaned_since[x] # None
        BY <1>5 DEF IInv, EntriesOK, HeldNeverOrphaned, AcceptedNeverLeaks, TypeOK
    <2>2. QED
        BY <1>3, <1>4, <1>5, <2>1, RemoveInv
<1>6. CASE /\ Remove(V, "budget", booked, Done(s))
           /\ s \in Upload
           /\ pc' = [pc EXCEPT ![s] = "created"]
    <2>1. now # None /\ now \in Nat
        BY RegistryAssumption DEF TypeOK
    <2>2. \A x \in Source \ sources : Done(s)[x] = None
        BY DEF IInv, EntriesOK, Done, TypeOK
    <2>3. \A x \in sources \ V :
              Done(s)[x] # None => x \in Upload /\ Holders(x) = {}
        <3> SUFFICES ASSUME NEW x \in sources, Done(s)[x] # None
                     PROVE  x \in Upload /\ Holders(x) = {}
            OBVIOUS
        <3>1. CASE orphaned_since[x] # None
            BY <3>1 DEF IInv, HeldNeverOrphaned
        <3>2. CASE orphaned_since[x] = None
            <4>1. x = s /\ s \in sources /\ tabs[s] = 0
                BY <3>2 DEF Done, TypeOK
            <4>2. Cardinality(Holders(s)) = 0
                BY <4>1 DEF IInv, TabsCounted
            <4>3. QED
                BY <1>6, <4>1, <4>2, HoldersCounted
        <3>3. QED
            BY <3>1, <3>2
    <2>4. \A x \in sources \ V :
              pc'[x] = "created" /\ Holders(x) = {} => Done(s)[x] # None
        <3> SUFFICES ASSUME NEW x \in sources, pc'[x] = "created", Holders(x) = {}
                     PROVE  Done(s)[x] # None
            OBVIOUS
        <3>1. CASE x = s
            <4>1. tabs[s] = 0
                BY <3>1, HoldersCounted DEF IInv, TabsCounted
            <4>2. QED
                BY <2>1, <3>1, <4>1 DEF Done, TypeOK
        <3>2. CASE x # s
            <4>1. orphaned_since[x] # None
                BY <1>6, <3>2 DEF IInv, AcceptedNeverLeaks, TypeOK
            <4>2. QED
                BY <3>2, <4>1 DEF Done, TypeOK
        <3>3. QED
            BY <3>1, <3>2
    <2>5. QED
        BY <1>3, <1>4, <1>6, <2>2, <2>3, <2>4, RemoveInv
<1>7. QED
    BY <1>2, <1>5, <1>6 DEF TypeOK

LEMMA InitInv == Init => TypeOK /\ IInv
<1> SUFFICES ASSUME Init PROVE TypeOK /\ IInv
    OBVIOUS
<1>1. /\ 0 \in Nat /\ 0 \in 0..MaxHeld /\ 0 \in 0..MaxTime
      /\ Argv \subseteq Source /\ Stdin \subseteq Source /\ Upload \subseteq Source
    BY RegistryAssumption DEF Source
<1>2. TypeOK
    BY <1>1 DEF Init, TypeOK, ReaderState
<1>3. \A s : Holders(s) = {} \/ s = None
    BY DEF Init, Holders
<1>4. None \notin Source
    BY RegistryAssumption
<1>5. ConnOK /\ ToldOnce
    BY DEF Init, ConnOK, ToldOnce
<1>6. EntriesOK
    BY <1>1, RegistryAssumption DEF Init, EntriesOK, Source
<1>7. ClosedHoldsNothing /\ RefusedLeavesNothing
    BY <1>1 DEF Init, ClosedHoldsNothing, RefusedLeavesNothing
<1>8. TabsCounted
    BY <1>1, <1>3, <1>4, FS_EmptySet DEF Init, TabsCounted
<1>9. HeldNeverOrphaned /\ AcceptedNeverLeaks
    BY <1>1 DEF Init, HeldNeverOrphaned, AcceptedNeverLeaks
<1>10. QED
    BY <1>2, <1>5, <1>6, <1>7, <1>8, <1>9 DEF IInv

(* A tab comes. *)
LEMMA AttachInv ==
    ASSUME TypeOK, IInv, NEW t \in Tabs, NEW s \in Source, Attach(t, s)
    PROVE  IInv'
<1>1. guard[t] = None /\ shown[t] = None /\ None \notin Source
    BY RegistryAssumption DEF Attach, IInv, ConnOK
<1>2. UNCHANGED <<sources, gone, closed, held, pc>>
    BY DEF Attach, sourceVars, readerVars
<1>3. CASE s \in sources
    <2>1. /\ tabs' = [tabs EXCEPT ![s] = @ + 1]
          /\ orphaned_since' = [orphaned_since EXCEPT ![s] = None]
          /\ guard' = [guard EXCEPT ![t] = s]
          /\ shown' = [shown EXCEPT ![t] = s]
          /\ told' = [told EXCEPT ![t] = 0]
          /\ conn' = [conn EXCEPT ![t] = "open"]
        BY <1>3 DEF Attach
    <2>2. ConnOK' /\ ToldOnce'
        BY <1>1, <1>2, <1>3, <2>1 DEF IInv, ConnOK, ToldOnce, EntriesOK, TypeOK
    <2>3. EntriesOK' /\ ClosedHoldsNothing' /\ RefusedLeavesNothing'
        BY <1>2, <1>3, <2>1
        DEF IInv, EntriesOK, ClosedHoldsNothing, RefusedLeavesNothing, TypeOK
    <2>4. /\ Holders(s)' = Holders(s) \union {t}
          /\ t \notin Holders(s)
          /\ \A x \in Source \ {s} : Holders(x)' = Holders(x)
        BY <1>1, <2>1 DEF Holders, TypeOK
    <2>5. TabsCounted'
        <3>1. Cardinality(Holders(s)') = Cardinality(Holders(s)) + 1
            BY <2>4, HoldersCounted, FS_AddElement
        <3>2. QED
            BY <1>2, <2>1, <2>4, <3>1 DEF IInv, TabsCounted, TypeOK
    <2>6. HeldNeverOrphaned'
        BY <1>2, <2>1, <2>4 DEF IInv, HeldNeverOrphaned, TypeOK
    <2>7. AcceptedNeverLeaks'
        BY <1>2, <2>1, <2>4 DEF IInv, AcceptedNeverLeaks, TypeOK
    <2>8. QED
        BY <2>2, <2>3, <2>5, <2>6, <2>7 DEF IInv
<1>4. CASE s \notin sources
    <2>1. /\ UNCHANGED <<tabs, orphaned_since, guard, shown>>
          /\ told' = [told EXCEPT ![t] = 1]
          /\ conn' = [conn EXCEPT ![t] = "open"]
        BY <1>4 DEF Attach
    <2>2. ConnOK' /\ ToldOnce'
        BY <1>1, <1>2, <2>1 DEF IInv, ConnOK, ToldOnce, TypeOK
    <2>3. EntriesOK' /\ ClosedHoldsNothing' /\ RefusedLeavesNothing'
        BY <1>2, <2>1 DEF IInv, EntriesOK, ClosedHoldsNothing, RefusedLeavesNothing
    <2>4. \A x : Holders(x)' = Holders(x)
        BY <2>1 DEF Holders
    <2>5. TabsCounted' /\ HeldNeverOrphaned' /\ AcceptedNeverLeaks'
        BY <1>2, <2>1, <2>4
        DEF IInv, TabsCounted, HeldNeverOrphaned, AcceptedNeverLeaks
    <2>6. QED
        BY <2>2, <2>3, <2>5 DEF IInv
<1>5. QED
    BY <1>3, <1>4

(* A tab goes; if it was the last one of an upload, the grace starts. *)
LEMMA DetachInv ==
    ASSUME TypeOK, IInv, NEW t \in Tabs, Detach(t)
    PROVE  IInv'
<1>0. PICK g : g = guard[t]
    OBVIOUS
<1>1. /\ UNCHANGED <<sources, gone, closed, held, pc>>
      /\ conn' = [conn EXCEPT ![t] = "idle"]
      /\ guard' = [guard EXCEPT ![t] = None]
      /\ shown' = [shown EXCEPT ![t] = None]
      /\ told' = [told EXCEPT ![t] = 0]
      /\ None \notin Source
    BY RegistryAssumption DEF Detach, sourceVars, readerVars
<1>2. ConnOK' /\ ToldOnce'
    BY <1>1 DEF IInv, ConnOK, ToldOnce, TypeOK
<1>3. /\ g \in Source => Holders(g)' = Holders(g) \ {t}
      /\ t \in Holders(g)
      /\ \A x \in Source \ {g} : Holders(x)' = Holders(x)
    BY <1>0, <1>1 DEF Holders, TypeOK
<1>4. CASE g \in sources
    <2>1. /\ g \in Source
          /\ tabs[g] = Cardinality(Holders(g))
          /\ tabs[g] \in Nat \ {0}
          /\ Cardinality(Holders(g)') = tabs[g] - 1
          /\ Cardinality(Holders(g)') = 0 => Holders(g)' = {}
        BY <1>3, <1>4, HoldersCounted, FS_RemoveElement, FS_EmptySet, FS_Subset
        DEF IInv, TabsCounted, TypeOK
    <2>2. /\ tabs' = [tabs EXCEPT ![g] = tabs[g] - 1]
          /\ orphaned_since' = IF tabs[g] - 1 = 0 /\ g \in Upload
                               THEN [orphaned_since EXCEPT ![g] = now]
                               ELSE orphaned_since
        BY <1>0, <1>4, <2>1 DEF Detach
    <2>3. now # None /\ now \in Nat
        BY RegistryAssumption DEF TypeOK
    <2>4. EntriesOK' /\ ClosedHoldsNothing' /\ RefusedLeavesNothing'
        BY <1>1, <1>4, <2>1, <2>2
        DEF IInv, EntriesOK, ClosedHoldsNothing, RefusedLeavesNothing, TypeOK
    <2>5. TabsCounted'
        BY <1>1, <1>3, <2>1, <2>2 DEF IInv, TabsCounted, TypeOK
    <2>6. orphaned_since[g] = None
        BY <1>3, <1>4 DEF IInv, HeldNeverOrphaned
    <2>7. HeldNeverOrphaned'
        BY <1>1, <1>3, <2>1, <2>2, <2>6 DEF IInv, HeldNeverOrphaned, TypeOK
    <2>8. AcceptedNeverLeaks'
        <3> SUFFICES ASSUME NEW x \in sources, pc[x] = "created", Holders(x)' = {}
                     PROVE  orphaned_since'[x] # None
            BY <1>1 DEF AcceptedNeverLeaks
        <3>1. CASE x = g
            <4>1. tabs[g] - 1 = 0
                BY <2>1, <3>1, FS_EmptySet
            <4>2. g \in Upload
                BY <2>1, <3>1 DEF IInv, EntriesOK
            <4>3. QED
                BY <2>1, <2>2, <2>3, <3>1, <4>1, <4>2 DEF TypeOK
        <3>2. CASE x # g
            <4>1. orphaned_since[x] # None
                BY <1>3, <3>2 DEF IInv, AcceptedNeverLeaks, TypeOK
            <4>2. QED
                BY <2>1, <2>2, <3>2, <4>1 DEF TypeOK
        <3>3. QED
            BY <3>1, <3>2
    <2>9. QED
        BY <1>2, <2>4, <2>5, <2>7, <2>8 DEF IInv
<1>5. CASE g \notin sources
    <2>1. UNCHANGED <<tabs, orphaned_since>>
        BY <1>0, <1>5 DEF Detach
    <2>2. EntriesOK' /\ ClosedHoldsNothing' /\ RefusedLeavesNothing'
        BY <1>1, <2>1 DEF IInv, EntriesOK, ClosedHoldsNothing, RefusedLeavesNothing
    <2>3. \A x \in sources : Holders(x)' = Holders(x)
        BY <1>3, <1>5 DEF TypeOK
    <2>4. TabsCounted' /\ HeldNeverOrphaned' /\ AcceptedNeverLeaks'
        BY <1>1, <2>1, <2>3
        DEF IInv, TabsCounted, HeldNeverOrphaned, AcceptedNeverLeaks
    <2>5. QED
        BY <1>2, <2>2, <2>4 DEF IInv
<1>6. QED
    BY <1>4, <1>5

(* A tab is told. *)
LEMMA NotifyInv ==
    ASSUME TypeOK, IInv, NEW t \in Tabs, Notify(t)
    PROVE  IInv'
<1>1. UNCHANGED <<sources, gone, tabs, orphaned_since, closed, held, pc, conn, guard>>
    BY DEF Notify, registryVars, sourceVars, readerVars
<1>2. told[t] = 0
    BY DEF Notify, IInv, ToldOnce, TypeOK
<1>3. told' = [told EXCEPT ![t] = 1] /\ shown' = [shown EXCEPT ![t] = None]
    BY <1>2 DEF Notify
<1>4. ConnOK' /\ ToldOnce'
    BY <1>1, <1>3 DEF Notify, IInv, ConnOK, ToldOnce, TypeOK
<1>5. EntriesOK' /\ ClosedHoldsNothing' /\ RefusedLeavesNothing'
    BY <1>1 DEF IInv, EntriesOK, ClosedHoldsNothing, RefusedLeavesNothing
<1>6. TabsCounted' /\ HeldNeverOrphaned' /\ AcceptedNeverLeaks'
    BY <1>1 DEF IInv, TabsCounted, HeldNeverOrphaned, AcceptedNeverLeaks, Holders
<1>7. QED
    BY <1>4, <1>5, <1>6 DEF IInv

(* A tab changes the format, or measures or records what that came to. *)
LEMMA SetFormatInv ==
    ASSUME TypeOK, IInv, NEW t \in Tabs, SetFormat(t) \/ Measure(t) \/ Rebook(t)
    PROVE  IInv'
<1>1. UNCHANGED <<sources, gone, tabs, orphaned_since, closed, pc, guard, shown, told>>
    BY DEF SetFormat, Measure, Rebook, registryVars, sourceVars, readerVars
<1>2. /\ shown[t] # None
      /\ \/ conn' = [conn EXCEPT ![t] = "reformatted"]
         \/ conn' = [conn EXCEPT ![t] = "measured"]
         \/ conn' = [conn EXCEPT ![t] = "open"]
    BY DEF SetFormat, Measure, Rebook, IInv, ConnOK
<1>3. \A x \in Source : closed[x] # None => held'[x] = 0
    <2> SUFFICES ASSUME NEW x \in Source, closed[x] # None PROVE held'[x] = 0
        OBVIOUS
    <2>1. held[x] = 0
        BY DEF IInv, ClosedHoldsNothing
    <2>2. QED
        BY <2>1 DEF SetFormat, Measure, Rebook, sourceVars, TypeOK
<1>4. ConnOK' /\ ToldOnce'
    BY <1>1, <1>2 DEF IInv, ConnOK, ToldOnce, TypeOK
<1>5. EntriesOK' /\ ClosedHoldsNothing'
    BY <1>1, <1>3 DEF IInv, EntriesOK, ClosedHoldsNothing
<1>6. RefusedLeavesNothing'
    <2> SUFFICES ASSUME NEW s \in Upload, pc[s] = "refused"
                 PROVE  s \notin sources /\ held'[s] = 0
        BY <1>1 DEF RefusedLeavesNothing
    <2>1. s \in Source
        BY DEF Source
    <2>2. s \notin sources /\ closed[s] # None
        BY <2>1 DEF IInv, RefusedLeavesNothing, EntriesOK
    <2>3. QED
        BY <1>3, <2>1, <2>2
<1>7. TabsCounted' /\ HeldNeverOrphaned' /\ AcceptedNeverLeaks'
    BY <1>1 DEF IInv, TabsCounted, HeldNeverOrphaned, AcceptedNeverLeaks, Holders
<1>8. QED
    BY <1>4, <1>5, <1>6, <1>7 DEF IInv

(* An upload gets its entry; no tab can have known it. *)
LEMMA UploadBeginInv ==
    ASSUME TypeOK, IInv, NEW s \in Upload, UploadBegin(s)
    PROVE  IInv'
<1>1. /\ UNCHANGED <<gone, tabs, orphaned_since, closed, held, conn, guard, shown, told>>
      /\ sources' = sources \union {s}
      /\ pc[s] = "unborn"
      /\ pc' = [pc EXCEPT ![s] = "first"]
      /\ s \in Source
      /\ s # None
    BY RegistryAssumption DEF UploadBegin, sourceVars, tabVars, Source
<1>2. s \notin sources /\ closed[s] = None /\ tabs[s] = 0 /\ orphaned_since[s] = None
    BY <1>1 DEF IInv, EntriesOK
<1>3. \A x : Holders(x)' = Holders(x)
    BY <1>1 DEF Holders
<1>4. Holders(s) = {}
    BY <1>1 DEF IInv, ConnOK, Holders
<1>5. ConnOK' /\ ToldOnce'
    BY <1>1 DEF IInv, ConnOK, ToldOnce, TypeOK
<1>6. EntriesOK' /\ ClosedHoldsNothing' /\ RefusedLeavesNothing'
    BY <1>1, <1>2 DEF IInv, EntriesOK, ClosedHoldsNothing, RefusedLeavesNothing, TypeOK
<1>7. TabsCounted'
    BY <1>1, <1>2, <1>3, <1>4, HoldersCounted DEF IInv, TabsCounted
<1>8. HeldNeverOrphaned' /\ AcceptedNeverLeaks'
    BY <1>1, <1>2, <1>3 DEF IInv, HeldNeverOrphaned, AcceptedNeverLeaks, TypeOK
<1>9. QED
    BY <1>5, <1>6, <1>7, <1>8 DEF IInv

(* Every step of a reader thread or upload handler that is not a charge:   *)
(* what it puts into its session, nothing if that was closed, and where it *)
(* goes next.                                                              *)
LEMMA StepInv ==
    ASSUME TypeOK, IInv, NEW s \in Source,
           pc[s] # "unborn",
           NEW next \in ReaderState \ {"unborn", "created", "refused"},
           pc' = [pc EXCEPT ![s] = next] \/ pc' = pc,
           NEW bytes \in 0..MaxHeld, closed[s] # None => bytes = 0,
           held' = [held EXCEPT ![s] = bytes] \/ held' = held,
           UNCHANGED <<sources, gone, tabs, orphaned_since, closed, tabVars>>
    PROVE  IInv'
<1>1. held' \in [Source -> 0..MaxHeld] /\ pc' \in [Source -> ReaderState]
    BY DEF TypeOK
<1>2. \A x \in Source : closed[x] # None => held'[x] = 0
    BY DEF IInv, ClosedHoldsNothing, TypeOK
<1>3. /\ \A x \in Source : pc'[x] = "unborn" <=> pc[x] = "unborn"
      /\ \A x \in Source : pc'[x] = "created" => pc[x] = "created"
      /\ \A x \in Source : pc'[x] = "refused" => pc[x] = "refused"
    BY DEF TypeOK
<1>4. QED
    BY <1>1, <1>2, <1>3, ReaderInv DEF tabVars

(* A closed session may only be finished or re-parsed, and stays empty. *)
LEMMA FinishEmpty ==
    ASSUME IInv, NEW s \in Source, closed[s] # None
    PROVE  AfterFinish(s) = {0}
BY DEF IInv, ClosedHoldsNothing, AfterFinish

LEMMA StdinOpen ==
    ASSUME IInv, NEW s \in Stdin
    PROVE  closed[s] = None
BY DEF IInv, EntriesOK, ClosedHoldsNothing, Source

(* Any step preserves the invariant. *)
LEMMA NextInv == TypeOK /\ IInv /\ [Next]_vars => IInv'
<1> SUFFICES ASSUME TypeOK, IInv, [Next]_vars PROVE IInv'
    OBVIOUS
<1>0. /\ Argv \subseteq Source /\ Stdin \subseteq Source /\ Upload \subseteq Source
      /\ 0 \in 0..MaxHeld
    BY RegistryAssumption DEF Source
<1>a. ASSUME NEW s \in Source, pc[s] # "unborn",
             NEW next \in ReaderState \ {"unborn", "created", "refused"},
             Goto(s, next)
      PROVE  IInv'
    BY <1>0, <1>a, StepInv DEF Goto, registryVars, sourceVars
<1>b. ASSUME NEW s \in Source, pc[s] # "unborn",
             NEW sizes \in SUBSET (0..MaxHeld), NEW ends \in BOOLEAN,
             NEW next \in ReaderState \ {"unborn", "created", "refused"},
             closed[s] # None => sizes = {0},
             Feed(s, sizes, ends, next),
             UNCHANGED <<registryVars, closed, tabVars>>
      PROVE  IInv'
    <2>1. PICK bytes \in sizes : held' = [held EXCEPT ![s] = bytes]
        BY <1>b DEF Feed
    <2>2. bytes \in 0..MaxHeld /\ (closed[s] # None => bytes = 0)
        BY <1>b, <2>1
    <2>3. pc' = [pc EXCEPT ![s] = next]
        BY <1>b DEF Feed
    <2>4. UNCHANGED <<sources, gone, tabs, orphaned_since, closed, tabVars>>
        BY <1>b DEF registryVars
    <2>5. QED
        BY <1>b, <2>1, <2>2, <2>3, <2>4, StepInv
<1>1. ASSUME NEW s \in Source, ArgvRead(s) PROVE IInv'
    BY <1>0, <1>1, <1>b, SizesType DEF ArgvRead, ReaderState
<1>2. ASSUME NEW s \in Source, ArgvStop(s) PROVE IInv'
    BY <1>2, <1>a DEF ArgvStop, ReaderState
<1>3. ASSUME NEW s \in Source, ArgvCharge(s) PROVE IInv'
    BY <1>3, ChargeInv DEF ArgvCharge, ReaderState
<1>4. ASSUME NEW s \in Source, ArgvSettle(s) PROVE IInv'
    BY <1>4, <1>a DEF ArgvSettle, ReaderState
<1>5. ASSUME NEW s \in Source, ArgvGiveUp(s) PROVE IInv'
    <2>1. PICK bytes \in AfterFinish(s) : held' = [held EXCEPT ![s] = bytes]
        BY <1>5 DEF ArgvGiveUp
    <2>2. bytes \in 0..MaxHeld /\ (closed[s] # None => bytes = 0)
        BY <2>1, SizesType, FinishEmpty
    <2>3. QED
        BY <1>5, <2>1, <2>2, StepInv DEF ArgvGiveUp, ReaderState, registryVars
<1>6. ASSUME NEW s \in Source, StdinRead(s) PROVE IInv'
    <2>1. s \in Stdin /\ closed[s] = None
        BY <1>6, StdinOpen DEF StdinRead
    <2>2. QED
        BY <1>6, <1>b, <2>1, SizesType DEF StdinRead, ReaderState
<1>7. ASSUME NEW s \in Source, StdinRecord(s) PROVE IInv'
    BY <1>0, <1>7, StepInv DEF StdinRecord, ReaderState, sourceVars
<1>8. ASSUME NEW s \in Source, DetectionHold(s) PROVE IInv'
    <2>1. s \in Stdin /\ closed[s] = None
        BY <1>8, StdinOpen DEF DetectionHold
    <2>2. PICK bytes \in AfterFinish(s) : held' = [held EXCEPT ![s] = bytes]
        BY <1>8 DEF DetectionHold
    <2>3. bytes \in 0..MaxHeld
        BY <2>2, SizesType
    <2>4. pc[s] # "unborn"
        BY <2>1, RegistryAssumption DEF IInv, EntriesOK
    <2>5. "done" \in ReaderState \ {"unborn", "created", "refused"}
        BY DEF ReaderState
    <2>6. pc' = pc /\ UNCHANGED <<sources, gone, tabs, orphaned_since, closed, tabVars>>
        BY <1>8 DEF DetectionHold, registryVars, readerVars
    <2>7. QED
        BY <2>1, <2>2, <2>3, <2>4, <2>5, <2>6, StepInv
<1>9. ASSUME NEW s \in Source, UploadBegin(s) PROVE IInv'
    BY <1>9, UploadBeginInv DEF UploadBegin
<1>10. ASSUME NEW s \in Source, UploadChunk(s) PROVE IInv'
    BY <1>10, <1>b, SizesType DEF UploadChunk, ReaderState
<1>11. ASSUME NEW s \in Source, UploadConflict(s) PROVE IInv'
    BY <1>11, <1>a DEF UploadConflict, ReaderState
<1>12. ASSUME NEW s \in Source, UploadCharge(s) PROVE IInv'
    BY <1>12, ChargeInv DEF UploadCharge, ReaderState
<1>13. ASSUME NEW s \in Source, UploadAbort(s) PROVE IInv'
    BY <1>13, <1>a DEF UploadAbort, ReaderState
<1>14. ASSUME NEW s \in Source, UploadEnd(s) PROVE IInv'
    BY <1>14, <1>b, SizesType, FinishEmpty DEF UploadEnd, ReaderState
<1>15. ASSUME NEW s \in Source, UploadAccept(s) PROVE IInv'
    BY <1>15, ChargeInv DEF UploadAccept, ReaderState
<1>16. ASSUME NEW s \in Source, DropPartial(s) PROVE IInv'
    <2>1. PICK reason \in Reasons :
              Remove({s} \intersect sources, reason, retained, orphaned_since)
        BY <1>16 DEF DropPartial, Reasons
    <2>2. /\ s \in Upload
          /\ pc[s] \in {"dropped", "overBudget"}
          /\ pc' = [pc EXCEPT ![s] = "refused"]
          /\ UNCHANGED <<guard, shown, told, conn>>
        BY <1>16 DEF DropPartial, tabVars
    <2>3. /\ {s} \intersect sources \in SUBSET sources
          /\ ({s} \intersect sources) \intersect Stdin = {}
        BY <2>2, RegistryAssumption
    <2>4. /\ \A x \in Source \ sources : orphaned_since[x] = None
          /\ \A x \in sources \ ({s} \intersect sources) :
                 orphaned_since[x] # None => x \in Upload /\ Holders(x) = {}
          /\ \A x \in sources \ ({s} \intersect sources) :
                 pc'[x] = "created" /\ Holders(x) = {} => orphaned_since[x] # None
        BY <2>2 DEF IInv, EntriesOK, HeldNeverOrphaned, AcceptedNeverLeaks, TypeOK
    <2>5. /\ \A x \in Source : pc'[x] = "unborn" <=> pc[x] = "unborn"
          /\ \A x \in Source : pc'[x] \in {"created", "refused"} => x \in Upload
          /\ \A x \in Source :
                 pc'[x] = "refused" => x \notin sources \ ({s} \intersect sources)
        BY <1>0, <2>2 DEF IInv, EntriesOK, RefusedLeavesNothing, TypeOK
    <2>6. QED
        BY <2>1, <2>2, <2>3, <2>4, <2>5, RemoveInv
<1>c. ASSUME NEW V \in SUBSET sources, V \intersect Stdin = {},
             NEW reason \in Reasons, Remove(V, reason, retained, orphaned_since),
             UNCHANGED <<pc, tabVars>>
      PROVE  IInv'
    <2>1. /\ \A x \in Source \ sources : orphaned_since[x] = None
          /\ \A x \in sources \ V :
                 orphaned_since[x] # None => x \in Upload /\ Holders(x) = {}
          /\ \A x \in sources \ V :
                 pc'[x] = "created" /\ Holders(x) = {} => orphaned_since[x] # None
        BY <1>c DEF IInv, EntriesOK, HeldNeverOrphaned, AcceptedNeverLeaks
    <2>2. /\ \A x \in Source : pc'[x] = "unborn" <=> pc[x] = "unborn"
          /\ \A x \in Source : pc'[x] \in {"created", "refused"} => x \in Upload
          /\ \A x \in Source : pc'[x] = "refused" => x \notin sources \ V
        BY <1>c DEF IInv, EntriesOK, RefusedLeavesNothing
    <2>3. QED
        BY <1>c, <2>1, <2>2, RemoveInv DEF tabVars
<1>17. ASSUME NEW s \in Source, Close(s) PROVE IInv'
    BY <1>17, <1>c DEF Close, Reasons, readerVars
<1>18. CASE Sweep
    BY <1>18, <1>c, RegistryAssumption DEF Sweep, Expired, Reasons, readerVars
<1>19. CASE UNCHANGED <<registryVars, sourceVars, readerVars, tabVars>>
    BY <1>19 DEF registryVars, sourceVars, readerVars, tabVars, IInv, ConnOK, EntriesOK,
       ClosedHoldsNothing, RefusedLeavesNothing, TabsCounted, HeldNeverOrphaned,
       AcceptedNeverLeaks, ToldOnce, Holders
<1>20. CASE Tick \/ UNCHANGED vars
    BY <1>19, <1>20 DEF Tick, vars
<1>21. QED
    BY <1>1, <1>2, <1>3, <1>4, <1>5, <1>6, <1>7, <1>8, <1>9, <1>10, <1>11, <1>12,
       <1>13, <1>14, <1>15, <1>16, <1>17, <1>18, <1>20, AttachInv, DetachInv,
       NotifyInv, SetFormatInv DEF Next, ArgvStep, UploadStep

-----------------------------------------------------------------------------
(* The state is always well typed: in particular a closed source has a     *)
(* reason a tab can be given, whoever removes it, and nothing is measured  *)
(* of a source that is not there.                                          *)
THEOREM TypeCorrect == Spec => []TypeOK
<1>1. Init => TypeOK /\ IInv
    BY InitInv
<1>2. TypeOK /\ IInv /\ [Next]_vars => TypeOK' /\ IInv'
    BY NextType, NextInv DEF IInv
<1>3. QED
    BY <1>1, <1>2, PTL DEF Spec

(* The inductive invariant, at every interleaving of readers, uploads,     *)
(* tabs, user closes and the sweeper (source.rs, stdin.rs, server.rs).     *)
THEOREM RegistryInvariant == Spec => []IInv
<1>1. Init => TypeOK /\ IInv
    BY InitInv
<1>2. TypeOK /\ IInv /\ [Next]_vars => TypeOK' /\ IInv'
    BY NextType, NextInv DEF IInv
<1>3. QED
    BY <1>1, <1>2, PTL DEF Spec

(* Entry::tabs counts exactly the connections whose guard will detach,     *)
(* whatever removed the source in between (attach, detach, Tab::drop).     *)
THEOREM TabsAreCounted == Spec => []TabsCounted
BY RegistryInvariant, PTL DEF IInv

(* Only an upload without a tab ever has a grace period running, so the    *)
(* sweeper and the budget unload nothing that somebody looks at.           *)
THEOREM HeldIsNeverOrphaned == Spec => []HeldNeverOrphaned
BY RegistryInvariant, PTL DEF IInv

(* No accepted upload leaks: upload_done and detach together start its     *)
(* grace period in every order of tabs and chunks.                         *)
THEOREM NothingLeaks == Spec => []AcceptedNeverLeaks
BY RegistryInvariant, PTL DEF IInv

(* A closed source is out of the registry and stays empty, although its    *)
(* reader or handler may still be running.                                 *)
THEOREM ClosedStaysEmpty == Spec => []ClosedHoldsNothing
BY RegistryInvariant, PTL DEF IInv

(* However an upload failed, nothing of it is left (PartialUpload::drop).  *)
THEOREM RefusedIsGone == Spec => []RefusedLeavesNothing
BY RegistryInvariant, PTL DEF IInv

(* No connection is told twice that its source is gone.                    *)
THEOREM ToldAtMostOnce == Spec => []ToldOnce
BY RegistryInvariant, PTL DEF IInv

-----------------------------------------------------------------------------
(* What a step can do to a source's life. The action properties and the    *)
(* refinement follow from this list.                                       *)

Accepted == {s \in Upload : pc[s] = "created"}

Idle == UNCHANGED <<sources, closed, guard, Accepted>>

Appears(s) ==
    /\ closed[s] = None
    /\ s \notin sources
    /\ sources' = sources \union {s}
    /\ UNCHANGED <<closed, guard, Accepted>>

Binds(t, s) ==
    /\ s \in sources
    /\ guard[t] = None
    /\ guard' = [guard EXCEPT ![t] = s]
    /\ UNCHANGED <<sources, closed, Accepted>>

Unbinds(t) ==
    /\ guard' = [guard EXCEPT ![t] = None]
    /\ UNCHANGED <<sources, closed, Accepted>>

Leave(V, reason) ==
    /\ V \subseteq sources
    /\ sources' = sources \ V
    /\ closed' = [s \in Source |-> IF s \in V THEN reason ELSE closed[s]]
    /\ UNCHANGED guard

(* Uploads that no tab shows. *)
Unheld == {s \in sources \intersect Upload : Holders(s) = {}}

LifeStep ==
    \/ Idle
    \/ \E s \in Upload : Appears(s)
    \/ \E t \in Tabs, s \in Source : Binds(t, s)
    \/ \E t \in Tabs : Unbinds(t)
    \/ \E s \in sources \ Stdin : Leave({s}, "closed") /\ UNCHANGED Accepted
    \/ \E s \in Upload \ Accepted :
        \/ Leave({s}, "closed") /\ UNCHANGED Accepted
        \/ Leave({s}, "budget") /\ UNCHANGED Accepted /\ pc[s] = "overBudget"
    \/ \E V \in SUBSET Unheld :
        \/ Leave(V, "unloaded") /\ UNCHANGED Accepted
        \/ Leave(V, "budget") /\ UNCHANGED Accepted
        \/ \E s \in Upload \ V :
            /\ pc[s] = "final"
            /\ Leave(V, "budget")
            /\ Accepted' = Accepted \union {s}

LEMMA OrphansUnheld ==
    ASSUME IInv
    PROVE  /\ \A s : Evictable(s) \subseteq Unheld
           /\ Expired \subseteq Unheld
<1>1. \A o \in sources : orphaned_since[o] # None => o \in Unheld
    BY DEF IInv, HeldNeverOrphaned, Unheld
<1>2. QED
    BY <1>1 DEF Evictable, Expired

LEMMA RemoveLeaves ==
    ASSUME NEW V \in SUBSET sources, NEW reason, NEW booked, NEW orphaned,
           Remove(V, reason, booked, orphaned), UNCHANGED guard
    PROVE  Leave(V, reason)
BY DEF Remove, Leave

(* A charge unloads uploads nobody shows, and may accept the one charged. *)
LEMMA ChargeLife ==
    ASSUME TypeOK, IInv, NEW s \in Source, pc[s] # "created",
           NEW fits \in ReaderState, NEW full \in ReaderState \ {"created"},
           fits = "created" => s \in Upload /\ pc[s] = "final",
           NEW orphaned, Charge(s, fits, orphaned, full)
    PROVE  LifeStep
<1> DEFINE booked == Recorded(s, measured[s])
<1>1. PICK V \in SUBSET Evictable(s) :
        /\ \/ /\ Remove(V, "budget", booked, orphaned)
              /\ pc' = [pc EXCEPT ![s] = fits]
           \/ /\ Remove(V, "budget", booked, orphaned_since)
              /\ pc' = [pc EXCEPT ![s] = full]
        /\ UNCHANGED tabVars
    BY DEF Charge
<1> HIDE DEF booked
<1>2. V \in SUBSET Unheld /\ V \in SUBSET sources /\ s \notin V
    BY <1>1, OrphansUnheld DEF Evictable, Unheld
<1>3. Leave(V, "budget")
    BY <1>1, <1>2, RemoveLeaves DEF tabVars
<1>4. CASE pc' = [pc EXCEPT ![s] = fits] /\ fits = "created"
    <2>1. Accepted' = Accepted \union {s} /\ s \in Upload \ V /\ pc[s] = "final"
        BY <1>2, <1>4 DEF Accepted, TypeOK, Source
    <2>2. QED
        BY <1>2, <1>3, <2>1 DEF LifeStep
<1>5. CASE \E next \in ReaderState \ {"created"} : pc' = [pc EXCEPT ![s] = next]
    <2>1. UNCHANGED Accepted
        BY <1>5 DEF Accepted, TypeOK, Source
    <2>2. QED
        BY <1>2, <1>3, <2>1 DEF LifeStep
<1>6. QED
    BY <1>1, <1>4, <1>5

LEMMA NextLife == TypeOK /\ IInv /\ [Next]_vars => LifeStep
<1> SUFFICES ASSUME TypeOK, IInv, [Next]_vars PROVE LifeStep
    OBVIOUS
<1>0. Argv \subseteq Source /\ Stdin \subseteq Source /\ Upload \subseteq Source
    BY DEF Source
<1>a. ASSUME NEW s \in Source, pc[s] # "created",
             NEW next \in ReaderState \ {"created"},
             pc' = [pc EXCEPT ![s] = next],
             UNCHANGED <<sources, closed, guard>>
      PROVE  LifeStep
    BY <1>0, <1>a DEF LifeStep, Idle, Accepted, TypeOK
<1>b. ASSUME UNCHANGED <<sources, closed, guard, pc>> PROVE LifeStep
    BY <1>b DEF LifeStep, Idle, Accepted
<1>1. ASSUME NEW s \in Source, ArgvRead(s) PROVE LifeStep
    BY <1>1, <1>a DEF ArgvRead, Feed, ReaderState, registryVars, tabVars
<1>2. ASSUME NEW s \in Source, ArgvStop(s) PROVE LifeStep
    BY <1>2, <1>a DEF ArgvStop, Goto, ReaderState, registryVars, sourceVars, tabVars
<1>3. ASSUME NEW s \in Source, ArgvCharge(s) PROVE LifeStep
    BY <1>3, ChargeLife DEF ArgvCharge, ReaderState
<1>4. ASSUME NEW s \in Source, ArgvSettle(s) PROVE LifeStep
    BY <1>4, <1>a DEF ArgvSettle, Goto, ReaderState, registryVars, sourceVars, tabVars
<1>5. ASSUME NEW s \in Source, ArgvGiveUp(s) PROVE LifeStep
    BY <1>5, <1>a DEF ArgvGiveUp, ReaderState, registryVars, tabVars
<1>6. ASSUME NEW s \in Source, StdinRead(s) PROVE LifeStep
    BY <1>6, <1>a DEF StdinRead, Feed, ReaderState, registryVars, tabVars
<1>7. ASSUME NEW s \in Source, StdinRecord(s) PROVE LifeStep
    BY <1>7, <1>a DEF StdinRecord, ReaderState, sourceVars, tabVars
<1>8. ASSUME NEW s \in Source, DetectionHold(s) PROVE LifeStep
    BY <1>8, <1>b DEF DetectionHold, registryVars, readerVars, tabVars
<1>9. ASSUME NEW s \in Source, UploadBegin(s) PROVE LifeStep
    <2>1. s \in Upload /\ closed[s] = None /\ s \notin sources
        BY <1>9 DEF UploadBegin, IInv, EntriesOK
    <2>2. /\ sources' = sources \union {s}
          /\ pc' = [pc EXCEPT ![s] = "first"]
          /\ pc[s] = "unborn"
          /\ UNCHANGED <<closed, guard>>
        BY <1>9 DEF UploadBegin, sourceVars, tabVars
    <2>3. UNCHANGED Accepted
        BY <1>0, <2>2 DEF Accepted, TypeOK
    <2>4. QED
        BY <2>1, <2>2, <2>3 DEF LifeStep, Appears
<1>10. ASSUME NEW s \in Source, UploadChunk(s) PROVE LifeStep
    BY <1>10, <1>a DEF UploadChunk, Feed, ReaderState, registryVars, tabVars
<1>11. ASSUME NEW s \in Source, UploadConflict(s) PROVE LifeStep
    BY <1>11, <1>a DEF UploadConflict, Goto, ReaderState, registryVars, sourceVars, tabVars
<1>12. ASSUME NEW s \in Source, UploadCharge(s) PROVE LifeStep
    BY <1>12, ChargeLife DEF UploadCharge, ReaderState
<1>13. ASSUME NEW s \in Source, UploadAbort(s) PROVE LifeStep
    BY <1>13, <1>a DEF UploadAbort, Goto, ReaderState, registryVars, sourceVars, tabVars
<1>14. ASSUME NEW s \in Source, UploadEnd(s) PROVE LifeStep
    BY <1>14, <1>a DEF UploadEnd, Feed, ReaderState, registryVars, tabVars
<1>15. ASSUME NEW s \in Source, UploadAccept(s) PROVE LifeStep
    BY <1>15, ChargeLife DEF UploadAccept, ReaderState
<1>16. ASSUME NEW s \in Source, DropPartial(s) PROVE LifeStep
    <2>1. /\ s \in Upload \ Accepted
          /\ pc' = [pc EXCEPT ![s] = "refused"]
          /\ UNCHANGED guard
        BY <1>16 DEF DropPartial, tabVars, Accepted
    <2>2. UNCHANGED Accepted
        BY <1>0, <2>1 DEF Accepted, TypeOK
    <2>3. Leave({s} \intersect sources, IF pc[s] = "dropped" THEN "closed" ELSE "budget")
        BY <1>16, <2>1, RemoveLeaves DEF DropPartial
    <2>4. CASE s \in sources
        <3>1. {s} \intersect sources = {s}
            BY <2>4
        <3>2. pc[s] = "dropped" \/ pc[s] = "overBudget"
            BY <1>16 DEF DropPartial
        <3>3. QED
            BY <2>1, <2>2, <2>3, <3>1, <3>2 DEF LifeStep
    <2>5. CASE s \notin sources
        <3>1. {s} \intersect sources = {}
            BY <2>5
        <3>2. UNCHANGED <<sources, closed>>
            BY <2>3, <3>1 DEF Leave, TypeOK
        <3>3. QED
            BY <2>1, <2>2, <3>2 DEF LifeStep, Idle
    <2>6. QED
        BY <2>4, <2>5
<1>17. ASSUME NEW s \in Source, Close(s) PROVE LifeStep
    <2>1. s \in sources \ Stdin /\ UNCHANGED Accepted
        BY <1>17 DEF Close, readerVars, Accepted
    <2>2. Leave({s}, "closed")
        BY <1>17, <2>1, RemoveLeaves DEF Close, tabVars
    <2>3. QED
        BY <2>1, <2>2 DEF LifeStep
<1>18. CASE Sweep
    <2>1. Expired \in SUBSET Unheld /\ Expired \in SUBSET sources
        BY OrphansUnheld DEF Expired
    <2>2. Leave(Expired, "unloaded") /\ UNCHANGED Accepted
        BY <1>18, <2>1, RemoveLeaves DEF Sweep, tabVars, readerVars, Accepted
    <2>3. QED
        BY <2>1, <2>2 DEF LifeStep
<1>19. ASSUME NEW t \in Tabs, NEW s \in Source, Attach(t, s) PROVE LifeStep
    <2>1. guard[t] = None /\ UNCHANGED <<sources, closed, pc>>
        BY <1>19 DEF Attach, IInv, ConnOK, sourceVars, readerVars
    <2>2. UNCHANGED Accepted
        BY <2>1 DEF Accepted
    <2>3. CASE s \in sources
        <3>1. guard' = [guard EXCEPT ![t] = s]
            BY <1>19, <2>3 DEF Attach
        <3>2. QED
            BY <2>1, <2>2, <2>3, <3>1 DEF LifeStep, Binds
    <2>4. CASE s \notin sources
        <3>1. UNCHANGED guard
            BY <1>19, <2>4 DEF Attach
        <3>2. QED
            BY <2>1, <3>1, <1>b
    <2>5. QED
        BY <2>3, <2>4
<1>20. ASSUME NEW t \in Tabs, Detach(t) PROVE LifeStep
    <2>1. guard' = [guard EXCEPT ![t] = None] /\ UNCHANGED <<sources, closed, pc>>
        BY <1>20 DEF Detach, sourceVars, readerVars
    <2>2. UNCHANGED Accepted
        BY <2>1 DEF Accepted
    <2>3. QED
        BY <2>1, <2>2 DEF LifeStep, Unbinds
<1>21. ASSUME NEW t \in Tabs, Notify(t) \/ SetFormat(t) \/ Measure(t) \/ Rebook(t)
      PROVE  LifeStep
    BY <1>21, <1>b
    DEF Notify, SetFormat, Measure, Rebook, registryVars, sourceVars, readerVars
<1>22. CASE Tick \/ UNCHANGED vars
    BY <1>22, <1>b DEF Tick, vars, registryVars, sourceVars, readerVars, tabVars
<1>23. QED
    BY <1>1, <1>2, <1>3, <1>4, <1>5, <1>6, <1>7, <1>8, <1>9, <1>10, <1>11, <1>12,
       <1>13, <1>14, <1>15, <1>16, <1>17, <1>18, <1>19, <1>20, <1>21, <1>22
    DEF Next, ArgvStep, UploadStep

(* The invariant in every state of a behaviour, and LifeStep at every step.*)
LEMMA Lives == Spec => [](TypeOK /\ IInv) /\ [][LifeStep]_vars
<1>1. Init => TypeOK /\ IInv
    BY InitInv
<1>2. TypeOK /\ IInv /\ [Next]_vars => TypeOK' /\ IInv'
    BY NextType, NextInv DEF IInv
<1>3. TypeOK /\ IInv /\ [Next]_vars => [LifeStep]_vars
    BY NextLife
<1>4. QED
    BY <1>1, <1>2, <1>3, PTL DEF Spec

(* A source that left never comes back and never changes its reason,       *)
(* although close, eviction, sweep and PartialUpload::drop race.           *)
THEOREM GoneForGood == Spec => GoneIsFinal
<1> DEFINE Final == \A s \in Source :
                closed[s] # None => closed'[s] = closed[s] /\ s \notin sources'
<1>1. TypeOK /\ IInv /\ LifeStep => Final
    <2> SUFFICES ASSUME TypeOK, IInv, LifeStep,
                        NEW s \in Source, closed[s] # None
                 PROVE  closed'[s] = closed[s] /\ s \notin sources'
        OBVIOUS
    <2>1. s \notin sources
        BY DEF IInv, ClosedHoldsNothing
    <2>2. ASSUME NEW V, NEW reason, Leave(V, reason)
          PROVE  closed'[s] = closed[s] /\ s \notin sources'
        BY <2>1, <2>2 DEF Leave
    <2>3. CASE UNCHANGED <<closed, sources>>
        BY <2>1, <2>3
    <2>4. ASSUME NEW x \in Upload, Appears(x)
          PROVE  closed'[s] = closed[s] /\ s \notin sources'
        BY <2>1, <2>4 DEF Appears
    <2>5. QED
        BY <2>2, <2>3, <2>4 DEF LifeStep, Idle, Binds, Unbinds
<1>2. TypeOK /\ IInv /\ [LifeStep]_vars => [Final]_vars
    BY <1>1
<1>3. QED
    BY <1>2, Lives, PTL DEF GoneIsFinal

(* The sweeper and the budget never take a source from a tab: it leaves    *)
(* unheld, or because a user closed it or its own upload failed.           *)
THEOREM HeldStays == Spec => HeldNeverUnloaded
<1> DEFINE Why == \A s \in sources \ sources' :
                \/ closed'[s] = "closed"
                \/ pc[s] = "overBudget"
                \/ s \in Upload /\ Holders(s) = {}
<1>1. TypeOK /\ LifeStep => Why
    <2> SUFFICES ASSUME TypeOK, LifeStep, NEW s \in sources \ sources'
                 PROVE  \/ closed'[s] = "closed"
                        \/ pc[s] = "overBudget"
                        \/ s \in Upload /\ Holders(s) = {}
        OBVIOUS
    <2>1. s \in Source
        BY DEF TypeOK
    <2>2. ASSUME NEW V, NEW reason, Leave(V, reason)
          PROVE  s \in V /\ closed'[s] = reason
        BY <2>1, <2>2 DEF Leave
    <2>3. \A x \in Upload : ~Appears(x)
        BY DEF Appears
    <2>4. QED
        BY <2>2, <2>3 DEF LifeStep, Idle, Binds, Unbinds, Unheld
<1>2. TypeOK /\ IInv /\ [LifeStep]_vars => [Why]_vars
    BY <1>1
<1>3. QED
    BY <1>2, Lives, PTL DEF HeldNeverUnloaded

-----------------------------------------------------------------------------
(* The registry implements SourceLifecycle.                                *)

Fate == [s \in Source |-> IF s \in sources THEN "live"
                          ELSE IF closed[s] = None THEN "unborn"
                          ELSE closed[s]]

LEMMA LeaveFate ==
    ASSUME TypeOK, IInv, NEW V, NEW reason \in Reasons, Leave(V, reason)
    PROVE  Fate' = [s \in Source |-> IF s \in V THEN reason ELSE Fate[s]]
<1>1. reason # None /\ V \subseteq sources /\ sources \subseteq Source
    BY RegistryAssumption DEF Leave, TypeOK
<1>2. sources' = sources \ V
    BY DEF Leave
<1>3. closed' = [s \in Source |-> IF s \in V THEN reason ELSE closed[s]]
    BY DEF Leave
<1>4. \A s \in Source : (IF s \in sources' THEN "live"
                         ELSE IF closed'[s] = None THEN "unborn"
                         ELSE closed'[s]) = IF s \in V THEN reason ELSE Fate[s]
    BY <1>1, <1>2, <1>3 DEF Fate
<1>5. QED
    BY <1>4 DEF Fate

LEMMA LiveFate ==
    ASSUME TypeOK, IInv
    PROVE  \A s \in Source : Fate[s] = "live" <=> s \in sources
<1>1. \A s \in Source : closed[s] \in Reasons \union {None}
    BY DEF TypeOK
<1>2. QED
    BY <1>1 DEF Fate, Reasons

(* Every step of a source's life is a step of the promise. *)
LEMMA StepRefines ==
    ASSUME TypeOK, IInv, LifeStep
    PROVE  [Lifecycle!Next]_(Lifecycle!vars)
<1>0. /\ Lifecycle!vars = <<Fate, Accepted, guard>>
      /\ Lifecycle!vars' = <<Fate', Accepted', guard'>>
      /\ Lifecycle!Source = Source
      /\ Lifecycle!Live = sources
    <2>1. Lifecycle!vars = <<Fate, Accepted, guard>> /\ Lifecycle!Source = Source
        BY DEF Lifecycle!vars, Lifecycle!Source, Fate, Accepted, Source
    <2>2. Lifecycle!vars' = <<Fate', Accepted', guard'>>
        BY DEF Lifecycle!vars, Fate, Accepted
    <2>3. Lifecycle!Live = {s \in Source : Fate[s] = "live"}
        BY DEF Lifecycle!Live, Lifecycle!Source, Fate, Source
    <2>4. QED
        BY <2>1, <2>2, <2>3, LiveFate DEF TypeOK
<1>1. CASE Idle
    BY <1>0, <1>1 DEF Idle, Fate
<1>2. ASSUME NEW s \in Upload, Appears(s) PROVE Lifecycle!Appear(s)
    <2>1. Fate[s] = "unborn" /\ s \in Source
        BY <1>2 DEF Appears, Fate, Source
    <2>2. Fate' = [Fate EXCEPT ![s] = "live"]
        BY <1>2, <2>1 DEF Appears, Fate
    <2>3. QED
        BY <1>2, <2>1, <2>2 DEF Lifecycle!Appear, Appears, Fate, Accepted
<1>3. ASSUME NEW t \in Tabs, NEW s \in Source, Binds(t, s)
      PROVE  Lifecycle!Bind(t, s)
    <2>1. UNCHANGED <<Fate, Accepted>>
        BY <1>3 DEF Binds, Fate
    <2>2. QED
        BY <1>0, <1>3, <2>1 DEF Lifecycle!Bind, Binds, Fate, Accepted
<1>4. ASSUME NEW t \in Tabs, Unbinds(t) PROVE Lifecycle!Unbind(t)
    <2>1. UNCHANGED <<Fate, Accepted>>
        BY <1>4 DEF Unbinds, Fate
    <2>2. QED
        BY <1>4, <2>1 DEF Lifecycle!Unbind, Unbinds, Fate, Accepted
<1>a. ASSUME NEW s \in sources, NEW reason \in Reasons, Leave({s}, reason)
      PROVE  Fate' = [Fate EXCEPT ![s] = reason]
    <2>1. Fate' = [x \in Source |-> IF x \in {s} THEN reason ELSE Fate[x]]
        BY <1>a, LeaveFate
    <2>2. Fate = [x \in Source |-> Fate[x]]
        BY DEF Fate
    <2>3. QED
        BY <2>1, <2>2
<1>5. ASSUME NEW s \in sources \ Stdin, Leave({s}, "closed"), UNCHANGED Accepted
      PROVE  Lifecycle!Close(s)
    <2>1. Fate' = [Fate EXCEPT ![s] = "closed"]
        BY <1>5, <1>a DEF Reasons
    <2>2. UNCHANGED guard
        BY <1>5 DEF Leave
    <2>3. QED
        BY <1>0, <1>5, <2>1, <2>2 DEF Lifecycle!Close, Fate, Accepted
<1>6. ASSUME NEW s \in Upload \ Accepted, NEW reason \in {"closed", "budget"},
             Leave({s}, reason), UNCHANGED Accepted
      PROVE  Lifecycle!Refuse(s)
    <2>1. s \in sources /\ UNCHANGED guard
        BY <1>6 DEF Leave
    <2>2. Fate' = [Fate EXCEPT ![s] = reason]
        BY <1>6, <1>a, <2>1 DEF Reasons
    <2>3. QED
        BY <1>0, <1>6, <2>1, <2>2 DEF Lifecycle!Refuse, Fate, Accepted
<1>b. ASSUME NEW V \in SUBSET Unheld, NEW reason \in {"unloaded", "budget"},
             Leave(V, reason)
      PROVE  Lifecycle!Unload(V, reason)
    <2>1. Fate' = [s \in Source |-> IF s \in V THEN reason ELSE Fate[s]]
        BY <1>b, LeaveFate DEF Reasons
    <2>2. V \subseteq sources \intersect Upload /\ \A t \in Tabs : guard[t] \notin V
        BY DEF Unheld, Holders
    <2>3. UNCHANGED guard
        BY <1>b DEF Leave
    <2>4. QED
        BY <1>0, <2>1, <2>2, <2>3
        DEF Lifecycle!Unload, Lifecycle!Unheld, Lifecycle!Source, Source, Fate
<1>7. ASSUME NEW V \in SUBSET Unheld, NEW reason \in {"unloaded", "budget"},
             Leave(V, reason), UNCHANGED Accepted
      PROVE  Lifecycle!Next
    <2>1. V \in SUBSET Upload /\ Lifecycle!Unload(V, reason)
        BY <1>7, <1>b DEF Unheld
    <2>2. QED
        BY <1>7, <2>1 DEF Lifecycle!Next, Accepted
<1>8. ASSUME NEW V \in SUBSET Unheld, NEW s \in Upload \ V, pc[s] = "final",
             Leave(V, "budget"), Accepted' = Accepted \union {s}
      PROVE  Lifecycle!Next
    <2>1. V \in SUBSET Upload /\ Lifecycle!Unload(V, "budget")
        BY <1>8, <1>b DEF Unheld
    <2>2. Fate[s] # "unborn"
        <3>1. s \in Source /\ pc[s] # "unborn"
            BY <1>8 DEF Source
        <3>2. s \in sources \/ closed[s] \in Reasons
            BY <3>1 DEF IInv, EntriesOK, TypeOK
        <3>3. QED
            BY <3>1, <3>2, RegistryAssumption DEF Fate, Reasons
    <2>3. Lifecycle!Accept(s, V)
        BY <1>8, <2>1, <2>2 DEF Lifecycle!Accept, Fate, Accepted
    <2>4. QED
        BY <2>1, <2>3 DEF Lifecycle!Next
<1>9. sources \subseteq Source /\ Lifecycle!Source = Source
    BY <1>0 DEF TypeOK
<1>10. CASE Lifecycle!Next
    BY <1>10
<1>11. \/ Idle
       \/ \E s \in Upload : Lifecycle!Appear(s)
       \/ \E t \in Tabs, s \in Source : Lifecycle!Bind(t, s)
       \/ \E t \in Tabs : Lifecycle!Unbind(t)
       \/ \E s \in sources : Lifecycle!Close(s)
       \/ \E s \in Upload : Lifecycle!Refuse(s)
       \/ Lifecycle!Next
    BY <1>2, <1>3, <1>4, <1>5, <1>6, <1>7, <1>8 DEF LifeStep
<1>12. QED
    BY <1>1, <1>9, <1>10, <1>11 DEF Lifecycle!Next

(* What looqlog promises about the life of a source (ADR-0011) holds at    *)
(* every interleaving the registry, its readers, its tabs and its sweeper  *)
(* can come to: the registry implements SourceLifecycle.                   *)
THEOREM Implements == Spec => LifecycleSpec
<1>1. Init => Lifecycle!Init
    BY RegistryAssumption
    DEF Init, Lifecycle!Init, Lifecycle!Source, Source
<1>2. TypeOK /\ IInv /\ [LifeStep]_vars => [Lifecycle!Next]_(Lifecycle!vars)
    <2> SUFFICES ASSUME TypeOK, IInv, [LifeStep]_vars
                 PROVE  [Lifecycle!Next]_(Lifecycle!vars)
        OBVIOUS
    <2>1. CASE LifeStep
        BY <2>1, StepRefines
    <2>2. CASE UNCHANGED vars
        BY <2>2, StepRefines
        DEF vars, registryVars, sourceVars, readerVars, tabVars, LifeStep, Idle, Accepted
    <2>3. QED
        BY <2>1, <2>2
<1>3. Spec => Init
    BY DEF Spec
<1>4. QED
    BY <1>1, <1>2, <1>3, Lives, PTL DEF LifecycleSpec, Lifecycle!Spec

-----------------------------------------------------------------------------
(* The accounts and the budget, as long as no tab sends set_format: what   *)
(* the entries come to is a sum over a finite set of ids.                  *)

LEMMA TotalIsSum == \A ids, booked : Total(ids, booked) = Sum(booked, ids)
BY DEF Total, Sum

(* No connection is about to record anything. *)
NoEdits == \A t \in Tabs : conn[t] \in {"idle", "open"}

(* The inductive invariant: the budget needs the accounts, and a sum needs *)
(* a finite set.                                                           *)
AccountInv ==
    /\ IsFiniteSet(sources)
    /\ NoEdits
    /\ BooksKept
    /\ BudgetHonoured

(* The budget holds on if whoever counts now either counted before, for as *)
(* much, or has nothing.                                                   *)
LEMMA BudgetKept ==
    ASSUME TypeOK, TypeOK', IsFiniteSet(sources), IsFiniteSet(sources'),
           BudgetHonoured,
           \A x \in sources' : ~Excused(x)' =>
               \/ retained'[x] = 0
               \/ x \in sources /\ ~Excused(x) /\ retained'[x] = retained[x]
    PROVE  BudgetHonoured'
<1> DEFINE before == {s \in sources : ~Excused(s)}
           after  == {s \in sources' : ~Excused(s)'}
           some   == {s \in after : retained'[s] # 0}
<1>1. /\ IsFiniteSet(before) /\ IsFiniteSet(after)
      /\ some \in SUBSET after /\ some \in SUBSET before
    BY FS_Subset
<1>2. /\ \A x \in before : retained[x] \in Nat
      /\ \A x \in after : retained'[x] \in Nat
    BY DEF TypeOK
<1>3. Sum(retained', some) = Sum(retained', after)
    <2>1. \A x \in after \ some : retained'[x] = 0
        OBVIOUS
    <2> HIDE DEF after, some
    <2>2. QED
        BY <1>1, <1>2, <2>1, SumMonotone
<1>4. Sum(retained', some) = Sum(retained, some)
    <2>1. \A x \in some : retained'[x] = retained[x]
        OBVIOUS
    <2> HIDE DEF some
    <2>2. QED
        BY <2>1, SumSame
<1>5. Sum(retained, some) <= Sum(retained, before)
    <2> HIDE DEF before, some
    <2>1. QED
        BY <1>1, <1>2, SumMonotone
<1>6. Sum(retained, before) <= Budget
    BY TotalIsSum DEF BudgetHonoured
<1>7. Sum(retained, before) \in Nat /\ Sum(retained', after) \in Nat
    <2> HIDE DEF before, after
    <2>1. QED
        BY <1>1, <1>2, SumRemove
<1>8. Sum(retained', after) <= Budget
    <2> HIDE DEF before, after, some
    <2>1. QED
        BY <1>3, <1>4, <1>5, <1>6, <1>7, RegistryAssumption
<1>9. QED
    BY <1>8, TotalIsSum DEF BudgetHonoured

(* Registry::remove takes an entry, its account and its session together.  *)
LEMMA RemoveBooks ==
    ASSUME TypeOK, IInv, AccountInv, NEW V \in SUBSET sources, NEW reason \in Reasons,
           Remove(V, reason, retained, orphaned_since),
           \A x \in Source : \/ pc'[x] = pc[x]
                             \/ pc[x] # "unborn" /\ pc'[x] = "refused" /\ x \notin sources \ V,
           UNCHANGED <<error, measured>>
    PROVE  IsFiniteSet(sources') /\ BooksKept'
<1>1. IsFiniteSet(sources')
    BY FS_Subset DEF AccountInv, Remove
<1>2. ASSUME NEW x \in Source
      PROVE  /\ x \notin sources' => retained'[x] = 0
             /\ pc'[x] = "unborn" => held'[x] = 0
             /\ x \in sources' \ Stdin /\ ~error'[x] =>
                    IF pc'[x] \in {"charge", "final"} THEN measured'[x] = held'[x]
                                                      ELSE retained'[x] = held'[x]
    BY <1>2 DEF AccountInv, BooksKept, Remove
<1>3. QED
    BY <1>1, <1>2 DEF BooksKept

(* Registry::charge: one that fits leaves no more than the budget booked,  *)
(* and of one that does not only the source itself has grown.              *)
LEMMA ChargeBudget ==
    ASSUME TypeOK, TypeOK', IInv, AccountInv, NEW s \in Source, NEW fits, NEW full,
           NEW orphaned \in [Source -> Nat \union {None}],
           pc[s] \in {"charge", "final"},
           fits \in {"fits", "await", "created"}, full \in {"full", "overBudget"},
           Charge(s, fits, orphaned, full)
    PROVE  AccountInv'
<1> DEFINE booked == Recorded(s, measured[s])
<1>1. PICK V \in SUBSET Evictable(s) :
        /\ \/ /\ Total(sources \ V, booked) <= Budget
              /\ Remove(V, "budget", booked, orphaned)
              /\ pc' = [pc EXCEPT ![s] = fits]
           \/ /\ Remove(V, "budget", booked, orphaned_since)
              /\ pc' = [pc EXCEPT ![s] = full]
        /\ measured' = [measured EXCEPT ![s] = 0]
        /\ UNCHANGED <<error, tabVars, now>>
    BY DEF Charge
<1>2. /\ booked \in [Source -> Nat]
      /\ \A x \in Source : booked[x] = IF x = s /\ s \in sources THEN measured[s]
                                                                 ELSE retained[x]
    BY DEF TypeOK, Recorded
<1> HIDE DEF booked
<1>3. /\ V \subseteq sources /\ s \notin V
      /\ sources' = sources \ V
      /\ \A x \in Source : /\ retained'[x] = IF x \in V THEN 0 ELSE booked[x]
                           /\ held'[x] = IF x \in V THEN 0 ELSE held[x]
    BY <1>1 DEF Evictable, Remove
<1>4. IsFiniteSet(sources')
    BY <1>3, FS_Subset DEF AccountInv
<1>5. NoEdits'
    BY <1>1 DEF AccountInv, NoEdits, tabVars
<1>6. /\ pc'[s] \in {fits, full}
      /\ \A x \in Source \ {s} : pc'[x] = pc[x] /\ measured'[x] = measured[x]
    BY <1>1 DEF TypeOK
<1>7. BooksKept'
    <2>1. ASSUME NEW x \in Source
          PROVE  /\ x \notin sources' => retained'[x] = 0
                 /\ pc'[x] = "unborn" => held'[x] = 0
                 /\ x \in sources' \ Stdin /\ ~error'[x] =>
                        IF pc'[x] \in {"charge", "final"} THEN measured'[x] = held'[x]
                                                          ELSE retained'[x] = held'[x]
        <3>1. CASE x = s
            BY <1>1, <1>2, <1>3, <1>6, <3>1 DEF AccountInv, BooksKept
        <3>2. CASE x # s
            BY <1>1, <1>2, <1>3, <1>6, <3>2 DEF AccountInv, BooksKept
        <3>3. QED
            BY <3>1, <3>2
    <2>2. QED
        BY <2>1 DEF BooksKept
<1>8. CASE Total(sources \ V, booked) <= Budget /\ pc' = [pc EXCEPT ![s] = fits]
    <2> DEFINE after == {x \in sources' : ~Excused(x)'}
    <2>1. \A x \in sources' : retained'[x] = booked[x] /\ booked[x] \in Nat
        BY <1>2, <1>3 DEF TypeOK
    <2>2. after \in SUBSET sources'
        OBVIOUS
    <2>3. Sum(retained', sources') = Sum(booked, sources')
        BY <2>1, SumSame
    <2>4. Sum(retained', after) <= Sum(retained', sources')
        <3> HIDE DEF after
        <3>1. \A x \in sources' : retained'[x] \in Nat
            BY <2>1
        <3>2. QED
            BY <1>4, <2>2, <3>1, SumMonotone
    <2>5. Sum(booked, sources') <= Budget
        BY <1>3, <1>8, TotalIsSum
    <2>6. Sum(retained', after) \in Nat /\ Sum(booked, sources') \in Nat
        <3> HIDE DEF after
        <3>1. IsFiniteSet(after) /\ \A x \in after : retained'[x] \in Nat
            BY <1>4, <2>1, <2>2, FS_Subset
        <3>2. QED
            BY <1>4, <2>1, <3>1, SumRemove
    <2>7. Sum(retained', after) <= Budget
        <3> HIDE DEF after
        <3>1. QED
            BY <2>3, <2>4, <2>5, <2>6, RegistryAssumption
    <2>8. BudgetHonoured'
        BY <2>7, TotalIsSum DEF BudgetHonoured
    <2>9. QED
        BY <1>4, <1>5, <1>7, <2>8 DEF AccountInv
<1>9. CASE pc' = [pc EXCEPT ![s] = full]
    <2>1. ASSUME NEW x \in sources', ~Excused(x)'
          PROVE  x \in sources /\ ~Excused(x) /\ retained'[x] = retained[x]
        <3>1. x # s
            BY <1>9, <2>1 DEF Excused, TypeOK
        <3>2. x \in Source /\ x \in sources /\ x \notin V
            BY <1>3 DEF TypeOK
        <3>3. pc'[x] = pc[x] /\ error' = error
            BY <1>1, <1>6, <3>1, <3>2
        <3>4. QED
            BY <1>2, <1>3, <2>1, <3>1, <3>2, <3>3 DEF Excused
    <2>2. BudgetHonoured'
        BY <1>4, <2>1, BudgetKept DEF AccountInv
    <2>3. QED
        BY <1>4, <1>5, <1>7, <2>2 DEF AccountInv
<1>10. QED
    BY <1>1, <1>8, <1>9

(* A step of one source that leaves the registry alone.                    *)
LEMMA QuietBudget ==
    ASSUME TypeOK, TypeOK', IInv, AccountInv, NEW s \in Source,
           UNCHANGED <<sources, retained, tabVars>>,
           pc[s] # "unborn", pc'[s] # "unborn",
           \A x \in Source \ {s} : /\ pc'[x] = pc[x] /\ error'[x] = error[x]
                                   /\ measured'[x] = measured[x] /\ held'[x] = held[x],
           ~Excused(s)' => ~Excused(s) \/ retained[s] = 0,
           s \in sources \ Stdin /\ ~error'[s] =>
               IF pc'[s] \in {"charge", "final"} THEN measured'[s] = held'[s]
                                                 ELSE retained[s] = held'[s]
    PROVE  AccountInv'
<1>1. IsFiniteSet(sources') /\ NoEdits'
    BY DEF AccountInv, NoEdits, tabVars
<1>2. BooksKept'
    BY DEF AccountInv, BooksKept
<1>3. ASSUME NEW x \in sources', ~Excused(x)'
      PROVE  \/ retained'[x] = 0
             \/ x \in sources /\ ~Excused(x) /\ retained'[x] = retained[x]
    BY <1>3 DEF Excused, TypeOK
<1>4. BudgetHonoured'
    BY <1>1, <1>3, BudgetKept DEF AccountInv
<1>5. QED
    BY <1>1, <1>2, <1>4 DEF AccountInv

(* A step of a tab that only records nothing. *)
LEMMA TabBudget ==
    ASSUME TypeOK, TypeOK', IInv, AccountInv,
           UNCHANGED <<sources, retained, sourceVars, readerVars>>, NoEdits'
    PROVE  AccountInv'
<1>1. IsFiniteSet(sources') /\ BooksKept'
    BY DEF AccountInv, BooksKept, sourceVars, readerVars
<1>2. ASSUME NEW x \in sources', ~Excused(x)'
      PROVE  x \in sources /\ ~Excused(x) /\ retained'[x] = retained[x]
    BY <1>2 DEF Excused, sourceVars, readerVars
<1>3. BudgetHonoured'
    BY <1>1, <1>2, BudgetKept DEF AccountInv
<1>4. QED
    BY <1>1, <1>3 DEF AccountInv

(* Any step preserves the accounts and the budget. *)
LEMMA NextBudget ==
    ASSUME Editors = {}
    PROVE  TypeOK /\ TypeOK' /\ IInv /\ AccountInv /\ [Next]_vars => AccountInv'
<1> SUFFICES ASSUME TypeOK, TypeOK', IInv, AccountInv, [Next]_vars PROVE AccountInv'
    OBVIOUS
<1>0. /\ Argv \subseteq Source /\ Stdin \subseteq Source /\ Upload \subseteq Source
      /\ Argv \intersect Stdin = {} /\ Upload \intersect Stdin = {}
    BY RegistryAssumption DEF Source
<1>a. ASSUME NEW s \in Source, pc[s] # "unborn",
             pc[s] \notin {"charge", "final", "overBudget", "full"},
             NEW next, next \notin {"unborn", "charge", "final"}, Goto(s, next)
      PROVE  AccountInv'
    BY <1>a, QuietBudget DEF Goto, TypeOK, AccountInv, BooksKept, Excused, registryVars,
       sourceVars
<1>b. ASSUME NEW s \in Source, pc[s] \notin {"unborn", "overBudget", "full"},
             NEW bytes, held' = [held EXCEPT ![s] = bytes],
             measured' = [measured EXCEPT ![s] = bytes],
             NEW next \in {"charge", "final"}, pc' = [pc EXCEPT ![s] = next],
             \A x \in Source : error'[x] = error[x] \/ (x = s /\ error'[x]),
             s \in Stdin \/ s \in Upload => UNCHANGED error,
             UNCHANGED <<sources, retained, tabVars>>
      PROVE  AccountInv'
    <2>1. \A x \in Source \ {s} : /\ pc'[x] = pc[x] /\ error'[x] = error[x]
                                  /\ measured'[x] = measured[x] /\ held'[x] = held[x]
        BY <1>b DEF TypeOK
    <2>2. pc'[s] = next /\ measured'[s] = held'[s]
        BY <1>b DEF TypeOK
    <2>3. ~Excused(s)' => ~Excused(s)
        BY <1>b, <2>2 DEF Excused, Source
    <2>4. QED
        BY <1>b, <2>1, <2>2, <2>3, QuietBudget
<1>1. ASSUME NEW s \in Source, ArgvRead(s) PROVE AccountInv'
    <2>1. \A x \in Source : error'[x] = error[x] \/ (x = s /\ error'[x])
        <3>1. CASE error' = error
            BY <3>1
        <3>2. ASSUME NEW failed \in BOOLEAN,
                     error' = [error EXCEPT ![s] = error[s] \/ failed]
              PROVE  \A x \in Source : error'[x] = error[x] \/ (x = s /\ error'[x])
            <4>1. \A x \in Source \ {s} : error'[x] = error[x]
                BY <3>2 DEF TypeOK
            <4>2. failed => error'[s]
                BY <3>2, Zenon DEF TypeOK
            <4>3. ~failed => error'[s] = error[s]
                <5>1. error[s] \in BOOLEAN
                    BY DEF TypeOK
                <5>2. ~failed => (error[s] \/ failed) = error[s]
                    BY <5>1
                <5>3. error'[s] = (error[s] \/ failed)
                    BY <3>2, Zenon DEF TypeOK
                <5>4. QED
                    BY <5>2, <5>3
            <4>4. QED
                BY <4>1, <4>2, <4>3
        <3>3. QED
            BY <1>1, <3>1, <3>2, Zenon DEF ArgvRead
    <2>2. s \notin Stdin /\ s \notin Upload
        BY <1>1, RegistryAssumption DEF ArgvRead
    <2>3. PICK bytes : /\ held' = [held EXCEPT ![s] = bytes]
                       /\ measured' = [measured EXCEPT ![s] = bytes]
                       /\ pc' = [pc EXCEPT ![s] = "charge"]
        BY <1>1 DEF ArgvRead, Feed
    <2>4. pc[s] = "read" /\ UNCHANGED <<sources, retained, tabVars>>
        BY <1>1 DEF ArgvRead, registryVars
    <2>5. QED
        BY <1>b, <2>1, <2>2, <2>3, <2>4
<1>2. ASSUME NEW s \in Source, ArgvStop(s) PROVE AccountInv'
    BY <1>2, <1>a DEF ArgvStop
<1>3. ASSUME NEW s \in Source, ArgvCharge(s) PROVE AccountInv'
    BY <1>3, ChargeBudget DEF ArgvCharge, TypeOK
<1>4. ASSUME NEW s \in Source, ArgvSettle(s) PROVE AccountInv'
    BY <1>4, <1>a DEF ArgvSettle
<1>5. ASSUME NEW s \in Source, ArgvGiveUp(s) PROVE AccountInv'
    <2>1. /\ pc[s] = "full" /\ s \in Argv
          /\ error' = [error EXCEPT ![s] = TRUE]
          /\ pc' = [pc EXCEPT ![s] = "done"]
          /\ UNCHANGED <<sources, retained, measured, tabVars>>
        BY <1>5 DEF ArgvGiveUp, registryVars
    <2>2. \A x \in Source \ {s} : held'[x] = held[x]
        BY <1>5 DEF ArgvGiveUp, TypeOK
    <2>3. Excused(s)' /\ error'[s]
        BY <2>1 DEF Excused, TypeOK
    <2>4. QED
        BY <2>1, <2>2, <2>3, QuietBudget DEF TypeOK
<1>6. ASSUME NEW s \in Source, StdinRead(s) PROVE AccountInv'
    <2>1. PICK bytes : /\ held' = [held EXCEPT ![s] = bytes]
                       /\ measured' = [measured EXCEPT ![s] = bytes]
                       /\ pc' = [pc EXCEPT ![s] = "charge"]
        BY <1>6 DEF StdinRead, Feed
    <2>2. /\ pc[s] \in {"read", "first", "await"}
          /\ UNCHANGED <<sources, retained, error, tabVars>>
        BY <1>6 DEF StdinRead, registryVars
    <2>3. QED
        BY <1>b, <2>1, <2>2
<1>7. ASSUME NEW s \in Source, StdinRecord(s) PROVE AccountInv'
    <2>1. /\ s \in Stdin /\ s \in sources /\ pc[s] = "charge"
          /\ \A x \in Source \ {s} : /\ retained'[x] = retained[x] /\ pc'[x] = pc[x]
                                     /\ measured'[x] = measured[x]
          /\ pc'[s] # "unborn"
          /\ UNCHANGED <<sources, sourceVars, tabVars>>
        BY <1>7 DEF StdinRecord, Recorded, TypeOK, IInv, EntriesOK
    <2>2. IsFiniteSet(sources') /\ NoEdits'
        BY <2>1 DEF AccountInv, NoEdits, tabVars
    <2>3. BooksKept'
        BY <2>1 DEF AccountInv, BooksKept, sourceVars
    <2>4. ASSUME NEW x \in sources', ~Excused(x)'
          PROVE  x \in sources /\ ~Excused(x) /\ retained'[x] = retained[x]
        BY <2>1, <2>4 DEF Excused, sourceVars, TypeOK
    <2>5. BudgetHonoured'
        BY <2>2, <2>4, BudgetKept DEF AccountInv
    <2>6. QED
        BY <2>2, <2>3, <2>5 DEF AccountInv
<1>8. ASSUME NEW s \in Source, DetectionHold(s) PROVE AccountInv'
    <2>1. /\ s \in Stdin
          /\ \A x \in Source \ {s} : held'[x] = held[x]
          /\ UNCHANGED <<sources, retained, error, pc, measured, tabVars>>
        BY <1>8 DEF DetectionHold, registryVars, readerVars, TypeOK
    <2>2. pc[s] # "unborn"
        BY <2>1, RegistryAssumption DEF IInv, EntriesOK
    <2>3. QED
        BY <2>1, <2>2, QuietBudget DEF Excused
<1>9. ASSUME NEW s \in Source, UploadBegin(s) PROVE AccountInv'
    <2>1. /\ s \in Upload /\ pc[s] = "unborn" /\ s \notin sources
          /\ sources' = sources \union {s}
          /\ pc' = [pc EXCEPT ![s] = "first"]
          /\ UNCHANGED <<retained, sourceVars, measured, tabVars>>
        BY <1>9 DEF UploadBegin, IInv, EntriesOK
    <2>2. retained[s] = 0 /\ held[s] = 0
        BY <2>1 DEF AccountInv, BooksKept
    <2>3. IsFiniteSet(sources') /\ NoEdits'
        BY <2>1, FS_AddElement DEF AccountInv, NoEdits, tabVars
    <2>4. BooksKept'
        BY <2>1, <2>2 DEF AccountInv, BooksKept, sourceVars, TypeOK
    <2>5. ASSUME NEW x \in sources', ~Excused(x)'
          PROVE  \/ retained'[x] = 0
                 \/ x \in sources /\ ~Excused(x) /\ retained'[x] = retained[x]
        BY <2>1, <2>2, <2>5 DEF Excused, sourceVars, TypeOK
    <2>6. BudgetHonoured'
        BY <2>3, <2>5, BudgetKept DEF AccountInv
    <2>7. QED
        BY <2>3, <2>4, <2>6 DEF AccountInv
<1>10. ASSUME NEW s \in Source, UploadChunk(s) PROVE AccountInv'
    <2>1. PICK bytes : /\ held' = [held EXCEPT ![s] = bytes]
                       /\ measured' = [measured EXCEPT ![s] = bytes]
                       /\ pc' = [pc EXCEPT ![s] = "charge"]
        BY <1>10 DEF UploadChunk, Feed
    <2>2. /\ pc[s] \in {"read", "first", "await"}
          /\ UNCHANGED <<sources, retained, error, tabVars>>
        BY <1>10 DEF UploadChunk, registryVars
    <2>3. QED
        BY <1>b, <2>1, <2>2
<1>11. ASSUME NEW s \in Source, UploadConflict(s) PROVE AccountInv'
    BY <1>11, <1>a DEF UploadConflict
<1>12. ASSUME NEW s \in Source, UploadCharge(s) PROVE AccountInv'
    BY <1>12, ChargeBudget DEF UploadCharge, TypeOK
<1>13. ASSUME NEW s \in Source, UploadAbort(s) PROVE AccountInv'
    BY <1>13, <1>a DEF UploadAbort
<1>14. ASSUME NEW s \in Source, UploadEnd(s) PROVE AccountInv'
    <2>1. PICK bytes : /\ held' = [held EXCEPT ![s] = bytes]
                       /\ measured' = [measured EXCEPT ![s] = bytes]
                       /\ pc' = [pc EXCEPT ![s] = "final"]
        BY <1>14 DEF UploadEnd, Feed
    <2>2. /\ pc[s] \in {"read", "first", "await"}
          /\ UNCHANGED <<sources, retained, error, tabVars>>
        BY <1>14 DEF UploadEnd, registryVars
    <2>3. QED
        BY <1>b, <2>1, <2>2
<1>15. ASSUME NEW s \in Source, UploadAccept(s) PROVE AccountInv'
    <2>1. Done(s) \in [Source -> Nat \union {None}]
        BY DEF Done, TypeOK
    <2>2. QED
        BY <1>15, <2>1, ChargeBudget DEF UploadAccept
<1>c. ASSUME NEW V \in SUBSET sources, NEW reason \in Reasons,
             Remove(V, reason, retained, orphaned_since),
             \A x \in Source : \/ pc'[x] = pc[x]
                               \/ /\ pc[x] # "unborn" /\ pc'[x] = "refused"
                                  /\ x \notin sources \ V,
             UNCHANGED <<error, measured, tabVars>>
      PROVE  AccountInv'
    <2>1. IsFiniteSet(sources') /\ BooksKept'
        BY <1>c, RemoveBooks
    <2>2. NoEdits'
        BY <1>c DEF AccountInv, NoEdits, tabVars
    <2>3. ASSUME NEW x \in sources', ~Excused(x)'
          PROVE  x \in sources /\ ~Excused(x) /\ retained'[x] = retained[x]
        <3>1. x \in sources \ V /\ x \in Source
            BY <1>c, <2>3 DEF Remove, TypeOK
        <3>2. retained'[x] = retained[x] /\ pc'[x] = pc[x] /\ error'[x] = error[x]
            BY <1>c, <3>1 DEF Remove
        <3>3. QED
            BY <2>3, <3>1, <3>2 DEF Excused
    <2>4. BudgetHonoured'
        BY <2>1, <2>3, BudgetKept DEF AccountInv
    <2>5. QED
        BY <2>1, <2>2, <2>4 DEF AccountInv
<1>16. ASSUME NEW s \in Source, DropPartial(s) PROVE AccountInv'
    <2>1. PICK reason \in Reasons :
              Remove({s} \intersect sources, reason, retained, orphaned_since)
        BY <1>16 DEF DropPartial, Reasons
    <2>2. \A x \in Source : \/ pc'[x] = pc[x]
                            \/ /\ pc[x] # "unborn" /\ pc'[x] = "refused"
                               /\ x \notin sources \ ({s} \intersect sources)
        BY <1>16 DEF DropPartial, TypeOK
    <2>3. QED
        BY <1>16, <1>c, <2>1, <2>2 DEF DropPartial
<1>17. ASSUME NEW s \in Source, Close(s) PROVE AccountInv'
    BY <1>17, <1>c DEF Close, Reasons, readerVars
<1>18. CASE Sweep
    BY <1>18, <1>c DEF Sweep, Expired, Reasons, readerVars
<1>19. ASSUME NEW t \in Tabs, NEW s \in Source, Attach(t, s) PROVE AccountInv'
    <2>1. NoEdits'
        BY <1>19 DEF Attach, AccountInv, NoEdits, TypeOK
    <2>2. QED
        BY <1>19, <2>1, TabBudget DEF Attach
<1>20. ASSUME NEW t \in Tabs, Detach(t) PROVE AccountInv'
    <2>1. NoEdits'
        BY <1>20 DEF Detach, AccountInv, NoEdits, TypeOK
    <2>2. QED
        BY <1>20, <2>1, TabBudget DEF Detach
<1>21. ASSUME NEW t \in Tabs, Notify(t) PROVE AccountInv'
    <2>1. NoEdits'
        BY <1>21 DEF Notify, AccountInv, NoEdits
    <2>2. QED
        BY <1>21, <2>1, TabBudget DEF Notify, registryVars
<1>22. ASSUME NEW t \in Tabs, SetFormat(t) \/ Measure(t) \/ Rebook(t) PROVE AccountInv'
    BY <1>22 DEF SetFormat, Measure, Rebook, AccountInv, NoEdits
<1>23. CASE UNCHANGED <<registryVars, sourceVars, readerVars, tabVars>>
    <2>1. NoEdits'
        BY <1>23 DEF AccountInv, NoEdits, tabVars
    <2>2. QED
        BY <1>23, <2>1, TabBudget DEF registryVars
<1>24. CASE Tick \/ UNCHANGED vars
    BY <1>23, <1>24 DEF Tick, vars
<1>25. QED
    BY <1>1, <1>2, <1>3, <1>4, <1>5, <1>6, <1>7, <1>8, <1>9, <1>10, <1>11, <1>12,
       <1>13, <1>14, <1>15, <1>16, <1>17, <1>18, <1>19, <1>20, <1>21, <1>22, <1>24
    DEF Next, ArgvStep, UploadStep

LEMMA InitBudget == Init => AccountInv
<1> SUFFICES ASSUME Init PROVE AccountInv
    OBVIOUS
<1>1. IsFiniteSet(sources) /\ NoEdits
    BY RegistryAssumption DEF Init, NoEdits
<1>2. BooksKept
    BY DEF Init, BooksKept
<1>3. BudgetHonoured
    <2> DEFINE before == {s \in sources : ~Excused(s)}
    <2>1. before \in SUBSET Source /\ IsFiniteSet(before)
        BY <1>1, FS_Subset DEF Init, Source
    <2>2. \A x \in before : retained[x] = 0
        BY <2>1 DEF Init
    <2> HIDE DEF before
    <2>3. Sum(retained, {}) = Sum(retained, before)
        BY <2>1, <2>2, SumMonotone
    <2>4. Sum(retained, {}) = 0
        BY FS_EmptySet, SumTurn
    <2>5. QED
        BY <2>3, <2>4, TotalIsSum, RegistryAssumption DEF BudgetHonoured, before
<1>4. QED
    BY <1>1, <1>2, <1>3 DEF AccountInv

-----------------------------------------------------------------------------
(* The accounts and the budget at every interleaving of readers, uploads,  *)
(* evictions, tabs, closes and the sweeper (source.rs, server.rs).         *)
THEOREM AccountInvariant == Editors = {} /\ Spec => []AccountInv
<1>1. SUFFICES ASSUME Editors = {} PROVE Spec => []AccountInv
    OBVIOUS
<1>2. Spec => [](TypeOK /\ IInv)
    BY TypeCorrect, RegistryInvariant, PTL
<1>3. Init => AccountInv
    BY InitBudget
<1>4. TypeOK /\ TypeOK' /\ IInv /\ AccountInv /\ [Next]_vars => AccountInv'
    BY <1>1, NextBudget
<1>5. QED
    BY <1>2, <1>3, <1>4, PTL DEF Spec

(* "Counted from what each session actually retains" (ADR-0011): the       *)
(* registry's number for a source that is neither stdin nor failed is the  *)
(* size of its session, whenever nobody is about to record it.             *)
THEOREM AccountedFor == Editors = {} /\ Spec => []AccountedWhenQuiet
<1>1. AccountInv /\ TypeOK => AccountedWhenQuiet
    BY DEF AccountInv, TypeOK, BooksKept, AccountedWhenQuiet, Quiet
<1>2. QED
    BY <1>1, AccountInvariant, TypeCorrect, PTL

(* The budget is honoured: however many uploads and files arrive at once   *)
(* and are refused, evicted, swept or closed, those that may go on fit.    *)
THEOREM BudgetIsHonoured == Editors = {} /\ Spec => []BudgetHonoured
BY AccountInvariant, PTL DEF AccountInv
=============================================================================
