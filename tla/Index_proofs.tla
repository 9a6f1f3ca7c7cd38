---------------------------- MODULE Index_proofs ----------------------------
(***************************************************************************)
(* Proofs about EntryIndex, for entries with any times: what appending,    *)
(* evicting and compacting keep, and what a range of time holds.           *)
(***************************************************************************)
EXTENDS EntryIndex, FiniteSetTheorems, SequenceTheorems, TLAPS

Pops == INSTANCE LeftFolds WITH Op <- PopFront
Kept == INSTANCE LeftFolds WITH Op <- KeepRef

(* A sequence, of whatever. *)
Sequence(s) == s \in Seq(ToSet(s))

LEMMA IsSequence == ASSUME NEW S, NEW q \in Seq(S) PROVE Sequence(q)
<1>1. q \in [1..Len(q) -> ToSet(q)] /\ Len(q) \in Nat
    BY DEF ToSet
<1>2. QED
    BY <1>1 DEF Sequence

LEMMA EmptySequence ==
    Sequence(<<>>) /\ ToSet(<<>>) = {} /\ Len(<<>>) = 0 /\ 1..0 = {}
<1>1. <<>> \in Seq({})
    OBVIOUS
<1>2. DOMAIN <<>> = {}
    OBVIOUS
<1>3. ToSet(<<>>) = {}
    BY <1>2 DEF ToSet
<1>4. Sequence(<<>>)
    BY <1>1, IsSequence
<1>5. Len(<<>>) = 0 /\ 1..0 = {}
    OBVIOUS
<1>6. QED
    BY <1>3, <1>4, <1>5

LEMMA SequencePlaces ==
    ASSUME NEW s, Sequence(s)
    PROVE  /\ Len(s) \in Nat /\ DOMAIN s = 1..Len(s)
           /\ ToSet(s) = {s[k] : k \in 1..Len(s)}
           /\ s = <<>> <=> Len(s) = 0
           /\ s # <<>> => 1 \in 1..Len(s) /\ Len(s) \in 1..Len(s) /\ Head(s) = s[1]
                          /\ Last(s) = s[Len(s)]
<1> DEFINE S == ToSet(s)
<1>1. s \in Seq(S)
    BY DEF Sequence
<1> HIDE DEF S
<1>2. /\ Len(s) \in Nat /\ DOMAIN s = 1..Len(s)
      /\ s = <<>> <=> Len(s) = 0
      /\ s # <<>> => Head(s) = s[1]
    BY <1>1
<1>3. QED
    BY <1>2 DEF ToSet, Last

LEMMA AppendSequence ==
    ASSUME NEW s, Sequence(s), NEW m
    PROVE  /\ Sequence(Append(s, m))
           /\ Len(Append(s, m)) = Len(s) + 1
           /\ Append(s, m)[Len(s) + 1] = m
           /\ \A k \in 1..Len(s) : Append(s, m)[k] = s[k]
           /\ ToSet(Append(s, m)) = ToSet(s) \union {m}
<1> DEFINE S == ToSet(s) \union {m}
           b == Append(s, m)
           n == Len(s)
<1>1. s \in Seq(S) /\ m \in S
    BY SeqMonotonic DEF Sequence
<1> HIDE DEF S
<1>2. /\ b \in Seq(S) /\ Len(b) = n + 1 /\ n \in Nat
      /\ DOMAIN s = 1..n /\ DOMAIN b = 1..(n + 1)
      /\ b[n + 1] = m /\ \A k \in 1..n : b[k] = s[k]
    BY <1>1
<1>3. Sequence(b)
    BY <1>2, IsSequence
<1> HIDE DEF b, n
<1>4. ToSet(b) = {b[k] : k \in 1..(n + 1)} /\ ToSet(s) = {s[k] : k \in 1..n}
    BY <1>2 DEF ToSet
<1>5. 1..(n + 1) = (1..n) \union {n + 1}
    BY <1>2
<1>6. ToSet(b) = ToSet(s) \union {m}
    BY <1>2, <1>4, <1>5
<1>7. QED
    BY <1>2, <1>3, <1>6 DEF b, n

LEMMA TailSequence ==
    ASSUME NEW s, Sequence(s), s # <<>>
    PROVE  /\ Sequence(Tail(s))
           /\ Len(Tail(s)) = Len(s) - 1
           /\ \A k \in 1..(Len(s) - 1) : Tail(s)[k] = s[k + 1]
<1> DEFINE S == ToSet(s)
<1>1. s \in Seq(S)
    BY DEF Sequence
<1> HIDE DEF S
<1>2. /\ Tail(s) \in Seq(S)
      /\ Len(Tail(s)) = Len(s) - 1
      /\ \A k \in 1..(Len(s) - 1) : Tail(s)[k] = s[k + 1]
    BY <1>1
<1>3. QED
    BY <1>2, IsSequence

(* A stretch of a sequence. *)
LEMMA StretchSequence ==
    ASSUME NEW s, Sequence(s), NEW a \in 1..(Len(s) + 1), NEW b \in 0..Len(s)
    PROVE  /\ Sequence(SubSeq(s, a, b))
           /\ Len(SubSeq(s, a, b)) = IF a <= b THEN b - a + 1 ELSE 0
           /\ \A k \in 1..Len(SubSeq(s, a, b)) :
                  SubSeq(s, a, b)[k] = s[a + k - 1] /\ a + k - 1 \in a..b
<1> DEFINE S == ToSet(s)
<1>1. s \in Seq(S) /\ Len(s) \in Nat
    BY SequencePlaces DEF Sequence
<1> HIDE DEF S
<1>2. /\ SubSeq(s, a, b) \in Seq(S)
      /\ Len(SubSeq(s, a, b)) = IF a <= b THEN b - a + 1 ELSE 0
      /\ \A k \in 1..Len(SubSeq(s, a, b)) :
             SubSeq(s, a, b)[k] = s[a + k - 1] /\ a + k - 1 \in a..b
    BY <1>1
<1>3. QED
    BY <1>2, IsSequence

LEMMA SequenceFinite ==
    ASSUME NEW s, Sequence(s)
    PROVE  IsFiniteSet(ToSet(s))
<1>1. Len(s) \in Nat /\ DOMAIN s = 1..Len(s)
    BY SequencePlaces
<1>2. IsFiniteSet(1..Len(s))
    BY <1>1, FS_Interval
<1>3. s \in Surjection(1..Len(s), ToSet(s))
    <2>1. s \in [1..Len(s) -> ToSet(s)]
        BY DEF Sequence
    <2>2. \A x \in ToSet(s) : \E k \in 1..Len(s) : s[k] = x
        BY <1>1 DEF ToSet
    <2>3. QED
        BY <2>1, <2>2 DEF Surjection
<1>4. QED
    BY <1>2, <1>3, FS_Surjection, Zenon

(* Two sets whose elements are matched one to one are equally large. *)
LEMMA SameSize ==
    ASSUME NEW S, IsFiniteSet(S), NEW T, NEW f \in [S -> T],
           \A x, y \in S : f[x] = f[y] => x = y,
           \A z \in T : \E x \in S : f[x] = z
    PROVE  IsFiniteSet(T) /\ Cardinality(T) = Cardinality(S)
<1>1. f \in Bijection(S, T)
    BY DEF Bijection, Injection, Surjection, IsInjective
<1>2. ExistsBijection(S, T)
    BY <1>1 DEF ExistsBijection
<1>3. QED
    BY <1>2, FS_Bijection

(* Places that come before all others are the first so many. *)
LEMMA FirstPlaces ==
    ASSUME NEW n \in Nat, NEW P \in SUBSET (1..n),
           \A k \in P : \A j \in 1..n : j < k => j \in P
    PROVE  Cardinality(P) \in 0..n /\ P = 1..Cardinality(P)
<1>1. CASE P = {}
    <2>1. Cardinality(P) = 0 /\ 1..0 = {}
        BY <1>1, FS_EmptySet
    <2>2. QED
        BY <1>1, <2>1
<1>2. CASE P # {}
    <2> DEFINE m == Pops!Max(P)
    <2>1. m \in P /\ \A k \in P : k <= m
        BY <1>2, Pops!Largest, Zenon
    <2> HIDE DEF m
    <2>2. m \in 1..n /\ P = 1..m
        <3>1. m \in 1..n
            BY <2>1
        <3>2. \A k \in P : k \in 1..m
            BY <2>1
        <3>3. \A j \in 1..m : j \in P
            BY <2>1, <3>1
        <3>4. QED
            BY <3>1, <3>2, <3>3
    <2>3. Cardinality(1..m) = m
        BY <2>2, FS_Interval
    <2>4. QED
        BY <2>2, <2>3
<1>3. QED
    BY <1>1, <1>2

-----------------------------------------------------------------------------
(* Refs in time order.                                                     *)

Ref == [ms : Int, ordinal : Int]

InOrder(s) == \A j, k \in DOMAIN s : j < k => s[j].ms <= s[k].ms

OnceEach(s) == \A j, k \in DOMAIN s : s[j].ordinal = s[k].ordinal => j = k

LEMMA RefPlaces ==
    ASSUME NEW s \in Seq(Ref)
    PROVE  /\ Len(s) \in Nat /\ DOMAIN s = 1..Len(s) /\ Sequence(s)
           /\ \A k \in 1..Len(s) : /\ s[k] \in Ref /\ s[k] \in ToSet(s)
                                   /\ s[k].ms \in Int /\ s[k].ordinal \in Int
<1>1. Len(s) \in Nat /\ DOMAIN s = 1..Len(s) /\ \A k \in 1..Len(s) : s[k] \in Ref
    OBVIOUS
<1>2. \A r \in Ref : r.ms \in Int /\ r.ordinal \in Int
    BY DEF Ref
<1>3. Sequence(s)
    BY IsSequence
<1>4. QED
    BY <1>1, <1>2, <1>3 DEF ToSet

LEMMA Bounds ==
    ASSUME NEW s \in Seq(Ref), InOrder(s), NEW ms \in Int
    PROVE  /\ LowerBound(s, ms) \in 0..Len(s)
           /\ \A k \in 1..Len(s) : s[k].ms < ms <=> k <= LowerBound(s, ms)
           /\ UpperBound(s, ms) \in 0..Len(s)
           /\ \A k \in 1..Len(s) : s[k].ms <= ms <=> k <= UpperBound(s, ms)
<1> DEFINE P == {k \in DOMAIN s : s[k].ms < ms}
           Q == {k \in DOMAIN s : s[k].ms <= ms}
           n == Len(s)
<1>1. n \in Nat /\ DOMAIN s = 1..n /\ \A k \in 1..n : s[k].ms \in Int
    BY RefPlaces
<1>2. \A j, k \in 1..n : j < k => s[j].ms <= s[k].ms
    BY <1>1 DEF InOrder
<1> HIDE DEF n
<1>3. P \in SUBSET (1..n) /\ \A k \in P : \A j \in 1..n : j < k => j \in P
    BY <1>1, <1>2
<1>4. Q \in SUBSET (1..n) /\ \A k \in Q : \A j \in 1..n : j < k => j \in Q
    BY <1>1, <1>2
<1>5. /\ Cardinality(P) \in 0..n /\ P = 1..Cardinality(P)
      /\ Cardinality(Q) \in 0..n /\ Q = 1..Cardinality(Q)
    <2> HIDE DEF P, Q
    <2>1. QED
        BY <1>1, <1>3, <1>4, FirstPlaces
<1>6. \A k \in 1..n : s[k].ms < ms <=> k <= Cardinality(P)
    <2>1. \A k \in 1..n : s[k].ms < ms <=> k \in P
        BY <1>1
    <2> HIDE DEF P
    <2>2. QED
        BY <1>1, <1>5, <2>1
<1>7. \A k \in 1..n : s[k].ms <= ms <=> k <= Cardinality(Q)
    <2>1. \A k \in 1..n : s[k].ms <= ms <=> k \in Q
        BY <1>1
    <2> HIDE DEF Q
    <2>2. QED
        BY <1>1, <1>5, <2>1
<1>8. QED
    BY <1>5, <1>6, <1>7 DEF LowerBound, UpperBound, n

LEMMA InsertedIs ==
    ASSUME NEW s, NEW k, NEW r
    PROVE  InsertAt(s, k, r) = SubSeq(s, 1, k - 1) \o <<r>> \o SubSeq(s, k, Len(s))
BY DEF InsertAt

(* Something put into a sequence after its first m elements. *)
LEMMA InsertedAt ==
    ASSUME NEW S, NEW s \in Seq(S), NEW r \in S, NEW m \in 0..Len(s)
    PROVE  /\ InsertAt(s, m + 1, r) \in Seq(S)
           /\ Len(InsertAt(s, m + 1, r)) = Len(s) + 1
           /\ \A k \in 1..(Len(s) + 1) :
                  InsertAt(s, m + 1, r)[k] =
                      IF k <= m THEN s[k] ELSE IF k = m + 1 THEN r ELSE s[k - 1]
<1> DEFINE n     == Len(s)
           front == SubSeq(s, 1, m)
           back  == SubSeq(s, m + 1, n)
           joint == front \o <<r>>
<1>1. n \in Nat /\ m \in Nat /\ m <= n /\ m + 1 - 1 = m
    OBVIOUS
<1>2. /\ front \in Seq(S) /\ Len(front) = m /\ \A k \in 1..m : front[k] = s[k]
      /\ back \in Seq(S) /\ Len(back) = n - m
      /\ \A k \in 1..(n - m) : back[k] = s[m + k]
    BY <1>1
<1>3. InsertAt(s, m + 1, r) = joint \o back
    <2>1. InsertAt(s, m + 1, r) = SubSeq(s, 1, (m + 1) - 1) \o <<r>> \o SubSeq(s, m + 1, Len(s))
        BY InsertedIs, Zenon
    <2>2. SubSeq(s, 1, (m + 1) - 1) = SubSeq(s, 1, m)
        BY <1>1
    <2>3. QED
        BY <2>1, <2>2
<1> HIDE DEF front, back, n
<1>4. <<r>> \in Seq(S) /\ Len(<<r>>) = 1 /\ <<r>>[1] = r
    OBVIOUS
<1>5. /\ joint \in Seq(S) /\ Len(joint) = m + 1
      /\ \A k \in 1..(m + 1) : joint[k] = IF k <= m THEN s[k] ELSE r
    <2>1. /\ joint \in Seq(S) /\ Len(joint) = m + 1
          /\ \A k \in 1..(m + 1) : joint[k] = IF k <= m THEN front[k] ELSE <<r>>[k - m]
        BY <1>1, <1>2, <1>4, ConcatProperties
    <2> HIDE DEF joint
    <2>2. \A k \in 1..(m + 1) : k <= m \/ k - m = 1
        BY <1>1
    <2>3. QED
        BY <1>1, <1>2, <1>4, <2>1, <2>2
<1> HIDE DEF joint
<1>6. /\ joint \o back \in Seq(S) /\ Len(joint \o back) = m + 1 + (n - m)
      /\ \A k \in 1..(m + 1 + (n - m)) : (joint \o back)[k] =
             IF k <= m + 1 THEN joint[k] ELSE back[k - (m + 1)]
    <2>1. /\ joint \in Seq(S) /\ back \in Seq(S)
          /\ Len(joint) = m + 1 /\ Len(back) = n - m
        BY <1>1, <1>2, <1>5
    <2>2. m + 1 \in Nat /\ n - m \in Nat
        BY <1>1
    <2> DEFINE p == m + 1
               q == n - m
    <2> HIDE DEF p, q
    <2>3. p \in Nat /\ q \in Nat /\ Len(joint) = p /\ Len(back) = q
        BY <2>1, <2>2 DEF p, q
    <2>4. /\ joint \o back \in Seq(S) /\ Len(joint \o back) = p + q
          /\ \A k \in 1..(p + q) : (joint \o back)[k] =
                 IF k <= p THEN joint[k] ELSE back[k - p]
        BY <2>1, <2>3, ConcatProperties
    <2>5. QED
        BY <2>4 DEF p, q
<1>7. ASSUME NEW k \in 1..(n + 1)
      PROVE  (joint \o back)[k] = IF k <= m THEN s[k] ELSE IF k = m + 1 THEN r ELSE s[k - 1]
    <2>1. CASE k <= m + 1
        BY <1>1, <1>5, <1>6, <2>1
    <2>2. CASE k > m + 1
        <3>1. k - (m + 1) \in 1..(n - m) /\ m + (k - (m + 1)) = k - 1
            BY <1>1, <2>2
        <3>2. QED
            BY <1>1, <1>2, <1>6, <2>2, <3>1
    <2>3. k <= m + 1 \/ k > m + 1
        BY <1>1
    <2>4. QED
        BY <2>1, <2>2, <2>3
<1>8. m + 1 + (n - m) = n + 1
    BY <1>1
<1>9. QED
    BY <1>3, <1>6, <1>7, <1>8 DEF n

(* A ref joins those in time order, wherever its time belongs.             *)
LEMMA PlacedInOrder ==
    ASSUME NEW s \in Seq(Ref), InOrder(s), OnceEach(s), NEW r \in Ref,
           \A k \in DOMAIN s : s[k].ordinal # r.ordinal
    PROVE  /\ Placed(s, r) \in Seq(Ref) /\ InOrder(Placed(s, r)) /\ OnceEach(Placed(s, r))
           /\ Len(Placed(s, r)) = Len(s) + 1
           /\ ToSet(Placed(s, r)) = ToSet(s) \union {r}
<1> DEFINE n == Len(s)
           p == Placed(s, r)
<1>1. /\ n \in Nat /\ DOMAIN s = 1..n
      /\ \A k \in 1..n : s[k].ms \in Int /\ s[k].ordinal \in Int
      /\ r.ms \in Int /\ r.ordinal \in Int
    <2>1. r.ms \in Int /\ r.ordinal \in Int
        BY DEF Ref
    <2>2. QED
        BY <2>1, RefPlaces
<1>2. \E m \in 0..n :
          /\ p \in Seq(Ref) /\ Len(p) = n + 1
          /\ \A k \in 1..(n + 1) :
                 p[k] = IF k <= m THEN s[k] ELSE IF k = m + 1 THEN r ELSE s[k - 1]
          /\ \A k \in 1..n : k <= m => s[k].ms <= r.ms
          /\ \A k \in 1..n : k > m => s[k].ms >= r.ms
    <2>1. CASE s = <<>> \/ r.ms >= Last(s).ms
        <3>1. p = Append(s, r)
            BY <2>1 DEF Placed
        <3>2. p \in Seq(Ref) /\ Len(p) = n + 1 /\ p[n + 1] = r /\ \A k \in 1..n : p[k] = s[k]
            BY <3>1
        <3>3. ASSUME NEW k \in 1..n PROVE s[k].ms <= r.ms
            <4>1. s # <<>> /\ n \in 1..n /\ Last(s) = s[n]
                BY <1>1 DEF Last
            <4>2. s[n].ms <= r.ms
                BY <1>1, <2>1, <4>1
            <4>3. k = n \/ s[k].ms <= s[n].ms
                <5>1. k \in DOMAIN s /\ n \in DOMAIN s /\ (k = n \/ k < n)
                    <6> HIDE DEF n
                    <6>1. QED
                        BY <1>1, <4>1
                <5>2. QED
                    BY <5>1 DEF InOrder
            <4>4. s[k].ms \in Int /\ s[n].ms \in Int
                BY <1>1, <4>1
            <4> HIDE DEF n
            <4>5. QED
                BY <1>1, <4>2, <4>3, <4>4
        <3> HIDE DEF p
        <3>4. \A k \in 1..(n + 1) :
                  p[k] = IF k <= n THEN s[k] ELSE IF k = n + 1 THEN r ELSE s[k - 1]
            BY <1>1, <3>2
        <3>5. n \in 0..n /\ \A k \in 1..n : ~(k > n)
            BY <1>1
        <3>6. QED
            BY <3>2, <3>3, <3>4, <3>5
    <2>2. CASE ~(s = <<>> \/ r.ms >= Last(s).ms)
        <3> DEFINE m == LowerBound(s, r.ms)
        <3>1. m \in 0..n /\ \A k \in 1..n : s[k].ms < r.ms <=> k <= m
            BY <1>1, Bounds
        <3>2. p = InsertAt(s, m + 1, r)
            BY <2>2 DEF Placed
        <3> HIDE DEF m, p
        <3> DEFINE q == InsertAt(s, m + 1, r)
        <3>3. /\ q \in Seq(Ref) /\ Len(q) = n + 1
              /\ \A k \in 1..(n + 1) :
                     q[k] = IF k <= m THEN s[k] ELSE IF k = m + 1 THEN r ELSE s[k - 1]
            <4>1. m \in 0..Len(s)
                BY <3>1
            <4> HIDE DEF q
            <4>2. QED
                BY <4>1, InsertedAt DEF q
        <3>6. p = q
            BY <3>2
        <3> HIDE DEF q
        <3>4. \A k \in 1..n : (k <= m => s[k].ms <= r.ms) /\ (k > m => s[k].ms >= r.ms)
            BY <1>1, <3>1
        <3>5. QED
            BY <3>1, <3>3, <3>4, <3>6
    <2>3. QED
        BY <2>1, <2>2
<1> HIDE DEF p
<1>3. PICK m \in 0..n :
          /\ p \in Seq(Ref) /\ Len(p) = n + 1
          /\ \A k \in 1..(n + 1) :
                 p[k] = IF k <= m THEN s[k] ELSE IF k = m + 1 THEN r ELSE s[k - 1]
          /\ \A k \in 1..n : k <= m => s[k].ms <= r.ms
          /\ \A k \in 1..n : k > m => s[k].ms >= r.ms
    BY <1>2
<1> DEFINE from(k) == IF k <= m THEN k ELSE k - 1
<1>4. m \in Nat /\ m <= n /\ DOMAIN p = 1..(n + 1)
    BY <1>1, <1>3
<1>5. \A k \in 1..(n + 1) :
          \/ k = m + 1 /\ p[k] = r
          \/ k # m + 1 /\ from(k) \in 1..n /\ p[k] = s[from(k)]
    BY <1>1, <1>3, <1>4
<1>6. \A j, k \in 1..(n + 1) : j < k =>
          /\ j # m + 1 /\ k # m + 1 => from(j) < from(k)
          /\ j = m + 1 => from(k) > m
          /\ k = m + 1 => from(j) <= m
    BY <1>1, <1>4
<1>7. InOrder(p)
    <2>1. SUFFICES ASSUME NEW j \in 1..(n + 1), NEW k \in 1..(n + 1), j < k
                   PROVE  p[j].ms <= p[k].ms
        BY <1>4 DEF InOrder
    <2> HIDE DEF from
    <2>2. CASE j # m + 1 /\ k # m + 1
        BY <1>1, <1>5, <1>6, <2>1, <2>2 DEF InOrder
    <2>3. CASE j = m + 1
        BY <1>1, <1>3, <1>5, <1>6, <2>1, <2>3
    <2>4. CASE k = m + 1
        BY <1>1, <1>3, <1>5, <1>6, <2>1, <2>4
    <2>5. QED
        BY <2>2, <2>3, <2>4
<1>8. OnceEach(p)
    <2>1. SUFFICES ASSUME NEW j \in 1..(n + 1), NEW k \in 1..(n + 1), j < k
                   PROVE  p[j].ordinal # p[k].ordinal
        BY <1>1, <1>4 DEF OnceEach
    <2> HIDE DEF from
    <2>2. CASE j # m + 1 /\ k # m + 1
        <3>1. from(j) \in 1..n /\ from(k) \in 1..n /\ from(j) < from(k)
            BY <1>5, <1>6, <2>1, <2>2
        <3>2. s[from(j)].ordinal # s[from(k)].ordinal
            BY <1>1, <3>1 DEF OnceEach
        <3>3. QED
            BY <1>5, <2>2, <3>2
    <2>3. CASE j = m + 1
        BY <1>1, <1>5, <2>1, <2>3
    <2>4. CASE k = m + 1
        BY <1>1, <1>5, <2>1, <2>4
    <2>5. QED
        BY <2>2, <2>3, <2>4
<1>9. ToSet(p) = ToSet(s) \union {r}
    <2>1. \A x \in ToSet(p) : x \in ToSet(s) \union {r}
        <3> HIDE DEF from
        <3>1. QED
            BY <1>1, <1>4, <1>5 DEF ToSet
    <2>2. r \in ToSet(p)
        <3>1. m + 1 \in 1..(n + 1)
            BY <1>1, <1>4
        <3>2. QED
            BY <1>4, <1>5, <3>1 DEF ToSet
    <2>3. ASSUME NEW k \in 1..n PROVE s[k] \in ToSet(p)
        <3>1. CASE k <= m
            <4>1. k \in 1..(n + 1) /\ p[k] = s[k]
                BY <1>1, <1>3, <3>1
            <4>2. QED
                BY <1>4, <4>1 DEF ToSet
        <3>2. CASE k > m
            <4>1. k + 1 \in 1..(n + 1) /\ p[k + 1] = s[k]
                BY <1>1, <1>3, <1>4, <3>2
            <4>2. QED
                BY <1>4, <4>1 DEF ToSet
        <3>3. QED
            BY <1>1, <1>4, <3>1, <3>2
    <2>4. \A x \in ToSet(s) : x \in ToSet(p)
        BY <1>1, <2>3 DEF ToSet
    <2>5. QED
        BY <2>1, <2>2, <2>4
<1>10. QED
    BY <1>3, <1>7, <1>8, <1>9 DEF p, n

-----------------------------------------------------------------------------
(* The refs of retained entries, picked from others.                       *)

(* An index is a record of these. *)
IsRecord(i) ==
    i = [entries |-> i.entries, sorted |-> i.sorted,
         timestamped_live |-> i.timestamped_live,
         timestampless |-> i.timestampless, chain_members |-> i.chain_members]

WithSorted(i, q) == [i EXCEPT !.sorted = q]

LEMMA WithSortedIs ==
    ASSUME NEW i, IsRecord(i), NEW q
    PROVE  /\ WithSorted(i, q) = [entries |-> i.entries, sorted |-> q,
                                  timestamped_live |-> i.timestamped_live,
                                  timestampless |-> i.timestampless,
                                  chain_members |-> i.chain_members]
           /\ IsRecord(WithSorted(i, q))
           /\ WithSorted(i, q).sorted = q
           /\ WithSorted(i, q).entries = i.entries
           /\ \A r : KeepRef(WithSorted(i, q), r) =
                        WithSorted(i, IF IsLive(i, r.ordinal) THEN Append(q, r) ELSE q)
<1>1. ASSUME NEW z
      PROVE  /\ WithSorted(i, z) = [entries |-> i.entries, sorted |-> z,
                                    timestamped_live |-> i.timestamped_live,
                                    timestampless |-> i.timestampless,
                                    chain_members |-> i.chain_members]
             /\ WithSorted(i, z).sorted = z
             /\ WithSorted(i, z).entries = i.entries
    BY DEF IsRecord, WithSorted
<1>2. IsRecord(WithSorted(i, q))
    BY <1>1 DEF IsRecord
<1>3. ASSUME NEW r
      PROVE  KeepRef(WithSorted(i, q), r) =
                 WithSorted(i, IF IsLive(i, r.ordinal) THEN Append(q, r) ELSE q)
    <2>1. IsLive(WithSorted(i, q), r.ordinal) = IsLive(i, r.ordinal)
        BY <1>1 DEF IsLive
    <2> DEFINE R(z) == [entries |-> i.entries, sorted |-> z,
                        timestamped_live |-> i.timestamped_live,
                        timestampless |-> i.timestampless,
                        chain_members |-> i.chain_members]
    <2>2. [WithSorted(i, q) EXCEPT !.sorted = Append(@, r)] = WithSorted(i, Append(q, r))
        <3>1. WithSorted(i, q) = R(q) /\ WithSorted(i, Append(q, r)) = R(Append(q, r))
            BY <1>1
        <3>2. [R(q) EXCEPT !.sorted = Append(@, r)] = R(Append(q, r))
            OBVIOUS
        <3> HIDE DEF R
        <3>3. QED
            BY <3>1, <3>2
    <2>3. QED
        BY <2>1, <2>2 DEF KeepRef
<1>4. QED
    BY <1>1, <1>2, <1>3

LEMMA RetainedFold ==
    ASSUME NEW i, NEW refs
    PROVE  Retained(i, refs) = Kept!Fold(WithSorted(i, <<>>), refs).sorted
BY DEF Retained, WithSorted, Kept!Fold, FoldLeft, Kept!FoldLeft, MapThenFoldSet,
       Kept!MapThenFoldSet, Max, Kept!Max

(* f leads from the places of q to those among the first n of s whose refs *)
(* are live in index i, in their order.                                    *)
PickedBy(f, i, s, n, q) ==
    /\ q \in Seq(Ref)
    /\ f \in [1..Len(q) -> 1..n]
    /\ \A j, k \in 1..Len(q) : j < k => f[j] < f[k]
    /\ \A j \in 1..Len(q) : q[j] = s[f[j]] /\ IsLive(i, s[f[j]].ordinal)
    /\ \A k \in 1..n : IsLive(i, s[k].ordinal) => \E j \in 1..Len(q) : f[j] = k

LEMMA PickedMore ==
    ASSUME NEW i, NEW s \in Seq(Ref), NEW n \in 0..(Len(s) - 1), NEW q, NEW f,
           PickedBy(f, i, s, n, q), NEW z,
           z = IF IsLive(i, s[n + 1].ordinal) THEN Append(q, s[n + 1]) ELSE q
    PROVE  \E g : PickedBy(g, i, s, n + 1, z)
<1>1. /\ Len(s) \in Nat /\ n \in Nat /\ n + 1 \in 1..Len(s) /\ s[n + 1] \in Ref
    BY RefPlaces
<1>2. q \in Seq(Ref) /\ Len(q) \in Nat /\ f \in [1..Len(q) -> 1..n]
    BY DEF PickedBy
<1>3. CASE ~IsLive(i, s[n + 1].ordinal)
    <2>1. z = q
        BY <1>3
    <2>2. f \in [1..Len(q) -> 1..(n + 1)]
        BY <1>1, <1>2
    <2>3. \A k \in 1..(n + 1) : k \in 1..n \/ k = n + 1
        BY <1>1
    <2>4. PickedBy(f, i, s, n + 1, q)
        BY <1>3, <2>2, <2>3 DEF PickedBy
    <2>5. QED
        BY <2>1, <2>4
<1>4. CASE IsLive(i, s[n + 1].ordinal)
    <2> DEFINE m == Len(q)
               g == [j \in 1..(m + 1) |-> IF j <= m THEN f[j] ELSE n + 1]
    <2>1. /\ z \in Seq(Ref) /\ Len(z) = m + 1 /\ z[m + 1] = s[n + 1]
          /\ \A j \in 1..m : z[j] = q[j]
        <3>1. z = Append(q, s[n + 1])
            BY <1>4
        <3> HIDE DEF Ref
        <3>2. QED
            BY <1>1, <1>2, <3>1
    <2> HIDE DEF m
    <2>2. m \in Nat /\ \A j \in 1..(m + 1) : (j \in 1..m /\ j <= m) \/ j = m + 1
        BY <1>2 DEF m
    <2>3. /\ \A j \in 1..m : f[j] \in 1..n /\ q[j] = s[f[j]] /\ IsLive(i, s[f[j]].ordinal)
          /\ \A j, k \in 1..m : j < k => f[j] < f[k]
          /\ \A k \in 1..n : IsLive(i, s[k].ordinal) => \E j \in 1..m : f[j] = k
        BY <1>2 DEF PickedBy, m
    <2>4. /\ g \in [1..(m + 1) -> 1..(n + 1)]
          /\ \A j \in 1..m : g[j] = f[j]
          /\ g[m + 1] = n + 1
        <3>1. \A j \in 1..(m + 1) : (IF j <= m THEN f[j] ELSE n + 1) \in 1..(n + 1)
            BY <1>1, <2>2, <2>3
        <3>2. m + 1 \in 1..(m + 1) /\ ~(m + 1 <= m) /\ \A j \in 1..m : j \in 1..(m + 1) /\ j <= m
            BY <2>2
        <3>3. QED
            BY <3>1, <3>2
    <2> HIDE DEF g
    <2>5. \A j, k \in 1..(m + 1) : j < k => g[j] < g[k]
        <3>1. SUFFICES ASSUME NEW j \in 1..(m + 1), NEW k \in 1..(m + 1), j < k
                       PROVE  g[j] < g[k]
            OBVIOUS
        <3>2. j \in 1..m
            BY <2>2, <3>1
        <3>3. CASE k \in 1..m
            BY <2>3, <2>4, <3>1, <3>2, <3>3
        <3>4. CASE k = m + 1
            <4>1. f[j] \in 1..n /\ g[j] = f[j] /\ g[k] = n + 1
                BY <2>3, <2>4, <3>2, <3>4
            <4>2. QED
                BY <1>1, <4>1
        <3>5. QED
            BY <2>2, <3>3, <3>4
    <2>6. \A j \in 1..(m + 1) : z[j] = s[g[j]] /\ IsLive(i, s[g[j]].ordinal)
        BY <1>4, <2>1, <2>2, <2>3, <2>4
    <2>7. ASSUME NEW k \in 1..(n + 1), IsLive(i, s[k].ordinal)
          PROVE  \E j \in 1..(m + 1) : g[j] = k
        <3>1. k \in 1..n \/ k = n + 1
            BY <1>1
        <3>2. m + 1 \in 1..(m + 1) /\ \A j \in 1..m : j \in 1..(m + 1)
            BY <2>2
        <3>3. CASE k = n + 1
            BY <2>4, <3>2, <3>3
        <3>4. CASE k \in 1..n
            BY <2>3, <2>4, <2>7, <3>2, <3>4
        <3>5. QED
            BY <3>1, <3>3, <3>4
    <2>8. PickedBy(g, i, s, n + 1, z)
        BY <2>1, <2>4, <2>5, <2>6, <2>7 DEF PickedBy
    <2>9. QED
        BY <2>8
<1>5. QED
    BY <1>3, <1>4

LEMMA RetainedPicks ==
    ASSUME NEW i, IsRecord(i), NEW s \in Seq(Ref)
    PROVE  \E f : PickedBy(f, i, s, Len(s), Retained(i, s))
<1> DEFINE n == Len(s)
           base == WithSorted(i, <<>>)
<1>1. n \in Nat /\ DOMAIN s = 1..n
    BY RefPlaces
<1>2. PICK run : Kept!IsRun(run, base, s, n) /\ Kept!Fold(base, s) = run[n]
    BY <1>1, Kept!FoldRuns
<1>3. run[0] = base /\ \A k \in 1..n : run[k] = KeepRef(run[k - 1], s[k])
    BY <1>2 DEF Kept!IsRun
<1> DEFINE Stage(k) == \E q, f : run[k] = WithSorted(i, q) /\ PickedBy(f, i, s, k, q)
           T == {k \in Nat : k <= n => Stage(k)}
<1>4. 0 \in T
    <2>1. <<>> \in Seq(Ref) /\ Len(<<>>) = 0 /\ 1..0 = {}
        OBVIOUS
    <2> DEFINE none == [j \in 1..0 |-> 0]
    <2>2. none \in [1..Len(<<>>) -> 1..0]
        BY <2>1
    <2> HIDE DEF none
    <2>3. PickedBy(none, i, s, 0, <<>>)
        BY <2>1, <2>2 DEF PickedBy
    <2>4. Stage(0)
        BY <1>3, <2>3
    <2>5. QED
        BY <2>4
<1>5. ASSUME NEW k \in Nat, k \in T PROVE k + 1 \in T
    <2>1. SUFFICES ASSUME k + 1 <= n PROVE Stage(k + 1)
        OBVIOUS
    <2>2. k <= n /\ k \in 0..(n - 1) /\ k + 1 \in 1..n /\ (k + 1) - 1 = k
        BY <1>1, <2>1
    <2>3. PICK q, f : run[k] = WithSorted(i, q) /\ PickedBy(f, i, s, k, q)
        BY <1>5, <2>2
    <2> DEFINE z == IF IsLive(i, s[k + 1].ordinal) THEN Append(q, s[k + 1]) ELSE q
    <2>4. run[k + 1] = WithSorted(i, z)
        <3>1. KeepRef(WithSorted(i, q), s[k + 1]) = WithSorted(i, z)
            <4> HIDE DEF Stage, base
            <4>1. \A r : KeepRef(WithSorted(i, q), r) =
                         WithSorted(i, IF IsLive(i, r.ordinal) THEN Append(q, r) ELSE q)
                BY WithSortedIs, Zenon
            <4>2. QED
                BY <4>1
        <3>2. run[k + 1] = KeepRef(run[k], s[k + 1])
            BY <1>3, <2>2
        <3>3. QED
            BY <2>3, <3>1, <3>2
    <2>5. \E g : PickedBy(g, i, s, k + 1, z)
        BY <2>2, <2>3, PickedMore
    <2> HIDE DEF z
    <2>6. QED
        BY <2>4, <2>5
<1>6. n \in T
    <2> HIDE DEF T
    <2>1. QED
        BY <1>1, <1>4, <1>5, Kept!Induct
<1>7. PICK q, f : run[n] = WithSorted(i, q) /\ PickedBy(f, i, s, n, q)
    BY <1>1, <1>6
<1>8. Retained(i, s) = q
    BY <1>2, <1>7, RetainedFold, WithSortedIs
<1>9. QED
    BY <1>7, <1>8

(* What is picked is in order as it was, and is what is live.              *)
LEMMA RetainedRefs ==
    ASSUME NEW i, IsRecord(i), NEW s \in Seq(Ref)
    PROVE  /\ Retained(i, s) \in Seq(Ref)
           /\ ToSet(Retained(i, s)) = {r \in ToSet(s) : IsLive(i, r.ordinal)}
           /\ InOrder(s) => InOrder(Retained(i, s))
           /\ OnceEach(s) => OnceEach(Retained(i, s))
<1> DEFINE q == Retained(i, s)
<1>1. PICK f : PickedBy(f, i, s, Len(s), q)
    BY RetainedPicks
<1> HIDE DEF q
<1>2. /\ q \in Seq(Ref) /\ Len(q) \in Nat /\ DOMAIN q = 1..Len(q)
      /\ Len(s) \in Nat /\ DOMAIN s = 1..Len(s)
      /\ ToSet(q) = {q[k] : k \in 1..Len(q)} /\ ToSet(s) = {s[k] : k \in 1..Len(s)}
    <2>1. q \in Seq(Ref)
        BY <1>1 DEF PickedBy
    <2>2. QED
        BY <2>1, RefPlaces, SequencePlaces
<1>3. /\ \A j \in 1..Len(q) :
             f[j] \in 1..Len(s) /\ q[j] = s[f[j]] /\ IsLive(i, s[f[j]].ordinal)
      /\ \A j, k \in 1..Len(q) : j < k => f[j] < f[k]
      /\ \A k \in 1..Len(s) : IsLive(i, s[k].ordinal) => \E j \in 1..Len(q) : f[j] = k
    BY <1>1 DEF PickedBy
<1>4. ToSet(q) = {r \in ToSet(s) : IsLive(i, r.ordinal)}
    BY <1>2, <1>3
<1>5. ASSUME InOrder(s) PROVE InOrder(q)
    BY <1>2, <1>3, <1>5 DEF InOrder
<1>6. ASSUME OnceEach(s) PROVE OnceEach(q)
    <2>1. SUFFICES ASSUME NEW j \in 1..Len(q), NEW k \in 1..Len(q),
                          q[j].ordinal = q[k].ordinal
                   PROVE  j = k
        BY <1>2 DEF OnceEach
    <2>2. f[j] = f[k] /\ f[j] \in Int
        BY <1>2, <1>3, <1>6, <2>1 DEF OnceEach
    <2>3. ~(j < k) /\ ~(k < j)
        BY <1>3, <2>2
    <2>4. QED
        BY <1>2, <2>3
<1>7. QED
    BY <1>2, <1>4, <1>5, <1>6 DEF q

-----------------------------------------------------------------------------
(* An index in order: its entries ascend, its refs are those entries' (and *)
(* of others that have left), its counters count them, its lists hold the  *)
(* members of each retained root.                                          *)

IsEntry(e) ==
    /\ e.ordinal \in Int
    /\ e.ts \in Int \union {None}
    /\ e.root = None \/ (e.root \in Int /\ e.root < e.ordinal)

Shape(i) ==
    /\ IsRecord(i)
    /\ Sequence(i.entries)
    /\ \A k \in 1..Len(i.entries) : IsEntry(i.entries[k])
    /\ \A j, k \in 1..Len(i.entries) :
           j < k => i.entries[j].ordinal < i.entries[k].ordinal
    /\ i.sorted \in Seq(Ref)
    /\ i.timestamped_live \in Int /\ i.timestampless \in Int

TimedOf(i) == {e \in ToSet(i.entries) : e.ts # None}

Stamps(i) == {[ms |-> e.ts, ordinal |-> e.ordinal] : e \in TimedOf(i)}

Sorted(i) == InOrder(i.sorted) /\ OnceEach(i.sorted) /\ Live(i) = Stamps(i)

Counted(i) ==
    /\ i.timestamped_live = Cardinality(TimedOf(i))
    /\ i.timestampless = Len(i.entries) - Cardinality(TimedOf(i))

Children(i, root) == {e.ordinal : e \in {m \in ToSet(i.entries) : m.root = root}}

Chained(i) ==
    \A root \in Ordinals(i) :
        LET list == MembersOf(i, root)
        IN  /\ Sequence(list) /\ ToSet(list) = Children(i, root)
            /\ \A j, k \in 1..Len(list) : j < k => list[j] < list[k]

Sound(i) == Shape(i) /\ Sorted(i) /\ Counted(i) /\ Chained(i)

(* Everything in the index is of lines before n. *)
Before(i, n) ==
    /\ \A k \in 1..Len(i.entries) : i.entries[k].ordinal < n
    /\ \A k \in 1..Len(i.sorted) : i.sorted[k].ordinal < n
    /\ \A root \in DOMAIN i.chain_members : root \in Int /\ root < n

LEMMA ShapeSays ==
    ASSUME NEW i, Shape(i)
    PROVE  /\ Len(i.entries) \in Nat /\ DOMAIN i.entries = 1..Len(i.entries)
           /\ ToSet(i.entries) = {i.entries[k] : k \in 1..Len(i.entries)}
           /\ Ordinals(i) = {i.entries[k].ordinal : k \in 1..Len(i.entries)}
           /\ Len(i.sorted) \in Nat /\ DOMAIN i.sorted = 1..Len(i.sorted)
           /\ ToSet(i.sorted) = {i.sorted[k] : k \in 1..Len(i.sorted)}
           /\ \A r \in ToSet(i.sorted) : r \in Ref /\ r.ordinal \in Int
           /\ \A o : IsLive(i, o) <=> 1 \in 1..Len(i.entries) /\ o >= i.entries[1].ordinal
           /\ \A e, f \in ToSet(i.entries) : e.ordinal = f.ordinal => e = f
           /\ \A e \in ToSet(i.entries) : IsEntry(e) /\ IsLive(i, e.ordinal)
<1> DEFINE s == i.entries
           n == Len(i.entries)
<1>1. /\ n \in Nat /\ DOMAIN s = 1..n
      /\ ToSet(s) = {s[k] : k \in 1..n}
      /\ s = <<>> <=> n = 0
      /\ s # <<>> => 1 \in 1..n /\ Head(s) = s[1]
    BY SequencePlaces DEF Shape
<1>2. /\ Len(i.sorted) \in Nat /\ DOMAIN i.sorted = 1..Len(i.sorted)
      /\ ToSet(i.sorted) = {i.sorted[k] : k \in 1..Len(i.sorted)}
      /\ \A k \in 1..Len(i.sorted) : i.sorted[k] \in Ref /\ i.sorted[k].ordinal \in Int
    BY RefPlaces, SequencePlaces DEF Shape
<1>3. /\ \A k \in 1..n : IsEntry(s[k]) /\ s[k].ordinal \in Int
      /\ \A j, k \in 1..n : j < k => s[j].ordinal < s[k].ordinal
    BY DEF Shape, IsEntry
<1>4. ASSUME NEW o
      PROVE  IsLive(i, o) <=> 1 \in 1..n /\ o >= s[1].ordinal
    BY <1>1 DEF IsLive
<1>5. Ordinals(i) = {s[k].ordinal : k \in 1..n}
    BY <1>1 DEF Ordinals
<1> HIDE DEF s, n
<1>6. \A e, f \in ToSet(s) : e.ordinal = f.ordinal => e = f
    <2>1. SUFFICES ASSUME NEW j \in 1..n, NEW k \in 1..n, s[j].ordinal = s[k].ordinal
                   PROVE  s[j] = s[k]
        BY <1>1
    <2>2. ~(j < k) /\ ~(k < j)
        BY <1>3, <2>1
    <2>3. j = k
        BY <1>1, <2>2
    <2>4. QED
        BY <2>3
<1>7. \A e \in ToSet(s) : IsEntry(e) /\ IsLive(i, e.ordinal)
    <2>1. SUFFICES ASSUME NEW k \in 1..n PROVE IsEntry(s[k]) /\ IsLive(i, s[k].ordinal)
        BY <1>1
    <2>2. 1 \in 1..n /\ (k = 1 \/ 1 < k)
        BY <1>1
    <2>3. s[k].ordinal >= s[1].ordinal
        BY <1>3, <2>2
    <2>4. QED
        BY <1>3, <1>4, <2>2, <2>3
<1>8. QED
    BY <1>1, <1>2, <1>4, <1>5, <1>6, <1>7 DEF s, n

(* The same of an index that is sound. *)
LEMMA SoundSays ==
    ASSUME NEW i, Sound(i)
    PROVE  /\ Len(i.entries) \in Nat /\ DOMAIN i.entries = 1..Len(i.entries)
           /\ ToSet(i.entries) = {i.entries[k] : k \in 1..Len(i.entries)}
           /\ Ordinals(i) = {i.entries[k].ordinal : k \in 1..Len(i.entries)}
           /\ Len(i.sorted) \in Nat /\ DOMAIN i.sorted = 1..Len(i.sorted)
           /\ ToSet(i.sorted) = {i.sorted[k] : k \in 1..Len(i.sorted)}
           /\ \A r \in ToSet(i.sorted) : r \in Ref /\ r.ordinal \in Int
           /\ \A o : IsLive(i, o) <=> 1 \in 1..Len(i.entries) /\ o >= i.entries[1].ordinal
           /\ \A e, f \in ToSet(i.entries) : e.ordinal = f.ordinal => e = f
           /\ \A e \in ToSet(i.entries) : IsEntry(e) /\ IsLive(i, e.ordinal)
BY ShapeSays DEF Sound

(* What is in it is at some place. *)
LEMMA Found ==
    ASSUME NEW i, Sound(i)
    PROVE  /\ \A e \in ToSet(i.entries) : \E k \in 1..Len(i.entries) : e = i.entries[k]
           /\ \A r \in ToSet(i.sorted) : \E k \in 1..Len(i.sorted) : r = i.sorted[k]
<1>1. /\ ToSet(i.entries) = {i.entries[k] : k \in 1..Len(i.entries)}
      /\ ToSet(i.sorted) = {i.sorted[k] : k \in 1..Len(i.sorted)}
    BY SoundSays
<1>2. QED
    BY <1>1

LEMMA TimedFinite ==
    ASSUME NEW i, Shape(i)
    PROVE  IsFiniteSet(TimedOf(i)) /\ Cardinality(TimedOf(i)) \in Nat
<1>1. IsFiniteSet(ToSet(i.entries))
    BY SequenceFinite DEF Shape
<1>2. IsFiniteSet(TimedOf(i))
    BY <1>1, FS_Subset DEF TimedOf
<1>3. QED
    BY <1>2, FS_CardinalityType

-----------------------------------------------------------------------------
(* An entry joins.                                                         *)

IndexOf(entries, sorted, live, less, members) ==
    [entries |-> entries, sorted |-> sorted, timestamped_live |-> live,
     timestampless |-> less, chain_members |-> members]

Fields == {"entries", "sorted", "timestamped_live", "timestampless", "chain_members"}

(* What a field of an index is after others have been replaced. *)
Field(f, a, b, c, d, e) ==
    IF f = "chain_members" THEN e ELSE IF f = "timestampless" THEN d
    ELSE IF f = "timestamped_live" THEN c ELSE IF f = "sorted" THEN b ELSE a

LEMMA ReplacedFields ==
    ASSUME NEW i, DOMAIN i = Fields, NEW a, NEW b, NEW c, NEW d, NEW e
    PROVE  [f \in DOMAIN i |-> Field(f, a, b, c, d, e)] = IndexOf(a, b, c, d, e)
<1> DEFINE p == [f \in DOMAIN i |-> Field(f, a, b, c, d, e)]
<1>1. p = [f \in {"entries", "sorted", "timestamped_live", "timestampless",
                  "chain_members"} |-> Field(f, a, b, c, d, e)]
    BY DEF Fields
<1>2. /\ p.entries = a /\ p.sorted = b /\ p.timestamped_live = c
      /\ p.timestampless = d /\ p.chain_members = e
      /\ DOMAIN p = {"entries", "sorted", "timestamped_live", "timestampless",
                     "chain_members"}
    BY <1>1 DEF Field
<1>3. p = [f \in DOMAIN p |-> p[f]]
    BY <1>1
<1> HIDE DEF p
<1>4. p = IndexOf(a, b, c, d, e)
    BY <1>2, <1>3 DEF IndexOf
<1>5. QED
    BY <1>4 DEF p

LEMMA FieldsOf ==
    ASSUME NEW i, IsRecord(i)
    PROVE  /\ DOMAIN i = Fields
           /\ \A f \in DOMAIN i :
                  f \in {"entries", "sorted", "timestamped_live", "timestampless",
                        "chain_members"}
<1> DEFINE R(v, w, x, y, z) == IndexOf(v, w, x, y, z)
<1>1. \A v, w, x, y, z : DOMAIN R(v, w, x, y, z) = Fields
    BY DEF IndexOf, Fields
<1>2. i = R(i.entries, i.sorted, i.timestamped_live, i.timestampless, i.chain_members)
    BY Zenon DEF IsRecord, IndexOf
<1> HIDE DEF R
<1>3. DOMAIN i = Fields
    BY <1>1, <1>2
<1>4. QED
    BY <1>3 DEF Fields

LEMMA IndexIs ==
    ASSUME NEW a, NEW b, NEW c, NEW d, NEW e
    PROVE  LET j == IndexOf(a, b, c, d, e)
           IN  /\ IsRecord(j) /\ j.entries = a /\ j.sorted = b
               /\ j.timestamped_live = c /\ j.timestampless = d /\ j.chain_members = e
BY DEF IndexOf, IsRecord

(* The index that has no entries. *)
LEMMA NewIndexSound == Sound(NewIndex) /\ \A n : Before(NewIndex, n)
<1> DEFINE i == NewIndex
<1>1. i = IndexOf(<<>>, <<>>, 0, 0, << >>)
    BY DEF NewIndex, IndexOf
<1>2. /\ IsRecord(i) /\ i.entries = <<>> /\ i.sorted = <<>>
      /\ i.timestamped_live = 0 /\ i.timestampless = 0 /\ i.chain_members = <<>>
    BY <1>1, IndexIs
<1> HIDE DEF i
<1>3. Shape(i)
    BY <1>2, EmptySequence DEF Shape
<1>4. TimedOf(i) = {} /\ Stamps(i) = {} /\ Live(i) = {}
    BY <1>2, EmptySequence DEF TimedOf, Stamps, Live
<1>5. Sorted(i) /\ Counted(i)
    <2>1. DOMAIN <<>> = {}
        OBVIOUS
    <2>2. Cardinality({}) = 0
        BY FS_EmptySet
    <2>3. QED
        BY <1>2, <1>4, <2>1, <2>2, EmptySequence DEF Sorted, Counted, InOrder, OnceEach
<1>6. Chained(i)
    <2>1. Ordinals(i) = {}
        BY <1>2, EmptySequence DEF Ordinals
    <2>2. QED
        BY <2>1 DEF Chained
<1>7. \A n : Before(i, n)
    BY <1>2, EmptySequence DEF Before
<1>8. QED
    BY <1>3, <1>5, <1>6, <1>7 DEF Sound, i

LEMMA AppendFields ==
    ASSUME NEW i, IsRecord(i), NEW e
    PROVE  LET j == AppendEntry(i, e)
           IN  /\ IsRecord(j)
               /\ j.entries = Append(i.entries, e)
               /\ j.sorted = IF e.ts = None THEN i.sorted
                             ELSE Placed(i.sorted, [ms |-> e.ts, ordinal |-> e.ordinal])
               /\ j.timestamped_live = i.timestamped_live + (IF e.ts = None THEN 0 ELSE 1)
               /\ j.timestampless = i.timestampless + 1 - (IF e.ts = None THEN 0 ELSE 1)
               /\ j.chain_members = IF e.root = None THEN i.chain_members ELSE Listed(i, e)
<1> DEFINE stamped == IF e.ts = None THEN 0 ELSE 1
           sorted == IF e.ts = None THEN i.sorted
                     ELSE Placed(i.sorted, [ms |-> e.ts, ordinal |-> e.ordinal])
           members == IF e.root = None THEN i.chain_members ELSE Listed(i, e)
           entries == Append(i.entries, e)
           live == i.timestamped_live + stamped
           less == i.timestampless + 1 - stamped
<1>1. AppendEntry(i, e) =
          [i EXCEPT !.entries = entries, !.sorted = sorted,
                    !.timestamped_live = live, !.timestampless = less,
                    !.chain_members = members]
    BY DEF AppendEntry
<1> HIDE DEF stamped, sorted, members, entries, live, less
<1>2. AppendEntry(i, e) = IndexOf(entries, sorted, live, less, members)
    <2>1. AppendEntry(i, e) =
              [f \in DOMAIN i |-> Field(f, entries, sorted, live, less, members)]
        BY <1>1, FieldsOf DEF Field
    <2>2. QED
        BY <2>1, FieldsOf, ReplacedFields
<1> DEFINE j == AppendEntry(i, e)
<1>3. /\ IsRecord(j) /\ j.entries = entries /\ j.sorted = sorted
      /\ j.timestamped_live = live /\ j.timestampless = less /\ j.chain_members = members
    BY <1>2, IndexIs
<1> HIDE DEF j
<1>4. QED
    BY <1>3 DEF j, stamped, sorted, members, entries, live, less

LEMMA AppendKeeps ==
    ASSUME NEW i, Sound(i), NEW n \in Int, Before(i, n),
           NEW e, IsEntry(e), e.ordinal >= n
    PROVE  LET j == AppendEntry(i, e)
           IN  /\ Sound(j) /\ \A m \in Int : m > e.ordinal => Before(j, m)
               /\ j.entries = Append(i.entries, e)
               /\ Len(j.sorted) - j.timestamped_live = Len(i.sorted) - i.timestamped_live
               /\ Len(j.sorted) >= Len(i.sorted)
<1> DEFINE j == AppendEntry(i, e)
           s == i.entries
           k0 == Len(i.entries)
           r == [ms |-> e.ts, ordinal |-> e.ordinal]
<1>1. /\ IsRecord(j)
      /\ j.entries = Append(s, e)
      /\ j.sorted = IF e.ts = None THEN i.sorted ELSE Placed(i.sorted, r)
      /\ j.timestamped_live = i.timestamped_live + (IF e.ts = None THEN 0 ELSE 1)
      /\ j.timestampless = i.timestampless + 1 - (IF e.ts = None THEN 0 ELSE 1)
      /\ j.chain_members = IF e.root = None THEN i.chain_members ELSE Listed(i, e)
    BY AppendFields DEF Sound, Shape
<1> HIDE DEF j
<1>2. /\ Sequence(j.entries) /\ Len(j.entries) = k0 + 1 /\ j.entries[k0 + 1] = e
      /\ \A k \in 1..k0 : j.entries[k] = s[k]
      /\ ToSet(j.entries) = ToSet(s) \union {e}
    BY <1>1, AppendSequence DEF Sound, Shape
<1>3. /\ k0 \in Nat
      /\ \A k \in 1..(k0 + 1) : k \in 1..k0 \/ k = k0 + 1
      /\ \A k \in 1..k0 : k \in 1..(k0 + 1)
    <2>1. k0 \in Nat
        BY SoundSays
    <2> HIDE DEF k0
    <2>2. QED
        BY <2>1
<1>4. /\ e.ordinal \in Int
      /\ \A k \in 1..k0 : s[k].ordinal \in Int /\ s[k].ordinal < e.ordinal
      /\ \A k \in 1..Len(i.sorted) : i.sorted[k].ordinal < e.ordinal
      /\ \A root \in DOMAIN i.chain_members : root \in Int /\ root < e.ordinal
    <2>1. \A k \in 1..k0 : s[k].ordinal \in Int /\ s[k].ordinal < n
        BY DEF Sound, Shape, IsEntry, Before
    <2>2. \A k \in 1..Len(i.sorted) : i.sorted[k].ordinal \in Int /\ i.sorted[k].ordinal < n
        BY RefPlaces DEF Sound, Shape, Before
    <2>3. e.ordinal \in Int
        BY DEF IsEntry
    <2>4. \A root \in DOMAIN i.chain_members : root \in Int /\ root < n
        BY DEF Before
    <2>5. QED
        BY <2>1, <2>2, <2>3, <2>4
<1> HIDE DEF k0
<1>5. /\ j.sorted \in Seq(Ref) /\ InOrder(j.sorted) /\ OnceEach(j.sorted)
      /\ Len(j.sorted) = Len(i.sorted) + (IF e.ts = None THEN 0 ELSE 1)
      /\ ToSet(j.sorted) = ToSet(i.sorted) \union (IF e.ts = None THEN {} ELSE {r})
    <2>1. i.sorted \in Seq(Ref) /\ InOrder(i.sorted) /\ OnceEach(i.sorted)
        BY DEF Sound, Shape, Sorted
    <2>2. CASE e.ts = None
        <3>1. Len(i.sorted) \in Nat
            BY <2>1, RefPlaces
        <3>2. QED
            BY <1>1, <2>1, <2>2, <3>1
    <2>3. CASE e.ts # None
        <3>1. r \in Ref
            BY <2>3 DEF IsEntry, Ref
        <3>2. \A k \in DOMAIN i.sorted : i.sorted[k].ordinal # r.ordinal
            <4>1. DOMAIN i.sorted = 1..Len(i.sorted)
                /\ \A k \in 1..Len(i.sorted) : i.sorted[k].ordinal \in Int
                BY <2>1, RefPlaces
            <4>2. QED
                BY <1>4, <4>1
        <3> HIDE DEF r
        <3>3. j.sorted = Placed(i.sorted, r)
            BY <1>1, <2>3
        <3>4. QED
            BY <2>1, <2>3, <3>1, <3>2, <3>3, PlacedInOrder
    <2>4. QED
        BY <2>2, <2>3
<1>6. Shape(j)
    <2>1. \A k \in 1..(k0 + 1) : IsEntry(j.entries[k])
        <3>1. \A k \in 1..k0 : IsEntry(s[k])
            BY DEF Sound, Shape, k0
        <3>2. QED
            BY <1>2, <1>3, <3>1
    <2>2. ASSUME NEW a \in 1..(k0 + 1), NEW b \in 1..(k0 + 1), a < b
          PROVE  j.entries[a].ordinal < j.entries[b].ordinal
        <3>1. \A c, d \in 1..k0 : c < d => s[c].ordinal < s[d].ordinal
            BY DEF Sound, Shape, k0
        <3>2. a \in 1..k0
            BY <1>3, <2>2
        <3>3. b \in 1..k0 \/ b = k0 + 1
            BY <1>3
        <3>4. QED
            BY <1>2, <1>4, <2>2, <3>1, <3>2, <3>3
    <2>3. j.timestamped_live \in Int /\ j.timestampless \in Int
        BY <1>1 DEF Sound, Shape
    <2>4. QED
        BY <1>1, <1>2, <1>5, <2>1, <2>2, <2>3 DEF Shape
<1>7. TimedOf(j) = TimedOf(i) \union (IF e.ts = None THEN {} ELSE {e})
    BY <1>2 DEF TimedOf
<1>8. e \notin ToSet(s)
    <2>1. ASSUME e \in ToSet(s) PROVE FALSE
        <3>1. PICK k \in 1..k0 : e = s[k]
            BY <2>1, Found DEF k0
        <3>2. e.ordinal < e.ordinal /\ e.ordinal \in Int
            BY <1>4, <3>1
        <3>3. QED
            BY <3>2
    <2>2. QED
        BY <2>1
<1>9. Sorted(j)
    <2>1. \A x : IsLive(j, x) <=> 1 \in 1..(k0 + 1) /\ x >= j.entries[1].ordinal
        BY <1>2, <1>6, ShapeSays
    <2>2. \A x : IsLive(i, x) <=> 1 \in 1..k0 /\ x >= s[1].ordinal
        BY SoundSays DEF k0
    <2>3. ASSUME NEW y \in ToSet(i.sorted)
          PROVE  y.ordinal \in Int /\ y.ordinal < e.ordinal
        <3>1. PICK k \in 1..Len(i.sorted) : y = i.sorted[k]
            BY Found
        <3>2. y.ordinal \in Int
            BY SoundSays
        <3>3. QED
            BY <1>4, <3>1, <3>2
    <2>4. \A y \in ToSet(i.sorted) : IsLive(j, y.ordinal) <=> IsLive(i, y.ordinal)
        <3>1. CASE 1 \in 1..k0
            BY <1>2, <1>3, <2>1, <2>2, <3>1
        <3>2. CASE ~(1 \in 1..k0)
            <4>1. k0 + 1 = 1
                BY <1>3, <3>2
            <4>2. j.entries[1] = e
                BY <1>2, <4>1
            <4>3. \A y \in ToSet(i.sorted) : ~(y.ordinal >= e.ordinal)
                BY <1>4, <2>3
            <4>4. QED
                BY <2>1, <2>2, <3>2, <4>2, <4>3
        <3>3. QED
            BY <3>1, <3>2
    <2>5. IsLive(j, e.ordinal)
        BY <1>2, <1>6, ShapeSays
    <2>6. r.ordinal = e.ordinal
        OBVIOUS
    <2>7. Live(i) = Stamps(i)
        BY DEF Sound, Sorted
    <2>8. Live(j) = Live(i) \union (IF e.ts = None THEN {} ELSE {r})
        <3> HIDE DEF r
        <3>1. QED
            BY <1>5, <2>4, <2>5, <2>6 DEF Live
    <2>9. Stamps(j) = Stamps(i) \union (IF e.ts = None THEN {} ELSE {r})
        BY <1>7 DEF Stamps
    <2>10. QED
        BY <1>5, <2>7, <2>8, <2>9 DEF Sorted
<1>10. Counted(j)
    <2>1. IsFiniteSet(TimedOf(i)) /\ Cardinality(TimedOf(i)) \in Nat
        BY TimedFinite DEF Sound
    <2>2. Cardinality(TimedOf(j)) =
              Cardinality(TimedOf(i)) + (IF e.ts = None THEN 0 ELSE 1)
        <3>1. CASE e.ts = None
            BY <1>7, <2>1, <3>1
        <3>2. CASE e.ts # None
            <4>1. e \notin TimedOf(i)
                BY <1>8 DEF TimedOf
            <4>2. QED
                BY <1>7, <2>1, <3>2, <4>1, FS_AddElement
        <3>3. QED
            BY <3>1, <3>2
    <2>3. /\ i.timestamped_live = Cardinality(TimedOf(i))
          /\ i.timestampless = k0 - Cardinality(TimedOf(i))
        BY DEF Sound, Counted, k0
    <2>4. QED
        BY <1>1, <1>2, <1>3, <2>1, <2>2, <2>3 DEF Counted
<1>11. Chained(j)
    <2>1. SUFFICES ASSUME NEW root \in Ordinals(j)
                   PROVE  LET list == MembersOf(j, root)
                          IN  /\ Sequence(list) /\ ToSet(list) = Children(j, root)
                              /\ \A a, b \in 1..Len(list) : a < b => list[a] < list[b]
        BY DEF Chained
    <2>2. Ordinals(j) = Ordinals(i) \union {e.ordinal}
        <3>1. Ordinals(j) = {j.entries[k].ordinal : k \in 1..(k0 + 1)}
            BY <1>2, <1>6, ShapeSays
        <3>2. Ordinals(i) = {s[k].ordinal : k \in 1..k0}
            BY SoundSays DEF k0
        <3>3. k0 + 1 \in 1..(k0 + 1)
            BY <1>3
        <3>4. QED
            BY <1>2, <1>3, <3>1, <3>2, <3>3
    <2>3. Children(j, root) =
              Children(i, root) \union (IF e.root = root THEN {e.ordinal} ELSE {})
        BY <1>2 DEF Children
    <2>4. root \in Int /\ None # root
        <3>1. root \in Int
            BY <1>4, <2>2, SoundSays DEF k0
        <3>2. QED
            BY <3>1, IndexAssumption
    <2>5. CASE root = e.ordinal
        <3>1. e.root # root
            BY <2>4, <2>5 DEF IsEntry
        <3>2. Children(i, root) = {}
            <4>1. SUFFICES ASSUME NEW m \in ToSet(s), m.root = root PROVE FALSE
                BY DEF Children
            <4>2. m.root \in Int /\ m.root < m.ordinal /\ m.ordinal \in Int
                BY <2>4, <4>1, SoundSays DEF IsEntry
            <4>3. m.ordinal < e.ordinal
                <5>1. PICK k \in 1..k0 : m = s[k]
                    BY <4>1, Found DEF k0
                <5>2. QED
                    BY <1>4, <5>1
            <4>4. QED
                BY <1>4, <2>5, <4>1, <4>2, <4>3
        <3>3. root \notin DOMAIN i.chain_members
            BY <1>4, <2>5
        <3>4. root \notin DOMAIN j.chain_members
            BY <1>1, <3>1, <3>3 DEF Listed, With
        <3>5. MembersOf(j, root) = <<>>
            BY <3>4 DEF MembersOf
        <3>6. QED
            BY <2>3, <3>1, <3>2, <3>5, EmptySequence
    <2>6. CASE root # e.ordinal
        <3> DEFINE list == MembersOf(i, root)
        <3>1. /\ Sequence(list) /\ ToSet(list) = Children(i, root)
              /\ \A a, b \in 1..Len(list) : a < b => list[a] < list[b]
            BY <2>2, <2>6 DEF Sound, Chained
        <3>2. CASE e.root # root
            <4>1. MembersOf(j, root) = MembersOf(i, root)
                BY <1>1, <3>2 DEF MembersOf, Listed, With
            <4>2. QED
                BY <2>3, <3>1, <3>2, <4>1
        <3>3. CASE e.root = root
            <4>1. MembersOf(j, root) = Append(list, e.ordinal)
                <5>1. j.chain_members =
                          With(i.chain_members, root, Append(list, e.ordinal))
                    BY <1>1, <2>4, <3>3 DEF Listed
                <5>2. QED
                    BY <5>1 DEF With, MembersOf
            <4> HIDE DEF list
            <4> DEFINE more == Append(list, e.ordinal)
            <4>2. /\ Sequence(more) /\ ToSet(more) = ToSet(list) \union {e.ordinal}
                  /\ Len(more) = Len(list) + 1 /\ more[Len(list) + 1] = e.ordinal
                  /\ \A k \in 1..Len(list) : more[k] = list[k]
                BY <3>1, AppendSequence
            <4>3. \A k \in 1..Len(list) : list[k] < e.ordinal
                <5>1. ASSUME NEW k \in 1..Len(list) PROVE list[k] < e.ordinal
                    <6>1. list[k] \in ToSet(list)
                        BY <3>1, SequencePlaces
                    <6>2. list[k] \in Ordinals(i)
                        <7>1. PICK m \in ToSet(s) : list[k] = m.ordinal
                            BY <3>1, <6>1 DEF Children
                        <7>2. m.ordinal \in Ordinals(i)
                            BY SoundSays
                        <7>3. QED
                            BY <7>1, <7>2
                    <6>3. QED
                        BY <1>4, <6>2, SoundSays DEF k0
                <5>2. QED
                    BY <5>1
            <4> HIDE DEF more
            <4>4. Len(list) \in Nat
                BY <3>1, SequencePlaces
            <4>5. ASSUME NEW a \in 1..Len(more), NEW b \in 1..Len(more), a < b
                  PROVE  more[a] < more[b]
                <5>1. a \in 1..Len(list) /\ (b \in 1..Len(list) \/ b = Len(list) + 1)
                    BY <4>2, <4>4, <4>5
                <5>2. QED
                    BY <3>1, <4>2, <4>3, <4>5, <5>1
            <4>6. QED
                BY <2>3, <3>1, <3>3, <4>1, <4>2, <4>5 DEF more
        <3>4. QED
            BY <3>2, <3>3
    <2>7. QED
        BY <2>5, <2>6
<1>12. ASSUME NEW m \in Int, m > e.ordinal PROVE Before(j, m)
    <2>1. \A k \in 1..Len(j.entries) : j.entries[k].ordinal < m
        BY <1>2, <1>3, <1>4, <1>12
    <2>2. \A k \in 1..Len(j.sorted) : j.sorted[k].ordinal < m
        <3>1. ASSUME NEW y \in ToSet(i.sorted)
              PROVE  y.ordinal \in Int /\ y.ordinal < e.ordinal
            <4>1. PICK k \in 1..Len(i.sorted) : y = i.sorted[k]
                BY Found
            <4>2. y.ordinal \in Int
                BY SoundSays
            <4>3. QED
                BY <1>4, <4>1, <4>2
        <3>2. \A y \in ToSet(j.sorted) : y.ordinal < m
            BY <1>4, <1>5, <1>12, <3>1
        <3>3. QED
            BY <1>5, <3>2, RefPlaces
    <2>3. \A root \in DOMAIN j.chain_members : root \in Int /\ root < m
        <3>1. DOMAIN j.chain_members \subseteq
                  DOMAIN i.chain_members \union (IF e.root = None THEN {} ELSE {e.root})
            BY <1>1 DEF Listed, With
        <3>2. e.root # None => e.root \in Int /\ e.root < e.ordinal
            BY DEF IsEntry
        <3>3. QED
            BY <1>4, <1>12, <3>1, <3>2
    <2>4. QED
        BY <2>1, <2>2, <2>3 DEF Before
<1>13. /\ Len(j.sorted) - j.timestamped_live = Len(i.sorted) - i.timestamped_live
       /\ Len(j.sorted) >= Len(i.sorted)
    <2>1. Len(i.sorted) \in Nat /\ i.timestamped_live \in Int
        BY SoundSays DEF Sound, Shape
    <2>2. CASE e.ts = None
        <3>1. Len(j.sorted) = Len(i.sorted) + 0 /\ j.timestamped_live = i.timestamped_live + 0
            BY <1>1, <1>5, <2>2
        <3>2. QED
            BY <2>1, <3>1
    <2>3. CASE e.ts # None
        <3>1. Len(j.sorted) = Len(i.sorted) + 1 /\ j.timestamped_live = i.timestamped_live + 1
            BY <1>1, <1>5, <2>3
        <3>2. QED
            BY <2>1, <3>1
    <2>4. QED
        BY <2>2, <2>3
<1>14. QED
    BY <1>1, <1>6, <1>9, <1>10, <1>11, <1>12, <1>13 DEF Sound, j

-----------------------------------------------------------------------------
(* The oldest entry leaves.                                                *)

LEMMA PopFields ==
    ASSUME NEW i, IsRecord(i), NEW e
    PROVE  LET j == PopFront(i, e)
           IN  /\ IsRecord(j)
               /\ j.entries = Tail(i.entries)
               /\ j.sorted = i.sorted
               /\ j.timestamped_live = i.timestamped_live - (IF e.ts = None THEN 0 ELSE 1)
               /\ j.timestampless = i.timestampless - 1 + (IF e.ts = None THEN 0 ELSE 1)
               /\ j.chain_members = Forget(i.chain_members, e)
<1> DEFINE stamped == IF e.ts = None THEN 0 ELSE 1
           members == Forget(i.chain_members, e)
           entries == Tail(i.entries)
           live == i.timestamped_live - stamped
           less == i.timestampless - 1 + stamped
<1>1. PopFront(i, e) =
          [i EXCEPT !.entries = entries, !.timestamped_live = live,
                    !.timestampless = less, !.chain_members = members]
    BY DEF PopFront
<1> HIDE DEF stamped, members, entries, live, less
<1>2. PopFront(i, e) = IndexOf(entries, i.sorted, live, less, members)
    <2>1. PopFront(i, e) =
              [f \in DOMAIN i |-> Field(f, entries, i.sorted, live, less, members)]
        BY <1>1, FieldsOf DEF Field
    <2>2. QED
        BY <2>1, FieldsOf, ReplacedFields
<1> DEFINE j == PopFront(i, e)
<1>3. /\ IsRecord(j) /\ j.entries = entries /\ j.sorted = i.sorted
      /\ j.timestamped_live = live /\ j.timestampless = less /\ j.chain_members = members
    BY <1>2, IndexIs
<1> HIDE DEF j
<1>4. QED
    BY <1>3 DEF j, stamped, members, entries, live, less

LEMMA PopKeeps ==
    ASSUME NEW i, Sound(i), i.entries # <<>>, NEW e, e = i.entries[1]
    PROVE  LET j == PopFront(i, e)
           IN  /\ Sound(j) /\ \A n : Before(i, n) => Before(j, n)
               /\ j.sorted = i.sorted
               /\ Len(j.entries) = Len(i.entries) - 1
               /\ \A k \in 1..(Len(i.entries) - 1) : j.entries[k] = i.entries[k + 1]
<1> DEFINE j == PopFront(i, e)
           s == i.entries
           m == Len(i.entries)
<1>1. /\ IsRecord(j)
      /\ j.entries = Tail(s)
      /\ j.sorted = i.sorted
      /\ j.timestamped_live = i.timestamped_live - (IF e.ts = None THEN 0 ELSE 1)
      /\ j.timestampless = i.timestampless - 1 + (IF e.ts = None THEN 0 ELSE 1)
      /\ j.chain_members = Forget(i.chain_members, e)
    <2>1. IsRecord(i)
        BY DEF Sound, Shape
    <2>2. QED
        BY <2>1, PopFields, ZenonT(60)
<1>2. /\ Sequence(j.entries) /\ Len(j.entries) = m - 1
      /\ \A k \in 1..(m - 1) : j.entries[k] = s[k + 1]
    BY <1>1, TailSequence DEF Sound, Shape
<1> HIDE DEF j
<1>3. /\ m \in Nat /\ 1 \in 1..m
      /\ \A k \in 1..m : IsEntry(s[k]) /\ s[k].ordinal \in Int
      /\ \A a, b \in 1..m : a < b => s[a].ordinal < s[b].ordinal
      /\ e = s[1]
      /\ ToSet(s) = {s[k] : k \in 1..m}
      /\ Ordinals(i) = {s[k].ordinal : k \in 1..m}
    <2>1. m \in Nat /\ 1 \in 1..m
        BY SequencePlaces DEF Sound, Shape
    <2>2. /\ \A k \in 1..m : IsEntry(s[k]) /\ s[k].ordinal \in Int
          /\ \A a, b \in 1..m : a < b => s[a].ordinal < s[b].ordinal
        BY DEF Sound, Shape, IsEntry
    <2>3. ToSet(s) = {s[k] : k \in 1..m} /\ Ordinals(i) = {s[k].ordinal : k \in 1..m}
        BY SoundSays
    <2>4. QED
        BY <2>1, <2>2, <2>3
<1> HIDE DEF m
<1>4. \A k \in 1..(m - 1) : k \in 1..m /\ k + 1 \in 1..m /\ 1 < k + 1
    BY <1>3
<1>5. Shape(j)
    <2>1. \A a, b \in 1..(m - 1) : a < b => j.entries[a].ordinal < j.entries[b].ordinal
        <3>1. SUFFICES ASSUME NEW a \in 1..(m - 1), NEW b \in 1..(m - 1), a < b
                       PROVE  j.entries[a].ordinal < j.entries[b].ordinal
            OBVIOUS
        <3>2. a + 1 < b + 1
            BY <1>3, <3>1
        <3>3. QED
            BY <1>2, <1>3, <1>4, <3>2
    <2>2. \A k \in 1..(m - 1) : IsEntry(j.entries[k])
        BY <1>2, <1>3, <1>4
    <2>3. j.timestamped_live \in Int /\ j.timestampless \in Int
        BY <1>1 DEF Sound, Shape
    <2>4. j.sorted \in Seq(Ref)
        BY <1>1 DEF Sound, Shape
    <2>5. QED
        BY <1>1, <1>2, <2>1, <2>2, <2>3, <2>4 DEF Shape
<1>6. /\ ToSet(j.entries) = {j.entries[k] : k \in 1..(m - 1)}
      /\ Ordinals(j) = {j.entries[k].ordinal : k \in 1..(m - 1)}
    <2>1. /\ ToSet(j.entries) = {j.entries[k] : k \in 1..Len(j.entries)}
          /\ Ordinals(j) = {j.entries[k].ordinal : k \in 1..Len(j.entries)}
        BY <1>5, ShapeSays, Zenon
    <2>2. QED
        BY <1>2, <2>1
<1>7. /\ \A x \in ToSet(j.entries) : x \in ToSet(s) /\ x.ordinal \in Int /\ x.ordinal > e.ordinal
      /\ \A x \in ToSet(s) : x = e \/ x \in ToSet(j.entries)
    <2>1. ASSUME NEW x \in ToSet(j.entries)
          PROVE  x \in ToSet(s) /\ x.ordinal \in Int /\ x.ordinal > e.ordinal
        <3>1. PICK k \in 1..(m - 1) : x = j.entries[k]
            BY <1>6
        <3>2. x = s[k + 1] /\ k + 1 \in 1..m /\ 1 < k + 1
            BY <1>2, <1>4, <3>1
        <3>3. QED
            BY <1>3, <3>2
    <2>2. ASSUME NEW x \in ToSet(s) PROVE x = e \/ x \in ToSet(j.entries)
        <3>1. PICK k \in 1..m : x = s[k]
            BY <1>3
        <3>2. k = 1 \/ (k - 1 \in 1..(m - 1) /\ (k - 1) + 1 = k)
            BY <1>3
        <3>3. CASE k = 1
            BY <1>3, <3>1, <3>3
        <3>4. CASE k - 1 \in 1..(m - 1) /\ (k - 1) + 1 = k
            <4>1. j.entries[k - 1] = x
                BY <1>2, <3>1, <3>4
            <4>2. QED
                BY <1>6, <3>4, <4>1
        <3>5. QED
            BY <3>2, <3>3, <3>4
    <2>3. QED
        BY <2>1, <2>2
<1>8. e \in ToSet(s) /\ IsEntry(e) /\ e.ordinal \in Int /\ e \notin ToSet(j.entries)
    BY <1>3, <1>7
<1>9. TimedOf(j) = TimedOf(i) \ {e}
    BY <1>7, <1>8 DEF TimedOf
<1>10. Sorted(j)
    <2>1. \A x \in TimedOf(j) : IsLive(j, x.ordinal)
        BY <1>5, ShapeSays DEF TimedOf
    <2>2. Live(i) = Stamps(i)
        BY DEF Sound, Sorted
    <2>3. \A o \in Int : IsLive(j, o) => IsLive(i, o) /\ o > e.ordinal
        <3>1. SUFFICES ASSUME NEW o \in Int, IsLive(j, o)
                       PROVE  IsLive(i, o) /\ o > e.ordinal
            OBVIOUS
        <3>2. 1 \in 1..(m - 1) /\ o >= j.entries[1].ordinal
            BY <1>2, <1>5, <3>1, ShapeSays
        <3>3. j.entries[1].ordinal \in Int /\ j.entries[1].ordinal > e.ordinal
            BY <1>6, <1>7, <3>2
        <3>4. o > e.ordinal /\ o >= s[1].ordinal
            BY <1>3, <1>8, <3>2, <3>3
        <3>5. QED
            BY <1>3, <3>4, SoundSays DEF m
    <2>4. \A x \in ToSet(i.sorted) : x.ordinal \in Int
        BY SoundSays
    <2>5. ASSUME NEW x, x \in Live(j) PROVE x \in Stamps(j)
        <3>1. x \in ToSet(i.sorted) /\ IsLive(j, x.ordinal)
            BY <1>1, <2>5 DEF Live
        <3>2. x \in Live(i) /\ x.ordinal > e.ordinal
            BY <2>3, <2>4, <3>1 DEF Live
        <3>3. PICK y \in TimedOf(i) : x = [ms |-> y.ts, ordinal |-> y.ordinal]
            BY <2>2, <3>2 DEF Stamps
        <3>4. y # e
            BY <1>8, <3>2, <3>3
        <3>5. QED
            BY <1>9, <3>3, <3>4 DEF Stamps
    <2>6. ASSUME NEW x, x \in Stamps(j) PROVE x \in Live(j)
        <3>1. PICK y \in TimedOf(j) : x = [ms |-> y.ts, ordinal |-> y.ordinal]
            BY <2>6 DEF Stamps
        <3>2. x \in Live(i)
            BY <1>9, <2>2, <3>1 DEF Stamps
        <3>3. x.ordinal = y.ordinal
            BY <3>1
        <3>4. QED
            BY <1>1, <2>1, <3>1, <3>2, <3>3 DEF Live
    <2>7. QED
        BY <1>1, <2>5, <2>6 DEF Sorted, Sound
<1>11. Counted(j)
    <2>1. IsFiniteSet(TimedOf(i)) /\ Cardinality(TimedOf(i)) \in Nat
        BY TimedFinite DEF Sound
    <2>2. /\ i.timestamped_live = Cardinality(TimedOf(i))
          /\ i.timestampless = m - Cardinality(TimedOf(i))
        BY DEF Sound, Counted, m
    <2> DEFINE c == Cardinality(TimedOf(i))
               d == Cardinality(TimedOf(j))
    <2>3. CASE e.ts = None
        <3>1. d = c
            BY <1>9, <2>3 DEF TimedOf
        <3>2. j.timestamped_live = c - 0 /\ j.timestampless = m - c - 1 + 0
            BY <1>1, <2>2, <2>3
        <3> HIDE DEF c, d
        <3>3. c \in Int
            BY <2>1 DEF c
        <3>4. j.timestamped_live = d /\ j.timestampless = (m - 1) - d
            BY <1>3, <3>1, <3>2, <3>3
        <3>5. QED
            BY <1>2, <3>4 DEF Counted, d
    <2>4. CASE e.ts # None
        <3>1. e \in TimedOf(i)
            BY <1>8, <2>4 DEF TimedOf
        <3>2. d = c - 1
            <4>1. Cardinality(TimedOf(i) \ {e}) = Cardinality(TimedOf(i)) - 1
                BY <2>1, <3>1, FS_RemoveElement
            <4>2. QED
                BY <1>9, <4>1
        <3>3. j.timestamped_live = c - 1 /\ j.timestampless = m - c - 1 + 1
            BY <1>1, <2>2, <2>4
        <3> HIDE DEF c, d
        <3>4. c \in Int
            BY <2>1 DEF c
        <3>5. j.timestamped_live = d /\ j.timestampless = (m - 1) - d
            BY <1>3, <3>2, <3>3, <3>4
        <3>6. QED
            BY <1>2, <3>5 DEF Counted, d
    <2>5. QED
        BY <2>3, <2>4
<1>12. Chained(j)
    <2>1. SUFFICES ASSUME NEW root \in Ordinals(j)
                   PROVE  LET list == MembersOf(j, root)
                          IN  /\ Sequence(list) /\ ToSet(list) = Children(j, root)
                              /\ \A a, b \in 1..Len(list) : a < b => list[a] < list[b]
        BY DEF Chained
    <2>2. PICK x \in ToSet(j.entries) : root = x.ordinal
        BY <1>6, <2>1
    <2>3. root \in Ordinals(i) /\ root \in Int /\ root > e.ordinal
        BY <1>3, <1>7, <2>2
    <2>4. root # e.ordinal /\ root # e.root
        <3>1. e.root = None \/ (e.root \in Int /\ e.root < e.ordinal)
            BY <1>8 DEF IsEntry
        <3>2. QED
            BY <1>8, <2>3, <3>1, IndexAssumption
    <2>5. MembersOf(j, root) = MembersOf(i, root)
        BY <1>1, <2>4 DEF MembersOf, Forget, Without
    <2>6. Children(j, root) = Children(i, root)
        BY <1>7, <1>8, <2>4 DEF Children
    <2>7. QED
        BY <2>3, <2>5, <2>6 DEF Sound, Chained
<1>13. ASSUME NEW n, Before(i, n) PROVE Before(j, n)
    <2>1. \A k \in 1..Len(j.entries) : j.entries[k].ordinal < n
        BY <1>2, <1>4, <1>13 DEF Before, m
    <2>2. DOMAIN j.chain_members \subseteq DOMAIN i.chain_members
        BY <1>1 DEF Forget, Without
    <2>3. QED
        BY <1>1, <1>13, <2>1, <2>2 DEF Before
<1>14. QED
    BY <1>1, <1>2, <1>5, <1>10, <1>11, <1>12, <1>13 DEF Sound, j, m

-----------------------------------------------------------------------------
(* The oldest entries leave, and refs are compacted away.                  *)

LEMMA OnceSize ==
    ASSUME NEW s \in Seq(Ref), OnceEach(s)
    PROVE  IsFiniteSet(ToSet(s)) /\ Cardinality(ToSet(s)) = Len(s)
<1> DEFINE n == Len(s)
<1>1. n \in Nat /\ DOMAIN s = 1..n /\ ToSet(s) = {s[k] : k \in 1..n}
    BY RefPlaces, SequencePlaces
<1>2. s \in [1..n -> ToSet(s)]
    BY <1>1
<1>3. \A x, y \in 1..n : s[x] = s[y] => x = y
    BY <1>1 DEF OnceEach
<1>4. \A z \in ToSet(s) : \E x \in 1..n : s[x] = z
    BY <1>1
<1>5. IsFiniteSet(1..n) /\ Cardinality(1..n) = n
    BY <1>1, FS_Interval
<1> HIDE DEF n
<1>6. QED
    BY <1>2, <1>3, <1>4, <1>5, SameSize DEF n

LEMMA StampsSize ==
    ASSUME NEW i, Shape(i)
    PROVE  IsFiniteSet(Stamps(i)) /\ Cardinality(Stamps(i)) = Cardinality(TimedOf(i))
<1> DEFINE stamp == [e \in TimedOf(i) |-> [ms |-> e.ts, ordinal |-> e.ordinal]]
<1>1. IsFiniteSet(TimedOf(i))
    BY TimedFinite
<1>2. stamp \in [TimedOf(i) -> Stamps(i)]
    BY DEF Stamps
<1>3. \A z \in Stamps(i) : \E x \in TimedOf(i) : stamp[x] = z
    BY DEF Stamps
<1>4. \A x, y \in TimedOf(i) : stamp[x] = stamp[y] => x = y
    <2>1. SUFFICES ASSUME NEW x \in TimedOf(i), NEW y \in TimedOf(i), stamp[x] = stamp[y]
                   PROVE  x = y
        OBVIOUS
    <2>2. stamp[x].ordinal = x.ordinal /\ stamp[y].ordinal = y.ordinal
        OBVIOUS
    <2>3. x.ordinal = y.ordinal
        BY <2>1, <2>2
    <2>4. x \in ToSet(i.entries) /\ y \in ToSet(i.entries)
        BY DEF TimedOf
    <2>5. QED
        BY <2>3, <2>4, ShapeSays
<1> HIDE DEF stamp
<1>5. QED
    BY <1>1, <1>2, <1>3, <1>4, SameSize

(* No ref of an entry that has left is among them. *)
Compacted(i) == ToSet(i.sorted) = Stamps(i) /\ Len(i.sorted) = i.timestamped_live

LEMMA CompactKeeps ==
    ASSUME NEW i, Sound(i)
    PROVE  LET j == Compact(i)
           IN  /\ Sound(j) /\ Compacted(j) /\ \A n : Before(i, n) => Before(j, n)
               /\ j.entries = i.entries /\ j.chain_members = i.chain_members
<1> DEFINE j == Compact(i)
<1>1. /\ Shape(i) /\ IsRecord(i) /\ i.sorted \in Seq(Ref)
      /\ OnceEach(i.sorted) /\ InOrder(i.sorted)
      /\ Live(i) = Stamps(i) /\ i.timestamped_live = Cardinality(TimedOf(i))
    BY DEF Sound, Shape, Sorted, Counted
<1>2. /\ IsFiniteSet(ToSet(i.sorted)) /\ Cardinality(ToSet(i.sorted)) = Len(i.sorted)
      /\ IsFiniteSet(Stamps(i)) /\ Cardinality(Stamps(i)) = i.timestamped_live
    BY <1>1, OnceSize, StampsSize
<1>3. CASE Len(i.sorted) = i.timestamped_live
    <2>1. j = i
        BY <1>3 DEF Compact
    <2>2. Stamps(i) \subseteq ToSet(i.sorted)
        BY <1>1 DEF Live
    <2>3. ToSet(i.sorted) = Stamps(i)
        BY <1>2, <1>3, <2>2, FS_Subset
    <2> HIDE DEF j
    <2>4. QED
        BY <1>3, <2>1, <2>3 DEF Compacted, j
<1>4. CASE Len(i.sorted) # i.timestamped_live
    <2> DEFINE q == Retained(i, i.sorted)
    <2>1. j = WithSorted(i, q)
        BY <1>4 DEF Compact, WithSorted
    <2>2. /\ q \in Seq(Ref) /\ InOrder(q) /\ OnceEach(q)
          /\ ToSet(q) = {r \in ToSet(i.sorted) : IsLive(i, r.ordinal)}
        BY <1>1, RetainedRefs
    <2> HIDE DEF j, q
    <2>3. /\ IsRecord(j) /\ j.sorted = q /\ j.entries = i.entries
          /\ j.timestamped_live = i.timestamped_live
          /\ j.timestampless = i.timestampless /\ j.chain_members = i.chain_members
        <3>1. j = IndexOf(i.entries, q, i.timestamped_live, i.timestampless, i.chain_members)
            BY <1>1, <2>1, WithSortedIs DEF IndexOf
        <3>2. QED
            BY <3>1, IndexIs
    <2>4. ToSet(q) = Stamps(i)
        BY <1>1, <2>2 DEF Live
    <2>5. Stamps(j) = Stamps(i) /\ TimedOf(j) = TimedOf(i)
        BY <2>3 DEF Stamps, TimedOf
    <2>6. \A o : IsLive(j, o) <=> IsLive(i, o)
        BY <2>3 DEF IsLive
    <2>7. Live(j) = Stamps(j)
        BY <2>2, <2>3, <2>4, <2>5, <2>6 DEF Live
    <2>8. Len(j.sorted) = j.timestamped_live
        BY <1>2, <2>2, <2>3, <2>4, OnceSize
    <2>9. Shape(j)
        BY <1>1, <2>2, <2>3 DEF Shape
    <2>10. Chained(j)
        <3>1. Chained(i) /\ Ordinals(j) = Ordinals(i)
            BY <2>3 DEF Sound, Ordinals
        <3>2. \A root : MembersOf(j, root) = MembersOf(i, root) /\ Children(j, root) = Children(i, root)
            BY <2>3 DEF MembersOf, Children
        <3>3. QED
            BY <3>1, <3>2 DEF Chained
    <2>11. Sorted(j) /\ Counted(j)
        BY <2>2, <2>3, <2>5, <2>7 DEF Sorted, Counted, Sound
    <2>12. ASSUME NEW n, Before(i, n) PROVE Before(j, n)
        <3>1. \A k \in 1..Len(q) : q[k].ordinal < n
            <4>1. \A k \in 1..Len(q) : q[k] \in ToSet(i.sorted)
                BY <2>2, RefPlaces
            <4>2. \A r \in ToSet(i.sorted) : r.ordinal < n
                BY <1>1, <2>12, ShapeSays DEF Before
            <4>3. QED
                BY <4>1, <4>2
        <3>2. QED
            BY <2>3, <2>12, <3>1 DEF Before
    <2>13. QED
        BY <2>3, <2>4, <2>5, <2>8, <2>9, <2>10, <2>11, <2>12 DEF Sound, Compacted, j
<1>5. QED
    BY <1>3, <1>4

(* The index once the first `count` entries have been popped. *)
Popped(i, count) == FoldLeft(PopFront, i, SubSeq(i.entries, 1, count))

LEMMA PoppedFold ==
    ASSUME NEW i, NEW count
    PROVE  Popped(i, count) = Pops!Fold(i, SubSeq(i.entries, 1, count))
BY DEF Popped, Pops!Fold, FoldLeft, Pops!FoldLeft, MapThenFoldSet,
       Pops!MapThenFoldSet, Max, Pops!Max

(* What is left of an index once `count` entries have gone. *)
LeftOf(i, count, j) ==
    /\ Sound(j) /\ \A n : Before(i, n) => Before(j, n)
    /\ Len(j.entries) = Len(i.entries) - count
    /\ \A k \in 1..(Len(i.entries) - count) : j.entries[k] = i.entries[k + count]

LEMMA PoppedKeeps ==
    ASSUME NEW i, Sound(i), NEW count \in 0..Len(i.entries)
    PROVE  LeftOf(i, count, Popped(i, count))
<1> DEFINE s == SubSeq(i.entries, 1, count)
           m == Len(i.entries)
<1>1. m \in Nat /\ count \in Nat /\ count <= m /\ Sequence(i.entries)
    BY SoundSays DEF Sound, Shape
<1> HIDE DEF m
<1>2. DOMAIN s = 1..count /\ \A k \in 1..count : s[k] = i.entries[k]
    <2>1. 1 \in 1..(m + 1) /\ count \in 0..m
        BY <1>1
    <2>2. /\ Sequence(s) /\ Len(s) = IF 1 <= count THEN count - 1 + 1 ELSE 0
          /\ \A k \in 1..Len(s) : s[k] = i.entries[1 + k - 1]
        BY <1>1, <2>1, StretchSequence DEF m
    <2> HIDE DEF s
    <2>3. Len(s) = count
        BY <1>1, <2>2
    <2>4. \A k \in 1..count : 1 + k - 1 = k
        BY <1>1
    <2>5. QED
        BY <2>2, <2>3, <2>4, SequencePlaces
<1> HIDE DEF s
<1>3. PICK run : Pops!IsRun(run, i, s, count) /\ Pops!Fold(i, s) = run[count]
    BY <1>1, <1>2, Pops!FoldRuns
<1>4. run[0] = i /\ \A k \in 1..count : run[k] = PopFront(run[k - 1], s[k])
    BY <1>3 DEF Pops!IsRun
<1> DEFINE T == {k \in Nat : k <= count => LeftOf(i, k, run[k])}
<1>5. 0 \in T
    <2>1. LeftOf(i, 0, i)
        BY <1>1 DEF LeftOf, m
    <2>2. QED
        BY <1>4, <2>1
<1>6. ASSUME NEW k \in Nat, k \in T PROVE k + 1 \in T
    <2>1. SUFFICES ASSUME k + 1 <= count PROVE LeftOf(i, k + 1, run[k + 1])
        OBVIOUS
    <2>2. k + 1 \in 1..count /\ (k + 1) - 1 = k /\ k <= count /\ m - k \in Nat
          /\ 1 \in 1..(m - k) /\ 1 + k = k + 1
        BY <1>1, <2>1
    <2> DEFINE j == run[k]
               e == s[k + 1]
    <2>3. LeftOf(i, k, j)
        BY <1>6, <2>2
    <2>4. run[k + 1] = PopFront(j, e)
        BY <1>4, <2>2
    <2>5. e = i.entries[k + 1]
        BY <1>2, <2>2
    <2> HIDE DEF j, e, T
    <2>6. Sound(j) /\ Len(j.entries) = m - k
          /\ \A h \in 1..(m - k) : j.entries[h] = i.entries[h + k]
        BY <2>3 DEF LeftOf, m
    <2>7. j.entries # <<>> /\ e = j.entries[1]
        <3>1. Len(j.entries) # 0
            BY <2>2, <2>6
        <3>2. j.entries # <<>>
            BY <3>1, <2>6, SequencePlaces DEF Sound, Shape
        <3>3. QED
            BY <2>2, <2>5, <2>6, <3>2
    <2> DEFINE p == PopFront(j, e)
    <2>8. /\ Sound(p) /\ \A n : Before(j, n) => Before(p, n)
          /\ Len(p.entries) = Len(j.entries) - 1
          /\ \A h \in 1..(Len(j.entries) - 1) : p.entries[h] = j.entries[h + 1]
        BY <2>6, <2>7, PopKeeps
    <2> HIDE DEF p
    <2>9. Len(p.entries) = m - (k + 1)
        BY <1>1, <2>6, <2>8
    <2>10. ASSUME NEW h \in 1..(m - (k + 1)) PROVE p.entries[h] = i.entries[h + (k + 1)]
        <3>1. h \in 1..(Len(j.entries) - 1) /\ h + 1 \in 1..(m - k)
              /\ (h + 1) + k = h + (k + 1)
            BY <1>1, <2>6
        <3>2. QED
            BY <2>6, <2>8, <3>1
    <2>11. QED
        BY <2>3, <2>4, <2>8, <2>9, <2>10 DEF LeftOf, p, m
<1>7. count \in T
    <2> HIDE DEF T
    <2>1. QED
        BY <1>1, <1>5, <1>6, Pops!Induct
<1>8. QED
    BY <1>1, <1>3, <1>7, PoppedFold DEF s

(* Refs of entries that have left are few. *)
FewDead(i) ==
    LET dead == Len(i.sorted) - i.timestamped_live
    IN  dead >= CompactMinDead => 4 * dead < Len(i.sorted)

LEMMA CompactedHasFewDead ==
    ASSUME NEW i, Sound(i), Compacted(i)
    PROVE  FewDead(i)
<1>1. Len(i.sorted) \in Nat /\ Len(i.sorted) = i.timestamped_live
    BY SoundSays DEF Compacted
<1>2. Len(i.sorted) - i.timestamped_live = 0
    BY <1>1
<1>3. ~(0 >= CompactMinDead)
    BY IndexAssumption
<1>4. QED
    BY <1>2, <1>3 DEF FewDead

LEMMA EvictKeeps ==
    ASSUME NEW i, Sound(i), NEW count \in 0..Len(i.entries)
    PROVE  LeftOf(i, count, EvictFront(i, count)) /\ FewDead(EvictFront(i, count))
<1> DEFINE p == Popped(i, count)
           dead == Len(p.sorted) - p.timestamped_live
<1>1. LeftOf(i, count, p)
    BY PoppedKeeps
<1>2. EvictFront(i, count) =
          IF dead >= CompactMinDead /\ 4 * dead >= Len(p.sorted) THEN Compact(p) ELSE p
    BY DEF EvictFront, Popped
<1> HIDE DEF p
<1>3. Sound(p)
    BY <1>1 DEF LeftOf
<1>4. Len(p.sorted) \in Int /\ dead \in Int
    BY <1>3, SoundSays DEF Sound, Shape
<1>5. CASE dead >= CompactMinDead /\ 4 * dead >= Len(p.sorted)
    <2> DEFINE j == Compact(p)
    <2>1. /\ Sound(j) /\ Compacted(j) /\ \A n : Before(p, n) => Before(j, n)
          /\ j.entries = p.entries
        BY <1>3, CompactKeeps
    <2> HIDE DEF j
    <2>2. LeftOf(i, count, j)
        BY <1>1, <2>1 DEF LeftOf
    <2>3. FewDead(j)
        BY <2>1, CompactedHasFewDead
    <2>4. QED
        BY <1>2, <1>5, <2>2, <2>3 DEF j
<1>6. CASE ~(dead >= CompactMinDead /\ 4 * dead >= Len(p.sorted))
    <2>1. FewDead(p)
        <3> HIDE DEF dead
        <3>1. dead >= CompactMinDead => 4 * dead < Len(p.sorted)
            BY <1>4, <1>6
        <3>2. QED
            BY <3>1 DEF FewDead, dead
    <2>2. QED
        BY <1>1, <1>2, <1>6, <2>1
<1>7. QED
    BY <1>5, <1>6

-----------------------------------------------------------------------------
(* What a range of time holds, and what its buckets count.                 *)

(* Division by a positive number, which `\div` rounds down. *)
LEMMA DivisionIs ==
    ASSUME NEW a \in Int, NEW w \in Nat \ {0}
    PROVE  /\ a \div w \in Int
           /\ (a \div w) * w <= a /\ a < (a \div w) * w + w
           /\ \A q \in Int : a \div w = q <=> q * w <= a /\ a < q * w + w
OBVIOUS

Stamp(e) == [ms |-> e.ts, ordinal |-> e.ordinal]

(* The places of some refs are as many as those refs. *)
LEMMA CountPlaces ==
    ASSUME NEW s \in Seq(Ref), OnceEach(s), NEW T \in SUBSET ToSet(s)
    PROVE  Cardinality({k \in DOMAIN s : s[k] \in T}) = Cardinality(T)
<1> DEFINE P == {k \in DOMAIN s : s[k] \in T}
           f == [k \in P |-> s[k]]
<1>1. DOMAIN s = 1..Len(s) /\ Len(s) \in Nat /\ ToSet(s) = {s[k] : k \in 1..Len(s)}
    BY RefPlaces, SequencePlaces
<1>2. IsFiniteSet(P)
    <2>1. IsFiniteSet(1..Len(s))
        BY <1>1, FS_Interval
    <2>2. P \in SUBSET (1..Len(s))
        BY <1>1
    <2> HIDE DEF P
    <2>3. QED
        BY <2>1, <2>2, FS_Subset
<1>3. f \in [P -> T]
    OBVIOUS
<1>4. \A x, y \in P : f[x] = f[y] => x = y
    BY DEF OnceEach
<1>5. \A z \in T : \E x \in P : f[x] = z
    BY <1>1
<1> HIDE DEF P, f
<1>6. Cardinality(T) = Cardinality(P)
    BY <1>2, <1>3, <1>4, <1>5, SameSize
<1>7. QED
    BY <1>6 DEF P

(* The entries with some stamps are as many as those stamps. *)
LEMMA CountStamped ==
    ASSUME NEW i, Shape(i), NEW T \in SUBSET Stamps(i)
    PROVE  Cardinality({e \in TimedOf(i) : Stamp(e) \in T}) = Cardinality(T)
<1> DEFINE P == {e \in TimedOf(i) : Stamp(e) \in T}
           f == [e \in P |-> Stamp(e)]
<1>1. IsFiniteSet(P)
    <2>1. IsFiniteSet(TimedOf(i)) /\ P \in SUBSET TimedOf(i)
        BY TimedFinite
    <2> HIDE DEF P
    <2>2. QED
        BY <2>1, FS_Subset
<1>2. f \in [P -> T]
    OBVIOUS
<1>3. \A x, y \in P : f[x] = f[y] => x = y
    <2>1. SUFFICES ASSUME NEW x \in P, NEW y \in P, f[x] = f[y] PROVE x = y
        OBVIOUS
    <2>2. x.ordinal = y.ordinal
        <3>1. Stamp(x) = Stamp(y)
            BY <2>1
        <3>2. Stamp(x).ordinal = x.ordinal /\ Stamp(y).ordinal = y.ordinal
            BY DEF Stamp
        <3>3. QED
            BY <3>1, <3>2
    <2>3. x \in ToSet(i.entries) /\ y \in ToSet(i.entries)
        BY DEF TimedOf
    <2>4. QED
        BY <2>2, <2>3, ShapeSays
<1>4. \A z \in T : \E x \in P : f[x] = z
    BY DEF Stamps, Stamp
<1> HIDE DEF P, f
<1>5. Cardinality(T) = Cardinality(P)
    BY <1>1, <1>2, <1>3, <1>4, SameSize
<1>6. QED
    BY <1>5 DEF P

(* The refs of a range of time: those of the retained entries in it. *)
LEMMA RangeIs ==
    ASSUME NEW i, Sound(i), NEW a \in Int, NEW b \in Int
    PROVE  LET refs == RangeRefs(i, a, b)
           IN  /\ refs \in Seq(Ref) /\ InOrder(refs) /\ OnceEach(refs)
               /\ ToSet(refs) = {r \in Stamps(i) : a <= r.ms /\ r.ms < b}
<1> DEFINE s == i.sorted
           p == LowerBound(s, a)
           q == LowerBound(s, b)
           t == SubSeq(s, p + 1, q)
           n == Len(s)
<1>1. /\ IsRecord(i) /\ s \in Seq(Ref) /\ InOrder(s) /\ OnceEach(s)
      /\ Live(i) = Stamps(i)
    BY DEF Sound, Shape, Sorted
<1>2. /\ n \in Nat /\ DOMAIN s = 1..n /\ Sequence(s) /\ ToSet(s) = {s[k] : k \in 1..n}
      /\ \A k \in 1..n : s[k] \in Ref /\ s[k].ms \in Int
    BY <1>1, RefPlaces, SequencePlaces
<1>3. /\ p \in 0..n /\ \A k \in 1..n : s[k].ms < a <=> k <= p
      /\ q \in 0..n /\ \A k \in 1..n : s[k].ms < b <=> k <= q
    BY <1>1, Bounds
<1> HIDE DEF p, q, n
<1>4. /\ Sequence(t) /\ Len(t) = IF p + 1 <= q THEN q - (p + 1) + 1 ELSE 0
      /\ \A k \in 1..Len(t) : t[k] = s[(p + 1) + k - 1] /\ (p + 1) + k - 1 \in (p + 1)..q
    <2>1. p + 1 \in 1..(n + 1)
        BY <1>2, <1>3
    <2>2. QED
        BY <1>2, <1>3, <2>1, StretchSequence DEF n
<1> HIDE DEF t
<1>5. /\ \A k \in 1..Len(t) : p + k \in (p + 1)..q /\ p + k \in 1..n /\ t[k] = s[p + k]
      /\ \A m \in (p + 1)..q : m - p \in 1..Len(t) /\ p + (m - p) = m
    <2>1. \A k \in 1..Len(t) : (p + 1) + k - 1 = p + k
        BY <1>2, <1>3, <1>4
    <2>2. \A m \in (p + 1)..q : p + 1 <= q /\ m - p \in 1..(q - p) /\ p + (m - p) = m
        BY <1>2, <1>3
    <2>3. p + 1 <= q => Len(t) = q - p
        BY <1>2, <1>3, <1>4
    <2>4. \A m \in (p + 1)..q : m \in 1..n
        BY <1>2, <1>3
    <2>5. QED
        BY <1>4, <2>1, <2>2, <2>3, <2>4
<1>6. Len(t) \in Nat /\ DOMAIN t = 1..Len(t) /\ ToSet(t) = {t[k] : k \in 1..Len(t)}
    BY <1>4, SequencePlaces
<1>7. t \in Seq(Ref)
    <2>1. \A x \in ToSet(t) : x \in Ref
        BY <1>2, <1>5, <1>6
    <2>2. QED
        BY <1>4, <2>1, SeqMonotonic DEF Sequence
<1>8. InOrder(t)
    <2>1. \A j, k \in 1..Len(t) : j < k => p + j < p + k
        BY <1>3
    <2>2. \A k \in 1..Len(t) : p + k \in DOMAIN s /\ t[k] = s[p + k]
        BY <1>2, <1>5
    <2>3. ASSUME NEW j \in 1..Len(t), NEW k \in 1..Len(t), j < k
          PROVE  t[j].ms <= t[k].ms
        <3>1. s[p + j].ms <= s[p + k].ms
            BY <1>1, <2>1, <2>2, <2>3 DEF InOrder
        <3>2. QED
            BY <2>2, <3>1
    <2>4. QED
        BY <1>6, <2>3 DEF InOrder
<1>9. OnceEach(t)
    <2>1. \A j, k \in 1..Len(t) : p + j = p + k => j = k
        BY <1>3
    <2>2. QED
        BY <1>1, <1>2, <1>5, <1>6, <2>1, SMTT(30) DEF OnceEach
<1>10. ToSet(t) = {r \in ToSet(s) : a <= r.ms /\ r.ms < b}
    <2>1. \A k \in 1..n : k \in (p + 1)..q <=> a <= s[k].ms /\ s[k].ms < b
        BY <1>2, <1>3
    <2>2. \A x \in ToSet(t) : x \in ToSet(s) /\ a <= x.ms /\ x.ms < b
        BY <1>2, <1>5, <1>6, <2>1
    <2>3. ASSUME NEW x \in ToSet(s), a <= x.ms, x.ms < b PROVE x \in ToSet(t)
        <3>1. PICK k \in 1..n : x = s[k]
            BY <1>2
        <3>2. k \in (p + 1)..q
            BY <2>1, <2>3, <3>1
        <3>3. k - p \in 1..Len(t) /\ p + (k - p) = k
            BY <1>5, <3>2
        <3>4. t[k - p] = s[k]
            BY <1>5, <3>3
        <3>5. QED
            BY <1>6, <3>1, <3>3, <3>4
    <2>4. QED
        BY <2>2, <2>3
<1> DEFINE refs == Retained(i, t)
<1>11. RangeRefs(i, a, b) = refs
    BY DEF RangeRefs, t, p, q
<1>12. /\ refs \in Seq(Ref) /\ InOrder(refs) /\ OnceEach(refs)
       /\ ToSet(refs) = {r \in ToSet(t) : IsLive(i, r.ordinal)}
    BY <1>1, <1>7, <1>8, <1>9, RetainedRefs
<1> HIDE DEF refs
<1>13. ToSet(refs) = {r \in Stamps(i) : a <= r.ms /\ r.ms < b}
    BY <1>1, <1>10, <1>12 DEF Live
<1>14. QED
    BY <1>11, <1>12, <1>13

(* One bucket counts the events whose time falls in it. *)
LEMMA BucketIs ==
    ASSUME NEW i, Sound(i), NEW a \in Int, NEW w \in Nat \ {0}, NEW n \in Nat \ {0}
    PROVE  LET c == BucketCounts(i, a, w, n, Ordinals(i))
           IN  /\ DOMAIN c = 1..n /\ Len(c) = n
               /\ \A b \in 1..n :
                      c[b] = Cardinality({e \in TimedOf(i) :
                                 /\ ~IsChainMember(i, e.ordinal)
                                 /\ e.ts >= a + (b - 1) * w
                                 /\ e.ts < a + b * w})
<1> DEFINE refs == RangeRefs(i, a, a + w * n)
           events == {k \in DOMAIN refs : /\ refs[k].ordinal \in Ordinals(i)
                                          /\ ~IsChainMember(i, refs[k].ordinal)}
           P(b) == {k \in events : (refs[k].ms - a) \div w = b - 1}
           c == BucketCounts(i, a, w, n, Ordinals(i))
<1>1. c = [b \in 1..n |-> Cardinality(P(b))]
    BY DEF BucketCounts
<1>2. /\ refs \in Seq(Ref) /\ OnceEach(refs)
      /\ ToSet(refs) = {r \in Stamps(i) : a <= r.ms /\ r.ms < a + w * n}
    <2>1. a + w * n \in Int
        OBVIOUS
    <2>2. QED
        BY <2>1, RangeIs
<1> HIDE DEF refs
<1>3. Len(c) = n /\ DOMAIN c = 1..n
    <2> DEFINE S == {Cardinality(P(b)) : b \in 1..n}
    <2>1. c \in [1..n -> S]
        BY <1>1
    <2> HIDE DEF S, c
    <2>2. c \in Seq(S) /\ DOMAIN c = 1..n
        BY <2>1
    <2>3. QED
        BY <2>2
<1>4. /\ \A k \in DOMAIN refs : refs[k] \in Stamps(i) /\ refs[k] \in ToSet(refs)
      /\ DOMAIN refs = 1..Len(refs) /\ \A k \in DOMAIN refs : refs[k].ms \in Int
    BY <1>2, RefPlaces
<1>5. \A r \in Stamps(i) : r.ordinal \in Ordinals(i) /\ r.ms \in Int
    <2>1. SUFFICES ASSUME NEW e \in TimedOf(i)
                   PROVE  Stamp(e).ordinal \in Ordinals(i) /\ Stamp(e).ms \in Int
        BY DEF Stamps, Stamp
    <2>2. Stamp(e).ordinal = e.ordinal /\ Stamp(e).ms = e.ts
        BY DEF Stamp
    <2>3. e \in ToSet(i.entries) /\ e.ts # None /\ IsEntry(e)
        BY SoundSays DEF TimedOf
    <2>4. e.ordinal \in Ordinals(i)
        BY <2>3, SoundSays
    <2>5. QED
        BY <2>2, <2>3, <2>4 DEF IsEntry
<1>6. ASSUME NEW b \in 1..n
      PROVE  Cardinality(P(b)) = Cardinality({e \in TimedOf(i) :
                                 /\ ~IsChainMember(i, e.ordinal)
                                 /\ e.ts >= a + (b - 1) * w
                                 /\ e.ts < a + b * w})
    <2> DEFINE T == {r \in Stamps(i) : /\ ~IsChainMember(i, r.ordinal)
                                       /\ r.ms >= a + (b - 1) * w
                                       /\ r.ms < a + b * w}
    <2>1. \A x \in Int : (x - a) \div w = b - 1 <=> x >= a + (b - 1) * w /\ x < a + b * w
        <3>1. SUFFICES ASSUME NEW x \in Int
                       PROVE  (x - a) \div w = b - 1 <=>
                                  x >= a + (b - 1) * w /\ x < a + b * w
            OBVIOUS
        <3>2. x - a \in Int /\ b - 1 \in Int
            OBVIOUS
        <3>3. (x - a) \div w = b - 1 <=> (b - 1) * w <= x - a /\ x - a < (b - 1) * w + w
            BY <3>2, DivisionIs
        <3> DEFINE d == (b - 1) * w
        <3>4. d \in Int /\ b * w = d + w
            OBVIOUS
        <3> HIDE DEF d
        <3>5. d <= x - a /\ x - a < d + w <=> x >= a + d /\ x < a + (d + w)
            BY <3>4
        <3>6. QED
            BY <3>3, <3>4, <3>5 DEF d
    <2>2. T \in SUBSET ToSet(refs)
        <3>1. (b - 1) * w >= 0 /\ b * w <= w * n /\ (b - 1) * w \in Int
              /\ b * w \in Int /\ w * n \in Int
            OBVIOUS
        <3>2. \A x \in Int : x >= a + (b - 1) * w /\ x < a + b * w =>
                  a <= x /\ x < a + w * n
            BY <3>1
        <3>3. QED
            BY <1>2, <1>5, <3>2
    <2>3. P(b) = {k \in DOMAIN refs : refs[k] \in T}
        <3>1. ASSUME NEW k \in DOMAIN refs PROVE k \in P(b) <=> refs[k] \in T
            <4>1. refs[k] \in Stamps(i) /\ refs[k].ms \in Int /\ refs[k].ordinal \in Ordinals(i)
                BY <1>4, <1>5
            <4>2. QED
                BY <2>1, <4>1
        <3>2. \A k \in P(b) : k \in DOMAIN refs
            OBVIOUS
        <3> HIDE DEF P, T
        <3>3. QED
            BY <3>1, <3>2
    <2> DEFINE Q == {e \in TimedOf(i) : /\ ~IsChainMember(i, e.ordinal)
                                        /\ e.ts >= a + (b - 1) * w
                                        /\ e.ts < a + b * w}
    <2>4. Q = {e \in TimedOf(i) : Stamp(e) \in T}
        <3>1. \A e \in TimedOf(i) : Stamp(e) \in Stamps(i) /\ Stamp(e).ms = e.ts
                                     /\ Stamp(e).ordinal = e.ordinal
            BY DEF Stamp, Stamps
        <3>2. QED
            BY <3>1
    <2> HIDE DEF P, T, Q
    <2>5. T \in SUBSET Stamps(i)
        BY DEF T
    <2>6. Cardinality(P(b)) = Cardinality(T)
        BY <1>2, <2>2, <2>3, CountPlaces
    <2>7. Cardinality(Q) = Cardinality(T)
        BY <2>4, <2>5, CountStamped DEF Sound
    <2>8. QED
        BY <2>6, <2>7 DEF Q
<1>7. QED
    BY <1>1, <1>3, <1>6

-----------------------------------------------------------------------------
(* The spans that are offered.                                             *)

(* Tukey's fence around some refs in time order: what it cuts off. *)
LEMMA FenceIs ==
    ASSUME NEW s \in Seq(Ref), InOrder(s), s # <<>>
    PROVE  LET g == Fence(s)
               n == Len(s)
           IN  \E lo \in 0..n, hi \in 0..n :
                   /\ lo < hi
                   /\ g = [min_ms |-> s[lo + 1].ms, max_ms |-> s[hi].ms,
                           outlier_count |-> n - (hi - lo)]
                   /\ \A k \in 1..n : s[k].ms < s[lo + 1].ms <=> k <= lo
                   /\ \A k \in 1..n : s[k].ms > s[hi].ms <=> k > hi
<1> DEFINE n == Len(s)
           a == n \div 4 + 1
           b == SmallerOf((n * 3) \div 4, n - 1) + 1
           q1 == s[a].ms
           q3 == s[b].ms
           iqr == q3 - q1
           pad == IF iqr = 0 THEN Second ELSE iqr + iqr \div 2
           lo == LowerBound(s, q1 - pad)
           hi == UpperBound(s, q3 + pad)
<1>1. /\ n \in Nat /\ DOMAIN s = 1..n /\ \A k \in 1..n : s[k].ms \in Int
      /\ n # 0
    BY RefPlaces, SequencePlaces
<1>2. \A j, k \in 1..n : j <= k => s[j].ms <= s[k].ms
    <2>1. SUFFICES ASSUME NEW j \in 1..n, NEW k \in 1..n, j <= k
                   PROVE  s[j].ms <= s[k].ms
        OBVIOUS
    <2>2. j = k \/ j < k
        BY <1>1, <2>1
    <2>3. QED
        BY <1>1, <2>2 DEF InOrder
<1>3. Fence(s) = [min_ms |-> s[SmallerOf(lo, n - 1) + 1].ms, max_ms |-> s[hi].ms,
                  outlier_count |-> n - (hi - lo)]
    <2> HIDE DEF lo, hi
    <2>1. n # 0
        BY <1>1
    <2>2. QED
        BY <2>1 DEF Fence, lo, hi
<1> HIDE DEF n
<1>4. a \in 1..n /\ b \in 1..n /\ a <= b
    BY <1>1 DEF SmallerOf
<1> HIDE DEF a, b
<1>5. q1 \in Int /\ q3 \in Int /\ q1 <= q3
    BY <1>1, <1>2, <1>4
<1> HIDE DEF q1, q3
<1>6. pad \in Int /\ pad >= 0
    BY <1>5 DEF Second
<1> HIDE DEF pad, iqr
<1>7. q1 - pad \in Int /\ q3 + pad \in Int /\ q1 - pad <= q1 /\ q3 <= q3 + pad
    BY <1>5, <1>6
<1>8. /\ lo \in 0..n /\ \A k \in 1..n : s[k].ms < q1 - pad <=> k <= lo
      /\ hi \in 0..n /\ \A k \in 1..n : s[k].ms <= q3 + pad <=> k <= hi
    BY <1>7, Bounds DEF n
<1> HIDE DEF lo, hi
<1>9. lo < a /\ b <= hi
    <2>1. ~(q1 < q1 - pad) /\ q3 <= q3 + pad
        BY <1>5, <1>7
    <2>2. ~(a <= lo) /\ b <= hi
        BY <1>4, <1>8, <2>1 DEF q1, q3
    <2>3. QED
        BY <1>1, <1>4, <1>8, <2>2
<1>10. lo < hi /\ SmallerOf(lo, n - 1) = lo /\ lo + 1 \in 1..n /\ hi \in 1..n
    BY <1>1, <1>4, <1>8, <1>9 DEF SmallerOf
<1>11. ASSUME NEW k \in 1..n PROVE s[k].ms < s[lo + 1].ms <=> k <= lo
    <2>1. CASE k <= lo
        <3>1. s[k].ms < q1 - pad /\ ~(s[lo + 1].ms < q1 - pad)
            BY <1>8, <1>10, <2>1
        <3>2. QED
            BY <1>1, <1>7, <1>10, <2>1, <3>1
    <2>2. CASE ~(k <= lo)
        <3>1. lo + 1 <= k
            BY <1>8, <2>2
        <3>2. s[lo + 1].ms <= s[k].ms
            BY <1>2, <1>10, <3>1
        <3>3. QED
            BY <1>1, <1>10, <2>2, <3>2
    <2>3. QED
        BY <2>1, <2>2
<1>12. ASSUME NEW k \in 1..n PROVE s[k].ms > s[hi].ms <=> k > hi
    <2>1. CASE k > hi
        <3>1. ~(s[k].ms <= q3 + pad) /\ s[hi].ms <= q3 + pad
            BY <1>8, <1>10, <2>1
        <3>2. QED
            BY <1>1, <1>7, <1>10, <2>1, <3>1
    <2>2. CASE ~(k > hi)
        <3>1. k <= hi
            BY <1>8, <2>2
        <3>2. s[k].ms <= s[hi].ms
            BY <1>2, <1>10, <3>1
        <3>3. QED
            BY <1>1, <1>10, <2>2, <3>2
    <2>3. QED
        BY <2>1, <2>2
<1>13. Fence(s) = [min_ms |-> s[lo + 1].ms, max_ms |-> s[hi].ms,
                   outlier_count |-> n - (hi - lo)]
    BY <1>3, <1>10
<1>14. QED
    BY <1>8, <1>10, <1>11, <1>12, <1>13 DEF n

(* A span that is one of an index's entries, and says what it leaves out. *)
Spans(i, g) ==
    /\ g.min_ms \in Int /\ g.max_ms \in Int
    /\ {g.min_ms, g.max_ms} \subseteq {e.ts : e \in TimedOf(i)}
    /\ g.outlier_count = Cardinality({e \in TimedOf(i) : e.ts < g.min_ms \/ e.ts > g.max_ms})

LEMMA RobustSpans ==
    ASSUME NEW i, Sound(i), RobustSpan(i) # None
    PROVE  Spans(i, RobustSpan(i))
<1> DEFINE j == Compact(i)
           s == j.sorted
           n == Len(s)
           g == Fence(s)
<1>1. Sound(j) /\ Compacted(j) /\ j.entries = i.entries
    BY CompactKeeps
<1>2. g = RobustSpan(i) /\ g # None
    BY DEF RobustSpan
<1> HIDE DEF j
<1>3. s \in Seq(Ref) /\ InOrder(s) /\ OnceEach(s)
    BY <1>1 DEF Sound, Shape, Sorted
<1>4. s # <<>>
    <2>1. Len(s) # 0
        BY <1>2, Zenon DEF Fence
    <2>2. Len(<<>>) = 0
        OBVIOUS
    <2>3. QED
        BY <2>1, <2>2, Zenon
<1>5. TimedOf(i) = TimedOf(j) /\ ToSet(s) = Stamps(j)
    BY <1>1 DEF TimedOf, Compacted
<1> HIDE DEF s, g
<1>6. /\ n \in Nat /\ DOMAIN s = 1..n /\ ToSet(s) = {s[k] : k \in 1..n}
      /\ \A k \in 1..n : s[k].ms \in Int
    BY <1>3, RefPlaces, SequencePlaces
<1>7. PICK lo \in 0..n, hi \in 0..n :
          /\ lo < hi
          /\ g = [min_ms |-> s[lo + 1].ms, max_ms |-> s[hi].ms,
                  outlier_count |-> n - (hi - lo)]
          /\ \A k \in 1..n : s[k].ms < s[lo + 1].ms <=> k <= lo
          /\ \A k \in 1..n : s[k].ms > s[hi].ms <=> k > hi
    BY <1>3, <1>4, FenceIs DEF g
<1> HIDE DEF n
<1>8. lo + 1 \in 1..n /\ hi \in 1..n
    BY <1>6, <1>7
<1>9. /\ g.min_ms = s[lo + 1].ms /\ g.max_ms = s[hi].ms /\ g.outlier_count = n - (hi - lo)
    BY <1>7
<1>10. \A k \in 1..n : \E e \in TimedOf(i) : s[k].ms = e.ts
    BY <1>5, <1>6 DEF Stamps
<1>11. {g.min_ms, g.max_ms} \subseteq {e.ts : e \in TimedOf(i)}
    BY <1>8, <1>9, <1>10
<1> DEFINE T == {r \in Stamps(j) : r.ms < g.min_ms \/ r.ms > g.max_ms}
           P == {k \in DOMAIN s : s[k] \in T}
           Q == {e \in TimedOf(i) : e.ts < g.min_ms \/ e.ts > g.max_ms}
<1>12. P = (1..lo) \union ((hi + 1)..n)
    <2>1. \A k \in 1..n : s[k] \in Stamps(j)
        BY <1>5, <1>6
    <2>2. \A k \in 1..n : k \in P <=> k <= lo \/ k > hi
        BY <1>6, <1>7, <1>9, <2>1
    <2>3. \A k \in P : k \in 1..n
        BY <1>6
    <2> HIDE DEF P
    <2>4. \A k \in 1..lo : k \in 1..n /\ k <= lo
        BY <1>6, <1>7
    <2>5. \A k \in (hi + 1)..n : k \in 1..n /\ k > hi
        BY <1>6, <1>7
    <2>6. \A k \in 1..n : (k <= lo => k \in 1..lo) /\ (k > hi => k \in (hi + 1)..n)
        BY <1>6, <1>7
    <2>7. QED
        BY <2>2, <2>3, <2>4, <2>5, <2>6
<1>13. Q = {e \in TimedOf(j) : Stamp(e) \in T}
    <2>1. \A e \in TimedOf(j) : Stamp(e) \in Stamps(j) /\ Stamp(e).ms = e.ts
        BY DEF Stamp, Stamps
    <2>2. QED
        BY <1>5, <2>1
<1> HIDE DEF P, Q
<1>14. T \in SUBSET ToSet(s) /\ T \in SUBSET Stamps(j)
    BY <1>5
<1> HIDE DEF T
<1>15. Cardinality(P) = Cardinality(T) /\ Cardinality(Q) = Cardinality(T)
    BY <1>1, <1>3, <1>13, <1>14, CountPlaces, CountStamped DEF P, Sound
<1>16. Cardinality(P) = n - (hi - lo)
    <2> DEFINE A == 1..lo
               B == (hi + 1)..n
    <2>1. /\ IsFiniteSet(A) /\ Cardinality(A) = lo
          /\ IsFiniteSet(B) /\ Cardinality(B) = n - hi
        <3>1. lo \in Int /\ hi + 1 \in Int /\ n \in Int
            BY <1>6, <1>7
        <3>2. IsFiniteSet(A) /\ Cardinality(A) = IF 1 > lo THEN 0 ELSE lo - 1 + 1
            BY <3>1, FS_Interval
        <3>3. IsFiniteSet(B) /\ Cardinality(B) = IF hi + 1 > n THEN 0 ELSE n - (hi + 1) + 1
            BY <3>1, FS_Interval
        <3> HIDE DEF A, B
        <3>4. QED
            BY <1>6, <1>7, <3>2, <3>3
    <2>2. A \cap B = {}
        BY <1>6, <1>7
    <2> HIDE DEF A, B
    <2>3. P = A \union B
        BY <1>12 DEF A, B
    <2>4. Cardinality(A \cap B) = 0
        BY <2>2, FS_EmptySet
    <2>5. Cardinality(P) = lo + (n - hi) - 0
        BY <2>1, <2>3, <2>4, FS_Union
    <2>6. QED
        BY <1>6, <1>7, <2>5
<1>17. g.outlier_count = Cardinality(Q)
    BY <1>9, <1>15, <1>16
<1>18. QED
    BY <1>2, <1>6, <1>8, <1>9, <1>11, <1>17 DEF Spans, Q

LEMMA FullSpans ==
    ASSUME NEW i, Sound(i), FullSpan(i) # None
    PROVE  Spans(i, FullSpan(i))
<1> DEFINE s == Retained(i, i.sorted)
           n == Len(s)
           g == FullSpan(i)
<1>1. /\ IsRecord(i) /\ i.sorted \in Seq(Ref) /\ InOrder(i.sorted) /\ Live(i) = Stamps(i)
    BY DEF Sound, Shape, Sorted
<1>2. /\ s \in Seq(Ref) /\ InOrder(s)
      /\ ToSet(s) = {r \in ToSet(i.sorted) : IsLive(i, r.ordinal)}
    BY <1>1, RetainedRefs
<1>3. s # <<>> /\ g = [min_ms |-> Head(s).ms, max_ms |-> Last(s).ms, outlier_count |-> 0]
    BY DEF FullSpan
<1> HIDE DEF s, g
<1>4. ToSet(s) = Stamps(i)
    BY <1>1, <1>2 DEF Live
<1>5. /\ n \in Nat /\ DOMAIN s = 1..n /\ ToSet(s) = {s[k] : k \in 1..n}
      /\ \A k \in 1..n : s[k].ms \in Int
      /\ 1 \in 1..n /\ n \in 1..n /\ Head(s) = s[1] /\ Last(s) = s[n]
    BY <1>2, <1>3, RefPlaces, SequencePlaces
<1> HIDE DEF n
<1>6. g.min_ms = s[1].ms /\ g.max_ms = s[n].ms /\ g.outlier_count = 0
    BY <1>3, <1>5
<1>7. \A k \in 1..n : \E e \in TimedOf(i) : s[k].ms = e.ts
    BY <1>4, <1>5 DEF Stamps
<1>8. \A k \in 1..n : s[1].ms <= s[k].ms /\ s[k].ms <= s[n].ms
    <2>1. SUFFICES ASSUME NEW k \in 1..n PROVE s[1].ms <= s[k].ms /\ s[k].ms <= s[n].ms
        OBVIOUS
    <2>2. (k = 1 \/ 1 < k) /\ (k = n \/ k < n)
        BY <1>5
    <2>3. QED
        BY <1>2, <1>5, <2>2 DEF InOrder
<1>9. {e \in TimedOf(i) : e.ts < g.min_ms \/ e.ts > g.max_ms} = {}
    <2>1. SUFFICES ASSUME NEW e \in TimedOf(i) PROVE ~(e.ts < g.min_ms) /\ ~(e.ts > g.max_ms)
        OBVIOUS
    <2>2. Stamp(e) \in ToSet(s) /\ Stamp(e).ms = e.ts
        BY <1>4 DEF Stamp, Stamps
    <2>3. PICK k \in 1..n : s[k] = Stamp(e)
        BY <1>5, <2>2
    <2>4. QED
        BY <1>5, <1>6, <1>8, <2>2, <2>3
<1>10. QED
    BY <1>5, <1>6, <1>7, <1>9, FS_EmptySet DEF Spans, g

=============================================================================
