---------------------------- MODULE Views_proofs ----------------------------
(***************************************************************************)
(* Theorems about views, for any lines, queries and bounds.                *)
(***************************************************************************)
EXTENDS Views, Index_proofs

Parses  == INSTANCE LeftFolds WITH Op <- ParseNext
Catches == INSTANCE LeftFolds WITH Op <- Catch

-----------------------------------------------------------------------------
(* The entries: lines are read and leave.                                  *)

(* A root is a retained entry of its own, or has left before all others. *)
Known(i, root) ==
    \/ root = None
    \/ \E f \in ToSet(i.entries) : f.ordinal = root /\ f.root = None
    \/ root \in Int /\ \A f \in ToSet(i.entries) : f.ordinal > root

(* The lines before n have been read, with the event `open` left open. *)
ReadTo(i, n, open) ==
    /\ n \in Nat \ {0}
    /\ Sound(i)
    /\ Before(i, n)
    /\ open = None \/ (open \in Int /\ open < n)
    /\ Known(i, open)
    /\ \A e \in ToSet(i.entries) : Known(i, e.root)

LEMMA NothingRead ==
    ASSUME NEW n \in Nat \ {0}
    PROVE  ReadTo(NewIndex, n, None)
<1>1. NewIndex.entries = <<>>
    BY DEF NewIndex
<1>2. QED
    BY <1>1, NewIndexSound, EmptySequence DEF ReadTo, Known

(* Each entry of a sound index is at a place of its own. *)
LEMMA EntriesAre ==
    ASSUME NEW i, Sound(i)
    PROVE  /\ \A e \in ToSet(i.entries) :
                  /\ IsEntry(e) /\ e.ordinal \in Int /\ IsLive(i, e.ordinal)
                  /\ e.ordinal \in Ordinals(i)
           /\ \A e, f \in ToSet(i.entries) : e.ordinal = f.ordinal => e = f
           /\ \A o \in Ordinals(i) : \E e \in ToSet(i.entries) : e.ordinal = o
           /\ \A n : Before(i, n) => \A e \in ToSet(i.entries) : e.ordinal < n
<1>1. /\ ToSet(i.entries) = {i.entries[k] : k \in 1..Len(i.entries)}
      /\ Ordinals(i) = {i.entries[k].ordinal : k \in 1..Len(i.entries)}
      /\ \A e, f \in ToSet(i.entries) : e.ordinal = f.ordinal => e = f
      /\ \A e \in ToSet(i.entries) : IsEntry(e) /\ IsLive(i, e.ordinal)
    BY ShapeSays DEF Sound
<1>2. \A n : Before(i, n) => \A e \in ToSet(i.entries) : e.ordinal < n
    BY <1>1 DEF Before
<1>3. \A o \in Ordinals(i) : \E e \in ToSet(i.entries) : e.ordinal = o
    BY <1>1
<1>4. \A e \in ToSet(i.entries) : e.ordinal \in Int /\ e.ordinal \in Ordinals(i)
    BY <1>1 DEF IsEntry
<1>5. QED
    BY <1>1, <1>2, <1>3, <1>4

(* One more line is read. *)
LEMMA ReadKeeps ==
    ASSUME NEW i, NEW n, NEW open, ReadTo(i, n, open), NEW l \in Line, NEW chained
    PROVE  LET e == Parsed(n, l, open)
               j == IF l.kind = "blank" THEN i ELSE AppendEntry(i, e)
           IN  /\ ReadTo(j, n + 1, Open(n, l, open, chained))
               /\ l.kind # "blank" => /\ j.entries = Append(i.entries, e)
                                      /\ ToSet(j.entries) = ToSet(i.entries) \union {e}
                                      /\ e.ordinal = n
<1> DEFINE e == Parsed(n, l, open)
           j == IF l.kind = "blank" THEN i ELSE AppendEntry(i, e)
           next == Open(n, l, open, chained)
<1>1. /\ n \in Nat \ {0} /\ n \in Int /\ n + 1 \in Nat \ {0} /\ n < n + 1
      /\ Sound(i) /\ Before(i, n)
      /\ open = None \/ (open \in Int /\ open < n)
      /\ Known(i, open)
      /\ \A x \in ToSet(i.entries) : Known(i, x.root)
    BY DEF ReadTo
<1>2. l.ts \in Int \union {None} /\ l.kind \in {"stamped", "frame", "blank"}
    BY ViewsAssumption DEF LineType
<1>3. /\ e.ordinal = n /\ e.ts = l.ts
      /\ e.root = IF l.kind = "frame" THEN open ELSE None
    BY DEF Parsed
<1> HIDE DEF e
<1>4. IsEntry(e)
    BY <1>1, <1>2, <1>3 DEF IsEntry
<1>5. next = open \/ next = None \/ (next = n /\ l.kind = "stamped")
    BY DEF Open
<1>6. next = None \/ (next \in Int /\ next < n + 1)
    BY <1>1, <1>5
<1> HIDE DEF next
<1>7. \A x \in ToSet(i.entries) : x.ordinal \in Int /\ x.ordinal < n
    BY <1>1, EntriesAre
<1>8. CASE l.kind = "blank"
    <2>1. j = i
        BY <1>8
    <2>2. Before(i, n + 1)
        <3>1. \A k \in 1..Len(i.entries) :
                  i.entries[k].ordinal \in Int /\ i.entries[k].ordinal < n
            BY <1>1 DEF Before, Sound, Shape, IsEntry
        <3>2. \A k \in 1..Len(i.sorted) :
                  i.sorted[k].ordinal \in Int /\ i.sorted[k].ordinal < n
            BY <1>1, RefPlaces DEF Before, Sound, Shape
        <3>3. \A root \in DOMAIN i.chain_members : root \in Int /\ root < n
            BY <1>1 DEF Before
        <3>4. QED
            BY <1>1, <3>1, <3>2, <3>3 DEF Before
    <2>3. Known(i, next)
        BY <1>1, <1>5, <1>8 DEF Known
    <2>4. ReadTo(i, n + 1, next)
        BY <1>1, <1>6, <2>2, <2>3 DEF ReadTo
    <2>5. QED
        BY <1>8, <2>1, <2>4 DEF next, e
<1>9. CASE l.kind # "blank"
    <2> DEFINE a == AppendEntry(i, e)
    <2>1. /\ Sound(a) /\ \A m \in Int : m > e.ordinal => Before(a, m)
          /\ a.entries = Append(i.entries, e)
        <3>1. e.ordinal >= n
            BY <1>1, <1>3
        <3>2. QED
            BY <1>1, <1>4, <3>1, AppendKeeps
    <2>2. j = a
        BY <1>9
    <2> HIDE DEF a, j
    <2>3. ToSet(a.entries) = ToSet(i.entries) \union {e}
        BY <1>1, <2>1, AppendSequence DEF Sound, Shape
    <2>4. Before(a, n + 1)
        BY <1>1, <1>3, <2>1
    <2>5. ASSUME NEW root, Known(i, root), root = None \/ (root \in Int /\ root < n)
          PROVE  Known(a, root)
        BY <1>3, <2>3, <2>5 DEF Known
    <2>6. \A x \in ToSet(i.entries) : x.root = None \/ (x.root \in Int /\ x.root < n)
        <3>1. \A x \in ToSet(i.entries) : IsEntry(x)
            BY <1>1, EntriesAre
        <3>2. QED
            BY <1>1, <1>7, <3>1 DEF IsEntry
    <2>7. \A x \in ToSet(a.entries) : Known(a, x.root)
        <3>1. Known(a, e.root)
            BY <1>1, <1>3, <2>5 DEF Known
        <3>2. QED
            BY <1>1, <2>3, <2>5, <2>6, <3>1
    <2>8. Known(a, next)
        <3>1. CASE next = n /\ l.kind = "stamped"
            <4>1. e \in ToSet(a.entries) /\ e.ordinal = next /\ e.root = None
                BY <1>3, <2>3, <3>1
            <4>2. QED
                BY <4>1 DEF Known
        <3>2. CASE next = None
            BY <3>2 DEF Known
        <3>3. CASE next = open
            BY <1>1, <2>5, <3>3
        <3>4. QED
            BY <1>5, <3>1, <3>2, <3>3
    <2>9. ReadTo(a, n + 1, next)
        BY <1>1, <1>6, <2>1, <2>4, <2>7, <2>8 DEF ReadTo
    <2>10. QED
        BY <1>3, <2>1, <2>2, <2>3, <2>9 DEF j, next, e
<1>10. QED
    BY <1>8, <1>9

(* The oldest entries leave. *)
LEMMA LeftEntries ==
    ASSUME NEW i, Sound(i), NEW count \in 0..Len(i.entries), NEW j, LeftOf(i, count, j)
    PROVE  /\ ToSet(j.entries) \subseteq ToSet(i.entries)
           /\ \A e \in ToSet(i.entries), f \in ToSet(j.entries) :
                  e.ordinal >= f.ordinal => e \in ToSet(j.entries)
           /\ \A e \in ToSet(i.entries) : e \in ToSet(j.entries)
                  \/ \A f \in ToSet(j.entries) : f.ordinal > e.ordinal
<1> DEFINE m == Len(i.entries)
<1>1. /\ m \in Nat /\ count \in Nat /\ count <= m
      /\ ToSet(i.entries) = {i.entries[k] : k \in 1..m}
      /\ \A a, b \in 1..m : a < b => i.entries[a].ordinal < i.entries[b].ordinal
      /\ \A a \in 1..m : i.entries[a].ordinal \in Int
    <2>1. /\ m \in Nat /\ ToSet(i.entries) = {i.entries[k] : k \in 1..m}
        BY ShapeSays DEF Sound
    <2>2. \A a \in 1..m : i.entries[a].ordinal \in Int
        BY DEF Sound, Shape, IsEntry
    <2>3. count \in Nat /\ count <= m
        <3> HIDE DEF m
        <3>1. QED
            BY <2>1 DEF m
    <2>4. QED
        BY <2>1, <2>2, <2>3 DEF Sound, Shape
<1>2. /\ ToSet(j.entries) = {j.entries[k] : k \in 1..(m - count)}
      /\ \A k \in 1..(m - count) : j.entries[k] = i.entries[k + count]
    <2>1. Sound(j) /\ Len(j.entries) = m - count
          /\ \A k \in 1..(m - count) : j.entries[k] = i.entries[k + count]
        BY DEF LeftOf
    <2>2. ToSet(j.entries) = {j.entries[k] : k \in 1..Len(j.entries)}
        BY <2>1, ShapeSays DEF Sound
    <2>3. QED
        BY <2>1, <2>2
<1> HIDE DEF m
<1>3. /\ \A k \in 1..(m - count) : k + count \in 1..m
      /\ \A a \in 1..m : a > count => a - count \in 1..(m - count) /\ (a - count) + count = a
    BY <1>1
<1>4. \A f \in ToSet(j.entries) : \E a \in 1..m : a > count /\ f = i.entries[a]
    <2>1. SUFFICES ASSUME NEW k \in 1..(m - count)
                   PROVE  k + count > count /\ k + count \in 1..m
                          /\ j.entries[k] = i.entries[k + count]
        BY <1>2
    <2>2. QED
        BY <1>1, <1>2, <1>3
<1>5. \A a \in 1..m : a > count => i.entries[a] \in ToSet(j.entries)
    BY <1>2, <1>3
<1>6. ASSUME NEW e \in ToSet(i.entries)
      PROVE  \/ e \in ToSet(j.entries)
             \/ \A f \in ToSet(j.entries) : f.ordinal > e.ordinal
    <2>1. PICK a \in 1..m : e = i.entries[a]
        BY <1>1
    <2>2. CASE a > count
        BY <1>5, <2>1, <2>2
    <2>3. CASE a <= count
        <3>1. ASSUME NEW f \in ToSet(j.entries) PROVE f.ordinal > e.ordinal
            <4>1. PICK b \in 1..m : b > count /\ f = i.entries[b]
                BY <1>4
            <4>2. a < b
                BY <1>1, <2>3, <4>1
            <4>3. e.ordinal < f.ordinal
                BY <1>1, <2>1, <4>1, <4>2
            <4>4. QED
                BY <1>1, <2>1, <4>1, <4>3
        <3>2. QED
            BY <3>1
    <2>4. QED
        BY <1>1, <2>2, <2>3
<1>7. \A f \in ToSet(j.entries) : f \in ToSet(i.entries) /\ f.ordinal \in Int
    BY <1>1, <1>4
<1>8. \A e \in ToSet(i.entries) : e.ordinal \in Int
    BY <1>1
<1>9. ASSUME NEW e \in ToSet(i.entries), NEW f \in ToSet(j.entries), e.ordinal >= f.ordinal
      PROVE  e \in ToSet(j.entries)
    <2>1. ~(f.ordinal > e.ordinal)
        BY <1>7, <1>8, <1>9
    <2>2. QED
        BY <1>6, <2>1
<1>10. QED
    BY <1>6, <1>7, <1>9

LEMMA LeftKeeps ==
    ASSUME NEW i, NEW n, NEW open, ReadTo(i, n, open),
           NEW count \in 0..Len(i.entries), NEW j, LeftOf(i, count, j)
    PROVE  ReadTo(j, n, open)
<1>1. Sound(i) /\ Sound(j) /\ Before(j, n)
    BY DEF ReadTo, LeftOf
<1>2. /\ ToSet(j.entries) \subseteq ToSet(i.entries)
      /\ \A e \in ToSet(i.entries) : e \in ToSet(j.entries)
             \/ \A f \in ToSet(j.entries) : f.ordinal > e.ordinal
    BY <1>1, LeftEntries
<1>3. \A e \in ToSet(i.entries) : e.ordinal \in Int
    BY <1>1, EntriesAre
<1>4. ASSUME NEW root, Known(i, root) PROVE Known(j, root)
    <2>1. CASE root = None \/ (root \in Int /\ \A f \in ToSet(i.entries) : f.ordinal > root)
        BY <1>2, <2>1 DEF Known
    <2>2. CASE \E f \in ToSet(i.entries) : f.ordinal = root /\ f.root = None
        BY <1>2, <1>3, <2>2 DEF Known
    <2>3. QED
        BY <1>4, <2>1, <2>2 DEF Known
<1>5. QED
    BY <1>1, <1>2, <1>4 DEF ReadTo

(* The entries of earlier lines come first. *)
LEMMA EarlierAre ==
    ASSUME NEW i, Sound(i), NEW o \in Int
    PROVE  LET count == Cardinality({x \in Ordinals(i) : x < o})
           IN  /\ count \in 0..Len(i.entries)
               /\ \A k \in 1..Len(i.entries) : k > count <=> i.entries[k].ordinal >= o
<1> DEFINE m == Len(i.entries)
           S == {x \in Ordinals(i) : x < o}
           P == {k \in 1..m : i.entries[k].ordinal < o}
           f == [k \in P |-> i.entries[k].ordinal]
<1>1. /\ m \in Nat /\ Ordinals(i) = {i.entries[k].ordinal : k \in 1..m}
      /\ \A j, k \in 1..m : j < k => i.entries[j].ordinal < i.entries[k].ordinal
      /\ \A k \in 1..m : i.entries[k].ordinal \in Int
    <2>1. m \in Nat /\ Ordinals(i) = {i.entries[k].ordinal : k \in 1..m}
        BY SoundSays
    <2>2. QED
        BY <2>1 DEF Sound, Shape, IsEntry
<1> HIDE DEF m
<1>2. P \in SUBSET (1..m) /\ \A k \in P : \A j \in 1..m : j < k => j \in P
    <2>1. ASSUME NEW k \in P, NEW j \in 1..m, j < k PROVE j \in P
        <3>1. i.entries[j].ordinal < i.entries[k].ordinal
            BY <1>1, <2>1
        <3>2. i.entries[j].ordinal < o
            BY <1>1, <2>1, <3>1
        <3>3. QED
            BY <3>2
    <2>2. QED
        BY <2>1
<1>3. f \in [P -> S] /\ \A z \in S : \E x \in P : f[x] = z
    BY <1>1
<1>4. \A x, y \in P : f[x] = f[y] => x = y
    <2>1. SUFFICES ASSUME NEW x \in P, NEW y \in P, f[x] = f[y] PROVE x = y
        OBVIOUS
    <2>2. x \in 1..m /\ y \in 1..m
        OBVIOUS
    <2>3. ~(x < y) /\ ~(y < x)
        BY <1>1, <2>1, <2>2
    <2>4. QED
        BY <1>1, <2>2, <2>3
<1>5. \A k \in 1..m : k \in P <=> ~(i.entries[k].ordinal >= o)
    BY <1>1
<1> HIDE DEF P, f, S
<1>6. Cardinality(P) \in 0..m /\ P = 1..Cardinality(P)
    BY <1>1, <1>2, FirstPlaces
<1>7. IsFiniteSet(1..m)
    BY <1>1, FS_Interval
<1>8. IsFiniteSet(P)
    BY <1>2, <1>7, FS_Subset
<1>9. Cardinality(S) = Cardinality(P)
    BY <1>3, <1>4, <1>8, SameSize
<1>10. \A k \in 1..m : k > Cardinality(S) <=> i.entries[k].ordinal >= o
    BY <1>1, <1>5, <1>6, <1>9
<1>11. QED
    BY <1>6, <1>9, <1>10 DEF S, m

(* A line follows its root, or another line of its event, directly. *)
Follows(f, o, root) ==
    /\ f.ordinal = o - 1
    /\ f.root = root \/ (f.ordinal = root /\ f.root = None)

(* The entries are of lines from `first` on, and what is left of an event  *)
(* is in one piece, also of the event that is open after line n - 1.       *)
Joined(i, n, first, open) ==
    /\ \A k \in 1..Len(i.entries) : i.entries[k].ordinal >= first
    /\ \A k \in 2..Len(i.entries) : i.entries[k].root # None =>
           Follows(i.entries[k - 1], i.entries[k].ordinal, i.entries[k].root)
    /\ open # None /\ Len(i.entries) # 0 =>
           Follows(i.entries[Len(i.entries)], n, open)

LEMMA NothingJoined == ASSUME NEW n, NEW first PROVE Joined(NewIndex, n, first, None)
<1>1. NewIndex.entries = <<>> /\ Len(<<>>) = 0 /\ 1..0 = {} /\ 2..0 = {}
    BY DEF NewIndex
<1>2. QED
    BY <1>1 DEF Joined

LEMMA JoinedMore ==
    ASSUME NEW i, NEW n, NEW open, ReadTo(i, n, open),
           NEW first \in Int, n >= first, Joined(i, n, first, open),
           NEW l \in Line, NEW chained
    PROVE  LET j == IF l.kind = "blank" THEN i ELSE AppendEntry(i, Parsed(n, l, open))
           IN  Joined(j, n + 1, first, Open(n, l, open, chained))
<1> DEFINE e == Parsed(n, l, open)
           j == IF l.kind = "blank" THEN i ELSE AppendEntry(i, e)
           next == Open(n, l, open, chained)
           m == Len(i.entries)
<1>1. n \in Nat /\ Sound(i) /\ Sequence(i.entries) /\ m \in Nat
    BY SoundSays DEF ReadTo, Sound, Shape
<1>2. CASE l.kind = "blank"
    <2>1. j = i /\ next = None
        BY <1>2 DEF Open
    <2>2. QED
        BY <2>1 DEF Joined
<1>3. CASE l.kind # "blank"
    <2>1. j.entries = Append(i.entries, e)
        BY <1>3, ReadKeeps
    <2>2. /\ e.ordinal = n
          /\ e.root = IF l.kind = "frame" THEN open ELSE None
        BY DEF Parsed
    <2>3. \/ next = None
          \/ next = n /\ l.kind = "stamped"
          \/ next = open /\ l.kind = "frame"
        BY DEF Open
    <2> HIDE DEF e, j, next, m
    <2>4. /\ Len(j.entries) = m + 1
          /\ \A k \in 1..m : j.entries[k] = i.entries[k]
          /\ j.entries[m + 1] = e
        BY <1>1, <2>1, AppendSequence DEF m
    <2>5. \A k \in 1..(m + 1) : j.entries[k].ordinal >= first
        <3>1. \A k \in 1..m : i.entries[k].ordinal >= first
            BY DEF Joined, m
        <3>2. \A k \in 1..(m + 1) : k \in 1..m \/ k = m + 1
            BY <1>1
        <3>3. QED
            BY <2>2, <2>4, <3>1, <3>2
    <2>6. ASSUME NEW k \in 2..(m + 1), j.entries[k].root # None
          PROVE  Follows(j.entries[k - 1], j.entries[k].ordinal, j.entries[k].root)
        <3>1. k - 1 \in 1..m
            BY <1>1
        <3>2. CASE k \in 2..m
            <4>1. k \in 1..m
                BY <3>2
            <4>2. QED
                BY <2>4, <2>6, <3>1, <3>2, <4>1 DEF Joined, m
        <3>3. CASE k = m + 1
            <4>1. j.entries[k] = e /\ e.root = open /\ open # None
                BY <2>2, <2>4, <2>6, <3>3
            <4>2. k - 1 = m /\ m # 0
                BY <1>1, <3>1, <3>3
            <4>3. Follows(i.entries[m], n, open)
                BY <4>1, <4>2 DEF Joined, m
            <4>4. QED
                BY <2>2, <2>4, <3>1, <4>1, <4>2, <4>3
        <3>4. QED
            BY <1>1, <3>2, <3>3
    <2>7. next # None => Follows(e, n + 1, next)
        BY <1>1, <2>2, <2>3 DEF Follows
    <2>8. Joined(j, n + 1, first, next)
        BY <2>4, <2>5, <2>6, <2>7 DEF Joined
    <2>9. QED
        BY <2>8 DEF j, e, next
<1>4. QED
    BY <1>2, <1>3

LEMMA JoinedLess ==
    ASSUME NEW i, NEW n, NEW open, ReadTo(i, n, open),
           NEW first, Joined(i, n, first, open), NEW o \in Int
    PROVE  Joined(EvictBefore(i, o), n, o, open)
<1> DEFINE count == Cardinality({x \in Ordinals(i) : x < o})
           j == EvictFront(i, count)
           m == Len(i.entries)
<1>1. Sound(i) /\ m \in Nat
    BY SoundSays DEF ReadTo
<1>2. /\ count \in 0..m
      /\ \A k \in 1..m : k > count <=> i.entries[k].ordinal >= o
    BY <1>1, EarlierAre
<1> HIDE DEF count
<1>3. LeftOf(i, count, j)
    BY <1>1, <1>2, EvictKeeps
<1>4. EvictBefore(i, o) = j
    BY DEF EvictBefore, count
<1>5. /\ Len(j.entries) = m - count
      /\ \A k \in 1..(m - count) : j.entries[k] = i.entries[k + count]
    BY <1>3 DEF LeftOf
<1> HIDE DEF j, m
<1>6. \A k \in 1..(m - count) : k + count \in 1..m /\ k + count > count
    BY <1>1, <1>2
<1>7. \A k \in 1..(m - count) : j.entries[k].ordinal >= o
    BY <1>2, <1>5, <1>6
<1>8. ASSUME NEW k \in 2..(m - count), j.entries[k].root # None
      PROVE  Follows(j.entries[k - 1], j.entries[k].ordinal, j.entries[k].root)
    <2>1. /\ k \in 1..(m - count) /\ k - 1 \in 1..(m - count)
          /\ k + count \in 2..m /\ (k - 1) + count = (k + count) - 1
        BY <1>1, <1>2
    <2>2. j.entries[k] = i.entries[k + count]
          /\ j.entries[k - 1] = i.entries[(k + count) - 1]
        BY <1>5, <2>1
    <2>3. QED
        BY <1>8, <2>1, <2>2 DEF Joined, m
<1>9. ASSUME open # None, Len(j.entries) # 0
      PROVE  Follows(j.entries[Len(j.entries)], n, open)
    <2>1. m # 0 /\ m - count \in 1..(m - count) /\ (m - count) + count = m
        BY <1>1, <1>2, <1>5, <1>9
    <2>2. j.entries[m - count] = i.entries[m]
        BY <1>5, <2>1
    <2>3. QED
        BY <1>5, <1>9, <2>1, <2>2 DEF Joined, m
<1>10. Joined(j, n, o, open)
    BY <1>5, <1>7, <1>8, <1>9 DEF Joined
<1>11. QED
    BY <1>4, <1>10

-----------------------------------------------------------------------------
(* What feeds the index: lines arrive and leave, and all are parsed anew.  *)

FeedInv ==
    /\ first_line \in Nat \ {0}
    /\ raw \in Seq(Line)
    /\ epoch \in Nat /\ revision \in Nat
    /\ ReadTo(index, first_line + Len(raw), chain)
    /\ Joined(index, first_line + Len(raw), first_line, chain)

LEMMA FeedInit == Init => FeedInv
<1>1. SUFFICES ASSUME Init PROVE FeedInv
    OBVIOUS
<1>2. /\ raw \in Seq(Line) /\ first_line + Len(raw) = 1
      /\ first_line \in Nat \ {0} /\ epoch \in Nat /\ revision \in Nat
    <2>1. Len(<<>>) = 0 /\ <<>> \in Seq(Line)
        OBVIOUS
    <2>2. QED
        BY <1>1, <2>1 DEF Init
<1>3. ReadTo(NewIndex, 1, None) /\ Joined(NewIndex, 1, 1, None)
    BY NothingRead, NothingJoined
<1>4. QED
    BY <1>1, <1>2, <1>3 DEF Init, FeedInv

(* The entries before a line leave.                                        *)
LEMMA EvictedKeeps ==
    ASSUME NEW i, NEW n, NEW open, ReadTo(i, n, open), NEW o \in Int
    PROVE  LET j == EvictBefore(i, o)
           IN  /\ ReadTo(j, n, open)
               /\ ToSet(j.entries) \subseteq ToSet(i.entries)
               /\ \A e \in ToSet(i.entries), f \in ToSet(j.entries) :
                      e.ordinal >= f.ordinal => e \in ToSet(j.entries)
<1> DEFINE count == Cardinality({x \in Ordinals(i) : x < o})
           j == EvictFront(i, count)
<1>1. Sound(i)
    BY DEF ReadTo
<1>2. count \in 0..Len(i.entries)
    BY <1>1, EarlierAre
<1> HIDE DEF count
<1>3. LeftOf(i, count, j)
    BY <1>1, <1>2, EvictKeeps
<1>4. EvictBefore(i, o) = j
    BY DEF EvictBefore, count
<1> HIDE DEF j
<1>5. QED
    BY <1>1, <1>2, <1>3, <1>4, LeftEntries, LeftKeeps

(* What an arriving line makes of the index: entries may leave at the      *)
(* front, and the line's own may join.                                     *)
Grown(i, j, n) ==
    /\ \A e \in ToSet(j.entries) : e \in ToSet(i.entries) \/ e.ordinal = n
    /\ \A e \in ToSet(i.entries), f \in ToSet(j.entries) :
           e.ordinal >= f.ordinal => e \in ToSet(j.entries)

LEMMA ArriveFeeds ==
    ASSUME FeedInv, NEW l \in Line, Arrive(l)
    PROVE  /\ FeedInv'
           /\ Grown(index, index', first_line + Len(raw))
           /\ first_line' + Len(raw') = first_line + Len(raw) + 1
           /\ revision' = revision + 1 \/ (revision' = revision /\ index' = index)
           /\ epoch' = epoch /\ view' = view
<1> DEFINE n == first_line + Len(raw)
           e == Parsed(n, l, chain)
           all == IF l.kind = "blank" THEN index ELSE AppendEntry(index, e)
           first == IF Len(raw) = MaxLines THEN first_line + 1 ELSE first_line
           next == Open(n, l, chain, plain)
           lines == Append(raw, l)
<1>1. /\ raw' = SubSeq(lines, first - first_line + 1, Len(raw) + 1)
      /\ chain' = next /\ first_line' = first
      /\ index' = EvictBefore(all, first)
      /\ revision' = IF l.kind # "blank" \/ index' # all THEN revision + 1 ELSE revision
      /\ epoch' = epoch /\ view' = view
    BY DEF Arrive
<1>2. /\ first_line \in Nat \ {0} /\ raw \in Seq(Line) /\ Len(raw) \in Nat
      /\ epoch \in Nat /\ revision \in Nat /\ ReadTo(index, n, chain) /\ n \in Nat
    BY DEF FeedInv
<1>3. /\ ReadTo(all, n + 1, next)
      /\ l.kind # "blank" => ToSet(all.entries) = ToSet(index.entries) \union {e}
                             /\ e.ordinal = n
    BY <1>2, ReadKeeps
<1>4. raw' \in Seq(Line) /\ first + Len(raw') = n + 1 /\ first \in Nat \ {0}
    <2>1. /\ lines \in Seq(Line) /\ Len(lines) = Len(raw) + 1
        BY <1>2
    <2> HIDE DEF lines
    <2>2. CASE Len(raw) = MaxLines
        <3>1. Len(raw) # 0 /\ first = first_line + 1 /\ first - first_line + 1 = 2
            BY <1>2, <2>2, ViewsAssumption
        <3>2. raw' = SubSeq(lines, 2, Len(raw) + 1)
            BY <1>1, <3>1
        <3>3. raw' \in Seq(Line) /\ Len(raw') = Len(raw)
            BY <1>2, <2>1, <3>1, <3>2
        <3>4. QED
            BY <1>2, <3>1, <3>3
    <2>3. CASE Len(raw) # MaxLines
        <3>1. first = first_line /\ first - first_line + 1 = 1
            BY <1>2, <2>3
        <3>2. raw' = SubSeq(lines, 1, Len(raw) + 1)
            BY <1>1, <3>1
        <3>3. raw' \in Seq(Line) /\ Len(raw') = Len(raw) + 1
            BY <1>2, <2>1, <3>2
        <3>4. QED
            BY <1>2, <3>1, <3>3
    <2>4. QED
        BY <2>2, <2>3
<1> HIDE DEF all, next, e, first, lines
<1>14. Joined(index', n + 1, first, next)
    <2>1. Joined(all, n + 1, first_line, next)
        <3>1. n >= first_line /\ first_line \in Int
            BY <1>2
        <3>2. Joined(index, n, first_line, chain)
            BY DEF FeedInv
        <3>3. QED
            BY <1>2, <3>1, <3>2, JoinedMore DEF all, next, e
    <2>2. first \in Int
        BY <1>4
    <2>3. QED
        BY <1>1, <1>3, <2>1, <2>2, JoinedLess
<1>15. first \in Int
    BY <1>4
<1>5. /\ ReadTo(index', n + 1, next)
      /\ ToSet(index'.entries) \subseteq ToSet(all.entries)
      /\ \A x \in ToSet(all.entries), f \in ToSet(index'.entries) :
             x.ordinal >= f.ordinal => x \in ToSet(index'.entries)
    BY <1>1, <1>3, <1>15, EvictedKeeps
<1>6. ToSet(all.entries) = ToSet(index.entries)
      \/ (ToSet(all.entries) = ToSet(index.entries) \union {e} /\ e.ordinal = n)
    BY <1>3 DEF all
<1>7. Grown(index, index', n)
    BY <1>5, <1>6 DEF Grown
<1>8. revision' = revision + 1 \/ (revision' = revision /\ index' = index)
    BY <1>1 DEF all
<1>11. first_line' + Len(raw') = n + 1 /\ first_line' \in Nat \ {0}
    BY <1>1, <1>4
<1>12. epoch' \in Nat /\ revision' \in Nat
    BY <1>1, <1>2, <1>8
<1>13. /\ ReadTo(index', first_line' + Len(raw'), chain')
       /\ Joined(index', first_line' + Len(raw'), first_line', chain')
    BY <1>1, <1>5, <1>11, <1>14
<1>9. FeedInv'
    BY <1>4, <1>11, <1>12, <1>13 DEF FeedInv
<1>10. QED
    BY <1>1, <1>7, <1>8, <1>9, <1>11

(* Where parsing anew has come to. *)
Reading(n, open, chained, i) ==
    [line |-> n, open |-> open, plain |-> chained, index |-> i]

LEMMA ReadingIs ==
    ASSUME NEW n, NEW open, NEW chained, NEW i
    PROVE  LET s == Reading(n, open, chained, i)
           IN  /\ s.line = n /\ s.open = open /\ s.plain = chained /\ s.index = i
               /\ DOMAIN s = {"line", "open", "plain", "index"}
BY DEF Reading

LEMMA ParseNextIs ==
    ASSUME NEW n, NEW open, NEW chained, NEW i, NEW l
    PROVE  ParseNext(Reading(n, open, chained, i), l) =
               Reading(n + 1, Open(n, l, open, chained), chained,
                       IF l.kind = "blank" THEN i
                       ELSE AppendEntry(i, Parsed(n, l, open)))
<1> DEFINE s == Reading(n, open, chained, i)
           a == n + 1
           b == Open(n, l, open, chained)
           c == IF l.kind = "blank" THEN i ELSE AppendEntry(i, Parsed(n, l, open))
           t == ParseNext(s, l)
<1>1. /\ s.line = n /\ s.open = open /\ s.plain = chained /\ s.index = i
      /\ DOMAIN s = {"line", "open", "plain", "index"}
    BY ReadingIs
<1> HIDE DEF s
<1>2. t = [s EXCEPT !.line = a, !.open = b, !.index = c]
    BY <1>1 DEF ParseNext
<1> HIDE DEF t, a, b, c
<1>3. t = [f \in {"line", "open", "plain", "index"} |->
              IF f = "index" THEN c ELSE IF f = "open" THEN b
              ELSE IF f = "line" THEN a ELSE s[f]]
    BY <1>1, <1>2
<1>4. /\ t.line = a /\ t.open = b /\ t.plain = chained /\ t.index = c
      /\ DOMAIN t = {"line", "open", "plain", "index"} /\ t = [f \in DOMAIN t |-> t[f]]
    BY <1>1, <1>3
<1> HIDE DEF t
<1>5. t = Reading(a, b, chained, c)
    BY <1>4 DEF Reading
<1>6. QED
    BY <1>5 DEF t, s, a, b, c

LEMMA ParsedFold ==
    ASSUME NEW s, NEW lines
    PROVE  FoldLeft(ParseNext, s, lines) = Parses!Fold(s, lines)
BY DEF Parses!Fold, FoldLeft, Parses!FoldLeft, MapThenFoldSet,
       Parses!MapThenFoldSet, Max, Parses!Max

(* Retained lines parsed anew. *)
LEMMA ReparseReads ==
    ASSUME NEW n \in Nat \ {0}, NEW lines \in Seq(Line), NEW chained
    PROVE  LET end == FoldLeft(ParseNext, Reading(n, None, chained, NewIndex), lines)
           IN  /\ ReadTo(end.index, n + Len(lines), end.open)
               /\ Joined(end.index, n + Len(lines), n, end.open)
<1> DEFINE start == Reading(n, None, chained, NewIndex)
           m == Len(lines)
           At(k, s) == \E open, i : s = Reading(n + k, open, chained, i)
                                    /\ ReadTo(i, n + k, open)
                                    /\ Joined(i, n + k, n, open)
<1>1. /\ m \in Nat /\ DOMAIN lines = 1..m /\ \A k \in 1..m : lines[k] \in Line
      /\ n \in Nat
    OBVIOUS
<1> HIDE DEF m
<1>2. PICK run : Parses!IsRun(run, start, lines, m)
                 /\ Parses!Fold(start, lines) = run[m]
    BY <1>1, Parses!FoldRuns
<1>3. run[0] = start /\ \A k \in 1..m : run[k] = ParseNext(run[k - 1], lines[k])
    BY <1>2 DEF Parses!IsRun
<1> DEFINE T == {k \in Nat : k <= m => At(k, run[k])}
<1>4. 0 \in T
    <2>1. n + 0 = n
        BY <1>1
    <2>2. /\ start = Reading(n + 0, None, chained, NewIndex)
          /\ ReadTo(NewIndex, n + 0, None) /\ Joined(NewIndex, n + 0, n, None)
        BY <2>1, NothingRead, NothingJoined
    <2>3. At(0, start)
        BY <2>2
    <2>4. QED
        BY <1>3, <2>3
<1>5. ASSUME NEW k \in Nat, k \in T PROVE k + 1 \in T
    <2>1. SUFFICES ASSUME k + 1 <= m PROVE At(k + 1, run[k + 1])
        OBVIOUS
    <2>2. k + 1 \in 1..m /\ (k + 1) - 1 = k /\ k <= m /\ (n + k) + 1 = n + (k + 1)
        BY <1>1, <2>1
    <2>3. At(k, run[k])
        BY <1>5, <2>2
    <2> HIDE DEF T
    <2>4. PICK open, i : /\ run[k] = Reading(n + k, open, chained, i)
                         /\ ReadTo(i, n + k, open) /\ Joined(i, n + k, n, open)
        BY <2>3
    <2> DEFINE l == lines[k + 1]
               p == n + k
               j == IF l.kind = "blank" THEN i ELSE AppendEntry(i, Parsed(p, l, open))
               after == Open(p, l, open, chained)
    <2>5. l \in Line /\ run[k + 1] = ParseNext(run[k], l)
        BY <1>1, <1>3, <2>2
    <2> HIDE DEF l, p
    <2>6. run[k + 1] = Reading(p + 1, after, chained, j)
        BY <2>4, <2>5, ParseNextIs DEF p
    <2>7. ReadTo(j, p + 1, after)
        BY <2>4, <2>5, ReadKeeps DEF p
    <2>10. Joined(j, p + 1, n, after)
        <3>1. n \in Int /\ p >= n
            BY <1>1 DEF p
        <3>2. QED
            BY <2>4, <2>5, <3>1, JoinedMore DEF p
    <2> HIDE DEF j, after
    <2>8. p + 1 = n + (k + 1)
        BY <2>2 DEF p
    <2>9. QED
        BY <2>6, <2>7, <2>8, <2>10
<1>6. m \in T
    <2> HIDE DEF T, At
    <2>1. QED
        BY <1>1, <1>4, <1>5, Parses!Induct
<1>7. PICK open, i : /\ run[m] = Reading(n + m, open, chained, i)
                     /\ ReadTo(i, n + m, open) /\ Joined(i, n + m, n, open)
    BY <1>1, <1>6
<1> HIDE DEF At, T
<1>8. FoldLeft(ParseNext, start, lines) = run[m]
    BY <1>2, ParsedFold
<1>9. QED
    BY <1>7, <1>8, ReadingIs DEF m

LEMMA ReparseFeeds ==
    ASSUME FeedInv, NEW chained \in BOOLEAN, Reparse(chained)
    PROVE  FeedInv' /\ epoch' = epoch + 1 /\ view' = view
<1> DEFINE end == FoldLeft(ParseNext, Reading(first_line, None, chained, NewIndex), raw)
<1>1. /\ index' = end.index /\ chain' = end.open
      /\ epoch' = epoch + 1 /\ revision' = revision + 1
      /\ raw' = raw /\ first_line' = first_line /\ view' = view
    BY DEF Reparse, Reading
<1>2. /\ ReadTo(end.index, first_line + Len(raw), end.open)
      /\ Joined(end.index, first_line + Len(raw), first_line, end.open)
    BY ReparseReads DEF FeedInv
<1> HIDE DEF end
<1>3. FeedInv'
    BY <1>1, <1>2 DEF FeedInv
<1>4. QED
    BY <1>1, <1>3

LEMMA FeedUnchanged ==
    ASSUME FeedInv, UNCHANGED feed
    PROVE  FeedInv'
BY DEF FeedInv, feed

LEMMA FeedNext == ASSUME FeedInv, [Next]_vars PROVE FeedInv'
<1>1. CASE \E l \in Line : Arrive(l)
    BY <1>1, ArriveFeeds
<1>2. CASE \E chained \in BOOLEAN : Reparse(chained)
    BY <1>2, ReparseFeeds
<1>3. ASSUME NEW filter \in Filter, NEW search \in BOOLEAN, NEW range \in Interval,
             NEW toggled \in {None, {}}, SetQuery(filter, search, range, toggled)
      PROVE  FeedInv'
    BY <1>3, FeedUnchanged DEF SetQuery
<1>4. CASE Ask
    BY <1>4, FeedUnchanged DEF Ask
<1>5. ASSUME NEW root \in view.rows, ToggleChain(root) PROVE FeedInv'
    BY <1>5, FeedUnchanged DEF ToggleChain
<1>6. CASE UNCHANGED vars
    BY <1>6, FeedUnchanged DEF vars
<1>7. QED
    BY <1>1, <1>2, <1>3, <1>4, <1>5, <1>6 DEF Next

LEMMA AlwaysFed == Spec => []FeedInv
<1>1. FeedInv /\ [Next]_vars => FeedInv'
    BY FeedNext
<1>2. QED
    BY <1>1, FeedInit, PTL DEF Spec

(* A retained root lists exactly the entries that continue it, in order,   *)
(* whatever was appended, evicted or parsed anew since.                    *)
THEOREM ListsAreRight == Spec => []ListsAgree
<1>1. FeedInv => ListsAgree
    <2>1. SUFFICES ASSUME FeedInv, NEW root \in Ordinals(index)
                   PROVE  LET list == MembersOf(index, root)
                          IN  /\ ToSet(list) = Children(index, root)
                              /\ \A j, k \in DOMAIN list : j < k => list[j] < list[k]
        BY DEF ListsAgree, Children
    <2>2. Chained(index)
        BY <2>1 DEF FeedInv, ReadTo, Sound
    <2>3. QED
        BY <2>2, SequencePlaces DEF Chained
<1>2. QED
    BY <1>1, AlwaysFed, PTL

-----------------------------------------------------------------------------
(* The entries, with their lines, are a feed.                              *)

LEMMA LinesAre ==
    ASSUME NEW i, Sound(i), NEW lines, NEW first
    PROVE  LET es == WithLines(i, lines, first)
           IN  /\ Sequence(es) /\ Len(es) = Len(i.entries)
               /\ DOMAIN es = 1..Len(i.entries)
               /\ \A k \in 1..Len(i.entries) :
                      /\ es[k] = [ordinal |-> i.entries[k].ordinal,
                                  root |-> i.entries[k].root,
                                  data |-> lines[i.entries[k].ordinal - first + 1]]
                      /\ es[k].ordinal = i.entries[k].ordinal
                      /\ es[k].root = i.entries[k].root
<1> DEFINE es == WithLines(i, lines, first)
           m == Len(i.entries)
<1>1. m \in Nat /\ DOMAIN i.entries = 1..m
    BY SoundSays
<1>2. es = [k \in 1..m |-> [ordinal |-> i.entries[k].ordinal,
                            root |-> i.entries[k].root,
                            data |-> lines[i.entries[k].ordinal - first + 1]]]
    BY <1>1 DEF WithLines
<1> HIDE DEF es, m
<1>3. /\ DOMAIN es = 1..m
      /\ \A k \in 1..m : es[k] = [ordinal |-> i.entries[k].ordinal,
                                  root |-> i.entries[k].root,
                                  data |-> lines[i.entries[k].ordinal - first + 1]]
    BY <1>2
<1>4. \A k \in 1..m : es[k].ordinal = i.entries[k].ordinal /\ es[k].root = i.entries[k].root
    BY <1>3
<1>5. es = [k \in 1..m |-> es[k]]
    BY <1>2
<1>6. es \in [1..m -> ToSet(es)]
    <2>1. \A k \in 1..m : es[k] \in ToSet(es)
        BY <1>3 DEF ToSet
    <2>2. QED
        BY <1>5, <2>1
<1>7. es \in Seq(ToSet(es)) /\ Len(es) = m
    BY <1>1, <1>6
<1>8. QED
    BY <1>3, <1>4, <1>7 DEF es, m, Sequence

LEMMA InInputOrder ==
    ASSUME NEW i, NEW n, NEW open, NEW from, ReadTo(i, n, open), Joined(i, n, from, open),
           NEW lines, NEW first
    PROVE  Feed!InputOrder(WithLines(i, lines, first))
<1> DEFINE es == WithLines(i, lines, first)
           m == Len(i.entries)
<1>1. /\ Sound(i) /\ m \in Nat
      /\ \A j, k \in 1..m : j < k => i.entries[j].ordinal < i.entries[k].ordinal
      /\ \A k \in 1..m : IsEntry(i.entries[k])
    BY SoundSays DEF ReadTo, Sound, Shape
<1>2. /\ Len(es) = m /\ DOMAIN es = 1..m
      /\ \A k \in 1..m : /\ es[k].ordinal = i.entries[k].ordinal
                         /\ es[k].root = i.entries[k].root
    <2>1. /\ Sequence(es) /\ Len(es) = m
          /\ DOMAIN es = 1..m
          /\ \A k \in 1..m :
                 /\ es[k] = [ordinal |-> i.entries[k].ordinal,
                             root |-> i.entries[k].root,
                             data |-> lines[i.entries[k].ordinal - first + 1]]
                 /\ es[k].ordinal = i.entries[k].ordinal
                 /\ es[k].root = i.entries[k].root
        <3>1. Sound(i)
            BY <1>1
        <3>2. QED
            BY <3>1, LinesAre
    <2> HIDE DEF es, m
    <2>2. QED
        BY <2>1
<1> HIDE DEF es, m
<1>3. \A k \in 2..m : k - 1 \in 1..m /\ k \in 1..m /\ k - 1 < k
    BY <1>1
<1>4. \A k \in 2..m : es[k - 1].ordinal < es[k].ordinal
    BY <1>1, <1>2, <1>3
<1>5. ASSUME NEW k \in 1..m, es[k].root # None
      PROVE  /\ es[k].root < es[k].ordinal
             /\ k > 1 =>
                    /\ es[k - 1].ordinal = es[k].ordinal - 1
                    /\ \/ es[k - 1].root = es[k].root
                       \/ /\ es[k - 1].ordinal = es[k].root
                          /\ es[k - 1].root = None
    <2>1. es[k].root < es[k].ordinal
        BY <1>1, <1>2, <1>5 DEF IsEntry
    <2>2. CASE k > 1
        <3>1. k \in 2..m
            BY <1>1, <2>2
        <3>2. Follows(i.entries[k - 1], i.entries[k].ordinal, i.entries[k].root)
            BY <1>2, <1>5, <3>1 DEF Joined, m
        <3>3. k - 1 \in 1..m
            BY <1>3, <3>1
        <3>4. QED
            BY <1>2, <2>1, <3>2, <3>3 DEF Follows
    <2>3. QED
        BY <2>1, <2>2
<1>6. Feed!InputOrder(es)
    BY <1>2, <1>4, <1>5 DEF Feed!InputOrder
<1>7. QED
    BY <1>6 DEF es

(* Entries leave in front and join at the end; what stays has its line.    *)
JoinsBehind(i, lines, first, j, more, from, count) ==
    /\ count \in 0..Len(i.entries)
    /\ Len(i.entries) - count <= Len(j.entries)
    /\ \A k \in 1..(Len(i.entries) - count) :
           LET o == j.entries[k].ordinal
           IN  /\ j.entries[k] = i.entries[k + count]
               /\ more[o - from + 1] = lines[o - first + 1]
    /\ \A a \in 1..Len(i.entries), b \in 1..Len(j.entries) :
           b > Len(i.entries) - count => i.entries[a].ordinal < j.entries[b].ordinal

LEMMA JoinedBehind ==
    ASSUME NEW i, NEW j, Sound(i), Sound(j), NEW lines, NEW first, NEW more, NEW from,
           NEW count, JoinsBehind(i, lines, first, j, more, from, count)
    PROVE  LET v == WithLines(i, lines, first)
               w == WithLines(j, more, from)
               kept == SubSeq(v, count + 1, Len(v))
           IN  /\ count \in 0..Len(v)
               /\ Feed!IsPrefix(kept, w)
               /\ \A a \in DOMAIN v, b \in DOMAIN w :
                      b > Len(kept) => v[a].ordinal < w[b].ordinal
<1> DEFINE v == WithLines(i, lines, first)
           w == WithLines(j, more, from)
           m == Len(i.entries)
           n == Len(j.entries)
           kept == SubSeq(v, count + 1, Len(v))
           d == m - count
<1>1. m \in Nat /\ n \in Nat
    BY SoundSays
<1>2. /\ Sequence(v) /\ Len(v) = m /\ DOMAIN v = 1..m
      /\ \A k \in 1..m :
             /\ v[k] = [ordinal |-> i.entries[k].ordinal, root |-> i.entries[k].root,
                        data |-> lines[i.entries[k].ordinal - first + 1]]
             /\ v[k].ordinal = i.entries[k].ordinal
    BY LinesAre
<1>3. /\ Sequence(w) /\ Len(w) = n /\ DOMAIN w = 1..n
      /\ \A k \in 1..n :
             /\ w[k] = [ordinal |-> j.entries[k].ordinal, root |-> j.entries[k].root,
                        data |-> more[j.entries[k].ordinal - from + 1]]
             /\ w[k].ordinal = j.entries[k].ordinal
    BY LinesAre
<1> HIDE DEF v, w
<1>4. /\ count \in 0..m /\ d <= n /\ d \in Nat
      /\ \A k \in 1..d : j.entries[k] = i.entries[k + count]
      /\ \A k \in 1..d : more[j.entries[k].ordinal - from + 1]
                           = lines[j.entries[k].ordinal - first + 1]
      /\ \A a \in 1..m, b \in 1..n : b > d => i.entries[a].ordinal < j.entries[b].ordinal
    BY <1>1 DEF JoinsBehind
<1>5. /\ Sequence(kept) /\ Len(kept) = d
      /\ \A k \in 1..d : kept[k] = v[k + count]
    <2>1. count + 1 \in 1..(m + 1) /\ m \in 0..m
        BY <1>1, <1>4
    <2>2. /\ Sequence(kept)
          /\ Len(kept) = IF count + 1 <= m THEN m - (count + 1) + 1 ELSE 0
          /\ \A k \in 1..Len(kept) : kept[k] = v[(count + 1) + k - 1]
        BY <1>2, <2>1, StretchSequence
    <2> HIDE DEF kept, m
    <2>3. Len(kept) = d
        BY <1>1, <1>4, <2>2
    <2>4. \A k \in 1..d : (count + 1) + k - 1 = k + count
        BY <1>1, <1>4
    <2>5. QED
        BY <2>2, <2>3, <2>4
<1> HIDE DEF kept, m, n, d
<1>6. ASSUME NEW k \in 1..d PROVE kept[k] = w[k]
    <2>1. k + count \in 1..m /\ k \in 1..n
        BY <1>1, <1>4 DEF d
    <2>2. kept[k] = v[k + count] /\ i.entries[k + count] = j.entries[k]
        BY <1>4, <1>5
    <2>3. more[j.entries[k].ordinal - from + 1] = lines[j.entries[k].ordinal - first + 1]
        BY <1>4
    <2>4. QED
        BY <1>2, <1>3, <2>1, <2>2, <2>3
<1>7. Feed!IsPrefix(kept, w)
    <2> DEFINE a == SubSeq(kept, 1, d)
               b == SubSeq(w, 1, d)
    <2>1. 1 \in 1..(d + 1) /\ d \in 0..d /\ d \in 0..n /\ 1 \in 1..(n + 1)
        BY <1>1, <1>4
    <2>2. /\ Sequence(a) /\ Len(a) = IF 1 <= d THEN d - 1 + 1 ELSE 0
          /\ \A k \in 1..Len(a) : a[k] = kept[1 + k - 1]
        BY <1>5, <2>1, StretchSequence
    <2>3. /\ Sequence(b) /\ Len(b) = IF 1 <= d THEN d - 1 + 1 ELSE 0
          /\ \A k \in 1..Len(b) : b[k] = w[1 + k - 1]
        BY <1>3, <2>1, StretchSequence
    <2> HIDE DEF a, b
    <2>4. Len(a) = d /\ Len(b) = d /\ \A k \in 1..d : 1 + k - 1 = k
        BY <1>4, <2>2, <2>3
    <2>5. \A k \in 1..d : a[k] = b[k]
        BY <1>6, <2>2, <2>3, <2>4
    <2>6. DOMAIN a = 1..d /\ DOMAIN b = 1..d
        BY <2>2, <2>3, <2>4, SequencePlaces
    <2>7. a = [k \in 1..d |-> a[k]] /\ b = [k \in 1..d |-> b[k]]
        BY <2>2, <2>3, <2>4, <2>6 DEF Sequence
    <2>8. a = b
        BY <2>5, <2>7
    <2>9. QED
        BY <1>3, <1>4, <1>5, <2>8 DEF a, b, Feed!IsPrefix
<1>8. \A a \in DOMAIN v, b \in DOMAIN w : b > Len(kept) => v[a].ordinal < w[b].ordinal
    BY <1>2, <1>3, <1>4, <1>5
<1>9. count \in 0..Len(v)
    BY <1>2, <1>4
<1>10. QED
    BY <1>7, <1>8, <1>9 DEF kept, v, w

LEMMA ArriveGrows ==
    ASSUME FeedInv, FeedInv', NEW l \in Line, Arrive(l)
    PROVE  \E count \in 0..Len(index.entries) :
               /\ JoinsBehind(index, raw, first_line, index', raw', first_line', count)
               /\ \/ revision' = revision + 1
                  \/ revision' = revision /\ index' = index /\ count = 0
<1> DEFINE n == first_line + Len(raw)
           e == Parsed(n, l, chain)
           all == IF l.kind = "blank" THEN index ELSE AppendEntry(index, e)
           first == IF Len(raw) = MaxLines THEN first_line + 1 ELSE first_line
           lines == Append(raw, l)
           count == Cardinality({x \in Ordinals(all) : x < first})
           m == Len(index.entries)
           q == Len(index'.entries)
<1>1. /\ raw' = SubSeq(lines, first - first_line + 1, Len(raw) + 1)
      /\ first_line' = first
      /\ index' = EvictBefore(all, first)
      /\ revision' = IF l.kind # "blank" \/ index' # all THEN revision + 1 ELSE revision
    BY DEF Arrive
<1>2. /\ first_line \in Nat \ {0} /\ raw \in Seq(Line) /\ Len(raw) \in Nat
      /\ ReadTo(index, n, chain) /\ Sound(index) /\ Before(index, n)
      /\ n \in Nat /\ first \in Nat /\ m \in Nat
      /\ first = first_line \/ (first = first_line + 1 /\ Len(raw) # 0)
    <2>1. /\ first_line \in Nat \ {0} /\ raw \in Seq(Line) /\ Len(raw) \in Nat
          /\ ReadTo(index, n, chain) /\ Sound(index) /\ Before(index, n)
        BY DEF FeedInv, ReadTo
    <2>2. Len(raw) = MaxLines => Len(raw) # 0
        BY <2>1, ViewsAssumption
    <2>3. m \in Nat
        BY <2>1, SoundSays
    <2>4. QED
        BY <2>1, <2>2, <2>3
<1>3. /\ ReadTo(all, n + 1, Open(n, l, chain, plain))
      /\ l.kind # "blank" => all.entries = Append(index.entries, e) /\ e.ordinal = n
    <2>1. ReadTo(index, n, chain)
        BY <1>2
    <2>2. ReadTo(all, n + 1, Open(n, l, chain, plain))
        BY <2>1, ReadKeeps
    <2>3. ASSUME l.kind # "blank" PROVE all.entries = Append(index.entries, e)
        BY <2>1, <2>3, ReadKeeps
    <2>4. e.ordinal = n
        BY DEF Parsed
    <2> HIDE DEF all, e, n
    <2>5. QED
        BY <2>2, <2>3, <2>4
<1>4. /\ Sound(index') /\ q \in Nat
      /\ \A k \in 1..q : index'.entries[k].ordinal >= first
      /\ \A k \in 1..q : index'.entries[k].ordinal \in Int
    <2>1. Sound(index') /\ Joined(index', first_line' + Len(raw'), first_line', chain')
        <3>1. /\ ReadTo(index', first_line' + Len(raw'), chain')
              /\ Joined(index', first_line' + Len(raw'), first_line', chain')
            BY DEF FeedInv
        <3>2. QED
            BY <3>1 DEF ReadTo
    <2>2. q \in Nat
        BY <2>1, SoundSays
    <2>3. \A k \in 1..q : index'.entries[k].ordinal >= first
        BY <1>1, <2>1 DEF Joined
    <2>4. \A k \in 1..q : index'.entries[k].ordinal \in Int
        BY <2>1 DEF Sound, Shape, IsEntry
    <2>5. QED
        BY <2>1, <2>2, <2>3, <2>4
<1>5. \A k \in 1..m : /\ index.entries[k].ordinal \in Int
                      /\ index.entries[k].ordinal < n
    BY <1>2 DEF Before, Sound, Shape, IsEntry
<1>6. first <= n
    BY <1>2
<1>7. Sound(all)
    BY <1>3 DEF ReadTo
<1> HIDE DEF first, lines
<1>8. /\ count \in 0..Len(all.entries)
      /\ \A k \in 1..Len(all.entries) : k > count <=> all.entries[k].ordinal >= first
    <2> HIDE DEF all
    <2>1. first \in Int
        BY <1>2
    <2>2. QED
        BY <1>7, <2>1, EarlierAre
<1> HIDE DEF count
<1>9. LeftOf(all, count, index')
    <2> HIDE DEF all
    <2>1. index' = EvictFront(all, count)
        BY <1>1 DEF EvictBefore, count
    <2>2. QED
        BY <1>7, <1>8, <2>1, EvictKeeps
<1>10. /\ q = Len(all.entries) - count
       /\ \A k \in 1..q : index'.entries[k] = all.entries[k + count]
    BY <1>9 DEF LeftOf
<1>11. /\ \A k \in 1..m : all.entries[k] = index.entries[k]
       /\ \/ Len(all.entries) = m /\ l.kind = "blank"
          \/ /\ Len(all.entries) = m + 1 /\ l.kind # "blank"
             /\ all.entries[m + 1].ordinal = n
    <2>1. CASE l.kind = "blank"
        BY <2>1
    <2>2. CASE l.kind # "blank"
        <3>1. Sequence(index.entries)
            BY <1>2 DEF Sound, Shape
        <3> HIDE DEF all, e
        <3>2. /\ Len(all.entries) = m + 1
              /\ \A k \in 1..m : all.entries[k] = index.entries[k]
              /\ all.entries[m + 1] = e
            BY <1>3, <2>2, <3>1, AppendSequence
        <3>3. QED
            BY <1>3, <2>2, <3>2
    <2>3. QED
        BY <2>1, <2>2
<1>12. revision' = revision + 1 \/ (revision' = revision /\ index' = index /\ count = 0)
    <2>1. CASE l.kind # "blank" \/ index' # all
        BY <1>1, <2>1
    <2>2. CASE l.kind = "blank" /\ index' = all
        <3>1. all = index /\ revision' = revision
            BY <1>1, <2>2
        <3>2. q = m /\ Len(all.entries) = m
            BY <2>2, <3>1
        <3> HIDE DEF all, m, q
        <3>3. count = 0
            BY <1>2, <1>8, <1>10, <3>2
        <3>4. QED
            BY <2>2, <3>1, <3>3
    <2>3. QED
        BY <2>1, <2>2
<1> HIDE DEF all, m, q, e
<1>13. count \in 0..m /\ m - count <= q
    <2>1. CASE Len(all.entries) = m
        BY <1>2, <1>8, <1>10, <2>1
    <2>2. CASE Len(all.entries) = m + 1 /\ all.entries[m + 1].ordinal = n
        <3>1. m + 1 > count
            BY <1>2, <1>6, <1>8, <2>2
        <3>2. QED
            BY <1>2, <1>8, <1>10, <2>2, <3>1
    <2>3. QED
        BY <1>11, <2>1, <2>2
<1>14. ASSUME NEW k \in 1..(m - count)
       PROVE  /\ index'.entries[k] = index.entries[k + count]
              /\ raw'[index'.entries[k].ordinal - first_line' + 1]
                     = raw[index'.entries[k].ordinal - first_line + 1]
    <2> DEFINE o == index'.entries[k].ordinal
    <2>1. k \in 1..q /\ k + count \in 1..m
        BY <1>2, <1>4, <1>13
    <2>2. index'.entries[k] = index.entries[k + count]
        BY <1>10, <1>11, <2>1
    <2>3. o \in Int /\ o >= first /\ o < n
        BY <1>4, <1>5, <2>1, <2>2
    <2> HIDE DEF o
    <2> DEFINE a == first - first_line + 1
               p == o - first + 1
    <2>4. /\ Sequence(lines) /\ Len(lines) = Len(raw) + 1
          /\ \A x \in 1..Len(raw) : lines[x] = raw[x]
        <3>1. Sequence(raw)
            BY <1>2, IsSequence
        <3>2. QED
            BY <3>1, AppendSequence DEF lines
    <2>5. a \in 1..(Len(lines) + 1) /\ a <= Len(lines) /\ Len(lines) \in 0..Len(lines)
        BY <1>2, <2>4
    <2>6. raw' = SubSeq(lines, a, Len(lines))
        BY <1>1, <2>4
    <2>7. /\ p \in 1..(Len(lines) - a + 1)
          /\ a + p - 1 = o - first_line + 1
          /\ o - first_line + 1 \in 1..Len(raw)
        BY <1>2, <2>3, <2>4
    <2> HIDE DEF a, p
    <2>8. raw'[p] = lines[a + p - 1]
        BY <2>4, <2>5, <2>6, <2>7, StretchSequence
    <2>9. raw'[p] = raw[o - first_line + 1]
        BY <2>4, <2>7, <2>8
    <2>10. QED
        BY <1>1, <2>2, <2>9 DEF o, p
<1>15. ASSUME NEW a \in 1..m, NEW b \in 1..q, b > m - count
       PROVE  index.entries[a].ordinal < index'.entries[b].ordinal
    <2>1. b + count = m + 1 /\ Len(all.entries) = m + 1
        BY <1>2, <1>4, <1>10, <1>11, <1>13, <1>15
    <2>2. index'.entries[b].ordinal = n
        BY <1>2, <1>10, <1>11, <2>1
    <2>3. QED
        BY <1>5, <2>2
<1>16. JoinsBehind(index, raw, first_line, index', raw', first_line', count)
    BY <1>13, <1>14, <1>15 DEF JoinsBehind, m, q
<1>17. QED
    BY <1>12, <1>13, <1>16 DEF m

LEMMA ArriveIsAStep ==
    ASSUME FeedInv, FeedInv', NEW l \in Line, Arrive(l)
    PROVE  Feed!Advance \/ UNCHANGED Feed!vars
<1> DEFINE v == WithLines(index, raw, first_line)
           w == WithLines(index', raw', first_line')
<1>1. PICK count \in 0..Len(index.entries) :
          /\ JoinsBehind(index, raw, first_line, index', raw', first_line', count)
          /\ \/ revision' = revision + 1
             \/ revision' = revision /\ index' = index /\ count = 0
    BY ArriveGrows
<1>2. Sound(index) /\ Sound(index') /\ epoch' = epoch
    BY DEF FeedInv, ReadTo, Arrive
<1>3. CASE revision' = revision + 1
    <2>1. LET kept == SubSeq(v, count + 1, Len(v))
          IN  /\ count \in 0..Len(v)
              /\ Feed!IsPrefix(kept, w)
              /\ \A a \in DOMAIN v, b \in DOMAIN w :
                     b > Len(kept) => v[a].ordinal < w[b].ordinal
        BY <1>1, <1>2, JoinedBehind
    <2>2. Feed!InputOrder(w)
        <3>1. /\ ReadTo(index', first_line' + Len(raw'), chain')
              /\ Joined(index', first_line' + Len(raw'), first_line', chain')
            BY DEF FeedInv
        <3>2. QED
            BY <3>1, InInputOrder
    <2> HIDE DEF v, w
    <2>3. Feed!Advance
        BY <1>2, <1>3, <2>1, <2>2 DEF Feed!Advance, v, w
    <2>4. QED
        BY <2>3
<1>4. CASE revision' = revision /\ index' = index /\ count = 0
    <2> DEFINE m == Len(index.entries)
    <2>1. m \in Nat
        BY <1>2, SoundSays
    <2>2. /\ DOMAIN v = 1..m /\ Sequence(v) /\ Len(v) = m
          /\ \A k \in 1..m :
                 v[k] = [ordinal |-> index.entries[k].ordinal,
                         root |-> index.entries[k].root,
                         data |-> raw[index.entries[k].ordinal - first_line + 1]]
        BY <1>2, LinesAre
    <2>3. /\ DOMAIN w = 1..m /\ Sequence(w) /\ Len(w) = m
          /\ \A k \in 1..m :
                 w[k] = [ordinal |-> index.entries[k].ordinal,
                         root |-> index.entries[k].root,
                         data |-> raw'[index.entries[k].ordinal - first_line' + 1]]
        BY <1>2, <1>4, LinesAre
    <2>4. \A k \in 1..m : raw'[index.entries[k].ordinal - first_line' + 1]
                              = raw[index.entries[k].ordinal - first_line + 1]
        <3>1. \A k \in 1..(m - 0) : raw'[index'.entries[k].ordinal - first_line' + 1]
                              = raw[index'.entries[k].ordinal - first_line + 1]
            BY <1>1, <1>4 DEF JoinsBehind
        <3>2. m - 0 = m
            BY <2>1
        <3>3. QED
            BY <1>4, <3>1, <3>2
    <2> HIDE DEF v, w, m
    <2>5. \A k \in 1..m : v[k] = w[k]
        BY <2>2, <2>3, <2>4
    <2>6. v = [k \in 1..m |-> v[k]] /\ w = [k \in 1..m |-> w[k]]
        BY <2>2, <2>3 DEF Sequence
    <2>7. v = w
        BY <2>5, <2>6
    <2>8. QED
        BY <1>2, <1>4, <2>7 DEF Feed!vars, v, w
<1>5. QED
    BY <1>1, <1>3, <1>4

(* The entries that a view is computed from come and go as EntryFeed says, *)
(* which is all that Session promises: Session::absorb, evict, set_format. *)
THEOREM ViewsAreFed == Spec => IsFed
<1>1. Init => Feed!Init
    <2>1. SUFFICES ASSUME Init PROVE Feed!Init
        OBVIOUS
    <2>2. index.entries = <<>> /\ DOMAIN <<>> = {} /\ epoch = 0 /\ revision = 0
        BY <2>1 DEF Init, NewIndex
    <2>3. WithLines(index, raw, first_line) = <<>>
        BY <2>2 DEF WithLines
    <2>4. QED
        BY <2>2, <2>3 DEF Feed!Init
<1>2. FeedInv /\ FeedInv' /\ [Next]_vars => [Feed!Next]_(Feed!vars)
    <2>1. SUFFICES ASSUME FeedInv, FeedInv', [Next]_vars
                   PROVE  Feed!Next \/ UNCHANGED Feed!vars
        OBVIOUS
    <2>2. CASE UNCHANGED feed
        BY <2>2 DEF feed, Feed!vars
    <2>3. ASSUME NEW l \in Line, Arrive(l) PROVE Feed!Next \/ UNCHANGED Feed!vars
        BY <2>1, <2>3, ArriveIsAStep DEF Feed!Next
    <2>4. ASSUME NEW chained \in BOOLEAN, Reparse(chained) PROVE Feed!Next
        <3>1. epoch' = epoch + 1 /\ revision' = revision + 1
            BY <2>4 DEF Reparse
        <3>2. Feed!InputOrder(WithLines(index', raw', first_line'))
            BY <2>1, InInputOrder DEF FeedInv
        <3>3. Feed!Restart
            BY <3>1, <3>2 DEF Feed!Restart
        <3>4. QED
            BY <3>3 DEF Feed!Next
    <2>5. ASSUME NEW filter \in Filter, NEW search \in BOOLEAN, NEW range \in Interval,
                 NEW toggled \in {None, {}}, SetQuery(filter, search, range, toggled)
          PROVE  UNCHANGED feed
        BY <2>5 DEF SetQuery
    <2>6. Ask => UNCHANGED feed
        BY DEF Ask
    <2>7. ASSUME NEW root \in view.rows, ToggleChain(root) PROVE UNCHANGED feed
        BY <2>7 DEF ToggleChain
    <2>8. CASE UNCHANGED vars
        BY <2>2, <2>8 DEF vars
    <2>9. CASE Next
        BY <2>2, <2>3, <2>4, <2>5, <2>6, <2>7, <2>9 DEF Next
    <2>10. QED
        BY <2>1, <2>8, <2>9
<1>3. QED
    BY <1>1, <1>2, AlwaysFed, PTL DEF Spec, IsFed, Feed!Spec

-----------------------------------------------------------------------------
(* Events: a retained entry without a root, and those that continue it.    *)

Heads(i) == {f \in ToSet(i.entries) : f.root = None}

EventOf(i, f) == {m \in ToSet(i.entries) : m = f \/ m.root = f.ordinal}

LEMMA GetIs ==
    ASSUME NEW i, Sound(i), NEW e \in ToSet(i.entries)
    PROVE  Get(i, e.ordinal) = e /\ Has(i, e.ordinal)
<1>1. /\ ToSet(i.entries) = {i.entries[k] : k \in 1..Len(i.entries)}
      /\ DOMAIN i.entries = 1..Len(i.entries)
      /\ \A x, y \in ToSet(i.entries) : x.ordinal = y.ordinal => x = y
    BY ShapeSays DEF Sound
<1> DEFINE c == CHOOSE k \in DOMAIN i.entries : i.entries[k].ordinal = e.ordinal
<1>2. c \in DOMAIN i.entries /\ i.entries[c].ordinal = e.ordinal
    <2>1. \E k \in DOMAIN i.entries : i.entries[k].ordinal = e.ordinal
        BY <1>1
    <2>2. QED
        BY <2>1
<1>3. Get(i, e.ordinal) = i.entries[c]
    BY DEF Get
<1> HIDE DEF c
<1>4. i.entries[c] \in ToSet(i.entries)
    BY <1>1, <1>2
<1>5. e.ordinal \in Ordinals(i)
    BY EntriesAre
<1>6. QED
    BY <1>1, <1>2, <1>3, <1>4, <1>5 DEF Has

(* A line is of an event, or its root has left. *)
LEMMA EventsAre ==
    ASSUME NEW i, NEW n, NEW open, ReadTo(i, n, open)
    PROVE  /\ \A f \in Heads(i) : \A m \in EventOf(i, f) :
                  /\ m.ordinal \in Int /\ m.ordinal >= f.ordinal
                  /\ m = f \/ (m.ordinal > f.ordinal /\ m.root # None)
                  /\ RootOf(i, m) = IF m = f THEN None ELSE f.ordinal
           /\ \A f, g \in Heads(i) : \A m \in EventOf(i, f) \intersect EventOf(i, g) : f = g
           /\ \A e \in ToSet(i.entries) :
                  \/ e.root = None /\ RootOf(i, e) = None
                  \/ /\ e.root # None /\ RootOf(i, e) = e.root
                     /\ \E f \in Heads(i) : f.ordinal = e.root
                  \/ /\ e.root # None /\ RootOf(i, e) = None
                     /\ \A f \in ToSet(i.entries) : f.ordinal > e.root
<1> DEFINE E == ToSet(i.entries)
<1>1. /\ \A e \in E : IsEntry(e) /\ e.ordinal \in Int /\ IsLive(i, e.ordinal)
      /\ \A e, f \in E : e.ordinal = f.ordinal => e = f
      /\ \A e \in E : Known(i, e.root)
    BY EntriesAre DEF ReadTo
<1>2. \A e \in E : e.root # None => e.root \in Int /\ e.root < e.ordinal
    BY <1>1 DEF IsEntry
<1>3. \A o : IsLive(i, o) => \E f \in E : o >= f.ordinal
    <2>1. /\ \A o : IsLive(i, o) => 1 \in 1..Len(i.entries) /\ o >= i.entries[1].ordinal
          /\ E = {i.entries[k] : k \in 1..Len(i.entries)}
        BY ShapeSays DEF ReadTo, Sound
    <2>2. QED
        BY <2>1
<1> HIDE DEF E
<1>4. ASSUME NEW e \in E
      PROVE  \/ e.root = None /\ RootOf(i, e) = None
             \/ /\ e.root # None /\ RootOf(i, e) = e.root
                /\ \E f \in Heads(i) : f.ordinal = e.root
             \/ /\ e.root # None /\ RootOf(i, e) = None
                /\ \A f \in E : f.ordinal > e.root
    <2>1. CASE e.root = None
        BY <2>1 DEF RootOf
    <2>2. CASE e.root # None /\ \E f \in E : f.ordinal = e.root /\ f.root = None
        <3>1. PICK f \in E : f.ordinal = e.root /\ f.root = None
            BY <2>2
        <3>2. f \in Heads(i) /\ IsLive(i, e.root)
            BY <1>1, <3>1 DEF Heads, E
        <3>3. QED
            BY <2>2, <3>1, <3>2 DEF RootOf
    <2>3. CASE e.root # None /\ \A f \in E : f.ordinal > e.root
        <3>1. ~IsLive(i, e.root)
            <4>1. ASSUME NEW f \in E, e.root >= f.ordinal PROVE FALSE
                BY <1>1, <1>2, <2>3, <4>1
            <4>2. QED
                BY <1>3, <4>1
        <3>2. QED
            BY <2>3, <3>1 DEF RootOf
    <2>4. QED
        BY <1>1, <2>1, <2>2, <2>3 DEF Known, E
<1>5. ASSUME NEW f \in Heads(i), NEW m \in EventOf(i, f)
      PROVE  /\ m.ordinal \in Int /\ m.ordinal >= f.ordinal
             /\ m = f \/ (m.ordinal > f.ordinal /\ m.root # None)
             /\ RootOf(i, m) = IF m = f THEN None ELSE f.ordinal
    <2>1. f \in E /\ f.root = None /\ m \in E /\ (m = f \/ m.root = f.ordinal)
        BY DEF Heads, EventOf, E
    <2>2. CASE m = f
        BY <1>1, <1>4, <2>1, <2>2
    <2>3. CASE m # f
        <3>1. m.root = f.ordinal /\ f.ordinal \in Int /\ f.ordinal # None
            BY <1>1, <2>1, <2>3, IndexAssumption
        <3>2. m.ordinal > f.ordinal
            BY <1>1, <1>2, <2>1, <3>1
        <3>3. RootOf(i, m) = f.ordinal
            BY <1>1, <2>1, <3>1 DEF RootOf
        <3>4. QED
            BY <1>1, <2>1, <2>3, <3>1, <3>2, <3>3
    <2>4. QED
        BY <2>2, <2>3
<1>6. ASSUME NEW f \in Heads(i), NEW g \in Heads(i), NEW m \in EventOf(i, f), m \in EventOf(i, g)
      PROVE  f = g
    <2>1. f \in E /\ g \in E /\ f.root = None /\ g.root = None
          /\ (m = f \/ m.root = f.ordinal) /\ (m = g \/ m.root = g.ordinal)
          /\ f.ordinal # None /\ g.ordinal # None
        BY <1>1, <1>6, IndexAssumption DEF Heads, EventOf, E
    <2>2. QED
        BY <1>1, <2>1
<1>7. QED
    BY <1>4, <1>5, <1>6 DEF E

-----------------------------------------------------------------------------
(* The match set.                                                          *)

(* What a predicate says of an event, of its lines up to u. *)
SaidBy(pred, i, f, u) ==
    /\ MatchesFilters(f, pred)
    /\ \E m \in EventOf(i, f) : m.ordinal <= u /\ MatchesQuery(m, pred)

Says(pred, i, f) ==
    MatchesFilters(f, pred) /\ \E m \in EventOf(i, f) : MatchesQuery(m, pred)

(* A match set agrees with the lines it was evaluated up to. *)
Agrees(pred, i, M, u) ==
    \A f \in Heads(i) : \A m \in EventOf(i, f) :
        m.ordinal <= u => (m.ordinal \in M <=> SaidBy(pred, i, f, u))

(* The members that a root lists are the other lines of its event. *)
LEMMA ChainIs ==
    ASSUME NEW i, NEW n, NEW open, ReadTo(i, n, open), NEW f \in Heads(i)
    PROVE  {f.ordinal} \union ToSet(MembersOf(i, f.ordinal))
               = {m.ordinal : m \in EventOf(i, f)}
<1>1. f \in ToSet(i.entries) /\ f.ordinal \in Ordinals(i)
    BY EntriesAre DEF ReadTo, Heads
<1>2. ToSet(MembersOf(i, f.ordinal)) = Children(i, f.ordinal)
    BY <1>1 DEF ReadTo, Sound, Chained
<1>3. QED
    BY <1>1, <1>2 DEF Children, EventOf

LEMMA ChainMatchesIs ==
    ASSUME NEW i, NEW n, NEW open, ReadTo(i, n, open), NEW f \in Heads(i), NEW pred
    PROVE  ChainMatches(pred, i, f.ordinal) <=> Says(pred, i, f)
<1>1. Sound(i) /\ f \in ToSet(i.entries)
    BY DEF ReadTo, Heads
<1>2. Get(i, f.ordinal) = f /\ Has(i, f.ordinal)
    BY <1>1, GetIs
<1>3. \A m \in EventOf(i, f) : Get(i, m.ordinal) = m /\ Has(i, m.ordinal)
    BY <1>1, GetIs DEF EventOf
<1>4. {f.ordinal} \union ToSet(MembersOf(i, f.ordinal)) = {m.ordinal : m \in EventOf(i, f)}
    BY ChainIs
<1>5. (\E o \in {f.ordinal} \union ToSet(MembersOf(i, f.ordinal)) :
           Has(i, o) /\ MatchesQuery(Get(i, o), pred))
      <=> \E m \in EventOf(i, f) : MatchesQuery(m, pred)
    BY <1>3, <1>4
<1>6. QED
    BY <1>2, <1>5 DEF ChainMatches, Says

(* The members of an orphan: none. *)
LEMMA OrphansAlone ==
    ASSUME NEW i, NEW n, NEW open, ReadTo(i, n, open),
           NEW e \in ToSet(i.entries), e.root # None, RootOf(i, e) = None
    PROVE  /\ ToSet(MembersOf(i, e.ordinal)) = {}
           /\ \A f \in Heads(i) : e \notin EventOf(i, f)
<1>1. /\ e.ordinal \in Int /\ e.ordinal \in Ordinals(i)
      /\ \A x, y \in ToSet(i.entries) : x.ordinal = y.ordinal => x = y
    BY EntriesAre DEF ReadTo
<1>2. ToSet(MembersOf(i, e.ordinal)) = Children(i, e.ordinal)
    BY <1>1 DEF ReadTo, Sound, Chained
<1>3. ASSUME NEW m \in ToSet(i.entries), m.root = e.ordinal PROVE FALSE
    <2>1. Known(i, e.ordinal)
        BY <1>3 DEF ReadTo
    <2>2. ~(e.ordinal > e.ordinal) /\ e.ordinal # None
        BY <1>1, IndexAssumption
    <2>3. QED
        BY <1>1, <2>1, <2>2 DEF Known
<1>4. \A f \in Heads(i) : e \notin EventOf(i, f)
    <2>1. SUFFICES ASSUME NEW f \in Heads(i), e \in EventOf(i, f) PROVE FALSE
        OBVIOUS
    <2>2. RootOf(i, e) = IF e = f THEN None ELSE f.ordinal
        BY <2>1, EventsAre
    <2>3. f.root = None /\ f.ordinal \in Int
        BY EntriesAre DEF Heads, ReadTo
    <2>4. QED
        BY <2>2, <2>3, IndexAssumption
<1>5. QED
    BY <1>2, <1>3, <1>4 DEF Children

(* The last line that has an entry. *)
LEMMA LastIs ==
    ASSUME NEW i, NEW n, NEW open, ReadTo(i, n, open)
    PROVE  /\ LastOrdinal(i) \in Int /\ LastOrdinal(i) < n
           /\ \A e \in ToSet(i.entries) : e.ordinal <= LastOrdinal(i)
<1> DEFINE s == i.entries
           m == Len(s)
<1>1. /\ Sequence(s) /\ m \in Nat /\ ToSet(s) = {s[k] : k \in 1..m}
      /\ \A k \in 1..m : s[k].ordinal \in Int
      /\ \A j, k \in 1..m : j < k => s[j].ordinal < s[k].ordinal
      /\ \A k \in 1..m : s[k].ordinal < n
      /\ n \in Nat \ {0}
    <2>1. m \in Nat /\ ToSet(s) = {s[k] : k \in 1..m}
        BY ShapeSays DEF ReadTo, Sound
    <2>2. \A k \in 1..m : s[k].ordinal \in Int
        BY DEF ReadTo, Sound, Shape, IsEntry
    <2>3. QED
        BY <2>1, <2>2 DEF ReadTo, Sound, Shape, Before
<1>2. CASE s = <<>>
    <2>1. LastOrdinal(i) = 0
        BY <1>2 DEF LastOrdinal
    <2>2. ToSet(s) = {}
        BY <1>2, EmptySequence
    <2>3. 0 \in Int /\ 0 < n
        BY <1>1
    <2>4. \A e \in ToSet(i.entries) : e.ordinal <= LastOrdinal(i)
        BY <2>2
    <2>5. QED
        BY <2>1, <2>3, <2>4
<1>3. CASE s # <<>>
    <2>1. m \in 1..m /\ LastOrdinal(i) = s[m].ordinal
        BY <1>1, <1>3, SequencePlaces DEF LastOrdinal
    <2> HIDE DEF m, s
    <2>2. \A k \in 1..m : k < m \/ k = m
        BY <1>1
    <2>3. \A k \in 1..m : s[k].ordinal <= s[m].ordinal
        BY <1>1, <2>1, <2>2
    <2>4. \A e \in ToSet(s) : e.ordinal <= s[m].ordinal
        BY <1>1, <2>3
    <2>5. QED
        BY <1>1, <2>1, <2>4 DEF s
<1>4. QED
    BY <1>2, <1>3

(* A set of ordinals that holds the events a predicate fits, and no line   *)
(* of another event, agrees with every line.                               *)
LEMMA CoversAgrees ==
    ASSUME NEW i, NEW n, NEW open, ReadTo(i, n, open), NEW pred, NEW M,
           NEW u, \A e \in ToSet(i.entries) : e.ordinal <= u,
           \A f \in Heads(i) : \A m \in EventOf(i, f) :
               m.ordinal \in M <=> Says(pred, i, f)
    PROVE  Agrees(pred, i, M, u)
<1>1. \A f \in Heads(i) : SaidBy(pred, i, f, u) <=> Says(pred, i, f)
    BY DEF SaidBy, Says, EventOf
<1>2. QED
    BY <1>1 DEF Agrees

(* MatchSet::rebuild tests every event. *)
LEMMA RebuildCovers ==
    ASSUME NEW i, NEW n, NEW open, ReadTo(i, n, open), NEW pred
    PROVE  /\ ~Trivial(pred) => Agrees(pred, i, Rebuild(pred, i).matching, LastOrdinal(i))
           /\ \A o \in Rebuild(pred, i).matching : o \in Int /\ o <= LastOrdinal(i)
<1> DEFINE E == ToSet(i.entries)
           alone == {e \in E : RootOf(i, e) = None}
           Chain(e) == {e.ordinal} \union ToSet(MembersOf(i, e.ordinal))
           fit == {a \in alone : ChainMatches(pred, i, a.ordinal)}
           M == UNION {Chain(e) : e \in fit}
           last == LastOrdinal(i)
<1>1. Rebuild(pred, i).matching = IF Trivial(pred) THEN {} ELSE M
    BY DEF Rebuild
<1>2. last \in Int /\ \A e \in E : e.ordinal \in Int /\ e.ordinal <= last
    BY LastIs, EntriesAre DEF ReadTo
<1>3. \A f \in Heads(i) : Chain(f) = {m.ordinal : m \in EventOf(i, f)}
    BY ChainIs
<1>4. ASSUME NEW e \in alone PROVE e \in Heads(i) \/ Chain(e) = {e.ordinal}
    <2>1. CASE e.root = None
        BY <2>1 DEF Heads
    <2>2. CASE e.root # None
        BY <2>2, OrphansAlone
    <2>3. QED
        BY <2>1, <2>2
<1>5. ASSUME NEW f \in Heads(i) PROVE f \in alone /\ f \in EventOf(i, f)
    BY EventsAre DEF Heads, EventOf
<1>6. \A e \in alone : \A o \in Chain(e) : o \in Int /\ o <= last
    <2>1. SUFFICES ASSUME NEW e \in alone, NEW o \in Chain(e) PROVE o \in Int /\ o <= last
        OBVIOUS
    <2>2. CASE e \in Heads(i)
        BY <1>2, <1>3, <2>2 DEF EventOf
    <2>3. CASE Chain(e) = {e.ordinal}
        BY <1>2, <2>3
    <2>4. QED
        BY <1>4, <2>2, <2>3
<1> HIDE DEF Chain
<1>7. \A o \in M : o \in Int /\ o <= last
    BY <1>6
<1>8. ASSUME NEW f \in Heads(i), NEW m \in EventOf(i, f)
      PROVE  m.ordinal \in M <=> Says(pred, i, f)
    <2>1. ASSUME Says(pred, i, f) PROVE m.ordinal \in M
        <3>1. f \in fit
            BY <1>5, <2>1, ChainMatchesIs
        <3>2. m.ordinal \in Chain(f)
            BY <1>3
        <3>3. QED
            BY <3>1, <3>2
    <2>2. ASSUME m.ordinal \in M PROVE Says(pred, i, f)
        <3>1. PICK e \in fit : m.ordinal \in Chain(e)
            BY <2>2
        <3>2. m \in E /\ e \in E /\ e \in alone /\ \A x, y \in E : x.ordinal = y.ordinal => x = y
            BY EntriesAre DEF ReadTo, EventOf
        <3>3. CASE e \in Heads(i)
            <4>1. PICK x \in EventOf(i, e) : x.ordinal = m.ordinal
                BY <1>3, <3>1, <3>3
            <4>2. x = m
                BY <3>2, <4>1 DEF EventOf
            <4>3. e = f
                BY <3>3, <4>1, <4>2, EventsAre
            <4>4. QED
                BY <4>3, ChainMatchesIs
        <3>4. CASE e \notin Heads(i)
            <4>1. m.ordinal = e.ordinal
                BY <1>4, <3>1, <3>4
            <4>2. m = e
                BY <3>2, <4>1
            <4>3. e.root # None /\ RootOf(i, e) = None
                BY <3>2, <3>4 DEF Heads
            <4>4. QED
                BY <3>2, <4>2, <4>3, OrphansAlone
        <3>5. QED
            BY <3>3, <3>4
    <2>3. QED
        BY <2>1, <2>2
<1> HIDE DEF M
<1>9. Agrees(pred, i, M, last)
    BY <1>2, <1>8, CoversAgrees
<1>10. QED
    BY <1>1, <1>7, <1>9

-----------------------------------------------------------------------------
(* Testing what was appended.                                              *)

(* The entries at the first p places. *)
Done(i, p) == {i.entries[k] : k \in 1..p}

(* What holds of the matching ordinals once p entries have been tested:    *)
(* they are of events the predicate fits, an event that the tested lines   *)
(* make fit is there as far as it was tested, and so is one whose head is. *)
Tested(pred, i, M, p) ==
    \A f \in Heads(i) :
        /\ \A m \in EventOf(i, f) : m.ordinal \in M => Says(pred, i, f)
        /\ MatchesFilters(f, pred)
               /\ (\E m \in EventOf(i, f) \intersect Done(i, p) : MatchesQuery(m, pred))
           => \A m \in EventOf(i, f) \intersect Done(i, p) : m.ordinal \in M
        /\ f.ordinal \in M =>
               \A m \in EventOf(i, f) \intersect Done(i, p) : m.ordinal \in M

(* One more entry is tested. *)
LEMMA CaughtTested ==
    ASSUME NEW i, NEW n, NEW open, ReadTo(i, n, open), NEW pred, NEW M,
           NEW p \in Nat, p + 1 \in 1..Len(i.entries), Tested(pred, i, M, p)
    PROVE  LET e == i.entries[p + 1]
               after == Caught(pred, i, M, e)
           IN  /\ Tested(pred, i, after, p + 1)
               /\ \A o \in after : o \in M \/ o \in Ordinals(i)
<1> DEFINE e == i.entries[p + 1]
           after == Caught(pred, i, M, e)
           E == ToSet(i.entries)
           root == RootOf(i, e)
<1>1. /\ Sound(i) /\ E = {i.entries[k] : k \in 1..Len(i.entries)}
      /\ Len(i.entries) \in Nat
      /\ \A j, k \in 1..Len(i.entries) : j < k => i.entries[j].ordinal < i.entries[k].ordinal
    BY ShapeSays DEF ReadTo, Sound, Shape
<1>2. e \in E
    BY <1>1
<1>3. \A x \in E : x.ordinal \in Int /\ x.ordinal \in Ordinals(i)
    BY <1>1, EntriesAre
<1>4. \A x, y \in E : x.ordinal = y.ordinal => x = y
    BY <1>1, EntriesAre
<1>5. Done(i, p + 1) = Done(i, p) \union {e}
    <2>1. 1..(p + 1) = (1..p) \union {p + 1}
        OBVIOUS
    <2>2. QED
        BY <2>1 DEF Done
<1>6. ASSUME NEW x \in Done(i, p) PROVE x \in E /\ x.ordinal < e.ordinal
    <2>1. PICK k \in 1..p : x = i.entries[k]
        BY DEF Done
    <2>2. k \in 1..Len(i.entries) /\ k < p + 1
        BY <1>1, <2>1
    <2>3. QED
        BY <1>1, <2>1, <2>2
<1> HIDE DEF E
<1>e. \A f \in Heads(i) : \A m \in EventOf(i, f) : m \in E /\ f \in E
    BY DEF Heads, EventOf, E
<1>7. CASE root = None
    <2>1. after = IF MatchesFilters(e, pred) /\ MatchesQuery(e, pred)
                  THEN M \union {e.ordinal} ELSE M
        BY <1>7 DEF Caught
    <2> HIDE DEF after, e, root
    <2>2. \A o \in after : o \in M \/ o \in Ordinals(i)
        BY <1>2, <1>3, <2>1
    <2>3. \A f \in Heads(i) : e \in EventOf(i, f) => f = e
        BY <1>7, EventsAre, <1>3, <1>e, IndexAssumption DEF root
    <2>4. ASSUME NEW f \in Heads(i), f # e
          PROVE  \A m \in EventOf(i, f) : m # e /\ (m.ordinal \in after <=> m.ordinal \in M)
        <3>1. SUFFICES ASSUME NEW m \in EventOf(i, f)
                       PROVE  m # e /\ (m.ordinal \in after <=> m.ordinal \in M)
            OBVIOUS
        <3>2. m # e /\ m \in E
            BY <1>e, <2>3, <2>4
        <3>3. m.ordinal # e.ordinal
            BY <1>2, <1>4, <3>2
        <3>4. QED
            BY <2>1, <3>2, <3>3
    <2>5. ASSUME NEW f \in Heads(i), f = e
          PROVE  \A m \in EventOf(i, f) \intersect Done(i, p + 1) : m = e
        <3>1. \A m \in EventOf(i, f) : m.ordinal \in Int /\ m.ordinal >= f.ordinal
            BY EventsAre
        <3>2. \A m \in Done(i, p) : m.ordinal < e.ordinal /\ m.ordinal \in Int
            BY <1>3, <1>6
        <3>3. e.ordinal \in Int
            BY <1>2, <1>3
        <3>4. ASSUME NEW m \in EventOf(i, f), m \in Done(i, p) PROVE FALSE
            BY <2>5, <3>1, <3>2, <3>3, <3>4
        <3>5. QED
            BY <1>5, <3>4
    <2>6. Tested(pred, i, after, p + 1)
        <3>1. SUFFICES ASSUME NEW f \in Heads(i)
                       PROVE  /\ \A m \in EventOf(i, f) : m.ordinal \in after => Says(pred, i, f)
                              /\ MatchesFilters(f, pred)
                                     /\ (\E m \in EventOf(i, f) \intersect Done(i, p + 1) : MatchesQuery(m, pred))
                                 => \A m \in EventOf(i, f) \intersect Done(i, p + 1) : m.ordinal \in after
                              /\ f.ordinal \in after =>
                                     \A m \in EventOf(i, f) \intersect Done(i, p + 1) : m.ordinal \in after
            BY DEF Tested
        <3>2. CASE f # e
            <4>1. EventOf(i, f) \intersect Done(i, p + 1) = EventOf(i, f) \intersect Done(i, p)
                BY <1>5, <2>4, <3>2
            <4>2. \A m \in EventOf(i, f) : m.ordinal \in after <=> m.ordinal \in M
                BY <2>4, <3>2
            <4>3. f \in EventOf(i, f)
                BY DEF EventOf, Heads
            <4>4. QED
                BY <4>1, <4>2, <4>3 DEF Tested
        <3>3. CASE f = e
            <4>1. \A m \in EventOf(i, f) \intersect Done(i, p + 1) : m = e
                BY <2>5, <3>3
            <4>2. e \in EventOf(i, f)
                BY <3>3 DEF EventOf, Heads
            <4>3. ASSUME NEW m \in EventOf(i, f), m.ordinal \in after PROVE Says(pred, i, f)
                <5>1. CASE MatchesFilters(e, pred) /\ MatchesQuery(e, pred)
                    BY <3>3, <4>2, <5>1 DEF Says
                <5>2. CASE ~(MatchesFilters(e, pred) /\ MatchesQuery(e, pred))
                    BY <2>1, <4>3, <5>2 DEF Tested
                <5>3. QED
                    BY <5>1, <5>2
            <4>4. MatchesFilters(f, pred)
                     /\ (\E m \in EventOf(i, f) \intersect Done(i, p + 1) : MatchesQuery(m, pred))
                  => e.ordinal \in after
                BY <2>1, <3>3, <4>1
            <4>5. QED
                BY <3>3, <4>1, <4>3, <4>4
        <3>4. QED
            BY <3>2, <3>3
    <2>7. QED
        BY <2>2, <2>6 DEF after, e
<1>8. CASE root # None
    <2>1. PICK f \in Heads(i) : e.root = f.ordinal /\ e.root # None /\ root = f.ordinal
        BY <1>2, <1>8, EventsAre DEF E
    <2>2. after = IF f.ordinal \in M THEN M \union {e.ordinal}
                  ELSE IF Says(pred, i, f) THEN M \union {m.ordinal : m \in EventOf(i, f)}
                  ELSE M
        <3>1. after = IF f.ordinal \in M THEN M \union {e.ordinal}
                      ELSE IF ChainMatches(pred, i, f.ordinal)
                      THEN M \union {f.ordinal} \union ToSet(MembersOf(i, f.ordinal))
                      ELSE M
            BY <1>8, <2>1 DEF Caught
        <3>2. {f.ordinal} \union ToSet(MembersOf(i, f.ordinal)) = {m.ordinal : m \in EventOf(i, f)}
            BY ChainIs
        <3>3. M \union {f.ordinal} \union ToSet(MembersOf(i, f.ordinal))
                  = M \union {m.ordinal : m \in EventOf(i, f)}
            BY <3>2
        <3>4. QED
            BY <3>1, <3>3, ChainMatchesIs
    <2>3. e \in EventOf(i, f) /\ f \in EventOf(i, f)
        BY <1>2, <2>1 DEF EventOf, E, Heads
    <2> HIDE DEF after, e, root
    <2>4. \A o \in after : o \in M \/ o \in Ordinals(i)
        <3>1. \A m \in EventOf(i, f) : m.ordinal \in Ordinals(i)
            BY <1>3, <1>e
        <3>2. QED
            BY <2>2, <2>3, <3>1
    <2>5. ASSUME NEW g \in Heads(i), g # f
          PROVE  \A m \in EventOf(i, g) : m # e /\ (m.ordinal \in after <=> m.ordinal \in M)
        <3>1. SUFFICES ASSUME NEW m \in EventOf(i, g)
                       PROVE  m # e /\ (m.ordinal \in after <=> m.ordinal \in M)
            OBVIOUS
        <3>2. m \notin EventOf(i, f) /\ m \in E
            BY <1>e, <2>5, EventsAre
        <3>3. \A x \in EventOf(i, f) : x.ordinal # m.ordinal
            BY <1>4, <1>e, <3>2
        <3>4. QED
            BY <2>2, <2>3, <3>2, <3>3
    <2>6. ASSUME NEW g \in Heads(i)
          PROVE  /\ \A m \in EventOf(i, g) : m.ordinal \in after => Says(pred, i, g)
                 /\ MatchesFilters(g, pred)
                        /\ (\E m \in EventOf(i, g) \intersect Done(i, p + 1) : MatchesQuery(m, pred))
                    => \A m \in EventOf(i, g) \intersect Done(i, p + 1) : m.ordinal \in after
                 /\ g.ordinal \in after =>
                        \A m \in EventOf(i, g) \intersect Done(i, p + 1) : m.ordinal \in after
        <3>1. CASE g # f
            <4>1. EventOf(i, g) \intersect Done(i, p + 1) = EventOf(i, g) \intersect Done(i, p)
                BY <1>5, <2>5, <3>1
            <4>2. \A m \in EventOf(i, g) : m.ordinal \in after <=> m.ordinal \in M
                BY <2>5, <3>1
            <4>3. g \in EventOf(i, g)
                BY DEF EventOf, Heads
            <4>4. QED
                BY <4>1, <4>2, <4>3 DEF Tested
        <3>2. CASE g = f /\ f.ordinal \in M
            <4>1. Says(pred, i, f)
                BY <2>3, <3>2 DEF Tested
            <4>2. \A m \in EventOf(i, f) \intersect Done(i, p + 1) : m.ordinal \in after
                BY <1>5, <2>2, <3>2 DEF Tested
            <4>3. QED
                BY <3>2, <4>1, <4>2
        <3>3. CASE g = f /\ f.ordinal \notin M /\ Says(pred, i, f)
            <4>1. \A m \in EventOf(i, f) : m.ordinal \in after
                BY <2>2, <3>3
            <4>2. QED
                BY <3>3, <4>1
        <3>4. CASE g = f /\ f.ordinal \notin M /\ ~Says(pred, i, f)
            <4>1. after = M
                BY <2>2, <3>4
            <4>2. ~(MatchesFilters(f, pred)
                     /\ \E m \in EventOf(i, f) \intersect Done(i, p + 1) : MatchesQuery(m, pred))
                BY <3>4 DEF Says
            <4>3. QED
                BY <3>4, <4>1, <4>2 DEF Tested
        <3>5. QED
            BY <3>1, <3>2, <3>3, <3>4
    <2>7. Tested(pred, i, after, p + 1)
        BY <2>6 DEF Tested
    <2>8. QED
        BY <2>4, <2>7 DEF after, e
<1>9. QED
    BY <1>7, <1>8

(* Where catching up has come to. *)
Catching(pred, i, M) == [pred |-> pred, index |-> i, matching |-> M]

LEMMA CatchIs ==
    ASSUME NEW pred, NEW i, NEW M, NEW e
    PROVE  /\ Catch(Catching(pred, i, M), e) = Catching(pred, i, Caught(pred, i, M, e))
           /\ Catching(pred, i, M).matching = M
BY DEF Catch, Catching

LEMMA CatchFold ==
    ASSUME NEW s, NEW entries
    PROVE  FoldLeft(Catch, s, entries) = Catches!Fold(s, entries)
BY DEF Catches!Fold, FoldLeft, Catches!FoldLeft, MapThenFoldSet,
       Catches!MapThenFoldSet, Max, Catches!Max

(* The entries after the first p are tested, one by one. *)
LEMMA CatchTests ==
    ASSUME NEW i, NEW n, NEW open, ReadTo(i, n, open), NEW pred, NEW M,
           NEW p \in 0..Len(i.entries), Tested(pred, i, M, p)
    PROVE  LET s == FoldLeft(Catch, Catching(pred, i, M),
                             SubSeq(i.entries, p + 1, Len(i.entries)))
           IN  /\ Tested(pred, i, s.matching, Len(i.entries))
               /\ \A o \in s.matching : o \in M \/ o \in Ordinals(i)
<1> DEFINE all == i.entries
           m == Len(all)
           fresh == SubSeq(all, p + 1, m)
           start == Catching(pred, i, M)
           At(k, s) == \E N : /\ s = Catching(pred, i, N)
                              /\ Tested(pred, i, N, p + k)
                              /\ \A o \in N : o \in M \/ o \in Ordinals(i)
<1>1. /\ m \in Nat /\ p \in Nat /\ p <= m /\ m - p \in Nat /\ p + (m - p) = m
      /\ Sequence(all)
    <2>1. m \in Nat
        BY ShapeSays DEF ReadTo, Sound
    <2> HIDE DEF m
    <2>2. p \in Nat /\ p <= m /\ m - p \in Nat /\ p + (m - p) = m
        BY <2>1 DEF m
    <2>3. QED
        BY <2>1, <2>2 DEF ReadTo, Sound, Shape
<1> HIDE DEF m
<1>2. DOMAIN fresh = 1..(m - p) /\ \A k \in 1..(m - p) : fresh[k] = all[p + k]
    <2>1. p + 1 \in 1..(m + 1) /\ m \in 0..m
        BY <1>1
    <2>2. /\ Sequence(fresh) /\ Len(fresh) = IF p + 1 <= m THEN m - (p + 1) + 1 ELSE 0
          /\ \A k \in 1..Len(fresh) : fresh[k] = all[(p + 1) + k - 1]
        BY <1>1, <2>1, StretchSequence DEF m
    <2> HIDE DEF fresh
    <2>3. Len(fresh) = m - p
        BY <1>1, <2>2
    <2>4. \A k \in 1..(m - p) : (p + 1) + k - 1 = p + k
        BY <1>1
    <2>5. QED
        BY <2>2, <2>3, <2>4, SequencePlaces
<1> HIDE DEF fresh
<1>3. PICK run : Catches!IsRun(run, start, fresh, m - p)
                 /\ Catches!Fold(start, fresh) = run[m - p]
    BY <1>1, <1>2, Catches!FoldRuns
<1>4. run[0] = start /\ \A k \in 1..(m - p) : run[k] = Catch(run[k - 1], fresh[k])
    BY <1>3 DEF Catches!IsRun
<1> DEFINE T == {k \in Nat : k <= m - p => At(k, run[k])}
<1>5. 0 \in T
    <2>1. p + 0 = p
        BY <1>1
    <2>2. Tested(pred, i, M, p + 0)
        BY <2>1
    <2>3. At(0, start)
        BY <2>2
    <2>4. QED
        BY <1>4, <2>3
<1>6. ASSUME NEW k \in Nat, k \in T PROVE k + 1 \in T
    <2>1. SUFFICES ASSUME k + 1 <= m - p PROVE At(k + 1, run[k + 1])
        OBVIOUS
    <2>2. /\ k + 1 \in 1..(m - p) /\ (k + 1) - 1 = k /\ k <= m - p
          /\ (p + k) + 1 = p + (k + 1) /\ p + k \in Nat /\ (p + k) + 1 \in 1..m
        BY <1>1, <2>1
    <2>3. At(k, run[k])
        BY <1>6, <2>2
    <2> HIDE DEF T
    <2>4. PICK N : /\ run[k] = Catching(pred, i, N) /\ Tested(pred, i, N, p + k)
                   /\ \A o \in N : o \in M \/ o \in Ordinals(i)
        BY <2>3
    <2> DEFINE q == p + k
               e == all[q + 1]
               after == Caught(pred, i, N, e)
    <2>5. run[k + 1] = Catch(run[k], e)
        BY <1>2, <1>4, <2>2
    <2>6. q \in Nat /\ q + 1 \in 1..Len(i.entries) /\ Tested(pred, i, N, q)
        BY <2>2, <2>4 DEF m
    <2> HIDE DEF q
    <2>7. /\ Tested(pred, i, after, q + 1)
          /\ \A o \in after : o \in N \/ o \in Ordinals(i)
        BY <2>6, CaughtTested
    <2> HIDE DEF e, after
    <2>8. run[k + 1] = Catching(pred, i, after)
        BY <2>4, <2>5, CatchIs DEF after
    <2>9. q + 1 = p + (k + 1)
        BY <2>2 DEF q
    <2>10. \A o \in after : o \in M \/ o \in Ordinals(i)
        BY <2>4, <2>7
    <2>11. Tested(pred, i, after, p + (k + 1))
        BY <2>7, <2>9
    <2>12. QED
        BY <2>8, <2>10, <2>11
<1>7. m - p \in T
    <2> HIDE DEF T, At
    <2>1. QED
        BY <1>1, <1>5, <1>6, Catches!Induct
<1>8. PICK N : /\ run[m - p] = Catching(pred, i, N) /\ Tested(pred, i, N, p + (m - p))
               /\ \A o \in N : o \in M \/ o \in Ordinals(i)
    BY <1>1, <1>7
<1> HIDE DEF At, T, start
<1>9. FoldLeft(Catch, start, fresh) = run[m - p] /\ run[m - p].matching = N
    <2>1. FoldLeft(Catch, start, fresh) = Catches!Fold(start, fresh)
        BY CatchFold
    <2>2. Catching(pred, i, N).matching = N
        BY DEF Catching
    <2>3. QED
        BY <1>3, <1>8, <2>1, <2>2
<1>10. QED
    BY <1>1, <1>8, <1>9 DEF m, fresh, start

(* How many entries are up to a line: they are the first ones. *)
LEMMA UptoAre ==
    ASSUME NEW i, Sound(i), NEW u \in Int
    PROVE  LET p == Cardinality({o \in Ordinals(i) : o <= u})
           IN  /\ p \in 0..Len(i.entries)
               /\ \A k \in 1..Len(i.entries) : i.entries[k].ordinal <= u <=> k <= p
<1> DEFINE m == Len(i.entries)
           s == i.entries
           P == {k \in 1..m : s[k].ordinal <= u}
           Q == {o \in Ordinals(i) : o <= u}
           f == [k \in P |-> s[k].ordinal]
<1>1. /\ m \in Nat /\ Ordinals(i) = {s[k].ordinal : k \in 1..m}
      /\ \A j, k \in 1..m : j < k => s[j].ordinal < s[k].ordinal
      /\ \A k \in 1..m : s[k].ordinal \in Int
    <2>1. m \in Nat /\ Ordinals(i) = {s[k].ordinal : k \in 1..m}
        BY ShapeSays DEF Sound
    <2>2. QED
        BY <2>1 DEF Sound, Shape, IsEntry
<1> HIDE DEF m, s
<1>2. P \in SUBSET (1..m)
    OBVIOUS
<1>3. \A k \in P : \A j \in 1..m : j < k => j \in P
    <2>1. SUFFICES ASSUME NEW k \in P, NEW j \in 1..m, j < k PROVE s[j].ordinal <= u
        OBVIOUS
    <2>2. s[j].ordinal < s[k].ordinal /\ s[k].ordinal <= u
        BY <1>1, <2>1
    <2>3. QED
        BY <1>1, <2>2
<1>4. f \in [P -> Q] /\ \A z \in Q : \E x \in P : f[x] = z
    BY <1>1
<1>5. \A x, y \in P : f[x] = f[y] => x = y
    <2>1. SUFFICES ASSUME NEW x \in P, NEW y \in P, f[x] = f[y] PROVE x = y
        OBVIOUS
    <2>2. ~(x < y) /\ ~(y < x)
        BY <1>1, <2>1
    <2>3. QED
        BY <1>1, <2>2
<1>6. P = 1..Cardinality(P) /\ Cardinality(P) \in 0..m /\ IsFiniteSet(P)
    <2> HIDE DEF P
    <2>1. P = 1..Cardinality(P) /\ Cardinality(P) \in 0..m
        BY <1>1, <1>2, <1>3, FirstPlaces
    <2>4. IsFiniteSet(1..m)
        BY <1>1, FS_Interval
    <2>2. IsFiniteSet(P)
        BY <1>2, <2>4, FS_Subset
    <2>3. QED
        BY <2>1, <2>2
<1> HIDE DEF f, Q
<1>7. Cardinality(Q) = Cardinality(P)
    <2> HIDE DEF P
    <2>1. QED
        BY <1>4, <1>5, <1>6, SameSize
<1>8. \A k \in 1..m : s[k].ordinal <= u <=> k <= Cardinality(P)
    <2>1. \A k \in 1..m : k \in P <=> s[k].ordinal <= u
        OBVIOUS
    <2> HIDE DEF P
    <2>2. \A k \in 1..m : k \in P <=> k <= Cardinality(P)
        BY <1>1, <1>6
    <2>3. QED
        BY <2>1, <2>2
<1> HIDE DEF P
<1>9. QED
    BY <1>6, <1>7, <1>8 DEF m, s, Q

(* A match set that agreed with the index up to some line, of an event or  *)
(* of events whose lines are all retained or have all left.                *)
Evaluated(i, n, pred, set) ==
    /\ DOMAIN set = {"predicate", "evaluated_upto", "matching"}
    /\ set.predicate = pred
    /\ set.evaluated_upto \in Int /\ set.evaluated_upto < n
    /\ \A o \in set.matching : o \in Int /\ o <= set.evaluated_upto
    /\ ~Trivial(pred) => Agrees(pred, i, set.matching, set.evaluated_upto)

(* It was evaluated up to the last line. *)
UpToDate(i, set) == \A e \in ToSet(i.entries) : e.ordinal <= set.evaluated_upto

LEMMA RebuildIs ==
    ASSUME NEW i, NEW n, NEW open, ReadTo(i, n, open), NEW pred
    PROVE  Evaluated(i, n, pred, Rebuild(pred, i)) /\ UpToDate(i, Rebuild(pred, i))
<1> DEFINE set == Rebuild(pred, i)
<1>1. /\ DOMAIN set = {"predicate", "evaluated_upto", "matching"}
      /\ set.predicate = pred /\ set.evaluated_upto = LastOrdinal(i)
    BY DEF Rebuild
<1>2. /\ ~Trivial(pred) => Agrees(pred, i, set.matching, LastOrdinal(i))
      /\ \A o \in set.matching : o \in Int /\ o <= LastOrdinal(i)
    BY RebuildCovers
<1> HIDE DEF set
<1>3. QED
    BY <1>1, <1>2, LastIs DEF Evaluated, UpToDate, set

(* What was evaluated agrees with what was tested. *)
LEMMA AgreesTested ==
    ASSUME NEW i, NEW n, NEW open, ReadTo(i, n, open), NEW pred, NEW M, NEW u \in Int,
           \A o \in M : o \in Int /\ o <= u, Agrees(pred, i, M, u),
           NEW p \in 0..Len(i.entries),
           \A k \in 1..Len(i.entries) : i.entries[k].ordinal <= u <=> k <= p
    PROVE  Tested(pred, i, {o \in M : IsLive(i, o)}, p)
<1> DEFINE live == {o \in M : IsLive(i, o)}
           E == ToSet(i.entries)
<1>1. /\ Len(i.entries) \in Nat /\ p \in Nat /\ p <= Len(i.entries)
      /\ E = {i.entries[k] : k \in 1..Len(i.entries)}
    <2>1. Len(i.entries) \in Nat /\ E = {i.entries[k] : k \in 1..Len(i.entries)}
        BY ShapeSays DEF ReadTo, Sound
    <2>2. QED
        BY <2>1
<1>2. \A e \in E : IsLive(i, e.ordinal)
    BY EntriesAre DEF ReadTo
<1>3. \A m \in Done(i, p) : m \in E /\ m.ordinal <= u
    <2>1. \A k \in 1..p : k \in 1..Len(i.entries) /\ k <= p
        BY <1>1
    <2>2. QED
        BY <1>1, <2>1 DEF Done
<1> HIDE DEF E
<1>4. \A f \in Heads(i) : \A m \in EventOf(i, f) : m \in E /\ f \in EventOf(i, f)
    BY DEF Heads, EventOf, E
<1>5. \A f \in Heads(i) : \A m \in EventOf(i, f) :
          m.ordinal \in live <=> m.ordinal \in M
    BY <1>2, <1>4
<1>6. \A f \in Heads(i) : \A m \in EventOf(i, f) :
          m.ordinal \in M => m.ordinal <= u
    OBVIOUS
<1> HIDE DEF live
<1>7. SUFFICES ASSUME NEW f \in Heads(i)
               PROVE  /\ \A m \in EventOf(i, f) : m.ordinal \in live => Says(pred, i, f)
                      /\ MatchesFilters(f, pred)
                             /\ (\E m \in EventOf(i, f) \intersect Done(i, p) : MatchesQuery(m, pred))
                         => \A m \in EventOf(i, f) \intersect Done(i, p) : m.ordinal \in live
                      /\ f.ordinal \in live =>
                             \A m \in EventOf(i, f) \intersect Done(i, p) : m.ordinal \in live
    BY DEF Tested, live
<1>8. \A m \in EventOf(i, f) : m.ordinal <= u => (m.ordinal \in live <=> SaidBy(pred, i, f, u))
    BY <1>5 DEF Agrees
<1>9. ASSUME NEW m \in EventOf(i, f), m.ordinal \in live PROVE SaidBy(pred, i, f, u)
    BY <1>5, <1>6, <1>8, <1>9
<1>10. SaidBy(pred, i, f, u) => Says(pred, i, f)
    BY DEF SaidBy, Says
<1>11. SaidBy(pred, i, f, u) =>
           \A m \in EventOf(i, f) \intersect Done(i, p) : m.ordinal \in live
    BY <1>3, <1>8
<1>12. MatchesFilters(f, pred)
           /\ (\E m \in EventOf(i, f) \intersect Done(i, p) : MatchesQuery(m, pred))
       => SaidBy(pred, i, f, u)
    BY <1>3 DEF SaidBy
<1>13. QED
    BY <1>4, <1>9, <1>10, <1>11, <1>12

(* MatchSet::catch_up brings a match set up to the last line. *)
LEMMA CatchUpIs ==
    ASSUME NEW i, NEW n, NEW open, ReadTo(i, n, open), NEW pred, NEW set,
           Evaluated(i, n, pred, set)
    PROVE  Evaluated(i, n, pred, CatchUp(set, i)) /\ UpToDate(i, CatchUp(set, i))
<1> DEFINE u == set.evaluated_upto
           M == set.matching
           live == {o \in M : IsLive(i, o)}
           p == Cardinality({o \in Ordinals(i) : o <= u})
           fresh == SubSeq(i.entries, p + 1, Len(i.entries))
           caught == FoldLeft(Catch, Catching(pred, i, live), fresh).matching
           m == Len(i.entries)
<1>1. /\ DOMAIN set = {"predicate", "evaluated_upto", "matching"}
      /\ set.predicate = pred /\ u \in Int /\ u < n
      /\ \A o \in M : o \in Int /\ o <= u
      /\ ~Trivial(pred) => Agrees(pred, i, M, u)
    BY DEF Evaluated
<1>2. CatchUp(set, i) =
          IF fresh = <<>> THEN [set EXCEPT !.matching = live]
          ELSE [set EXCEPT !.evaluated_upto = LastOrdinal(i),
                           !.matching = IF Trivial(pred) THEN live ELSE caught]
    BY <1>1 DEF CatchUp, Catching
<1>3. /\ p \in 0..m
      /\ \A k \in 1..m : i.entries[k].ordinal <= u <=> k <= p
    BY <1>1, UptoAre DEF ReadTo
<1>4. /\ m \in Nat /\ ToSet(i.entries) = {i.entries[k] : k \in 1..m} /\ Sequence(i.entries)
      /\ \A k \in 1..m : i.entries[k].ordinal \in Int
    <2>1. m \in Nat /\ ToSet(i.entries) = {i.entries[k] : k \in 1..m}
        BY ShapeSays DEF ReadTo, Sound
    <2>2. QED
        BY <2>1 DEF ReadTo, Sound, Shape, IsEntry
<1>5. LastOrdinal(i) \in Int /\ LastOrdinal(i) < n
      /\ \A e \in ToSet(i.entries) : e.ordinal <= LastOrdinal(i)
    BY LastIs
<1>6. \A e \in ToSet(i.entries) : IsLive(i, e.ordinal) /\ e.ordinal \in Int
    BY EntriesAre DEF ReadTo
<1>7. fresh = <<>> <=> p = m
    <2>1. p + 1 \in 1..(m + 1) /\ m \in 0..m
        BY <1>3, <1>4
    <2>2. Sequence(fresh) /\ Len(fresh) = IF p + 1 <= m THEN m - (p + 1) + 1 ELSE 0
        BY <1>4, <2>1, StretchSequence
    <2> HIDE DEF fresh, p, m
    <2>3. Len(fresh) = m - p
        BY <1>3, <1>4, <2>2
    <2>4. QED
        BY <1>3, <1>4, <2>2, <2>3, SequencePlaces
<1>8. CASE p = m
    <2> DEFINE after == [set EXCEPT !.matching = live]
    <2>1. CatchUp(set, i) = after
        BY <1>2, <1>7, <1>8
    <2>2. /\ DOMAIN after = {"predicate", "evaluated_upto", "matching"}
          /\ after.predicate = pred /\ after.evaluated_upto = u /\ after.matching = live
        BY <1>1
    <2> HIDE DEF after, p
    <2>3. \A e \in ToSet(i.entries) : e.ordinal <= u
        <3>1. \A k \in 1..m : k <= p
            BY <1>4, <1>8
        <3>2. \A k \in 1..m : i.entries[k].ordinal <= u
            BY <1>3, <3>1
        <3> HIDE DEF m
        <3>3. QED
            BY <1>4, <3>2
    <2>4. ~Trivial(pred) => Agrees(pred, i, live, u)
        <3>1. \A f \in Heads(i) : \A x \in EventOf(i, f) : x.ordinal \in live <=> x.ordinal \in M
            BY <1>6 DEF EventOf
        <3>2. QED
            BY <1>1, <3>1 DEF Agrees
    <2>5. \A o \in live : o \in Int /\ o <= u
        BY <1>1
    <2> HIDE DEF live
    <2>6. Evaluated(i, n, pred, after) /\ UpToDate(i, after)
        BY <1>1, <2>2, <2>3, <2>4, <2>5 DEF Evaluated, UpToDate
    <2>7. QED
        BY <2>1, <2>6
<1>9. CASE p # m
    <2> DEFINE found == IF Trivial(pred) THEN live ELSE caught
               after == [set EXCEPT !.evaluated_upto = LastOrdinal(i), !.matching = found]
    <2>1. CatchUp(set, i) = after
        BY <1>2, <1>7, <1>9
    <2> HIDE DEF found
    <2>2. /\ DOMAIN after = {"predicate", "evaluated_upto", "matching"}
          /\ after.predicate = pred /\ after.evaluated_upto = LastOrdinal(i)
          /\ after.matching = found
        BY <1>1
    <2> HIDE DEF after, p, fresh, u, M
    <2>3. u <= LastOrdinal(i)
        <3>1. m \in 1..m /\ ~(m <= p)
            BY <1>3, <1>4, <1>9
        <3>2. ~(i.entries[m].ordinal <= u) /\ i.entries[m] \in ToSet(i.entries)
              /\ i.entries[m].ordinal \in Int
            BY <1>3, <1>4, <3>1
        <3>3. i.entries[m].ordinal <= LastOrdinal(i)
            BY <1>5, <3>2
        <3>4. QED
            BY <1>1, <1>5, <3>2, <3>3
    <2>4. \A o \in live : o \in Int /\ o <= LastOrdinal(i)
        BY <1>1, <1>5, <2>3
    <2>5. ASSUME ~Trivial(pred)
          PROVE  /\ Agrees(pred, i, caught, LastOrdinal(i))
                 /\ \A o \in caught : o \in Int /\ o <= LastOrdinal(i)
        <3>1. Tested(pred, i, live, p)
            BY <1>1, <1>3, <2>5, AgreesTested
        <3> HIDE DEF live, m
        <3>2. /\ Tested(pred, i, caught, Len(i.entries))
              /\ \A o \in caught : o \in live \/ o \in Ordinals(i)
            BY <1>3, <3>1, CatchTests DEF m, fresh
        <3> HIDE DEF caught
        <3>3. \A o \in Ordinals(i) : o \in Int /\ o <= LastOrdinal(i)
            BY <1>5, <1>6, EntriesAre DEF ReadTo
        <3>4. \A f \in Heads(i) : \A x \in EventOf(i, f) : x \in Done(i, Len(i.entries))
            BY <1>4 DEF EventOf, Done, m
        <3>5. ASSUME NEW f \in Heads(i), NEW x \in EventOf(i, f)
              PROVE  x.ordinal \in caught <=> Says(pred, i, f)
            BY <3>2, <3>4 DEF Tested, Says
        <3>6. Agrees(pred, i, caught, LastOrdinal(i))
            BY <1>5, <3>5, CoversAgrees
        <3>7. QED
            BY <2>4, <3>2, <3>3, <3>6
    <2> HIDE DEF live, caught
    <2>6. /\ ~Trivial(pred) => Agrees(pred, i, found, LastOrdinal(i))
          /\ \A o \in found : o \in Int /\ o <= LastOrdinal(i)
        BY <2>4, <2>5 DEF found
    <2>7. Evaluated(i, n, pred, after) /\ UpToDate(i, after)
        BY <1>5, <2>2, <2>6 DEF Evaluated, UpToDate
    <2>8. QED
        BY <2>1, <2>7
<1>10. QED
    BY <1>8, <1>9

-----------------------------------------------------------------------------
(* A view, and what it was last computed from.                             *)

BaseOf(i, v) == {o \in InRange(i, v.range) : Passes(v.match_set, o)}

RowsOf(i, v) ==
    {o \in v.base : LET root == VisibleRoot(v, Get(i, o))
                    IN  root # None => IsExpanded(v, root)}

(* A view holds what a computation from scratch would. *)
Fresh(i, v) ==
    /\ UpToDate(i, v.match_set)
    /\ v.base = BaseOf(i, v)
    /\ v.auto_expanded = AutoExpanded(i, v)
    /\ v.rows = RowsOf(i, v)

ViewFields == {"pred", "range", "toggled", "epoch", "revision", "match_set",
               "base", "auto_expanded", "rows"}

(* The match set of a view is of the entries in force, as far as it goes,  *)
(* unless they have been parsed anew; a view that is up to date is fresh.  *)
InStep(v) ==
    /\ DOMAIN v = ViewFields
    /\ v.range # None => v.range[1] \in Int /\ v.range[2] \in Int
    /\ v.epoch # None => v.epoch \in Nat /\ v.epoch <= epoch
    /\ v.epoch = epoch => v.revision \in Nat /\ v.revision <= revision
    /\ v.epoch = epoch /\ v.match_set # None =>
           Evaluated(index, first_line + Len(raw), v.pred, v.match_set)
    /\ Current(v) => Fresh(index, v)

Inductive == FeedInv /\ InStep(view)

(* What the client asked for. *)
SameQuery(v, w) == w.pred = v.pred /\ w.range = v.range /\ w.toggled = v.toggled

SameSource(v, w) ==
    w.epoch = v.epoch /\ w.revision = v.revision /\ w.match_set = v.match_set

LEMMA CollapseIs ==
    ASSUME NEW i, NEW v, DOMAIN v = ViewFields
    PROVE  LET w == Collapse(i, v)
           IN  /\ DOMAIN w = ViewFields /\ SameQuery(v, w) /\ SameSource(v, w)
               /\ w.base = v.base /\ w.auto_expanded = v.auto_expanded
               /\ w.rows = RowsOf(i, w)
<1> DEFINE rows == RowsOf(i, v)
           w == [v EXCEPT !.rows = rows]
<1>1. Collapse(i, v) = w
    BY DEF Collapse, RowsOf
<1> HIDE DEF rows
<1>2. /\ DOMAIN w = ViewFields /\ SameQuery(v, w) /\ SameSource(v, w)
      /\ w.base = v.base /\ w.auto_expanded = v.auto_expanded /\ w.rows = rows
    BY DEF ViewFields, SameQuery, SameSource
<1> HIDE DEF w
<1>3. RowsOf(i, w) = RowsOf(i, v)
    BY <1>2 DEF RowsOf, VisibleRoot, IsExpanded, SameQuery
<1>4. QED
    BY <1>1, <1>2, <1>3 DEF rows

LEMMA RecomputeIs ==
    ASSUME NEW i, NEW v, DOMAIN v = ViewFields
    PROVE  LET w == RecomputeBase(i, v)
           IN  /\ DOMAIN w = ViewFields /\ SameQuery(v, w) /\ SameSource(v, w)
               /\ w.base = BaseOf(i, w) /\ w.auto_expanded = AutoExpanded(i, w)
               /\ w.rows = RowsOf(i, w)
<1> DEFINE base == BaseOf(i, v)
           in == [v EXCEPT !.base = base]
           expanded == AutoExpanded(i, in)
           out == [in EXCEPT !.auto_expanded = expanded]
           w == Collapse(i, out)
<1>1. RecomputeBase(i, v) = w
    BY DEF RecomputeBase, BaseOf
<1> HIDE DEF base, w
<1>2. /\ DOMAIN in = ViewFields /\ SameQuery(v, in) /\ SameSource(v, in) /\ in.base = base
    BY DEF ViewFields, SameQuery, SameSource
<1> HIDE DEF in, expanded
<1>3. /\ DOMAIN out = ViewFields /\ SameQuery(in, out) /\ SameSource(in, out)
      /\ out.base = base /\ out.auto_expanded = expanded
    BY <1>2 DEF ViewFields, SameQuery, SameSource
<1> HIDE DEF out
<1>4. /\ DOMAIN w = ViewFields /\ SameQuery(out, w) /\ SameSource(out, w)
      /\ w.base = base /\ w.auto_expanded = expanded /\ w.rows = RowsOf(i, w)
    BY <1>3, CollapseIs DEF w
<1> HIDE DEF w
<1>5. BaseOf(i, w) = base
    BY <1>2, <1>3, <1>4 DEF BaseOf, base, SameQuery, SameSource
<1>6. AutoExpanded(i, w) = expanded
    BY <1>2, <1>3, <1>4 DEF AutoExpanded, VisibleRoot, expanded, SameQuery
<1>7. SameQuery(v, w) /\ SameSource(v, w)
    BY <1>2, <1>3, <1>4 DEF SameQuery, SameSource
<1>8. QED
    BY <1>1, <1>4, <1>5, <1>6, <1>7 DEF w

(* A refreshed view is in step, and asks for the same. *)
LEMMA RefreshKeeps ==
    ASSUME FeedInv, NEW v, InStep(v)
    PROVE  /\ InStep(Refresh(v)) /\ SameQuery(v, Refresh(v))
           /\ Refresh(v).epoch = epoch
<1> DEFINE n == first_line + Len(raw)
           set == MatchSetOf(v)
           in == [v EXCEPT !.match_set = set, !.epoch = epoch, !.revision = revision]
           w == RecomputeBase(index, in)
<1>1. ReadTo(index, n, chain) /\ epoch \in Nat /\ revision \in Nat
    BY DEF FeedInv
<1>2. DOMAIN v = ViewFields
    BY DEF InStep
<1>3. CASE Current(v)
    BY <1>3 DEF Refresh, SameQuery, Current
<1>4. CASE ~Current(v)
    <2>1. Refresh(v) = w
        BY <1>4 DEF Refresh
    <2> HIDE DEF w
    <2>2. Evaluated(index, n, v.pred, set) /\ UpToDate(index, set)
        <3>1. CASE v.epoch # epoch \/ v.match_set = None
            BY <1>1, <3>1, RebuildIs DEF MatchSetOf
        <3>2. CASE v.epoch = epoch /\ v.match_set # None
            <4>1. set = CatchUp(v.match_set, index)
                BY <3>2 DEF MatchSetOf
            <4>2. Evaluated(index, n, v.pred, v.match_set)
                BY <3>2 DEF InStep
            <4>3. QED
                BY <1>1, <4>1, <4>2, CatchUpIs
        <3>3. QED
            BY <3>1, <3>2
    <2> HIDE DEF set
    <2>3. /\ DOMAIN in = ViewFields /\ SameQuery(v, in)
          /\ in.epoch = epoch /\ in.revision = revision /\ in.match_set = set
        BY <1>2 DEF ViewFields, SameQuery
    <2> HIDE DEF in
    <2>4. /\ DOMAIN w = ViewFields /\ SameQuery(in, w) /\ SameSource(in, w)
          /\ w.base = BaseOf(index, w) /\ w.auto_expanded = AutoExpanded(index, w)
          /\ w.rows = RowsOf(index, w)
        BY <2>3, RecomputeIs DEF w
    <2>5. SameQuery(v, w) /\ w.epoch = epoch /\ w.revision = revision /\ w.match_set = set
        BY <2>3, <2>4 DEF SameQuery, SameSource
    <2>6. Fresh(index, w)
        BY <2>2, <2>4, <2>5 DEF Fresh
    <2>7. w.range # None => w.range[1] \in Int /\ w.range[2] \in Int
        BY <2>5 DEF InStep, SameQuery
    <2>8. Evaluated(index, n, w.pred, w.match_set)
        BY <2>2, <2>5 DEF SameQuery
    <2>9. InStep(w)
        BY <1>1, <2>4, <2>5, <2>6, <2>7, <2>8 DEF InStep
    <2>10. QED
        BY <2>1, <2>5, <2>9
<1>5. QED
    BY <1>3, <1>4

LEMMA InductiveInit == Init => Inductive
<1>1. SUFFICES ASSUME Init PROVE InStep(view)
    BY FeedInit DEF Inductive
<1>2. /\ DOMAIN NewView = ViewFields /\ NewView.range = None
      /\ NewView.epoch = None /\ NewView.match_set = None
    BY DEF NewView, ViewFields
<1>3. view = NewView /\ epoch = 0 /\ epoch # None
    BY <1>1, IndexAssumption DEF Init
<1>4. QED
    BY <1>2, <1>3 DEF InStep, Current

(* What a match set agreed with it still agrees with when the oldest lines *)
(* have left and another has come.                                         *)
LEMMA GrownAgrees ==
    ASSUME NEW i, NEW n, NEW open, ReadTo(i, n, open),
           NEW j, NEW later, ReadTo(j, n + 1, later), Grown(i, j, n),
           NEW pred, NEW set, Evaluated(i, n, pred, set)
    PROVE  Evaluated(j, n + 1, pred, set)
<1> DEFINE u == set.evaluated_upto
           M == set.matching
<1>1. n \in Nat /\ u \in Int /\ u < n /\ u < n + 1
    BY DEF ReadTo, Evaluated
<1> HIDE DEF u
<1>2. /\ \A e \in ToSet(j.entries) : e.ordinal <= u => e \in ToSet(i.entries)
    BY <1>1 DEF Grown
<1>3. ASSUME NEW f \in Heads(j), f.ordinal <= u
      PROVE  /\ f \in Heads(i)
             /\ \A m : m.ordinal <= u => (m \in EventOf(j, f) <=> m \in EventOf(i, f))
    <2>1. f \in ToSet(j.entries) /\ f \in Heads(i)
        BY <1>2, <1>3 DEF Heads
    <2>2. ASSUME NEW m, m.ordinal <= u, m \in EventOf(j, f) PROVE m \in EventOf(i, f)
        BY <1>2, <2>2 DEF EventOf
    <2>3. ASSUME NEW m, m \in EventOf(i, f) PROVE m \in EventOf(j, f)
        <3>1. m \in ToSet(i.entries) /\ m.ordinal >= f.ordinal
            BY <2>1, <2>3, EventsAre DEF EventOf
        <3>2. m \in ToSet(j.entries)
            BY <2>1, <3>1 DEF Grown
        <3>3. QED
            BY <2>3, <3>2 DEF EventOf
    <2>4. QED
        BY <2>1, <2>2, <2>3
<1>4. ASSUME Agrees(pred, i, M, u) PROVE Agrees(pred, j, M, u)
    <2>1. SUFFICES ASSUME NEW f \in Heads(j), NEW m \in EventOf(j, f), m.ordinal <= u
                   PROVE  m.ordinal \in M <=> SaidBy(pred, j, f, u)
        BY DEF Agrees
    <2>2. m.ordinal \in Int /\ m.ordinal >= f.ordinal /\ f.ordinal \in Int
        BY EventsAre, EntriesAre DEF ReadTo, Heads
    <2>3. f.ordinal <= u
        BY <1>1, <2>1, <2>2
    <2>4. f \in Heads(i) /\ m \in EventOf(i, f)
        BY <1>3, <2>1, <2>3
    <2>5. SaidBy(pred, j, f, u) <=> SaidBy(pred, i, f, u)
        BY <1>3, <2>3 DEF SaidBy
    <2>6. QED
        BY <1>4, <2>1, <2>4, <2>5 DEF Agrees
<1>5. QED
    BY <1>1, <1>4 DEF Evaluated, u

LEMMA ViewArrive ==
    ASSUME Inductive, NEW l \in Line, Arrive(l)
    PROVE  InStep(view)'
<1> DEFINE n == first_line + Len(raw)
<1>1. /\ FeedInv /\ FeedInv' /\ Grown(index, index', n)
      /\ first_line' + Len(raw') = n + 1
      /\ revision' = revision + 1 \/ (revision' = revision /\ index' = index)
      /\ epoch' = epoch /\ view' = view
    BY ArriveFeeds DEF Inductive
<1>2. InStep(view) /\ revision \in Nat
    BY DEF Inductive, FeedInv
<1>3. ReadTo(index, n, chain) /\ ReadTo(index', n + 1, chain')
    BY <1>1 DEF FeedInv
<1> HIDE DEF n
<1>4. ASSUME view.epoch = epoch, view.match_set # None
      PROVE  Evaluated(index', n + 1, view.pred, view.match_set)
    <2>1. Evaluated(index, n, view.pred, view.match_set)
        BY <1>2, <1>4 DEF InStep, n
    <2>2. QED
        BY <1>1, <1>3, <2>1, GrownAgrees
<1>5. view.epoch = epoch => view.revision \in Nat /\ view.revision <= revision'
    BY <1>1, <1>2 DEF InStep
<1>6. ASSUME Current(view)' PROVE Fresh(index', view)
    <2>1. view.epoch = epoch /\ view.revision = revision' /\ view.match_set # None
        BY <1>1, <1>6 DEF Current
    <2>2. revision' = revision /\ index' = index
        BY <1>1, <1>2, <2>1 DEF InStep
    <2>3. Current(view)
        BY <2>1, <2>2 DEF Current
    <2>4. QED
        BY <1>2, <2>2, <2>3 DEF InStep
<1>7. /\ DOMAIN view = ViewFields
      /\ view.range # None => view.range[1] \in Int /\ view.range[2] \in Int
      /\ view.epoch # None => view.epoch \in Nat /\ view.epoch <= epoch
    BY <1>2 DEF InStep
<1>8. QED
    BY <1>1, <1>4, <1>5, <1>6, <1>7 DEF InStep

LEMMA ViewReparse ==
    ASSUME Inductive, NEW chained \in BOOLEAN, Reparse(chained)
    PROVE  InStep(view)'
<1>1. epoch' = epoch + 1 /\ view' = view /\ InStep(view) /\ epoch \in Nat
    BY ReparseFeeds DEF Inductive, FeedInv
<1>2. /\ DOMAIN view = ViewFields
      /\ view.range # None => view.range[1] \in Int /\ view.range[2] \in Int
      /\ view.epoch # None => view.epoch \in Nat /\ view.epoch <= epoch
    BY <1>1 DEF InStep
<1>3. epoch + 1 # None /\ ~(epoch + 1 <= epoch) /\ epoch + 1 \in Nat
    BY <1>1, IndexAssumption
<1>4. view.epoch # epoch'
    BY <1>1, <1>2, <1>3
<1>5. view.epoch # None => view.epoch \in Nat /\ view.epoch <= epoch'
    BY <1>1, <1>2
<1>6. QED
    BY <1>1, <1>2, <1>4, <1>5 DEF InStep, Current

LEMMA SameFeed ==
    ASSUME Inductive, UNCHANGED feed, NEW w, InStep(w), view' = w
    PROVE  InStep(view)'
BY DEF InStep, Current, Fresh, feed

LEMMA ViewQuery ==
    ASSUME Inductive, NEW filter \in Filter, NEW search \in BOOLEAN, NEW range \in Interval,
           NEW toggled \in {None, {}}, SetQuery(filter, search, range, toggled)
    PROVE  InStep(view)'
<1> DEFINE pred == [filter |-> filter, search |-> search]
           toggles == IF toggled = None THEN view.toggled ELSE toggled
           v == [view EXCEPT !.pred = pred, !.range = range, !.toggled = toggles,
                             !.match_set = None]
<1>1. view' = Refresh(v) /\ UNCHANGED feed
    BY DEF SetQuery
<1>2. FeedInv /\ InStep(view) /\ DOMAIN view = ViewFields
    BY DEF Inductive, InStep
<1>3. range # None => range[1] \in Int /\ range[2] \in Int
    BY ViewsAssumption
<1> HIDE DEF pred, toggles
<1>4. /\ DOMAIN v = ViewFields /\ v.range = range /\ v.match_set = None
      /\ v.epoch = view.epoch /\ v.revision = view.revision
    BY <1>2 DEF ViewFields
<1> HIDE DEF v
<1>5. InStep(v)
    BY <1>2, <1>3, <1>4 DEF InStep, Current
<1>6. InStep(Refresh(v))
    BY <1>2, <1>5, RefreshKeeps
<1>7. QED
    BY <1>1, <1>6, SameFeed

LEMMA ViewToggle ==
    ASSUME Inductive, NEW root \in view.rows, ToggleChain(root)
    PROVE  InStep(view)'
<1> DEFINE v == Refresh(view)
           toggles == IF root \in v.toggled THEN v.toggled \ {root}
                      ELSE v.toggled \union {root}
           in == [v EXCEPT !.toggled = toggles]
           w == Collapse(index, in)
<1>1. view' = w /\ UNCHANGED feed
    BY DEF ToggleChain
<1>2. FeedInv /\ InStep(view)
    BY DEF Inductive
<1>3. InStep(v)
    BY <1>2, RefreshKeeps
<1> HIDE DEF w, v, toggles
<1>4. DOMAIN v = ViewFields
    BY <1>3 DEF InStep
<1>5. /\ DOMAIN in = ViewFields /\ in.pred = v.pred /\ in.range = v.range
      /\ SameSource(v, in) /\ in.base = v.base /\ in.auto_expanded = v.auto_expanded
    BY <1>4 DEF ViewFields, SameSource
<1> HIDE DEF in
<1>6. /\ DOMAIN w = ViewFields /\ SameQuery(in, w) /\ SameSource(in, w)
      /\ w.base = in.base /\ w.auto_expanded = in.auto_expanded
      /\ w.rows = RowsOf(index, w)
    BY <1>5, CollapseIs DEF w
<1>7. /\ w.pred = v.pred /\ w.range = v.range /\ w.epoch = v.epoch
      /\ w.revision = v.revision /\ w.match_set = v.match_set
      /\ w.base = v.base /\ w.auto_expanded = v.auto_expanded
    BY <1>5, <1>6 DEF SameQuery, SameSource
<1>8. Fresh(index, v) => Fresh(index, w)
    BY <1>6, <1>7 DEF Fresh, BaseOf, AutoExpanded, VisibleRoot
<1>9. InStep(w)
    BY <1>3, <1>6, <1>7, <1>8 DEF InStep, Current
<1>10. QED
    BY <1>1, <1>9, SameFeed

LEMMA InductiveNext == ASSUME Inductive, [Next]_vars PROVE Inductive'
<1>0. SUFFICES InStep(view)'
    BY FeedNext DEF Inductive
<1>1. CASE \E l \in Line : Arrive(l)
    BY <1>1, ViewArrive
<1>2. CASE \E chained \in BOOLEAN : Reparse(chained)
    BY <1>2, ViewReparse
<1>3. ASSUME NEW filter \in Filter, NEW search \in BOOLEAN, NEW range \in Interval,
             NEW toggled \in {None, {}}, SetQuery(filter, search, range, toggled)
      PROVE  InStep(view)'
    BY <1>3, ViewQuery
<1>4. CASE Ask
    BY <1>4, RefreshKeeps, SameFeed DEF Ask, Inductive
<1>5. ASSUME NEW root \in view.rows, ToggleChain(root) PROVE InStep(view)'
    BY <1>5, ViewToggle
<1>6. CASE UNCHANGED vars
    BY <1>6, SameFeed DEF vars, Inductive
<1>7. QED
    BY <1>1, <1>2, <1>3, <1>4, <1>5, <1>6 DEF Next

THEOREM AlwaysInStep == Spec => []Inductive
<1>1. Inductive /\ [Next]_vars => Inductive'
    BY InductiveNext
<1>2. QED
    BY <1>1, InductiveInit, PTL DEF Spec

-----------------------------------------------------------------------------
(* What a view that is up to date shows.                                   *)

(* The entries of a range of time. *)
LEMMA InRangeIs ==
    ASSUME NEW i, Sound(i), NEW range,
           range # None => range[1] \in Int /\ range[2] \in Int
    PROVE  /\ InRange(i, range) \subseteq Ordinals(i)
           /\ \A e \in ToSet(i.entries) :
                  e.ordinal \in InRange(i, range) <=>
                      (range # None => e.ts # None /\ range[1] <= e.ts /\ e.ts < range[2])
<1>1. /\ \A e \in ToSet(i.entries) : e.ordinal \in Ordinals(i)
      /\ \A x, y \in ToSet(i.entries) : x.ordinal = y.ordinal => x = y
    BY EntriesAre
<1>2. CASE range = None
    BY <1>1, <1>2 DEF InRange
<1>3. CASE range # None
    <2> DEFINE a == range[1]
               b == range[2]
               refs == RangeRefs(i, a, b)
    <2>1. a \in Int /\ b \in Int
        BY <1>3
    <2> HIDE DEF a, b
    <2>2. ToSet(refs) = {r \in Stamps(i) : a <= r.ms /\ r.ms < b}
        BY <2>1, RangeIs
    <2>3. InRange(i, range) = {r.ordinal : r \in ToSet(refs)}
        BY <1>3 DEF InRange, a, b
    <2> HIDE DEF refs
    <2>4. \A r \in Stamps(i) : \E e \in ToSet(i.entries) :
              e.ts # None /\ r.ms = e.ts /\ r.ordinal = e.ordinal
        BY DEF Stamps, TimedOf
    <2>5. \A e \in ToSet(i.entries) : e.ts # None =>
              \E r \in Stamps(i) : r.ms = e.ts /\ r.ordinal = e.ordinal
        <3>1. SUFFICES ASSUME NEW e \in ToSet(i.entries), e.ts # None
                       PROVE  \E r \in Stamps(i) : r.ms = e.ts /\ r.ordinal = e.ordinal
            OBVIOUS
        <3>2. [ms |-> e.ts, ordinal |-> e.ordinal] \in Stamps(i)
            BY <3>1 DEF Stamps, TimedOf
        <3>3. QED
            BY <3>2
    <2>6. InRange(i, range) \subseteq Ordinals(i)
        BY <1>1, <2>2, <2>3, <2>4
    <2>7. ASSUME NEW e \in ToSet(i.entries)
          PROVE  e.ordinal \in InRange(i, range) <=> e.ts # None /\ a <= e.ts /\ e.ts < b
        <3>1. ASSUME e.ordinal \in InRange(i, range) PROVE e.ts # None /\ a <= e.ts /\ e.ts < b
            <4>1. PICK r \in Stamps(i) : a <= r.ms /\ r.ms < b /\ r.ordinal = e.ordinal
                BY <2>2, <2>3, <3>1
            <4>2. PICK x \in ToSet(i.entries) : x.ts # None /\ r.ms = x.ts /\ r.ordinal = x.ordinal
                BY <2>4
            <4>3. x = e
                BY <1>1, <4>1, <4>2
            <4>4. QED
                BY <4>1, <4>2, <4>3
        <3>2. ASSUME e.ts # None, a <= e.ts, e.ts < b PROVE e.ordinal \in InRange(i, range)
            <4>1. PICK r \in Stamps(i) : r.ms = e.ts /\ r.ordinal = e.ordinal
                BY <2>5, <3>2
            <4>2. r \in ToSet(refs)
                BY <2>2, <3>2, <4>1
            <4>3. QED
                BY <2>3, <4>1, <4>2
        <3>3. QED
            BY <3>1, <3>2
    <2>8. QED
        BY <1>3, <2>6, <2>7 DEF a, b
<1>4. QED
    BY <1>2, <1>3

(* What an up-to-date view has, spelled out. *)
LEMMA CurrentSays ==
    ASSUME Inductive, Current(view)
    PROVE  /\ ReadTo(index, first_line + Len(raw), chain) /\ Sound(index)
           /\ Evaluated(index, first_line + Len(raw), view.pred, view.match_set)
           /\ UpToDate(index, view.match_set)
           /\ view.base = BaseOf(index, view) /\ view.base \subseteq Ordinals(index)
           /\ view.auto_expanded = AutoExpanded(index, view)
           /\ view.rows = RowsOf(index, view)
           /\ view.range # None => view.range[1] \in Int /\ view.range[2] \in Int
<1>1. ReadTo(index, first_line + Len(raw), chain) /\ Sound(index)
    BY DEF Inductive, FeedInv, ReadTo
<1>2. /\ Evaluated(index, first_line + Len(raw), view.pred, view.match_set)
      /\ Fresh(index, view)
      /\ view.range # None => view.range[1] \in Int /\ view.range[2] \in Int
    BY DEF Inductive, InStep, Current
<1>3. InRange(index, view.range) \subseteq Ordinals(index)
    BY <1>1, <1>2, InRangeIs
<1>4. QED
    BY <1>1, <1>2, <1>3 DEF Fresh, BaseOf

(* What Matches says of an entry is what its event says. *)
LEMMA MatchesIs ==
    ASSUME NEW n, NEW open, ReadTo(index, n, open), NEW e \in ToSet(index.entries), ~Orphan(e)
    PROVE  \E f \in Heads(index) :
               e \in EventOf(index, f) /\ (Matches(e) <=> Says(view.pred, index, f))
<1> DEFINE root == IF RootOf(index, e) = None THEN e.ordinal ELSE e.root
           event == {m \in ToSet(index.entries) :
                        m.ordinal = root \/ RootOf(index, m) = root}
<1>1. /\ \A x \in ToSet(index.entries) : x.ordinal \in Int
      /\ \A x, y \in ToSet(index.entries) : x.ordinal = y.ordinal => x = y
    BY EntriesAre DEF ReadTo
<1>2. PICK f \in Heads(index) : e \in EventOf(index, f) /\ root = f.ordinal
    <2>1. CASE e.root = None
        BY <2>1, EventsAre DEF Heads, EventOf
    <2>2. CASE e.root # None
        <3>1. RootOf(index, e) # None
            BY <2>2 DEF Orphan
        <3>2. PICK f \in Heads(index) : f.ordinal = e.root
            BY <2>2, <3>1, EventsAre
        <3>3. QED
            BY <3>1, <3>2 DEF EventOf
    <2>3. QED
        BY <2>1, <2>2
<1>3. f \in ToSet(index.entries) /\ Get(index, root) = f /\ f.ordinal # None
    BY <1>1, <1>2, GetIs, IndexAssumption DEF Heads, ReadTo
<1> HIDE DEF root
<1>4. event = EventOf(index, f)
    <2>1. ASSUME NEW m \in ToSet(index.entries), m \in EventOf(index, f) PROVE m \in event
        <3>1. RootOf(index, m) = IF m = f THEN None ELSE f.ordinal
            BY <2>1, EventsAre
        <3>2. QED
            BY <1>2, <3>1
    <2>2. ASSUME NEW m \in ToSet(index.entries), m \in event PROVE m \in EventOf(index, f)
        <3>1. CASE m.ordinal = root
            BY <1>1, <1>2, <1>3, <3>1 DEF EventOf
        <3>2. CASE RootOf(index, m) = root
            <4>1. m.root = f.ordinal
                BY <1>2, <1>3, <3>2 DEF RootOf
            <4>2. QED
                BY <4>1 DEF EventOf
        <3>3. QED
            BY <2>2, <3>1, <3>2
    <2>3. QED
        BY <2>1, <2>2 DEF EventOf
<1>5. Matches(e) <=> MatchesFilters(Get(index, root), view.pred)
                     /\ \E m \in event : MatchesQuery(m, view.pred)
    BY DEF Matches, root
<1> HIDE DEF event
<1>6. Matches(e) <=> Says(view.pred, index, f)
    BY <1>3, <1>4, <1>5 DEF Says
<1>7. QED
    BY <1>2, <1>6

(* A view that is up to date has exactly the retained entries that match   *)
(* now, as if it had been computed afresh, whatever was appended, evicted  *)
(* or parsed anew since it was last.                                       *)
THEOREM BaseIsExact == Spec => []BaseExact
<1>1. Inductive => BaseExact
    <2>1. SUFFICES ASSUME Inductive, Current(view) PROVE BaseExact
        BY DEF BaseExact
    <2> DEFINE n == first_line + Len(raw)
               set == view.match_set
               pred == view.pred
    <2>2. /\ ReadTo(index, n, chain) /\ Sound(index)
          /\ Evaluated(index, n, pred, set) /\ UpToDate(index, set)
          /\ view.base = BaseOf(index, view) /\ view.base \subseteq Ordinals(index)
          /\ view.range # None => view.range[1] \in Int /\ view.range[2] \in Int
        BY <2>1, CurrentSays
    <2>3. ASSUME NEW e \in ToSet(index.entries), ~Orphan(e)
          PROVE  Passes(set, e.ordinal) <=> Matches(e)
        <3>1. PICK f \in Heads(index) :
                  e \in EventOf(index, f) /\ (Matches(e) <=> Says(pred, index, f))
            BY <2>2, <2>3, MatchesIs
        <3>2. set.predicate = pred
            BY <2>2 DEF Evaluated
        <3>3. CASE Trivial(pred)
            <4>1. Says(pred, index, f)
                BY <3>1, <3>3 DEF Says, Trivial, MatchesFilters, MatchesQuery
            <4>2. QED
                BY <3>1, <3>2, <3>3, <4>1 DEF Passes
        <3>4. CASE ~Trivial(pred)
            <4> DEFINE u == set.evaluated_upto
            <4>1. Agrees(pred, index, set.matching, u)
                BY <2>2, <3>4 DEF Evaluated
            <4>2. \A m \in ToSet(index.entries) : m.ordinal <= u
                BY <2>2 DEF UpToDate
            <4>3. SaidBy(pred, index, f, u) <=> Says(pred, index, f)
                BY <4>2 DEF SaidBy, Says, EventOf
            <4>4. e.ordinal \in set.matching <=> SaidBy(pred, index, f, u)
                BY <3>1, <4>1, <4>2 DEF Agrees
            <4>5. QED
                BY <3>1, <3>2, <3>4, <4>3, <4>4 DEF Passes
        <3>5. QED
            BY <3>3, <3>4
    <2>4. \A e \in ToSet(index.entries) :
              e.ordinal \in InRange(index, view.range) <=> Within(e)
        BY <2>2, InRangeIs DEF Within
    <2>5. \A e \in ToSet(index.entries) :
              ~Orphan(e) => (e.ordinal \in view.base <=> Matches(e) /\ Within(e))
        BY <2>2, <2>3, <2>4 DEF BaseOf
    <2>6. QED
        BY <2>2, <2>5 DEF BaseExact
<1>2. QED
    BY <1>1, AlwaysInStep, PTL

LEMMA OrdinalsFinite ==
    ASSUME NEW i, Sound(i)
    PROVE  IsFiniteSet(Ordinals(i))
<1> DEFINE f == [e \in ToSet(i.entries) |-> e.ordinal]
<1>1. IsFiniteSet(ToSet(i.entries))
    BY SequenceFinite DEF Sound, Shape
<1>2. f \in [ToSet(i.entries) -> Ordinals(i)]
    BY EntriesAre
<1>3. \A x, y \in ToSet(i.entries) : f[x] = f[y] => x = y
    BY EntriesAre
<1>4. \A z \in Ordinals(i) : \E x \in ToSet(i.entries) : f[x] = z
    BY EntriesAre
<1> HIDE DEF f
<1>5. QED
    BY <1>1, <1>2, <1>3, <1>4, SameSize

(* The rows below which a view folds. *)
LEMMA RowsSay ==
    ASSUME Inductive, Current(view)
    PROVE  /\ None \notin view.base
           /\ \A o \in view.base :
                  \E e \in ToSet(index.entries) : e.ordinal = o /\ Get(index, o) = e
           /\ \A o \in view.base :
                  Get(index, o).root \in view.base =>
                      Get(index, Get(index, o).root).root = None
           /\ \A o \in view.base :
                  o \notin view.rows <=> /\ Get(index, o).root \in view.base
                                         /\ ~IsExpanded(view, Get(index, o).root)
<1>1. /\ ReadTo(index, first_line + Len(raw), chain) /\ Sound(index)
      /\ view.base \subseteq Ordinals(index) /\ view.rows = RowsOf(index, view)
    BY CurrentSays
<1>2. /\ \A e \in ToSet(index.entries) : e.ordinal \in Int
      /\ \A x, y \in ToSet(index.entries) : x.ordinal = y.ordinal => x = y
      /\ \A o \in Ordinals(index) : \E e \in ToSet(index.entries) : e.ordinal = o
    BY <1>1, EntriesAre
<1>3. None \notin view.base
    BY <1>1, <1>2, IndexAssumption
<1>4. \A o \in view.base : \E e \in ToSet(index.entries) : e.ordinal = o /\ Get(index, o) = e
    BY <1>1, <1>2, GetIs
<1>5. ASSUME NEW o \in view.base, Get(index, o).root \in view.base
      PROVE  Get(index, Get(index, o).root).root = None
    <2>1. PICK e \in ToSet(index.entries) : e.ordinal = o /\ Get(index, o) = e
        BY <1>4
    <2>2. e.root # None /\ e.root \in view.base
        BY <1>3, <1>5, <2>1
    <2>3. PICK g \in ToSet(index.entries) : g.ordinal = e.root
        BY <1>1, <1>2, <2>2
    <2>4. ~(g.ordinal > e.root)
        BY <1>2, <2>3
    <2>5. PICK f \in Heads(index) : f.ordinal = e.root
        BY <1>1, <2>2, <2>3, <2>4, EventsAre
    <2>6. Get(index, e.root) = f /\ f.root = None
        BY <1>1, <2>5, GetIs DEF Heads
    <2>7. QED
        BY <2>1, <2>6
<1>6. ASSUME NEW o \in view.base
      PROVE  o \notin view.rows <=> /\ Get(index, o).root \in view.base
                                    /\ ~IsExpanded(view, Get(index, o).root)
    <2>1. o \notin view.rows <=>
              /\ VisibleRoot(view, Get(index, o)) # None
              /\ ~IsExpanded(view, VisibleRoot(view, Get(index, o)))
        BY <1>1 DEF RowsOf
    <2>2. QED
        BY <1>3, <2>1 DEF VisibleRoot
<1>7. QED
    BY <1>3, <1>4, <1>5, <1>6

(* No line that matches is out of reach: it is a row, or folded under a    *)
(* row that is its root, can be expanded, and counts it.                   *)
THEOREM AllIsInReach == Spec => []NothingOutOfReach
<1>1. Inductive => NothingOutOfReach
    <2>1. SUFFICES ASSUME Inductive, Current(view) PROVE NothingOutOfReach
        BY DEF NothingOutOfReach
    <2> DEFINE Of(o) == Get(index, o)
               base == view.base
               rows == view.rows
    <2>2. /\ None \notin base
          /\ \A o \in base : \E e \in ToSet(index.entries) : e.ordinal = o /\ Of(o) = e
          /\ \A o \in base : Of(o).root \in base => Of(Of(o).root).root = None
          /\ \A o \in base : o \notin rows <=> /\ Of(o).root \in base
                                               /\ ~IsExpanded(view, Of(o).root)
        BY <2>1, RowsSay
    <2>3. /\ Sound(index) /\ base \subseteq Ordinals(index) /\ rows = RowsOf(index, view)
        BY <2>1, CurrentSays
    <2>4. rows \subseteq base
        BY <2>3 DEF RowsOf
    <2> HIDE DEF Of, base, rows
    <2>5. \A o \in base \ rows : Of(o).root \in rows
        <3>1. SUFFICES ASSUME NEW o \in base \ rows PROVE Of(o).root \in rows
            OBVIOUS
        <3>2. Of(o).root \in base /\ Of(Of(o).root).root = None
            BY <2>2
        <3>3. QED
            BY <2>2, <3>2
    <2>6. ASSUME NEW o \in rows,
                 NEW folded, folded = {m \in base \ rows : Of(m).root = o}, folded # {}
          PROVE  ChainSize(view, Of(o)) = 1 + Cardinality(folded) /\ ~IsExpanded(view, o)
        <3> DEFINE members == {m \in ToSet(MembersOf(index, o)) : m \in base}
        <3>1. PICK m \in base \ rows : Of(m).root = o
            BY <2>6
        <3>2. o \in base /\ ~IsExpanded(view, o) /\ Of(o).root = None
            BY <2>2, <3>1
        <3>3. PICK f \in ToSet(index.entries) : f.ordinal = o /\ Of(o) = f
            BY <2>2, <3>2
        <3>4. ToSet(MembersOf(index, o)) = Children(index, o)
            BY <2>3, <3>2 DEF Sound, Chained
        <3>5. \A x \in base : x \in Children(index, o) <=> Of(x).root = o
            <4>1. SUFFICES ASSUME NEW x \in base
                           PROVE  x \in Children(index, o) <=> Of(x).root = o
                OBVIOUS
            <4>2. PICK e \in ToSet(index.entries) : e.ordinal = x /\ Of(x) = e
                BY <2>2
            <4>3. \A y \in ToSet(index.entries) : y.ordinal = x => y = e
                BY <2>3, <4>2, EntriesAre
            <4>4. QED
                BY <4>2, <4>3 DEF Children
        <3>6. \A x \in base : Of(x).root = o => x \notin rows
            BY <2>2, <3>2
        <3>7. members = folded
            BY <2>6, <3>4, <3>5, <3>6
        <3>8. IsFiniteSet(members) /\ Cardinality(members) \in Nat
            <4>3. IsFiniteSet(Ordinals(index)) /\ members \subseteq Ordinals(index)
                BY <2>3, OrdinalsFinite
            <4>4. IsFiniteSet(members)
                BY <4>3, FS_Subset
            <4>5. QED
                BY <4>4, FS_CardinalityType
        <3>9. ChainSize(view, f) = Cardinality(members) + 1
            <4>1. VisibleRoot(view, f) = None
                BY <2>2, <3>2, <3>3 DEF VisibleRoot, base
            <4>2. members # {}
                BY <2>6, <3>7
            <4>3. ChainSize(view, f) =
                      IF VisibleRoot(view, f) # None \/ o \notin base \/ members = {}
                      THEN 0 ELSE Cardinality(members) + 1
                BY <3>3 DEF ChainSize, base
            <4>4. QED
                BY <3>2, <4>1, <4>2, <4>3
        <3> HIDE DEF members
        <3>10. Cardinality(members) + 1 = 1 + Cardinality(folded)
            BY <3>7, <3>8
        <3>11. QED
            BY <3>2, <3>3, <3>9, <3>10
    <2>7. QED
        BY <2>1, <2>4, <2>5, <2>6 DEF NothingOutOfReach, Of, base, rows
<1>2. QED
    BY <1>1, AlwaysInStep, PTL

(* A line whose message the search found is shown, even one that came      *)
(* after the query, unless the client folded its event itself.             *)
THEOREM HitsAreShown == Spec => []HitsShown
<1>1. Inductive => HitsShown
    <2>1. SUFFICES ASSUME Inductive, Current(view), view.pred.search,
                          NEW o \in view.base, Get(index, o).hit = "message",
                          Get(index, o).root \notin view.toggled
                   PROVE  o \in view.rows
        BY DEF HitsShown
    <2> DEFINE root == Get(index, o).root
    <2>2. /\ None \notin view.base
          /\ o \notin view.rows <=> root \in view.base /\ ~IsExpanded(view, root)
        BY <2>1, RowsSay
    <2>3. ASSUME root \in view.base PROVE IsExpanded(view, root)
        <3>1. VisibleRoot(view, Get(index, o)) = root /\ root # None
            BY <2>2, <2>3 DEF VisibleRoot
        <3>2. view.auto_expanded = AutoExpanded(index, view)
            BY <2>1, CurrentSays
        <3>3. root \in view.auto_expanded
            BY <2>1, <3>1, <3>2 DEF AutoExpanded
        <3>4. QED
            BY <2>1, <3>3 DEF IsExpanded
    <2>4. QED
        BY <2>2, <2>3
<1>2. QED
    BY <1>1, AlwaysInStep, PTL
=============================================================================
