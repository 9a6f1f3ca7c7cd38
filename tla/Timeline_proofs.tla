--------------------------- MODULE Timeline_proofs ---------------------------
(***************************************************************************)
(* Theorems about the timeline, for any timestamps in any order, any       *)
(* spans and any target.                                                   *)
(***************************************************************************)
EXTENDS Timeline, Index_proofs

(* Whatever joined and left: the index is in order, holds only lines that  *)
(* have come, and few refs of entries that have left.                      *)
InOrderSoFar ==
    /\ next \in Int
    /\ Sound(index)
    /\ Before(index, next)
    /\ FewDead(index)

LEMMA OrderInit == Init => InOrderSoFar
<1>1. SUFFICES ASSUME Init PROVE InOrderSoFar
    OBVIOUS
<1>2. FewDead(NewIndex)
    <2>1. NewIndex.sorted = <<>> /\ NewIndex.timestamped_live = 0
        BY DEF NewIndex
    <2>2. Len(<<>>) - 0 = 0 /\ ~(0 >= CompactMinDead)
        BY IndexAssumption
    <2>3. QED
        BY <2>1, <2>2 DEF FewDead
<1>3. QED
    BY <1>1, <1>2, NewIndexSound DEF Init, InOrderSoFar

LEMMA OrderAppend ==
    ASSUME InOrderSoFar, NEW ts \in Times \union {None}, NEW joins \in BOOLEAN,
           Append1(ts, joins)
    PROVE  InOrderSoFar'
<1> DEFINE last == Last(index.entries)
           root == IF ~joins THEN None
                   ELSE IF last.root = None THEN last.ordinal ELSE last.root
           e == [ordinal |-> next, root |-> root, ts |-> ts]
           j == AppendEntry(index, e)
<1>1. next \in Int /\ Sound(index) /\ Before(index, next) /\ FewDead(index)
    BY DEF InOrderSoFar
<1>2. index' = j /\ next' = next + 1 /\ (joins => index.entries # <<>>)
    BY DEF Append1
<1>3. root = None \/ (root \in Int /\ root < next)
    <2>1. CASE joins
        <3>1. last = index.entries[Len(index.entries)]
              /\ Len(index.entries) \in 1..Len(index.entries)
            BY <1>1, <1>2, <2>1, SequencePlaces DEF Sound, Shape
        <3>2. IsEntry(last) /\ last.ordinal < next
            BY <1>1, <3>1 DEF Sound, Shape, Before
        <3> HIDE DEF last
        <3>3. QED
            BY <1>1, <2>1, <3>2 DEF IsEntry
    <2>2. QED
        BY <2>1
<1>4. ts \in Int \union {None}
    BY TimelineAssumption
<1> HIDE DEF root
<1>5. e.ordinal = next /\ e.ts = ts /\ e.root = root
    OBVIOUS
<1> HIDE DEF e
<1>6. IsEntry(e) /\ e.ordinal >= next /\ next + 1 > e.ordinal /\ next + 1 \in Int
    BY <1>1, <1>3, <1>4, <1>5 DEF IsEntry
<1>7. /\ Sound(j) /\ \A m \in Int : m > e.ordinal => Before(j, m)
      /\ Len(j.sorted) - j.timestamped_live = Len(index.sorted) - index.timestamped_live
      /\ Len(j.sorted) >= Len(index.sorted)
    BY <1>1, <1>6, AppendKeeps
<1> HIDE DEF j
<1>8. FewDead(j)
    <2>1. /\ Len(j.sorted) \in Int /\ Len(index.sorted) \in Int
          /\ index.timestamped_live \in Int
        BY <1>1, <1>7, ShapeSays DEF Sound, Shape
    <2>2. QED
        BY <1>1, <1>7, <2>1 DEF FewDead
<1>9. QED
    BY <1>2, <1>6, <1>7, <1>8 DEF InOrderSoFar

LEMMA OrderEvict ==
    ASSUME InOrderSoFar, NEW n \in 1..2, Evict(n)
    PROVE  InOrderSoFar'
<1>1. next \in Int /\ Sound(index) /\ Before(index, next)
    BY DEF InOrderSoFar
<1>2. n \in 0..Len(index.entries) /\ index' = EvictFront(index, n) /\ next' = next
    <2>1. Len(index.entries) \in Nat
        BY <1>1, ShapeSays DEF Sound
    <2>2. QED
        BY <2>1 DEF Evict
<1> DEFINE j == EvictFront(index, n)
<1>3. LeftOf(index, n, j) /\ FewDead(j)
    BY <1>1, <1>2, EvictKeeps
<1> HIDE DEF j
<1>4. QED
    BY <1>1, <1>2, <1>3 DEF LeftOf, InOrderSoFar, j

LEMMA OrderBuckets ==
    ASSUME InOrderSoFar, NEW kind, NEW bounds, Buckets(kind, bounds)
    PROVE  InOrderSoFar'
<1>1. next \in Int /\ Sound(index) /\ Before(index, next) /\ FewDead(index)
    BY DEF InOrderSoFar
<1>2. index' = (IF kind = "robust" THEN Compact(index) ELSE index) /\ next' = next
    BY DEF Buckets
<1>3. CASE kind = "robust"
    <2> DEFINE j == Compact(index)
    <2>1. Sound(j) /\ Compacted(j) /\ Before(j, next)
        BY <1>1, CompactKeeps
    <2> HIDE DEF j
    <2>2. FewDead(j)
        BY <2>1, CompactedHasFewDead
    <2>3. QED
        BY <1>1, <1>2, <1>3, <2>1, <2>2 DEF InOrderSoFar, j
<1>4. CASE kind # "robust"
    BY <1>1, <1>2, <1>4 DEF InOrderSoFar
<1>5. QED
    BY <1>3, <1>4

LEMMA OrderStays == InOrderSoFar /\ [Next]_vars => InOrderSoFar'
<1>1. SUFFICES ASSUME InOrderSoFar, [Next]_vars PROVE InOrderSoFar'
    OBVIOUS
<1>2. CASE UNCHANGED vars
    BY <1>1, <1>2 DEF vars, InOrderSoFar
<1>3. ASSUME NEW ts \in Times \union {None}, NEW joins \in BOOLEAN, Append1(ts, joins)
      PROVE  InOrderSoFar'
    BY <1>1, <1>3, OrderAppend
<1>4. ASSUME NEW n \in 1..2, Evict(n) PROVE InOrderSoFar'
    BY <1>1, <1>4, OrderEvict
<1>5. ASSUME NEW kind, NEW bounds, Buckets(kind, bounds) PROVE InOrderSoFar'
    BY <1>1, <1>5, OrderBuckets
<1>6. QED
    BY <1>1, <1>2, <1>3, <1>4, <1>5 DEF Next

(* Appending, evicting and compacting (index.rs) keep the index in order,   *)
(* with few dead refs.                                                     *)
THEOREM OrderHolds == Spec => []InOrderSoFar
BY OrderInit, OrderStays, PTL DEF Spec

-----------------------------------------------------------------------------
(* `sorted` is in time order and holds each retained entry that has a time *)
(* once, and the counters count those: EntryIndex's append, evict_front    *)
(* and compact (index.rs), whatever the times.                             *)
THEOREM SortedIsRight == Spec => []SortedAgrees
<1>1. InOrderSoFar => SortedAgrees
    <2>1. SUFFICES ASSUME InOrderSoFar PROVE SortedAgrees
        OBVIOUS
    <2>2. Sound(index)
        BY <2>1 DEF InOrderSoFar
    <2>3. Timed = TimedOf(index)
        BY DEF Timed, TimedOf
    <2>4. \A i, j \in DOMAIN index.sorted :
              i < j => index.sorted[i].ms <= index.sorted[j].ms
        BY <2>2 DEF Sound, Sorted, InOrder
    <2>5. Live(index) = {[ms |-> e.ts, ordinal |-> e.ordinal] : e \in Timed}
        BY <2>2, <2>3 DEF Sound, Sorted, Stamps
    <2>6. IsInjective([i \in DOMAIN index.sorted |-> index.sorted[i].ordinal])
        BY <2>2 DEF Sound, Sorted, OnceEach, IsInjective
    <2>7. /\ index.timestamped_live = Cardinality(Timed)
          /\ index.timestampless = Len(index.entries) - Cardinality(Timed)
        BY <2>2, <2>3 DEF Sound, Counted
    <2>8. QED
        BY <2>4, <2>5, <2>6, <2>7 DEF SortedAgrees
<1>2. QED
    BY <1>1, OrderHolds, PTL

(* Refs of evicted entries are never both many and a quarter of `sorted`:  *)
(* the amortised compaction of evict_front (index.rs).                     *)
THEOREM DeadAreFew == Spec => []DeadBounded
<1>1. InOrderSoFar => DeadBounded
    BY DEF InOrderSoFar, FewDead, DeadBounded
<1>2. QED
    BY <1>1, OrderHolds, PTL

-----------------------------------------------------------------------------
(* The ladder of widths, and the grid of a span.                           *)

LEMMA LadderIs ==
    /\ DOMAIN Ladder = 1..16 /\ Last(Ladder) = Ladder[16]
    /\ \A k \in 1..16 : Ladder[k] \in Nat \ {0} /\ Ladder[k] >= Second
    /\ \A j, k \in 1..16 : j <= k => Ladder[j] <= Ladder[k]
<1>1. Second = 2 /\ Minute = 120 /\ Hour = 7200 /\ Day = 172800
    BY DEF Second, Minute, Hour, Day
<1>2. Ladder = <<2, 10, 20, 60, 120, 600, 1200, 3600, 7200, 21600, 43200, 86400,
                 172800, 1209600, 5184000, 63072000>>
    BY <1>1 DEF Ladder
<1>3. DOMAIN Ladder = 1..16 /\ Len(Ladder) = 16
    BY <1>2
<1>4. /\ Ladder[1] = 2 /\ Ladder[2] = 10 /\ Ladder[3] = 20 /\ Ladder[4] = 60
      /\ Ladder[5] = 120 /\ Ladder[6] = 600 /\ Ladder[7] = 1200 /\ Ladder[8] = 3600
      /\ Ladder[9] = 7200 /\ Ladder[10] = 21600 /\ Ladder[11] = 43200
      /\ Ladder[12] = 86400 /\ Ladder[13] = 172800 /\ Ladder[14] = 1209600
      /\ Ladder[15] = 5184000 /\ Ladder[16] = 63072000
    BY <1>2
<1>5. \A k \in 1..16 : k = 1 \/ k = 2 \/ k = 3 \/ k = 4 \/ k = 5 \/ k = 6 \/ k = 7 \/ k = 8
          \/ k = 9 \/ k = 10 \/ k = 11 \/ k = 12 \/ k = 13 \/ k = 14 \/ k = 15 \/ k = 16
    OBVIOUS
<1>6. \A k \in 1..16 : Ladder[k] \in Nat \ {0} /\ Ladder[k] >= Second
    BY <1>1, <1>4, <1>5
<1>7. \A j, k \in 1..16 : j <= k => Ladder[j] <= Ladder[k]
    BY <1>4, <1>5
<1>8. QED
    BY <1>3, <1>6, <1>7 DEF Last

LEMMA CeilingIs ==
    ASSUME NEW a \in Int, NEW w \in Nat \ {0}
    PROVE  /\ CeilDiv(a, w) \in Int
           /\ a <= CeilDiv(a, w) * w
           /\ CeilDiv(a, w) * w <= a + w - 1
           /\ a >= 1 => CeilDiv(a, w) >= 1
<1> DEFINE q == (a + w - 1) \div w
<1>1. q \in Int /\ q * w <= a + w - 1 /\ a + w - 1 < q * w + w
    <2>1. a + w - 1 \in Int
        OBVIOUS
    <2>2. QED
        BY <2>1, DivisionIs
<1> HIDE DEF q
<1>2. q * w \in Int /\ a <= q * w
    BY <1>1
<1>3. a >= 1 => q >= 1
    <2>1. q <= 0 => q * w <= 0
        BY <1>1
    <2>2. QED
        BY <1>1, <1>2, <2>1
<1>4. QED
    BY <1>1, <1>2, <1>3 DEF CeilDiv, q

LEMMA WidthIs ==
    ASSUME NEW span \in Nat \ {0}
    PROVE  /\ PickBucketWidth(span) \in Nat \ {0}
           /\ span <= PickBucketWidth(span) * Target
           /\ \A k \in 1..16 :
                  Ladder[k] < PickBucketWidth(span) => span > Ladder[k] * Target
<1> DEFINE fits == {k \in DOMAIN Ladder : span <= Ladder[k] * Target}
           w == PickBucketWidth(span)
           top == Ladder[16]
<1>1. /\ DOMAIN Ladder = 1..16 /\ Last(Ladder) = top /\ top \in Nat \ {0}
      /\ \A k \in 1..16 : Ladder[k] \in Nat \ {0}
      /\ \A j, k \in 1..16 : j <= k => Ladder[j] <= Ladder[k]
    BY LadderIs
<1>2. Target \in Nat \ {0}
    BY TimelineAssumption
<1>3. \A k \in 1..16 : k \notin fits => span > Ladder[k] * Target
    BY <1>1, <1>2
<1>4. w = IF fits # {} THEN Ladder[Min(fits)] ELSE top * CeilDiv(span, top * Target)
    <2>1. (IF span < 1 THEN 1 ELSE span) = span
        OBVIOUS
    <2>2. w = IF fits # {} THEN Ladder[Min(fits)]
              ELSE Last(Ladder) * CeilDiv(span, Last(Ladder) * Target)
        BY <2>1, Zenon DEF PickBucketWidth
    <2>3. QED
        BY <1>1, <2>2
<1>5. \A k \in fits : k \in 1..16 /\ span <= Ladder[k] * Target
    BY <1>1
<1> HIDE DEF fits, w, top
<1>6. CASE fits # {}
    <2>1. PICK m \in fits : \A k \in fits : m <= k
        <3>1. fits \subseteq Nat
            BY <1>5
        <3>2. QED
            BY <1>6, <3>1, Pops!LeastNatural
    <2>2. Min(fits) \in fits /\ \A k \in fits : Min(fits) <= k
        BY <2>1 DEF Min
    <2>3. w = Ladder[Min(fits)]
        BY <1>4, <1>6
    <2> DEFINE n == Min(fits)
    <2> HIDE DEF n
    <2>4. n \in 1..16 /\ w = Ladder[n] /\ span <= w * Target /\ \A k \in fits : n <= k
        BY <1>5, <2>2, <2>3 DEF n
    <2>5. \A k \in 1..16 : Ladder[k] < w => k \notin fits
        <3>1. SUFFICES ASSUME NEW k \in 1..16, Ladder[k] < w, k \in fits PROVE FALSE
            OBVIOUS
        <3>2. Ladder[n] <= Ladder[k]
            BY <1>1, <2>4, <3>1
        <3>3. QED
            BY <1>1, <2>4, <3>1, <3>2
    <2>6. QED
        BY <1>1, <1>3, <2>4, <2>5 DEF w
<1>7. CASE fits = {}
    <2> DEFINE b == top * Target
               q == CeilDiv(span, b)
    <2>1. b \in Nat \ {0}
        BY <1>1, <1>2
    <2> HIDE DEF b
    <2>2. q \in Int /\ q >= 1 /\ span <= q * b
        BY <2>1, CeilingIs
    <2> HIDE DEF q
    <2>3. w = top * q
        BY <1>4, <1>7 DEF b, q
    <2>4. q * b = w * Target /\ w \in Nat \ {0}
        BY <1>1, <1>2, <2>2, <2>3 DEF b
    <2>5. QED
        BY <1>3, <1>7, <2>2, <2>4 DEF w
<1>8. QED
    BY <1>6, <1>7

(* The grid of a span covers it with few buckets. *)
LEMMA GridIs ==
    ASSUME NEW lo \in Int, NEW hi \in Int
    PROVE  LET g == Grid(lo, hi)
           IN  /\ g.start \in Int /\ g.width \in Nat \ {0} /\ g.count \in Nat \ {0}
               /\ g.start <= lo /\ hi < g.start + g.count * g.width
               /\ g.count <= Target + 1
               /\ g.width > Second =>
                      \A k \in 1..16 : Ladder[k] < g.width => (hi - lo) > Ladder[k] * Target
<1> DEFINE top == IF hi <= lo THEN lo + 1 ELSE hi
           low == IF hi <= lo THEN lo - 1 ELSE lo
           w == PickBucketWidth(top - low)
           start == (low \div w) * w
           n == top + 1 - start
           g == Grid(lo, hi)
<1>1. top \in Int /\ low \in Int /\ top - low \in Nat \ {0} /\ low <= lo /\ hi <= top
      /\ low <= top
    OBVIOUS
<1>2. \/ hi > lo /\ top - low = hi - lo
      \/ hi <= lo /\ top - low = 2
    OBVIOUS
<1>3. g = [start |-> start, width |-> w, count |-> BucketCountForSpan(n, w)]
    BY DEF Grid, Second
<1> HIDE DEF top, low, g
<1>4. /\ w \in Nat \ {0} /\ top - low <= w * Target
      /\ \A k \in 1..16 : Ladder[k] < w => top - low > Ladder[k] * Target
    BY <1>1, WidthIs
<1> HIDE DEF w
<1>5. start \in Int /\ start <= low /\ low < start + w
    BY <1>1, <1>4, DivisionIs
<1> HIDE DEF start
<1>6. n \in Int /\ n >= 1 /\ n = top + 1 - start
    BY <1>1, <1>5
<1> DEFINE q == CeilDiv(n, w)
<1> HIDE DEF n
<1>7. q \in Int /\ q >= 1 /\ n <= q * w /\ q * w <= n + w - 1
    BY <1>4, <1>6, CeilingIs
<1>8. BucketCountForSpan(n, w) = q
    BY <1>7 DEF BucketCountForSpan
<1> HIDE DEF q
<1>9. g.start = start /\ g.width = w /\ g.count = q
    BY <1>3, <1>8
<1>10. hi < start + q * w
    <2>1. q * w \in Int
        BY <1>4, <1>7
    <2>2. QED
        BY <1>1, <1>5, <1>6, <1>7, <2>1
<1>11. q <= Target + 1
    <2>1. Target \in Nat
        BY TimelineAssumption
    <2> DEFINE a == w * Target
               b == q * w
    <2>2. a \in Int /\ b \in Int /\ w \in Int
        BY <1>4, <1>7, <2>1
    <2>3. top - low <= a /\ b <= n + w - 1
        BY <1>4, <1>7
    <2> HIDE DEF a, b
    <2>4. b < a + w + w
        BY <1>1, <1>5, <1>6, <2>2, <2>3
    <2>5. q * w < (Target + 1) * w + w
        <3>1. (Target + 1) * w = a + w
            BY <1>4, <2>1 DEF a
        <3>2. QED
            BY <2>4, <3>1 DEF b
    <2>6. QED
        BY <1>4, <1>7, <2>1, <2>5
<1>12. ASSUME w > Second, NEW k \in 1..16, Ladder[k] < w
       PROVE  hi - lo > Ladder[k] * Target
    <2>1. Target \in Nat \ {0} /\ Ladder[k] \in Nat /\ Ladder[k] >= Second
        BY LadderIs, TimelineAssumption
    <2>2. top - low > Ladder[k] * Target
        BY <1>4, <1>12
    <2>3. Ladder[k] * Target >= 2
        BY <2>1 DEF Second
    <2>4. Ladder[k] * Target \in Int
        BY <2>1
    <2>5. QED
        BY <1>1, <1>2, <2>2, <2>3, <2>4
<1>13. start <= lo
    BY <1>1, <1>5
<1>14. QED
    BY <1>4, <1>5, <1>7, <1>9, <1>10, <1>11, <1>12, <1>13 DEF g

-----------------------------------------------------------------------------
(* What `buckets` answers.                                                 *)

(* A span a client asks for or is offered, or None. *)
Askable(bounds) == bounds # None => bounds.min_ms \in Int /\ bounds.max_ms \in Int

LEMMA AnswerIs ==
    ASSUME InOrderSoFar, NEW kind, NEW bounds, Askable(bounds), Buckets(kind, bounds),
           Answered'
    PROVE  LET g == Grid(bounds.min_ms, bounds.max_ms)
           IN  /\ bounds # None
               /\ reply'.start = g.start /\ reply'.width = g.width
               /\ reply'.bounds = bounds
               /\ reply'.total = BucketCounts(index, g.start, g.width, g.count,
                                              Ordinals(index))
               /\ Sound(index) /\ Sound(index') /\ index'.entries = index.entries
<1> DEFINE g == Grid(bounds.min_ms, bounds.max_ms)
<1>1. Sound(index)
    BY DEF InOrderSoFar
<1>2. Sound(index') /\ index'.entries = index.entries
    <2>1. InOrderSoFar'
        BY OrderBuckets
    <2>2. index' = IF kind = "robust" THEN Compact(index) ELSE index
        BY DEF Buckets
    <2>3. Compact(index).entries = index.entries
        BY <1>1, CompactKeeps
    <2>4. QED
        BY <2>1, <2>2, <2>3 DEF InOrderSoFar
<1> HIDE DEF g
<1>3. reply' = IF bounds = None THEN [start |-> None]
               ELSE [start |-> g.start, width |-> g.width,
                     total |-> BucketCounts(index, g.start, g.width, g.count,
                                            Ordinals(index)),
                     bounds |-> bounds]
    BY DEF Buckets, g
<1>4. bounds # None
    <2>1. SUFFICES ASSUME bounds = None PROVE FALSE
        OBVIOUS
    <2>2. reply'.start = None
        BY <1>3, <2>1
    <2>3. QED
        BY <2>2 DEF Answered
<1>5. QED
    BY <1>1, <1>2, <1>3, <1>4 DEF g

LEMMA AnswerCounts ==
    ASSUME InOrderSoFar, NEW kind, NEW bounds, Askable(bounds), Buckets(kind, bounds)
    PROVE  EventsCountedOnce'
<1>1. SUFFICES ASSUME Answered'
               PROVE  /\ \A b \in DOMAIN reply'.total :
                             reply'.total[b] = Cardinality({e \in Timed' :
                                 /\ ~IsChainMember(index', e.ordinal)
                                 /\ e.ts >= reply'.start + (b - 1) * reply'.width
                                 /\ e.ts < reply'.start + b * reply'.width})
                      /\ reply'.start <= reply'.bounds.min_ms
                      /\ reply'.bounds.max_ms <
                             reply'.start + Len(reply'.total) * reply'.width
    BY DEF EventsCountedOnce
<1> DEFINE g == Grid(bounds.min_ms, bounds.max_ms)
           c == BucketCounts(index, g.start, g.width, g.count, Ordinals(index))
<1>2. /\ bounds # None
      /\ reply'.start = g.start /\ reply'.width = g.width
      /\ reply'.bounds = bounds /\ reply'.total = c
      /\ Sound(index) /\ index'.entries = index.entries
    BY <1>1, AnswerIs
<1>3. bounds.min_ms \in Int /\ bounds.max_ms \in Int
    BY <1>2 DEF Askable
<1>4. /\ g.start \in Int /\ g.width \in Nat \ {0} /\ g.count \in Nat \ {0}
      /\ g.start <= bounds.min_ms /\ bounds.max_ms < g.start + g.count * g.width
    BY <1>3, GridIs
<1> HIDE DEF g
<1>5. /\ DOMAIN c = 1..g.count /\ Len(c) = g.count
      /\ \A b \in 1..g.count :
             c[b] = Cardinality({e \in TimedOf(index) :
                        /\ ~IsChainMember(index, e.ordinal)
                        /\ e.ts >= g.start + (b - 1) * g.width
                        /\ e.ts < g.start + b * g.width})
    <2> DEFINE a == g.start
               w == g.width
               n == g.count
    <2> HIDE DEF a, w, n
    <2>1. a \in Int /\ w \in Nat \ {0} /\ n \in Nat \ {0} /\ Sound(index)
        BY <1>2, <1>4 DEF a, w, n
    <2> DEFINE d == BucketCounts(index, a, w, n, Ordinals(index))
    <2>2. /\ DOMAIN d = 1..n /\ Len(d) = n
          /\ \A b \in 1..n :
                 d[b] = Cardinality({e \in TimedOf(index) :
                            /\ ~IsChainMember(index, e.ordinal)
                            /\ e.ts >= a + (b - 1) * w
                            /\ e.ts < a + b * w})
        BY <2>1, BucketIs
    <2>3. QED
        BY <2>2 DEF a, w, n
<1> HIDE DEF c
<1>6. Timed' = TimedOf(index)
    BY <1>2 DEF Timed, TimedOf
<1>7. \A o : IsChainMember(index', o) <=> IsChainMember(index, o)
    BY <1>2 DEF IsChainMember, Has, Get, RootOf, IsLive, Ordinals
<1>8. ASSUME NEW b \in 1..g.count
      PROVE  c[b] = Cardinality({e \in Timed' :
                        /\ ~IsChainMember(index', e.ordinal)
                        /\ e.ts >= g.start + (b - 1) * g.width
                        /\ e.ts < g.start + b * g.width})
    <2>1. {e \in Timed' : /\ ~IsChainMember(index', e.ordinal)
                          /\ e.ts >= g.start + (b - 1) * g.width
                          /\ e.ts < g.start + b * g.width}
              = {e \in TimedOf(index) : /\ ~IsChainMember(index, e.ordinal)
                                        /\ e.ts >= g.start + (b - 1) * g.width
                                        /\ e.ts < g.start + b * g.width}
        BY <1>6, <1>7
    <2>2. QED
        BY <1>5, <2>1
<1>9. QED
    BY <1>2, <1>4, <1>5, <1>8

LEMMA AnswerFew ==
    ASSUME InOrderSoFar, NEW kind, NEW bounds, Askable(bounds), Buckets(kind, bounds)
    PROVE  FewBuckets'
<1>1. SUFFICES ASSUME Answered'
               PROVE  /\ Len(reply'.total) <= Target + 1
                      /\ reply'.width > Second =>
                             \A k \in DOMAIN Ladder : Ladder[k] < reply'.width =>
                                 (reply'.bounds.max_ms - reply'.bounds.min_ms)
                                     > Ladder[k] * Target
    BY DEF FewBuckets
<1> DEFINE g == Grid(bounds.min_ms, bounds.max_ms)
           c == BucketCounts(index, g.start, g.width, g.count, Ordinals(index))
<1>2. /\ bounds # None
      /\ reply'.width = g.width /\ reply'.bounds = bounds /\ reply'.total = c
      /\ Sound(index)
    BY <1>1, AnswerIs
<1>3. bounds.min_ms \in Int /\ bounds.max_ms \in Int
    BY <1>2 DEF Askable
<1>4. /\ g.start \in Int /\ g.width \in Nat \ {0} /\ g.count \in Nat \ {0}
      /\ g.count <= Target + 1
      /\ g.width > Second =>
             \A k \in 1..16 : Ladder[k] < g.width =>
                 (bounds.max_ms - bounds.min_ms) > Ladder[k] * Target
    BY <1>3, GridIs
<1> HIDE DEF g
<1>5. Len(c) = g.count
    BY <1>2, <1>4, BucketIs
<1>6. QED
    BY <1>2, <1>4, <1>5, LadderIs

(* What `buckets` answers is right, whichever span it is asked for. *)
AnswersRight == InOrderSoFar /\ EventsCountedOnce /\ FewBuckets /\ OutliersReported

LEMMA OfferedSpans ==
    ASSUME InOrderSoFar, NEW kind \in {"robust", "full"},
           NEW bounds, bounds # None => Spans(index, bounds), Buckets(kind, bounds)
    PROVE  AnswersRight'
<1>1. Askable(bounds)
    BY DEF Askable, Spans
<1>2. OutliersReported'
    <2>1. SUFFICES ASSUME Answered'
                   PROVE  /\ {reply'.bounds.min_ms, reply'.bounds.max_ms}
                                 \subseteq {e.ts : e \in Timed'}
                          /\ reply'.bounds.outlier_count =
                                 Cardinality({e \in Timed' :
                                     \/ e.ts < reply'.bounds.min_ms
                                     \/ e.ts > reply'.bounds.max_ms})
        BY DEF OutliersReported
    <2>2. bounds # None /\ reply'.bounds = bounds /\ index'.entries = index.entries
        BY <1>1, <2>1, AnswerIs
    <2>3. Timed' = TimedOf(index)
        BY <2>2 DEF Timed, TimedOf
    <2>4. QED
        BY <2>2, <2>3 DEF Spans
<1>3. QED
    BY <1>1, <1>2, AnswerCounts, AnswerFew, OrderBuckets DEF AnswersRight

LEMMA AskedSpans ==
    ASSUME InOrderSoFar, NEW bounds \in Span, Buckets("span", bounds)
    PROVE  AnswersRight'
<1>1. Askable(bounds)
    BY TimelineAssumption DEF Askable, Span
<1>2. OutliersReported'
    <2>1. asked' = "span"
        BY DEF Buckets
    <2>2. QED
        BY <2>1 DEF OutliersReported
<1>3. QED
    BY <1>1, <1>2, AnswerCounts, AnswerFew, OrderBuckets DEF AnswersRight

LEMMA AnswersInit == Init => AnswersRight
<1>1. Init => ~Answered
    BY DEF Init, Answered
<1>2. QED
    BY <1>1, OrderInit DEF AnswersRight, EventsCountedOnce, FewBuckets, OutliersReported

LEMMA AnswersStay == AnswersRight /\ [Next]_vars => AnswersRight'
<1>1. SUFFICES ASSUME AnswersRight, [Next]_vars PROVE AnswersRight'
    OBVIOUS
<1>2. InOrderSoFar /\ InOrderSoFar'
    BY <1>1, OrderStays DEF AnswersRight
<1>3. CASE UNCHANGED vars
    BY <1>1, <1>2, <1>3 DEF vars, AnswersRight, EventsCountedOnce, FewBuckets,
                            OutliersReported, Answered, Timed
<1>4. CASE reply' = None
    <2>1. ~Answered'
        BY <1>4 DEF Answered
    <2>2. QED
        BY <1>2, <2>1 DEF AnswersRight, EventsCountedOnce, FewBuckets, OutliersReported
<1>5. ASSUME NEW ts \in Times \union {None}, NEW joins \in BOOLEAN, Append1(ts, joins)
      PROVE  AnswersRight'
    BY <1>4, <1>5 DEF Append1
<1>6. ASSUME NEW n \in 1..2, Evict(n) PROVE AnswersRight'
    BY <1>4, <1>6 DEF Evict
<1>7. CASE Buckets("robust", RobustSpan(index))
    <2>1. RobustSpan(index) # None => Spans(index, RobustSpan(index))
        BY <1>2, RobustSpans DEF InOrderSoFar
    <2>2. QED
        BY <1>2, <1>7, <2>1, OfferedSpans
<1>8. CASE Buckets("full", FullSpan(index))
    <2>1. FullSpan(index) # None => Spans(index, FullSpan(index))
        BY <1>2, FullSpans DEF InOrderSoFar
    <2>2. QED
        BY <1>2, <1>8, <2>1, OfferedSpans
<1>9. ASSUME NEW span \in Span, Buckets("span", span) PROVE AnswersRight'
    BY <1>2, <1>9, AskedSpans
<1>10. QED
    BY <1>1, <1>3, <1>5, <1>6, <1>7, <1>8, <1>9 DEF Next

(* With it, whatever Session::buckets (session.rs) has answered is right.  *)
THEOREM AnswersHold == Spec => []AnswersRight
BY AnswersInit, AnswersStay, PTL DEF Spec

(* Session::buckets counts every event of the span in the one bucket that  *)
(* its time falls in, and nothing else: no line that continues an event,   *)
(* none that has left.                                                     *)
THEOREM CountedOnce == Spec => []EventsCountedOnce
BY AnswersHold, PTL DEF AnswersRight

(* pick_bucket_width_ms (bucket.rs) keeps the buckets few, at most one     *)
(* more than the target, and does not widen them without need.             *)
THEOREM BucketsAreFew == Spec => []FewBuckets
BY AnswersHold, PTL DEF AnswersRight

(* robust_span and full_span (index.rs) offer a span of retained entries   *)
(* and report how many of those it leaves out.                             *)
THEOREM OutliersAreReported == Spec => []OutliersReported
BY AnswersHold, PTL DEF AnswersRight

=============================================================================
