------------------------------ MODULE Timeline ------------------------------
(***************************************************************************)
(* The histogram over time: the ladder of bucket widths                    *)
(* (crates/looqlog-core/src/bucket.rs) and Session::buckets, over an index *)
(* that entries join and leave, with their times in any order.             *)
(***************************************************************************)
EXTENDS EntryIndex, FiniteSetsExt

CONSTANTS
    Times,        \* bound: the timestamps entries may carry
    SpanEnds,     \* bound: where the spans a client asks for begin and end
    Target,       \* TARGET_BUCKET_COUNT
    MaxEntries    \* bound: the entries appended

ASSUME TimelineAssumption ==
    /\ Times \subseteq Int
    /\ SpanEnds \subseteq Int
    /\ Target \in Nat \ {0}
    /\ MaxEntries \in Nat

VARIABLES
    index,
    next,     \* the next ordinal
    asked,    \* which span the last `buckets` call asked for
    reply     \* and what it answered; None once the index has changed

vars == <<index, next, asked, reply>>

Span == [min_ms : SpanEnds, max_ms : SpanEnds, outlier_count : {0}]

Minute == 60 * Second
Hour   == 60 * Minute
Day    == 24 * Hour

Ladder == <<Second, 5 * Second, 10 * Second, 30 * Second,
            Minute, 5 * Minute, 10 * Minute, 30 * Minute,
            Hour, 3 * Hour, 6 * Hour, 12 * Hour, Day,
            7 * Day, 30 * Day, 365 * Day>>

CeilDiv(a, b) == (a + b - 1) \div b

(* Slip: the rung below the one that fits. *)
Slip_PickBucketWidth(span_ms) ==
    LET span == IF span_ms < 1 THEN 1 ELSE span_ms
        fits == {i \in DOMAIN Ladder : span <= Ladder[i] * (Target + 1)}
    IN  IF fits # {} THEN Ladder[Min(fits)]
        ELSE Last(Ladder) * CeilDiv(span, Last(Ladder) * Target)

(* pick_bucket_width_ms: the smallest rung that fits, or a multiple of the *)
(* largest.                                                                *)
PickBucketWidth(span_ms) ==
    LET span == IF span_ms < 1 THEN 1 ELSE span_ms
        fits == {i \in DOMAIN Ladder : span <= Ladder[i] * Target}
    IN  IF fits # {} THEN Ladder[Min(fits)]
        ELSE Last(Ladder) * CeilDiv(span, Last(Ladder) * Target)

(* bucket_count_for_span *)
BucketCountForSpan(span_ms, width) ==
    LET n == CeilDiv(span_ms, width) IN IF n < 1 THEN 1 ELSE n

(* Slip: the grid starts at the first event, and ends before the last. *)
Slip_Grid(min_ms, max_ms) ==
    LET max   == IF max_ms <= min_ms THEN min_ms + Second \div 2 ELSE max_ms
        min   == IF max_ms <= min_ms THEN min_ms - Second \div 2 ELSE min_ms
        width == PickBucketWidth(max - min)
    IN  [start |-> min, width |-> width,
         count |-> BucketCountForSpan(max - min, width)]

(* The grid of Session::buckets: a single instant is padded, the start is  *)
(* aligned to a multiple of the width, and the end is inclusive.           *)
Grid(min_ms, max_ms) ==
    LET max   == IF max_ms <= min_ms THEN min_ms + Second \div 2 ELSE max_ms
        min   == IF max_ms <= min_ms THEN min_ms - Second \div 2 ELSE min_ms
        width == PickBucketWidth(max - min)
        start == (min \div width) * width
    IN  [start |-> start, width |-> width,
         count |-> BucketCountForSpan(max + 1 - start, width)]

-----------------------------------------------------------------------------
Init ==
    /\ index = NewIndex
    /\ next = 1
    /\ asked = "robust"
    /\ reply = None

(* The next line: an entry of its own, or one more of the event before it. *)
Append1(ts, joins) ==
    LET last == Last(index.entries)
        root == IF ~joins THEN None
                ELSE IF last.root = None THEN last.ordinal ELSE last.root
    IN  /\ next <= MaxEntries
        /\ joins => index.entries # <<>>
        /\ index' = AppendEntry(index,
                                [ordinal |-> next, root |-> root, ts |-> ts])
        /\ next' = next + 1
        /\ reply' = None
        /\ UNCHANGED asked

Evict(n) ==
    /\ n <= Len(index.entries)
    /\ index' = EvictFront(index, n)
    /\ reply' = None
    /\ UNCHANGED <<next, asked>>

(* Session::buckets of the client's span, of everything, or of the robust  *)
(* span, which leaves the index compacted.                                 *)
Buckets(kind, bounds) ==
    LET grid == Grid(bounds.min_ms, bounds.max_ms)
    IN  /\ reply = None
        /\ asked' = kind
        /\ index' = IF kind = "robust" THEN Compact(index) ELSE index
        /\ reply' = IF bounds = None THEN [start |-> None]
                    ELSE [start |-> grid.start, width |-> grid.width,
                          total |-> BucketCounts(index, grid.start, grid.width,
                                                 grid.count, Ordinals(index)),
                          bounds |-> bounds]
        /\ UNCHANGED next

Next ==
    \/ \E ts \in Times \union {None}, joins \in BOOLEAN : Append1(ts, joins)
    \/ \E n \in 1..2 : Evict(n)
    \/ Buckets("robust", RobustSpan(index))
    \/ Buckets("full", FullSpan(index))
    \/ \E span \in Span : Buckets("span", span)

Spec == Init /\ [][Next]_vars

-----------------------------------------------------------------------------
Timed == {e \in ToSet(index.entries) : e.ts # None}

(* What binary search relies on and what the counters claim: `sorted` is   *)
(* in time order, holds every retained entry that has a time once, and the *)
(* counters count those, whatever came out of order, left, or was          *)
(* compacted.                                                              *)
SortedAgrees ==
    /\ \A i, j \in DOMAIN index.sorted :
           i < j => index.sorted[i].ms <= index.sorted[j].ms
    /\ Live(index) = {[ms |-> e.ts, ordinal |-> e.ordinal] : e \in Timed}
    /\ IsInjective([i \in DOMAIN index.sorted |-> index.sorted[i].ordinal])
    /\ index.timestamped_live = Cardinality(Timed)
    /\ index.timestampless = Len(index.entries) - Cardinality(Timed)

(* Refs of entries that have left never are both many and a quarter of     *)
(* `sorted` after an eviction: memory follows what is retained.            *)
DeadBounded ==
    LET dead == Len(index.sorted) - index.timestamped_live
    IN  dead >= CompactMinDead => 4 * dead < Len(index.sorted)

(* A retained root lists exactly the retained entries that continue it.    *)
(* One that has left may get a list again, by a member that is still to    *)
(* come (append), and keeps it (ListsGoWithRoots in Views); but no list    *)
(* goes on naming an entry that has left as well (evict_front).            *)
ListsNameRetained ==
    LET Members(root) == {e.ordinal : e \in {m \in ToSet(index.entries) : m.root = root}}
    IN  /\ \A root \in Ordinals(index) : ToSet(MembersOf(index, root)) = Members(root)
        /\ \A root \in DOMAIN index.chain_members :
               ToSet(index.chain_members[root]) \subseteq Members(root)

Answered == reply # None /\ reply.start # None

(* Every event within the span that was asked for is in the one bucket     *)
(* that its time falls in: no bucket counts another's, an event that has   *)
(* left, or a line that continues an event.                                *)
EventsCountedOnce ==
    Answered =>
        /\ \A b \in DOMAIN reply.total :
               reply.total[b] = Cardinality({e \in Timed :
                   /\ ~IsChainMember(index, e.ordinal)
                   /\ e.ts >= reply.start + (b - 1) * reply.width
                   /\ e.ts < reply.start + b * reply.width})
        /\ reply.start <= reply.bounds.min_ms
        /\ reply.bounds.max_ms < reply.start + Len(reply.total) * reply.width

(* The timeline stays readable: the buckets are at most one more than      *)
(* asked for (the grid starts before the first event), and half as wide a  *)
(* rung would have given more.                                             *)
FewBuckets ==
    Answered =>
        /\ Len(reply.total) <= Target + 1
        /\ reply.width > Second =>
               \A i \in DOMAIN Ladder : Ladder[i] < reply.width =>
                   (reply.bounds.max_ms - reply.bounds.min_ms) > Ladder[i] * Target

(* The span offered is one of retained entries, although refs of evicted   *)
(* ones are around, and it trims no more than it says: the retained        *)
(* entries outside of it are exactly the outliers it reports.              *)
OutliersReported ==
    Answered /\ asked # "span" =>
        /\ {reply.bounds.min_ms, reply.bounds.max_ms} \subseteq {e.ts : e \in Timed}
        /\ reply.bounds.outlier_count =
               Cardinality({e \in Timed : \/ e.ts < reply.bounds.min_ms
                                          \/ e.ts > reply.bounds.max_ms})

=============================================================================
