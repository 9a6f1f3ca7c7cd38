----------------------------- MODULE EntryIndex -----------------------------
(***************************************************************************)
(* The time-ordered index over a session's entries                         *)
(* (crates/looqlog-core/src/index.rs). An index is a record and an         *)
(* operation takes one and yields another.                                 *)
(*                                                                         *)
(* An entry is a record with an ordinal (its line), a root (the ordinal    *)
(* its event starts at, or None), a ts (or None), and whatever else its    *)
(* user tells entries apart by. Times count ticks of half a second, the    *)
(* finest the code's constants distinguish.                                *)
(***************************************************************************)
EXTENDS Integers, FiniteSets, SequencesExt

CONSTANTS
    None,            \* the absent value of an Option
    CompactMinDead   \* COMPACT_MIN_DEAD

ASSUME IndexAssumption ==
    /\ None \notin Int
    /\ CompactMinDead \in Nat \ {0}

Second == 2

NewIndex ==
    [entries |-> <<>>, sorted |-> <<>>, timestamped_live |-> 0,
     timestampless |-> 0, chain_members |-> << >>]

Ordinals(index) == {index.entries[i].ordinal : i \in DOMAIN index.entries}

(* The first retained ordinal; beyond every ordinal when there is none. *)
IsLive(index, ordinal) ==
    index.entries # <<>> /\ ordinal >= Head(index.entries).ordinal

Live(index) == {r \in ToSet(index.sorted) : IsLive(index, r.ordinal)}

(* lower_bound and upper_bound: how many refs are before (up to) ms. *)
LowerBound(sorted, ms) == Cardinality({i \in DOMAIN sorted : sorted[i].ms < ms})
UpperBound(sorted, ms) == Cardinality({i \in DOMAIN sorted : sorted[i].ms <= ms})

(* Slip: a timestamp out of order goes to the end like any other. *)
Slip_Placed(sorted, r) == Append(sorted, r)

(* Where a ref joins `sorted`: at the end, unless its time is out of order. *)
Placed(sorted, r) ==
    IF sorted = <<>> \/ r.ms >= Last(sorted).ms THEN Append(sorted, r)
    ELSE InsertAt(sorted, LowerBound(sorted, r.ms) + 1, r)

MembersOf(index, root) ==
    IF root \in DOMAIN index.chain_members THEN index.chain_members[root]
                                           ELSE <<>>

With(members, root, list) ==
    [r \in DOMAIN members \union {root} |->
        IF r = root THEN list ELSE members[r]]

Without(members, root) == [r \in DOMAIN members \ {root} |-> members[r]]

(* The lists once e, which has a root, has joined. *)
Listed(index, e) ==
    With(index.chain_members, e.root,
         Append(MembersOf(index, e.root), e.ordinal))

(* EntryIndex::append *)
AppendEntry(index, e) ==
    LET stamped == IF e.ts = None THEN 0 ELSE 1
    IN  [index EXCEPT
            !.entries = Append(@, e),
            !.sorted = IF e.ts = None THEN @
                       ELSE Placed(@, [ms |-> e.ts, ordinal |-> e.ordinal]),
            !.timestamped_live = @ + stamped,
            !.timestampless = @ + 1 - stamped,
            !.chain_members = IF e.root = None THEN @ ELSE Listed(index, e)]

(* Slip: only a root that is retained has a list to leave. *)
Slip_Forget(members, e) == Without(members, e.ordinal)

(* The lists once e has left: its own goes with it, and it leaves the list *)
(* of its root.                                                            *)
Forget(members, e) ==
    LET rest == Without(members, e.ordinal)
    IN  IF e.root \in DOMAIN rest
        THEN [rest EXCEPT ![e.root] = SelectSeq(@, LAMBDA o : o # e.ordinal)]
        ELSE rest

(* The body of the loop of evict_front. *)
PopFront(index, e) ==
    LET stamped == IF e.ts = None THEN 0 ELSE 1
    IN  [index EXCEPT
            !.entries = Tail(@),
            !.timestamped_live = @ - stamped,
            !.timestampless = @ - 1 + stamped,
            !.chain_members = Forget(@, e)]

(* Of some refs, those whose entries are retained: they are picked one by  *)
(* one into the `sorted` of an index that has none.                        *)
KeepRef(index, r) ==
    IF IsLive(index, r.ordinal) THEN [index EXCEPT !.sorted = Append(@, r)]
                                ELSE index

Retained(index, refs) ==
    FoldLeft(KeepRef, [index EXCEPT !.sorted = <<>>], refs).sorted

(* Slip: the refs of entries that have left stay. *)
Slip_Compact(index) == index

(* EntryIndex::compact *)
Compact(index) ==
    IF Len(index.sorted) = index.timestamped_live THEN index
    ELSE [index EXCEPT !.sorted = Retained(index, @)]

(* EntryIndex::evict_front: refs of evicted entries are compacted away     *)
(* only when they are many and a quarter of the whole.                     *)
EvictFront(index, count) ==
    LET popped == FoldLeft(PopFront, index, SubSeq(index.entries, 1, count))
        dead   == Len(popped.sorted) - popped.timestamped_live
    IN  IF dead >= CompactMinDead /\ 4 * dead >= Len(popped.sorted)
        THEN Compact(popped) ELSE popped

(* EntryIndex::evict_before *)
EvictBefore(index, ordinal) ==
    EvictFront(index, Cardinality({o \in Ordinals(index) : o < ordinal}))

(* EntryIndex::get *)
Has(index, ordinal) == ordinal \in Ordinals(index)
Get(index, ordinal) ==
    index.entries[CHOOSE i \in DOMAIN index.entries :
                      index.entries[i].ordinal = ordinal]

(* EntryIndex::root_of: a member whose root was evicted has none. *)
RootOf(index, e) ==
    IF e.root # None /\ IsLive(index, e.root) THEN e.root ELSE None

IsChainMember(index, ordinal) ==
    Has(index, ordinal) /\ RootOf(index, Get(index, ordinal)) # None

(* range_refs, range_ordinals: the retained refs in [start_ms, end_ms). *)
RangeRefs(index, start_ms, end_ms) ==
    Retained(index, SubSeq(index.sorted, LowerBound(index.sorted, start_ms) + 1,
                           LowerBound(index.sorted, end_ms)))

(* EntryIndex::bucket_counts of entries in `keep`: events, not lines. *)
BucketCounts(index, start_ms, bucket_ms, bucket_count, keep) ==
    LET end_ms == start_ms + bucket_ms * bucket_count
        refs   == RangeRefs(index, start_ms, end_ms)
        events == {i \in DOMAIN refs : /\ refs[i].ordinal \in keep
                                       /\ ~IsChainMember(index, refs[i].ordinal)}
    IN  [b \in 1..bucket_count |->
            Cardinality({i \in events :
                (refs[i].ms - start_ms) \div bucket_ms = b - 1})]

SmallerOf(a, b) == IF a <= b THEN a ELSE b

(* Tukey's fence around the quartiles of some refs, or a second around a   *)
(* single instant.                                                         *)
Fence(s) ==
    LET n    == Len(s)
        q1   == s[n \div 4 + 1].ms
        q3   == s[SmallerOf((n * 3) \div 4, n - 1) + 1].ms
        iqr  == q3 - q1
        pad  == IF iqr = 0 THEN Second ELSE iqr + iqr \div 2
        low  == LowerBound(s, q1 - pad)
        high == UpperBound(s, q3 + pad)
    IN  IF n = 0 THEN None
        ELSE [min_ms |-> s[SmallerOf(low, n - 1) + 1].ms,
              max_ms |-> s[high].ms, outlier_count |-> n - (high - low)]

(* Slip: refs that have left are not compacted away first. *)
Slip_RobustSpan(index) == Fence(index.sorted)

(* EntryIndex::robust_span, of the index that it compacts first. *)
RobustSpan(index) == Fence(Compact(index).sorted)

(* EntryIndex::full_span, over the retained refs. *)
FullSpan(index) ==
    LET s == Retained(index, index.sorted)
    IN  IF s = <<>> THEN None
        ELSE [min_ms |-> Head(s).ms, max_ms |-> Last(s).ms,
              outlier_count |-> 0]

=============================================================================
