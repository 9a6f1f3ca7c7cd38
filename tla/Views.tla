------------------------------- MODULE Views --------------------------------
(***************************************************************************)
(* The query side of a session (crates/looqlog-core/src/session.rs, "views"*)
(* and query.rs): one client's filters, search, range and toggled chains   *)
(* over entries that come and go, brought up to date the next time it asks *)
(* for anything. The entries behave as EntryFeed allows: lines are read    *)
(* one by one, the oldest leave, and all may be parsed anew.               *)
(***************************************************************************)
EXTENDS EntryIndex

CONSTANTS
    Line,       \* the lines the input may hold: see LineType
    Filter,     \* which field filters a query may carry: sets of levels
    Interval,   \* the time ranges a query may carry, as pairs, or None
    MaxLines,   \* how many lines a stream retains
    InputLines, \* bound: the lines of the input
    MaxQueries, \* bound: the queries
    MaxEpoch    \* bound: the re-parses

(* What a line is parsed to. `kind`: "stamped" carries a timestamp prefix, *)
(* "frame" continues the event before it, "blank" yields no entry. `hit`   *)
(* says where the search finds its text, if anywhere: the text of the      *)
(* message is highlighted, that of a field or a level only matches.        *)
LineType == [kind : {"stamped", "frame", "blank"}, ts : Int \union {None},
             level : {"error", "info", "none"},
             hit : {"message", "field", "none"}]

ASSUME ViewsAssumption ==
    /\ Line \subseteq LineType
    /\ Filter \subseteq SUBSET {"error", "info"}
    /\ MaxLines \in Nat \ {0}
    /\ {InputLines, MaxQueries, MaxEpoch} \subseteq Nat
    /\ \A range \in Interval \ {None} : range[1] \in Int /\ range[2] \in Int

VARIABLES
    index,
    raw,           \* the retained lines
    first_line,    \* the line number of the first of them
    plain,         \* whether the format in force has events of many lines
    chain,         \* the root of the event the parser has open, or None
    epoch, revision,
    view,
    queries        \* a bound

feed == <<index, raw, first_line, plain, chain, epoch, revision>>
vars == <<feed, view, queries>>

-----------------------------------------------------------------------------
(* The match set (query.rs). A predicate is its filter and whether there   *)
(* is a search; None means that everything matches.                        *)

MatchesFilters(e, pred) == pred.filter = {} \/ e.level \in pred.filter
MatchesQuery(e, pred)   == pred.search => e.hit # "none"
Trivial(pred)           == pred.filter = {} /\ ~pred.search

(* chain_matches: the filters decide on the root, the search on anyone. *)
ChainMatches(pred, i, root) ==
    /\ Has(i, root)
    /\ MatchesFilters(Get(i, root), pred)
    /\ \E o \in {root} \union ToSet(MembersOf(i, root)) :
           Has(i, o) /\ MatchesQuery(Get(i, o), pred)

LastOrdinal(i) == IF i.entries = <<>> THEN 0 ELSE Last(i.entries).ordinal

(* MatchSet::rebuild *)
Rebuild(pred, i) ==
    LET alone == {e \in ToSet(i.entries) : RootOf(i, e) = None}
        Chain(e) == {e.ordinal} \union ToSet(MembersOf(i, e.ordinal))
    IN  [predicate |-> pred, evaluated_upto |-> LastOrdinal(i),
         matching |->
            IF Trivial(pred) THEN {}
            ELSE UNION {Chain(e) : e \in {a \in alone :
                                     ChainMatches(pred, i, a.ordinal)}}]

(* Slip: a member that alone makes its chain match brings no one along. *)
Slip_Caught(pred, i, matching, e) ==
    LET root == RootOf(i, e)
    IN  IF root = None
        THEN IF MatchesFilters(e, pred) /\ MatchesQuery(e, pred)
             THEN matching \union {e.ordinal} ELSE matching
        ELSE IF root \in matching \/ ChainMatches(pred, i, root)
        THEN matching \union {e.ordinal} ELSE matching

(* What one appended entry adds: itself, or the whole chain it completes. *)
Caught(pred, i, matching, e) ==
    LET root == RootOf(i, e)
    IN  IF root = None
        THEN IF MatchesFilters(e, pred) /\ MatchesQuery(e, pred)
             THEN matching \union {e.ordinal} ELSE matching
        ELSE IF root \in matching THEN matching \union {e.ordinal}
        ELSE IF ChainMatches(pred, i, root)
        THEN matching \union {root} \union ToSet(MembersOf(i, root))
        ELSE matching

(* The loop of catch_up: the predicate and the index stay. *)
Catch(s, e) == [s EXCEPT !.matching = Caught(s.pred, s.index, @, e)]

(* MatchSet::catch_up: evicted ordinals leave, and what was appended since *)
(* is tested once.                                                         *)
CatchUp(set, i) ==
    LET live  == {o \in set.matching : IsLive(i, o)}
        from  == Cardinality({o \in Ordinals(i) : o <= set.evaluated_upto}) + 1
        fresh == SubSeq(i.entries, from, Len(i.entries))
        start == [pred |-> set.predicate, index |-> i, matching |-> live]
    IN  IF fresh = <<>> THEN [set EXCEPT !.matching = live]
        ELSE [set EXCEPT
                 !.evaluated_upto = LastOrdinal(i),
                 !.matching = IF Trivial(set.predicate) THEN live
                              ELSE FoldLeft(Catch, start, fresh).matching]

Passes(set, ordinal) == Trivial(set.predicate) \/ ordinal \in set.matching

-----------------------------------------------------------------------------
(* Views (session.rs). Vectors of ascending ordinals are sets here.        *)

NewView ==
    [pred |-> [filter |-> {}, search |-> FALSE], range |-> None,
     toggled |-> {}, epoch |-> None, revision |-> 0, match_set |-> None,
     base |-> {}, auto_expanded |-> {}, rows |-> {}]

InRange(i, range) ==
    IF range = None THEN Ordinals(i)
    ELSE {r.ordinal : r \in ToSet(RangeRefs(i, range[1], range[2]))}

(* View::visible_root *)
VisibleRoot(v, e) == IF e.root \in v.base THEN e.root ELSE None

IsExpanded(v, root) == (root \in v.auto_expanded) # (root \in v.toggled)

(* Slip: rows are folded below roots the view does not show. *)
Slip_Collapse(i, v) ==
    [v EXCEPT !.rows =
        {o \in v.base : Get(i, o).root # None => IsExpanded(v, Get(i, o).root)}]

(* Session::collapse *)
Collapse(i, v) ==
    [v EXCEPT !.rows =
        {o \in v.base : LET root == VisibleRoot(v, Get(i, o))
                        IN  root # None => IsExpanded(v, root)}]

(* Slip: events are expanded when the query is made, not as hits join. *)
Slip_AutoExpanded(i, v) ==
    IF v.auto_expanded # {} \/ ~v.pred.search THEN v.auto_expanded
    ELSE {VisibleRoot(v, Get(i, o)) :
              o \in {b \in v.base : Get(i, b).hit = "message"}} \ {None}

(* The roots with a member whose message the search found. *)
AutoExpanded(i, v) ==
    IF ~v.pred.search THEN {}
    ELSE {VisibleRoot(v, Get(i, o)) :
              o \in {b \in v.base : Get(i, b).hit = "message"}} \ {None}

(* Session::recompute_base *)
RecomputeBase(i, v) ==
    LET in == [v EXCEPT !.base = {o \in InRange(i, v.range) :
                                      Passes(v.match_set, o)}]
    IN  Collapse(i, [in EXCEPT !.auto_expanded = AutoExpanded(i, in)])

(* The match set after a refresh that has something to do. *)
MatchSetOf(v) ==
    IF v.epoch # epoch \/ v.match_set = None THEN Rebuild(v.pred, index)
    ELSE CatchUp(v.match_set, index)

Current(v) == v.epoch = epoch /\ v.revision = revision /\ v.match_set # None

(* Session::refresh *)
Refresh(v) ==
    IF Current(v) THEN v
    ELSE RecomputeBase(index, [v EXCEPT !.match_set = MatchSetOf(v),
                                        !.epoch = epoch,
                                        !.revision = revision])

-----------------------------------------------------------------------------
Init ==
    /\ index = NewIndex
    /\ first_line = 1
    /\ plain \in BOOLEAN
    /\ chain = None
    /\ epoch = 0
    /\ revision = 0
    /\ view = NewView
    /\ raw = <<>>
    /\ queries = 0

(* What the parser makes of line n with the event `open` before it. *)
Parsed(n, l, open) ==
    [ordinal |-> n, root |-> IF l.kind = "frame" THEN open ELSE None,
     ts |-> l.ts, level |-> l.level, hit |-> l.hit]

(* Slip: a line before any event continues the line above it. *)
Slip_Open(n, l, open, chained) ==
    CASE l.kind = "stamped" /\ chained -> n
      [] l.kind = "frame" -> IF open = None THEN n - 1 ELSE open
      [] OTHER -> None

(* The event that is open after line n. *)
Open(n, l, open, chained) ==
    CASE l.kind = "stamped" /\ chained -> n
      [] l.kind = "frame" -> open
      [] OTHER -> None

(* A line arrives and the oldest beyond the limit leaves: Session::absorb. *)
Arrive(l) ==
    LET n       == first_line + Len(raw)
        all     == IF l.kind = "blank" THEN index
                   ELSE AppendEntry(index, Parsed(n, l, chain))
        first   == IF Len(raw) = MaxLines THEN first_line + 1 ELSE first_line
        kept    == EvictBefore(all, first)
    IN  /\ n <= InputLines
        /\ raw' = SubSeq(Append(raw, l), first - first_line + 1, Len(raw) + 1)
        /\ chain' = Open(n, l, chain, plain)
        /\ first_line' = first
        /\ index' = kept
        /\ revision' = IF l.kind # "blank" \/ kept # all THEN revision + 1
                                                         ELSE revision
        /\ UNCHANGED <<plain, epoch, view, queries>>

(* The next line, l, of those that are parsed anew. *)
ParseNext(s, l) ==
    [s EXCEPT
        !.line = @ + 1,
        !.open = Open(s.line, l, @, s.plain),
        !.index = IF l.kind = "blank" THEN @
                  ELSE AppendEntry(@, Parsed(s.line, l, s.open))]

(* The retained lines parsed anew, under a format that has events of many  *)
(* lines or under one that has none: Session::set_format.                  *)
Reparse(chained) ==
    LET start == [line |-> first_line, open |-> None, plain |-> chained,
                  index |-> NewIndex]
        end   == FoldLeft(ParseNext, start, raw)
    IN  /\ epoch < MaxEpoch
        /\ plain' = chained
        /\ index' = end.index
        /\ chain' = end.open
        /\ epoch' = epoch + 1
        /\ revision' = revision + 1
        /\ UNCHANGED <<raw, first_line, view, queries>>

(* Session::set_query. One that does not compile only refreshes the view:  *)
(* see Ask. `toggled` is None when the client leaves it alone.             *)
SetQuery(filter, search, range, toggled) ==
    /\ queries < MaxQueries
    /\ queries' = queries + 1
    /\ view' = Refresh([view EXCEPT
                   !.pred = [filter |-> filter, search |-> search],
                   !.range = range,
                   !.toggled = IF toggled = None THEN @ ELSE toggled,
                   !.match_set = None])
    /\ UNCHANGED feed

(* counts, window, locate, entry, buckets, a query that does not compile. *)
Ask ==
    /\ view' = Refresh(view)
    /\ UNCHANGED <<feed, queries>>

(* Session::toggle_chain *)
ToggleChain(root) ==
    LET v == Refresh(view)
    IN  /\ queries < MaxQueries
        /\ queries' = queries + 1
        /\ view' = Collapse(index, [v EXCEPT !.toggled =
                       IF root \in @ THEN @ \ {root} ELSE @ \union {root}])
        /\ UNCHANGED feed

Next ==
    \/ \E l \in Line : Arrive(l)
    \/ \E chained \in BOOLEAN : Reparse(chained)
    \/ \E filter \in Filter, search \in BOOLEAN, range \in Interval,
          toggled \in {None, {}} : SetQuery(filter, search, range, toggled)
    \/ Ask
    \/ \E root \in view.rows : ToggleChain(root)

Spec == Init /\ [][Next]_vars

-----------------------------------------------------------------------------
(* The two records of an event agree: a retained root lists, in order,     *)
(* exactly the retained entries that say they continue it, whatever was    *)
(* appended, evicted or parsed anew since.                                 *)
ListsAgree ==
    \A root \in Ordinals(index) :
        LET list == MembersOf(index, root)
        IN  /\ ToSet(list) = {e.ordinal : e \in {m \in ToSet(index.entries) :
                                                  m.root = root}}
            /\ \A j, k \in DOMAIN list : j < k => list[j] < list[k]

Orphan(e) == e.root # None /\ RootOf(index, e) = None

(* What Predicate says of an entry: the filters decide on the root of its  *)
(* event, the search on any line of it, and an orphan is on its own.       *)
Matches(e) ==
    LET root  == IF RootOf(index, e) = None THEN e.ordinal ELSE e.root
        event == {m \in ToSet(index.entries) :
                     m.ordinal = root \/ RootOf(index, m) = root}
    IN  /\ MatchesFilters(Get(index, root), view.pred)
        /\ \E m \in event : MatchesQuery(m, view.pred)

Within(e) ==
    view.range # None =>
        e.ts # None /\ view.range[1] <= e.ts /\ e.ts < view.range[2]

(* A view that is up to date has exactly the retained entries that match   *)
(* now, as if it had been computed afresh: testing only what was appended, *)
(* and only once, forgets no event that a later line completes, and keeps  *)
(* nothing that has left or was parsed anew. Orphans excepted.             *)
BaseExact ==
    Current(view) =>
        /\ view.base \subseteq Ordinals(index)
        /\ \A e \in ToSet(index.entries) :
               ~Orphan(e) =>
                   (e.ordinal \in view.base <=> Matches(e) /\ Within(e))

(* The comment of Predicate (query.rs:240-243): an entry outside a chain,  *)
(* "including an orphaned member", is tested against both halves.          *)
OrphansStandAlone ==
    Current(view) =>
        \A e \in ToSet(index.entries) :
            Orphan(e) =>
                (e.ordinal \in view.base <=> Matches(e) /\ Within(e))

(* The comment in evict_front (index.rs:150-151): a root's member list     *)
(* goes with it.                                                           *)
ListsGoWithRoots == DOMAIN index.chain_members \subseteq Ordinals(index)

(* Session::row: how many lines the event of a row has in the view. *)
ChainSize(v, e) ==
    LET members == {o \in ToSet(MembersOf(index, e.ordinal)) : o \in v.base}
    IN  IF VisibleRoot(v, e) # None \/ e.ordinal \notin v.base \/ members = {}
        THEN 0 ELSE Cardinality(members) + 1

(* No line that matches is out of reach: it is a row, or it is folded      *)
(* under a row that is its root, that can be expanded, and whose count     *)
(* says how many lines are folded.                                         *)
NothingOutOfReach ==
    Current(view) =>
        /\ view.rows \subseteq view.base
        /\ \A o \in view.base \ view.rows : Get(index, o).root \in view.rows
        /\ \A o \in view.rows :
               LET folded == {m \in view.base \ view.rows :
                                 Get(index, m).root = o}
               IN  folded # {} =>
                       /\ ChainSize(view, Get(index, o)) = 1 + Cardinality(folded)
                       /\ ~IsExpanded(view, o)

(* A line whose message the search found is shown, even one that came      *)
(* after the query, unless the client folded its event itself.             *)
HitsShown ==
    Current(view) /\ view.pred.search =>
        \A o \in view.base :
            LET e == Get(index, o)
            IN  e.hit = "message" /\ e.root \notin view.toggled =>
                    o \in view.rows

(* The entries, each with the line it was read from. *)
WithLines(i, lines, first) ==
    [k \in DOMAIN i.entries |->
        [ordinal |-> i.entries[k].ordinal, root |-> i.entries[k].root,
         data |-> lines[i.entries[k].ordinal - first + 1]]]

Feed == INSTANCE EntryFeed WITH entries <- WithLines(index, raw, first_line)

(* The entries views are computed from come and go as a session's do. *)
IsFed == Feed!Spec

=============================================================================
