# looqlog in TLA+

A TLA+ model of looqlog, the local log viewer: one process that reads log files
and stdin, accepts uploads, and serves each of them to browser tabs over a
WebSocket. The modules say what the process does between two holds of a lock,
TLC checks them on small instances, and TLAPS proves what matters most for
every instance.

Paths are relative to the repository. `looqlog/` stands for `crates/looqlog/src/`
and `core/` for `crates/looqlog-core/src/`.

## The system

| Component | State | Operations | Interacts with |
|---|---|---|---|
| Registry (`looqlog/source.rs`) | entries with retained bytes, tab count and `orphaned_since`; `gone` | add, attach, detach, record, charge, upload_done, close, sweep, remove | everything below, through one mutex; locks a source while it removes one |
| Source and its reader (`source.rs`, `stdin.rs`) | session, `error`, `ended`, `closed`, behind a mutex of its own | read, ingest, finish; the detection hold | charges or records with the registry after releasing the source |
| Upload handler (`looqlog/server.rs`) | the partial source and its drop guard | first chunk, chunk, end of body, failure, cancellation | source, then registry; never both |
| Tab connection (`server.rs`) | `Conn`, the `Tab` guard, what was sent | auth, attach, query, window, set_format, tick, drop | source; registry on attach, drop and set_format |
| Landing connection (`server.rs`) | the rows last sent | tick, close | registry, and through `rows` every source |
| Sweeper (`looqlog/main.rs`) | none | every 30 s | registry |
| Session (`core/session.rs`) | parser, index, raw lines, pending line, epoch, revision; one `View` per tab | ingest, finish, force_detection, set_format, set_query, window, toggle_chain | owned by a source |
| Parser (`core/parser.rs`, `core/parsers/`, `core/detect.rs`) | sample or format, pending bytes, line number, open chain | feed, finish, force_detection | owned by a session |
| Index and match set (`core/index.rs`, `core/query.rs`) | entries, sorted keys, chain members; matching ordinals | append, evict, range, buckets; rebuild, catch up | read by views |
| Web client (`web/src/`) | socket, pending requests, generation, toggles, counts, rows | request, reply, notification, reconnect | the server, over one ordered socket |

### What is hard

* Several threads and tasks share the registry and the sources, in two levels
  of locking. A number is read under one lock and used under another; a source
  is removed while its reader, its upload handler and its tabs still hold it.
* An upload can fail at every await, including by the client going away.
* Uploads belong to tabs, and tabs come and go at any time: before the upload is
  complete, while it is being removed, after it is gone.
* Views are caught up lazily, many appends, evictions and re-parses later.
* The client reconnects, and replies may belong to a query it has left.

### What makes each component correct

* Registry: a source that a tab shows is never unloaded; an upload that none
  shows is, in the end; what is removed stays removed, for one reason, and holds
  no memory; the budget counts what is there and is enforced.
* Upload: it is refused without leaving anything, or accepted and owned by tabs.
* Tab: it learns, once, that its source is gone.
* Session: every retained entry has its own line, whatever was evicted, held or
  re-parsed.
* Index, match set, view: what they answer is what a computation from scratch
  over the retained entries would answer.
* Line parsers: a line means the same whatever came before it, nothing of it is
  lost, and it belongs to an event exactly if it continues it.
* Client: no reply or row of another query is stored; every request ends; a tab
  comes to show what its source holds, the landing what the registry holds.

## Plan

Done: the registry with its refinement and proofs, its accounts and its budget;
lines and entries (`Parser`, `Session`) with the proofs of all their invariants and
of the feed they promise; the index, the timeline and the views with the proofs of
all of theirs, the same feed among them; the text of a line (`Timestamps`, `LineParsers`, `Lines`); a tab with
its connection and the landing with its locks, both with proofs.

Left: proofs about `Lines`. Why they come last is under *What is only model-checked*.

## Modules

| Module | Models |
|---|---|
| `SourceRegistry` | the registry, the readers, the upload handlers, the tabs' connections and the sweeper, one step per hold of a lock |
| `SourceLifecycle` | the promise of ADR-0011 on the life of a source, which `SourceRegistry` implements |
| `MCSourceRegistry` | symmetry for TLC |
| `SourceRegistry_proofs` | the theorems on `SourceRegistry` |
| `Parser` | the incremental parser of one source, as operators on a record |
| `Session` | raw lines, the line still arriving, the entries: ingest, end, detection hold, eviction, re-parse |
| `LeftFolds` | induction over the naturals, and the laws of `FoldLeft` for any step |
| `Session_proofs` | what the parser makes of any lines, and the theorems on `Session` |
| `EntryFeed` | what a session promises the views: `Session` implements it, and the entries of `Views` behave as it says |
| `EntryIndex` | `index.rs`, as operators on a record: entries, sorted refs, chain members |
| `Index_proofs` | what appending, evicting and compacting keep, for entries at any times |
| `Timeline` | bucket widths (`bucket.rs`) and `Session::buckets` over an index with times in any order |
| `Timeline_proofs` | the theorems on `Timeline` |
| `Views` | the query side of a session: match set, range, expansion, toggles |
| `Views_proofs` | the theorems on `Views` |
| `MCViews` | the lines of its instances |
| `Timestamps` | `timestamp.rs`: shapes, the sticky hint, zones, inferred years |
| `LineParsers` | the formats: from a line to its timestamp, level, message and fields |
| `Lines` | lines one after the other: what the context and the open event carry over |
| `MCLines` | the sample lines, zones and hours of its instances |
| `Tab` | one tab: the server's connection, the socket, and the client behind it |
| `Tab_proofs` | the theorems on `Tab` |
| `Landing` | the landing's list and every lock it is read under |
| `Landing_proofs` | the theorems on `Landing` |

`Session` and `Views` meet at `EntryFeed` and not in one module: the states of a
parser that cuts bytes and those of a view multiply, and neither looks at the
other except through the entries, the epoch and the revision. `Tab` takes from
`Views` that a view answers what is right at the time, and is about when it is
asked and what becomes of the answer.

### SourceRegistry

| Variables | Code |
|---|---|
| `sources`, `retained`, `tabs`, `orphaned_since`, `gone` | the fields of `Registry` and `Entry` |
| `closed`, `error` | `Source::closed`, `Source::error` |
| `held`, `finished` | `Session::retained_bytes()`, `Session::is_finished()` |
| `pc`, `measured` | where a reader thread or upload handler is, and its local `retained` |
| `conn`, `guard`, `shown`, `told` | where `serve_source` is, the id of its `Tab` guard, `Conn::source`, `closed` messages sent |
| `rebook` | the local `retained` of a `set_format` request |
| `now` | `Instant::now()` |

Reader threads: `ArgvRead` (or `ArgvStop` when closed), `ArgvCharge`, then
`ArgvSettle` or `ArgvGiveUp`; `StdinRead`, `StdinRecord`, `DetectionHold`.
Upload handlers: `UploadBegin`, `UploadChunk`, `UploadCharge`, and back to the
next chunk, or `UploadEnd`, `UploadAccept`; every failure goes to `DropPartial`,
which is `PartialUpload::drop`. `UploadAbort` exists only where the handler
awaits, since only there can it be cancelled. Tabs: `Attach`, `Detach`,
`Notify`, and `SetFormat`, `Measure`, `Rebook`, the three holds of a set_format
request. `Close`, `Sweep` and `Tick` are the rest.

`Remove` takes several ids: a charge or a sweep removes one after the other
under one hold of the registry lock, and nobody sees the registry in between. It
takes the source's lock inside; whoever held it has finished its step before.
(`Landing` has these locks apart.) `IsEvicted` says which uploads a charge
unloads (the oldest orphans, no more than it takes) without repeating the loop.

Abstractions. A session is the number of bytes it retains; a chunk adds any
number of them up to `MaxHeld`, and only stdin, which has a line limit, ever
loses some on ingest. An id is created at most once: ids are random and never
handed out again (`Registry::new_id`). The cap on the size of a file or a body
is part of `UploadAbort`. A session that is replaced when its source is removed
is `held = 0`.

The operators named `Slip_...`, here and in the other modules, are not part of
the system: each is one of its operations with a plausible mistake, and shows
that the property it is paired with in `PROJECT.json` would notice.

### Parser, Session, EntryFeed

| Variables | Code |
|---|---|
| `raw`, `raw_bytes`, `first_line`, `evicted_lines`, `pending`, `finished`, `detection_forced`, `epoch`, `revision` | the fields of `Session` |
| `parser` | `Parser`: `format` (`None` is `State::Sampling`), `sample`, `pending_bytes`, `line_no`, counters, `chain`; `out` is what a call returns |
| `entries` | `EntryIndex::entries`, each with its ordinal `line`, its text and `continuation_of` as `root` |
| `log`, `line` | the input: the kind of each line, and where it has been read to |

`Ingest`, `Finish`, `ForceDetection` and `SetFormat` are the methods of the same
names; each is one hold of the source's lock. All but the last end in `Absorb`,
which is `absorb` with `evict`. The session cuts lines on its own and so does the
parser, each with its own unfinished line; both are in the model.

A byte carries the line it came from, so that a text put together from the wrong
pieces or numbered wrongly shows. What the grammars recognise of a line is its
kind. `buffered_all` holds the same lines as `sample` and is not kept twice. The
notice of an unparsable timestamp is like that of an encoding fallback: counted,
and no line lost. A source is removed by replacing its session by a new one,
which is `Init`; `SourceRegistry` covers when.

`EntryFeed` has the entries in input order, with every event in one piece. They
join at the end and leave at the front (`Advance`) until everything is parsed
anew (`Restart`); `epoch` tells the two apart and `revision` tells that either
happened. A view that relied on more would be wrong some day.

### EntryIndex, Timeline, Views

| Variables | Code |
|---|---|
| `index` | `EntryIndex`: `entries`, `sorted`, `timestamped_live`, `timestampless`, `chain_members` |
| `asked`, `reply` (`Timeline`) | the last `Session::buckets` call and its answer |
| `view` (`Views`) | `View`: query, range, `toggled`, `match_set`, `base`, `auto_expanded`, `rows`, `epoch`, `revision` |
| `raw`, `first_line`, `epoch`, `revision`, `chain` (`Views`) | the session's and its parser's, as far as entries depend on them |

`AppendEntry`, `EvictFront`, `Compact`, `BucketCounts`, `RobustSpan` are the
methods of the index. In `Views`, `SetQuery`, `ToggleChain` and `Ask` (window,
counts, locate, entry) all begin with `Refresh`, as the methods do; `Arrive` and
`Reparse` change the entries beneath. Vectors of ascending ordinals are sets.
An entry says whether the search finds it and whether in its message (which is
what expands an event) or only in a field.

### Timestamps, LineParsers, Lines

A line is a sequence of lexemes: runs of digits, month names, `key=value` pairs,
JSON objects, pieces of text. `ExtractLeading` is `extract_leading` with every
shape in its order, the window it is looked for in, and the sticky hint with its
count of misses. `ParsePlain`, `ParseJson` and `ParseLogfmt` are the parsers.
`Lines` reads one line after the other: `ctx` is `ParseContext`, `chain`
`ChainState`, and `clock` is the time at which the next line is written.

An instant is a number of hours and every month has 31 days: zones, years and
their turns are all that decides anything. A zone has one transition. The clock that
stamps the lines may be changed `late`; it then shows the hour that the zone leaves
out, which `resolve` reads with the offset before the transition.

`NothingLost` is exact for a line without a payload: its message is the words in front
of the timestamp and those behind it, in order, less the one token that was read as
the level (`Unread`).

### Tab

| Variables | Code |
|---|---|
| `src` | the source: which lines are retained, `epoch`, `revision`, `closed` |
| `conn` | `Conn`: what it serves, its view, and `Sent`, what was last pushed |
| `c2s`, `s2c` | the socket |
| `client` | `QueryClient` (state, pending), `ViewSession` (generation, toggled, applied, counts), `LooqlogEntryTable` (cache, frame) and `LooqlogLiveTail` (dirty, following, gone) |

`Authenticate`, `Serve` and `Notify` are the branches of `serve_source`,
`Receive` is `QueryClient.handle` with what its callers do next, `Frame` and
`TickTableRender` are the page's timers, `Drop` and `Open` a lost connection and
the next one. `latest` stands for `querySeq` and `fetchSeq`, which tell the
latest request of a type from earlier ones. Where a tab scrolls to is left out:
the table holds all its rows. `TogglesAgree` compares what the server will have
toggled once it has read the wire (`ToggledThere`) with what the page will have once
it is answered (`ToggledHere`), whatever is on its way. `behind` records, for `CatchesUp`, that the table was
redrawn to follow the tail after it last fetched: the case that `follow` is about.

### Landing

| Variables | Code |
|---|---|
| `order`, `gone`, `size` | `Registry::order`, `Registry::gone`, the size of each session |
| `registry`, `lock` | who holds the registry's lock, and each source's |
| `job` | where a reader, a sweep or a page request is |
| `snap`, `loop` | `Registry::rows` on its blocking thread; `serve_landing`, what it sent last, the close it is at |
| `up`, `down`, `page` | the socket; `LandingState` and the pending requests of its client |

`Tick`, `ReadRow`, `RowsRead`, `SendRows` are one tick of the list, `NextRequest`
and `Closed` a close, `Closes` a removal by a worker: the registry's lock first,
then the source's. Which source a charge or a sweep takes is `SourceRegistry`'s
matter; here it is any. Reading the code for this module settled one doubt:
`if let Err(..) = state.registry().charge(..)` keeps the registry's guard through
its body, but the drop of `PartialUpload`, which locks again, comes after it.

## Runs

| Run | Instance | Shows |
|---|---|---|
| `uploads` | 2 uploads, 2 tabs, budget 1, grace 1, 3 instants | tab counts, grace periods, refusals and removals in every order; what is retained is counted; `SourceRegistry` implements `SourceLifecycle` |
| `mixed` | a file, stdin, an upload, a tab that sets formats | the inductive invariant of the proofs: a closed source stays empty, a refused one leaves nothing, a tab is told once |
| `live` | a file, an upload, a tab, fair threads and timers | orphans are unloaded, tabs are told, readers of closed files stop, the budget is exceeded only while somebody is being stopped for it |
| `stream` | stdin, 4 lines of 4 kinds, 2 retained, sample of 3, events of a root and one line, one re-parse | lines keep their number, entry and event; held lines appear; `Session` implements `EntryFeed` |
| `file` | 5 lines of 5 kinds, sample of 2, events of a root and two lines, one re-parse | events up to the cap and beyond |
| `timeline` | 5 entries at 3 times, in any order, two spans | refs stay sorted and sparse; lists name what is retained; every event is counted once, in its bucket; a few buckets |
| `views` | 3 retained of 4 lines of 5 kinds, 2 queries, 1 re-parse | a view that is caught up shows what a view from scratch would; no matching line is out of reach |
| `tab` | 2 retained of 3 lines, 2 acts of the user, another tab or the network | every request is answered once; no stale row is stored; both sides toggle the same chains; the tab catches up; a closed source is shown |
| `lines` | 25 forms of lines within an hour; 8 of them over 4 hours around a new year in 3 zones | the hint changes nothing; events are exact; lines are dated right; nothing is lost |
| `landing` | 2 uploads, a worker, one lost connection | nobody waits for a lock for ever; no closed source is listed again; the list catches up |
| `follow` | 1 retained of 2 lines, nobody acts | violated: see below |
| `years` | 8 forms of lines over 4 hours, read live | violated: see below |

Further instances are kept beside the runs: `RegistryBudget.cfg` (a file and two
uploads that each can fill the budget: half a million states, no error),
`TabBad.cfg` (searches that do not compile among the others: requests are answered
and no stale rows stored there either), `TabToggles.cfg` (five million states, no error), and one for each of the disagreements
below that are not a run.

Bounds. Two uploads are enough for one to evict, race or be confused with the
other; two tabs for a first and a last one. `Budget = 1`, `MaxHeld = 1` makes any
two non-empty sources exceed it, and in `RegistryBudget.cfg` and `live` one
source alone can. Grace 1 with three instants has an upload before, at and after
the end of its grace. `mixed` has `Grace = 0`: what the sweeper may take goes at once.

For a session, `stream` has a sample that is longer than what is retained, so the
hold can release a line that has left, and one line more than the sample; a
chunk of three bytes can end a line, hold a whole one and begin the next. The
lines of `file` are one more than a root with all its frames and one beyond. The
contents of the input are chosen in `Init` from all there are.

The times of `timeline` are zero, five seconds and six years: neighbours in a grid
of seconds, and further apart than the ladder covers; a span may begin or end
half a second into a bucket. Two dead refs make a compaction possible while others
remain. In `views`, a root, two members
and a line behind them are retained and one line leaves: a root without its
members, members without a root, and a member that joins after its root has
gone. Two queries let the second meet what the first left. The lists of roots
that have left are looked at in `timeline`, where any number may leave at any time.

`tab` retains two lines of three, so that a new line evicts one and a count
stays as it was; two acts suffice for a query behind a query, a toggle behind a
query, a re-parse or a lost connection in the middle of either. `MaxInFlight`
delays a server whose client is slow; `MaxPending` delays the page's timers. Two
retained lines can be one event, which can be toggled. In `TabToggles.cfg` a third act
has a toggle, a query and a lost connection in one behaviour.
`landing` needs two rows for one to go while the other is read, and one worker
beside the loop and the thread that reads rows. `lines` has `MaxChainLines = 2`,
`StickyMissLimit = 1` and a window of six lexemes: each limit is hit and passed. Its
zones have a gap and a repeated hour, and its clocks are changed on time or an hour late,
so that a line can bear a time that the zone leaves out.

Fairness. `live`: weak fairness of a reader of a file (a disk read returns), of an
upload handler between two awaits, of stdin's recording, of a tab's tick (a
100 ms interval), of the sweeper (a 30 s interval) and of the clock. `stream`:
of the detection hold (a 100 ms interval) and nothing else: a stream may stop
anywhere, also within a line. `tab`: of the connection's loop and its interval,
of the socket, of the reconnect timer, the next frame and the redraw timer.
`landing`: every thread that has begun a piece of work goes on (weak); a lock that
comes free again and again is had at last (strong, for the tick and for the
worker: between two ticks of 100 ms a mutex is free nearly all the time); and a
waiting request or a closed socket is taken at last (strong: `select!` polls its
branches in random order). Nothing is assumed of users, of clients sending chunks,
of networks, or of the program behind stdin.

Deadlock is checked in the registry's runs and in `lines`. Elsewhere the system
may stop: the input ends, the bounds are used up, and everybody is served. In
`landing`, where a deadlock of locks is the question, one would keep the list
from catching up, which `ListCatchesUp` excludes.

### Where the documents and the code differ

Two of them are runs:

* `follow`. A tab that follows the tail redraws with `scrollToBottom()` alone,
  without the refresh its comment asks for. Once a stream is at its line limit
  the number of rows no longer grows, no row is missing from the cache, and
  nothing is fetched: the table stands still while lines come.
* `years`. A source takes the current time once, when it is opened. A line
  without a year that a stream delivers later is after that time, and is dated a
  year back, although README.md describes the clock of the machine.

Seven have a configuration of their own, under which TLC refutes the property
named in `PROJECT.json`:

* `RegistryArriving.cfg`. `Registry::detach` starts the grace period of an upload
  that is still arriving; `source.rs` and the devlog say such an upload has none
  and is never a candidate. A tab that opens one and leaves makes it one.
* `RegistryRefusal.cfg`. README.md:166 says a failed upload touches no other
  source. A charge unloads orphans one after the other and may then still refuse:
  finished uploads are gone for an upload that is not accepted either.
* `RegistryReformat.cfg`. The size that a `set_format` records may be older than
  the one the reader recorded in between. When the reader is done, nobody
  corrects it: the budget goes on counting bytes that are not there, or not
  counting some.
* `SessionTotals.cfg`. The comments on `finish_entry` and `total_lines` add
  `diagnostics.total()` to the entries and blank lines. Notices about lines that
  did become entries are in it too, so the sum exceeds the lines. What does hold
  is `LinesAccounted`, which counts malformed lines only.
* `ViewsOrphans.cfg`. When the root of an event is evicted, its members keep the
  verdict they got with it; the comment in `query.rs` has them tested on their
  own. The same query made again gives another result.
* `ViewsLists.cfg`. A member that is appended after its root was evicted opens a
  list of members which, contrary to the comment in `index.rs`, no eviction
  removes.
* `LinesHeads.cfg`. The text before a timestamp is put back in front of the message, as
  the comment on `join_head` says, but not where the text behind it is a payload: an
  address in front of a JSON record is neither in the message nor in a field.

The rest was seen while reading and lies outside the models, or is left out of a
property where said:

* The year that is inferred is the one of the reference in UTC. In a zone east of
  UTC, a line of the first hours of a year that is read in those hours is dated a
  year early. `DatedRight` leaves these hours out (its clause on `YearOf`).
* A valid query that is followed by one that does not compile, before its reply,
  is applied without a reload of the table. After a reconnect with a search that does not compile,
  the new view's generation is not the client's and its windows are discarded
  until the next query. `CatchesUp` would not hold for these reasons, so `tab` does not search for
  "bad", and `TabBad.cfg` leaves `CatchesUp` out.
* A query that is sent while a toggle waits for its answer does not carry that toggle,
  and replaces the server's set; the page applies the toggle when it is answered.
  The two sides differ (`session.rs:478`) until the client queries again.
  `TogglesAgree` excepts exactly this step.
* `extract` takes a level field away also when its value is no level; a logfmt
  line with `msg=` loses its bare words. `NothingLost` is about lines without a payload,
  and about the two timestamps of those with one.
* A payload whose message has an unbalanced brace opens an event for what follows.

## Proofs

Every theorem is about a whole module's `Spec`, for any values of the constants
that its named assumption allows.

### The registry

`SourceRegistry_proofs` (`RegistryAssumption`):

* `TypeCorrect` and `RegistryInvariant`: `TypeOK` and `IInv` always hold.
  `TypeOK` is not inductive alone, since a `set_format` measures the source its
  connection shows and there must be one; `IInv` joins six invariants (`TabsCounted`,
  `HeldNeverOrphaned`, `AcceptedNeverLeaks`, `ClosedHoldsNothing`,
  `RefusedLeavesNothing`, `ToldOnce`) with `ConnOK` (a connection shows at most
  what its guard detaches from) and `EntriesOK` (who has an entry).
  `AcceptedNeverLeaks` needs `TabsCounted` (the code looks at the count, the
  property at the tabs), which needs that a tab can only hold what was created,
  and so on round.
* one theorem per invariant: `TabsAreCounted`, `HeldIsNeverOrphaned`,
  `NothingLeaks`, `ClosedStaysEmpty`, `RefusedIsGone`, `ToldAtMostOnce`.
* `LifeStep` lists what any step can do to a source's life. From it follow the
  action properties (`GoneForGood`, `HeldStays`) and `Implements`, the refinement
  of `SourceLifecycle`.
* `AccountedFor` and `BudgetIsHonoured`: what the budget counts is what sessions
  retain, and it fits. Both assume `Editors = {}`, no tab that sends `set_format`.
  That is not convenience: `RegistryReformat.cfg` shows that one stale size is
  enough for the count to be wrong for good (see above), and a count that is too
  low admits too much. `AccountInvariant` carries the books (`BooksKept`: what a
  reader measured is what its session holds until it is booked) and the finite
  set of entries that the sum needs.

What the entries come to (`Total`) is a fold over a set. The first part of the module
proves its laws (an element less, one value changed, a value no larger) from the definition:
that there is a function which satisfies the fold's equation, and only one. The
installed provers cannot apply an induction rule over a predicate, so induction is
stated for a set (`Induct`, in `LeftFolds`): a set of naturals that holds 0 and is closed under
successor holds them all, since otherwise the least that is missing follows one
that is not.

### The session

`Session_proofs` proves all four invariants of `stream`, `LinesAccounted`
and the refinement of `EntryFeed`, for inputs of any length, chunks cut anywhere,
any limit on lines, any sample size and any cap on an event:

* `LeftFolds` has what an induction over a sequence is needed for, with the step of
  the fold as a constant: a result is in the last of a sequence of sets if each
  step leads from one to the next (`FoldReaches`), and one more element is one more
  step. The parser cuts, reads, replays and feeds with folds, so the module is
  instantiated once for each.
* `Done(all, format, chain, lines, first, m)` says that the entries `all` are those
  of the lines up to line m under a format: each is of a line that is not blank,
  in order; each line that can have one has one; each is rooted in the event of the
  entry on the line before, if it belongs to it; and the open chain is the event of
  the last. `EmitKeeps` shows that emitting a line leads from m to m + 1.
* `Held` says the same of the sample while the format is open; `Reading` is the one
  or the other. `Replayed` takes the sample through `EmitKeeps` line by line, over
  the blank lines between, which the replay does not see.
* A re-parse is the same reading, begun at the first retained line
  (`ReparsedKeeps`). That no line that has left is parsed anew is the same lemma
  once more, with blank lines put before those that are retained.
* Eviction takes the entries in front (`OldOnesFirst`: those of lines that left come
  first, so the partition point is their number) and leaves `Reading`, with the new
  first line (`EvictionKeeps`). Here the first entry may lose its root, which
  `Rooted` allows for the first retained line only.

`IInv` joins these with `BytesCounted` and the lines themselves (`Follow`: retained
lines are those of the input, one after the other). TLC finds it true in all states
of `stream`. From it follow `OwnLineAlways`, `BytesAreCounted`, `NoLineIsEverLost`,
`EventsAreWhole` and `EachLineAccounted`; and `SessionFeedsViews`, since entries leave in
front and join with later lines (`RetainedGrows`), and what is rooted is in one
piece (`EntriesInOrder`).

### The index, the timeline and the views

`Index_proofs` (`IndexAssumption`) is about the operators of `EntryIndex`. `Sound` says
that an index is right by itself: entries in the order of their lines, each that has a
time once in `sorted` and that in time order, the two counters exact, and each
retained root with a list of exactly the entries that continue it, in order. Refs of
entries that have left may be in `sorted`; `Before` (everything is of a line that has
come) and `FewDead` bound them. `AppendKeeps`, `EvictKeeps` and `CompactKeeps` carry
all three through the methods, for entries at any times; `PlacedInOrder` is the insertion
at the upper bound, `RangeIs` what a range of time holds, `RobustSpans` and `FullSpans`
what the two spans offer. An eviction is a fold over what leaves and a compaction one
over the refs, so both go through `LeftFolds`.

`Timeline_proofs` (`TimelineAssumption`: times and ends of spans are integers, the
target is positive) has the inductive invariant `InOrderSoFar`, which is these three
for the next line. `SortedIsRight` and `DeadAreFew` follow from it alone. What is
answered is right when it is asked and forgotten when the index changes
(`AnswersRight`): `CountedOnce`, by a bijection between the refs that `BucketCounts`
files under a bucket and the entries whose time is in it; `BucketsAreFew`, by the
arithmetic of the ladder; `OutliersAreReported`.

`Views_proofs` (`ViewsAssumption`) proves the three invariants of `views`, `ListsAgree` and the
refinement of `EntryFeed`:

* `FeedInv` is about the entries. `ReadTo(i, n, open)` says that i is a sound index of
  lines before n, and that every root named by an entry or left open by the parser is
  retained itself or left before all that is (`Known`). Arriving, leaving and
  parsing anew keep it. `ListsAreRight` follows. `Joined` adds that no entry is of a line
  before the first retained one and that what is retained of an event is in one piece,
  the open one up to the last line. With it every arrival maps to an `Advance` (the
  entries of earlier lines are a prefix, `EarlierAre`; what stays has the same line under
  the new numbering, `ArriveGrows`) and every re-parse to a `Restart`: `ViewsAreFed`.
* `Says` is what the predicate says of an event from scratch. A match set is wrong
  about some entries at any time: lines may have joined their event since
  (and may make it match), or its root may have left. `Agrees(pred, i, M, u)` is what does hold however many
  lines have come and gone: of an event whose head is retained, a line up to u is in M
  exactly if the lines of the event up to u make it match. It is stable under an append
  (`GrownAgrees`) and an eviction, and a rebuild establishes it (`RebuildIs`).
* `catch_up` tests the new entries one by one and, at each, may insert older lines of
  its event. In between neither the old nor the new agreement holds; `Tested` is the
  invariant of the loop, and `CatchTests` takes it from one entry to the next. At the end
  it is `Agrees` up to the last line (`CatchUpIs`).
* `Inductive` joins these: unless a re-parse has come in between, the view's match set
  agrees as far as it was evaluated, and a view whose epoch and revision are current is
  `Fresh`: its base, folds and rows are computed from a match set that agrees up to the
  last line. TLC finds it true in every state of the instance of `views`. It gives
  `BaseIsExact`, `AllIsInReach` and `HitsAreShown`.

That members of a root that has left keep their verdict (see `ViewsOrphans.cfg`) shows
in the proof: `Agrees` can speak of heads that are retained only, and so does `BaseExact`.

### A tab

`Tab_proofs` proves, for any queries, any number of lines and acts and any lost
connection, `EveryRequestAnswered` and `RowsAreCurrent` (the action property
`StoredRowsCurrent`). The invariant is `IInv`, whose parts are

* `RequestsAnswered`: the requests on the wire and the answers on the wire are,
  together, one for each promise that is pending (`Books`). It needs that an id in
  use is never given again (`FreshIdFresh`) and that a call of the client's only adds
  requests with ids of their own, each with its promise (`AsksOn`).
* `InStep`: where client and server are in the handshake, each seen from the other.
* `GenerationsKept`: a generation is one query of one connection. The client compares
  generations only, and after a reconnect the server counts from the start again, so
  a reply may carry the number the page remembers from an earlier connection and be
  of another query. It then comes behind the reply that sets the query of this
  connection (`OldBehindNew`), so the page has the new query when it stores the rows.

`TabInvariant` proves `IInv` with `Shape`, which says that sequences are
sequences and records have their fields. `TabBad.cfg` checks `IInv` on a small instance.

### The landing

`Landing_proofs` proves that a lock has one holder and is taken in one order, the
registry's first (`LocksAreOrdered`), and that a source whose close was confirmed is
in no list the page gets afterwards (`NeverShownAgain`). The invariant for the second
is `Listed`: an id is in the registry's order once, and never again once it is gone;
what was confirmed is gone; and a list that is being made holds nothing that was
confirmed. The last holds because lists and replies come from one loop, which sends
a list it has begun before it takes the next request (`LocksHeld`: nothing is
closed while rows are read).

### What is only model-checked

Everything about liveness, which is out of the proof system's reach:
`ClosedReaderStops`, `TabsLearn` and the other temporal properties of `live`, `stream`,
`tab` and `landing`.

The invariants of `Lines`. They are about operators that look a shape up in a line
of lexemes, and a state of `Lines` keeps little more than the last line and what became
of it: there is no invariant to find, only a case for every format, shape and
place in a line, which is what TLC goes through.

What `ListsNameRetained` says of roots that have left (of retained ones, `Sound` says it).
It rests on what `SelectSeq` returns, an operator with an operator as its parameter
of which the prover's library states nothing. And `TogglesAgree`, which folds the
requests on the wire through the server.

## Not modelled

The text of a query and how a pattern matches, quoting and escapes in JSON and
logfmt, minutes and the ranges of a calendar, the names of time zones; the
inventory of fields and the sample of diagnostics that are kept; rendering,
scrolling by pixels, the timeline's and the filter bar's drawing; the URL hash
and stored preferences; argument parsing, port search, asset serving, build
scripts and the site. They keep no state that the properties are about, and most
are pure functions with tests of their own. Checks of token, origin and host come before
every modelled handler and are left out. Progress messages and the end of the
input only change labels in a tab.

