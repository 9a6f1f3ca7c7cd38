--------------------------- MODULE SourceRegistry ---------------------------
(***************************************************************************)
(* The registry of sources of one looqlog process                          *)
(* (crates/looqlog/src/source.rs) together with everything that works on   *)
(* it concurrently: the reader thread of each argv file, the stdin reader  *)
(* and its detection hold (stdin.rs), the handler of each POST /upload,    *)
(* the connection of each browser tab, user close requests (server.rs) and *)
(* the sweeper (main.rs).                                                  *)
(*                                                                         *)
(* A step is one critical section: what a thread does between taking and   *)
(* releasing the registry lock or a source lock. A value that the code     *)
(* reads under one lock and uses under another (`retained`) is kept in     *)
(* `measured` or `rebook` between the two steps.                           *)
(*                                                                         *)
(* A session is abstracted to the bytes it retains, `held`. An id is born  *)
(* at most once (ids are random and never reused), so the identity of a    *)
(* source and of the thread or handler that feeds it is the id itself.     *)
(***************************************************************************)
EXTENDS Naturals, FiniteSets, FiniteSetsExt

CONSTANTS
    Argv,      \* ids of the files named on the command line
    Stdin,     \* ids of stdin sources (at most one)
    Upload,    \* ids a POST /upload may create
    Tabs,      \* browser tabs bound to a source
    Editors,   \* the tabs whose user sends set_format
    Budget,    \* BUDGET_BYTES, in the units of `held`
    Grace,     \* ORPHAN_GRACE, in ticks
    MaxHeld,   \* bound: what one session can come to retain
    MaxTime,   \* bound: the last tick of the clock
    None       \* the absent value of an Option

Source == Argv \union Stdin \union Upload

Reasons == {"closed", "unloaded", "budget"}

ASSUME RegistryAssumption ==
    /\ Argv \intersect Stdin = {}
    /\ Argv \intersect Upload = {}
    /\ Stdin \intersect Upload = {}
    /\ IsFiniteSet(Argv \union Stdin)
    /\ IsFiniteSet(Tabs)
    /\ Editors \subseteq Tabs
    /\ Budget \in Nat
    /\ Grace \in Nat
    /\ MaxHeld \in Nat
    /\ MaxTime \in Nat
    /\ None \notin Nat \union Source \union Reasons

VARIABLES
    (* The registry, behind the registry lock. *)
    sources,         \* ids with an entry
    gone,            \* why an id that had an entry has none
    retained,        \* Entry::retained: what the budget counts
    tabs,            \* Entry::tabs
    orphaned_since,  \* Entry::orphaned_since
    (* Each source, behind its own lock. *)
    closed,          \* Source::closed
    held,            \* Session::retained_bytes()
    finished,        \* Session::is_finished()
    error,           \* Source::error is set
    (* Whoever feeds the source: reader thread or upload handler. *)
    pc,              \* where it is
    measured,        \* the `retained` it carries to the registry
    (* One connection per tab. *)
    conn,            \* where its serve_source loop is
    guard,           \* the id its Tab guard detaches on drop
    shown,           \* Conn::source
    told,            \* `closed` messages sent on it
    rebook,          \* the `retained` a set_format carries to the registry
    now              \* the clock

registryVars == <<sources, gone, retained, tabs, orphaned_since>>
sourceVars   == <<closed, held, finished, error>>
readerVars   == <<pc, measured>>
tabVars      == <<conn, guard, shown, told, rebook>>
vars == <<registryVars, sourceVars, readerVars, tabVars, now>>

ReaderState == {"unborn", "read", "first", "await", "charge", "final", "fits",
                "full", "created", "dropped", "overBudget", "refused", "done"}

TypeOK ==
    /\ sources \subseteq Source
    /\ gone \in [Source -> Reasons \union {None}]
    /\ retained \in [Source -> Nat]
    /\ tabs \in [Source -> Nat]
    /\ orphaned_since \in [Source -> Nat \union {None}]
    /\ closed \in [Source -> Reasons \union {None}]
    /\ held \in [Source -> 0..MaxHeld]
    /\ finished \in [Source -> BOOLEAN]
    /\ error \in [Source -> BOOLEAN]
    /\ pc \in [Source -> ReaderState]
    /\ measured \in [Source -> 0..MaxHeld]
    /\ conn \in [Tabs -> {"idle", "open", "reformatted", "measured"}]
    /\ guard \in [Tabs -> Source \union {None}]
    /\ shown \in [Tabs -> Source \union {None}]
    /\ told \in [Tabs -> Nat]
    /\ rebook \in [Tabs -> 0..MaxHeld]
    /\ now \in 0..MaxTime

(* Every argv file and stdin is a source before the server accepts anyone. *)
(* A file that cannot be opened has an error and no reader thread.         *)
Init ==
    /\ sources = Argv \union Stdin
    /\ gone = [s \in Source |-> None]
    /\ retained = [s \in Source |-> 0]
    /\ tabs = [s \in Source |-> 0]
    /\ orphaned_since = [s \in Source |-> None]
    /\ closed = [s \in Source |-> None]
    /\ held = [s \in Source |-> 0]
    /\ finished = [s \in Source |-> FALSE]
    /\ \E unreadable \in SUBSET Argv :
        /\ error = [s \in Source |-> s \in unreadable]
        /\ pc = [s \in Source |-> IF s \in Upload THEN "unborn"
                                  ELSE IF s \in unreadable THEN "done"
                                  ELSE "read"]
    /\ measured = [s \in Source |-> 0]
    /\ conn = [t \in Tabs |-> "idle"]
    /\ guard = [t \in Tabs |-> None]
    /\ shown = [t \in Tabs |-> None]
    /\ told = [t \in Tabs |-> 0]
    /\ rebook = [t \in Tabs |-> 0]
    /\ now = 0

-----------------------------------------------------------------------------
(* Registry operations, each within one hold of the registry lock.         *)

(* Registry::total_retained, were `ids` the entries and `booked` their     *)
(* retained bytes.                                                         *)
Total(ids, booked) == MapThenSumSet(LAMBDA s : booked[s], ids)

(* Registry::record: an id without an entry is ignored. *)
Recorded(s, bytes) ==
    IF s \in sources THEN [retained EXCEPT ![s] = bytes] ELSE retained

(* Registry::remove of every id of V; `booked` and `orphaned` are the      *)
(* fields of the entries that stay. The source is told under its own lock  *)
(* and its session is replaced by an empty one.                            *)
Remove(V, reason, booked, orphaned) ==
    /\ sources' = sources \ V
    /\ gone' = [s \in Source |-> IF s \in V THEN reason ELSE gone[s]]
    /\ closed' = [s \in Source |-> IF s \in V THEN reason ELSE closed[s]]
    /\ retained' = [s \in Source |-> IF s \in V THEN 0 ELSE booked[s]]
    /\ tabs' = [s \in Source |-> IF s \in V THEN 0 ELSE tabs[s]]
    /\ orphaned_since' =
           [s \in Source |-> IF s \in V THEN None ELSE orphaned[s]]
    /\ held' = [s \in Source |-> IF s \in V THEN 0 ELSE held[s]]
    /\ finished' = [s \in Source |-> IF s \in V THEN FALSE ELSE finished[s]]

(* What Registry::charge(s, _) may unload. *)
Evictable(s) ==
    {o \in (sources \intersect Upload) \ {s} : orphaned_since[o] # None}

(* What the loop of Registry::charge(s, _) unloads: the oldest orphans, no *)
(* more of them than it takes to fit. Orphans of the same instant are      *)
(* ordered by their random ids, so any of them may go first.               *)
IsEvicted(s, booked, V) ==
    /\ V \subseteq Evictable(s)
    /\ \A v \in V, o \in Evictable(s) \ V :
           orphaned_since[v] <= orphaned_since[o]
    /\ V # {} => \E last \in V :
           /\ \A v \in V : orphaned_since[v] <= orphaned_since[last]
           /\ Total((sources \ V) \union {last}, booked) > Budget
    /\ \/ Total(sources \ V, booked) <= Budget
       \/ V = Evictable(s)

(* Slip: an upload nobody ever opened gets no grace period. *)
Slip_Done(s) == orphaned_since

(* Registry::upload_done *)
Done(s) ==
    IF s \in sources /\ tabs[s] = 0
    THEN [orphaned_since EXCEPT ![s] = now]
    ELSE orphaned_since

(* Registry::charge(s, measured[s]): on to `fits`, where the entries'      *)
(* orphaned_since is `orphaned`, or to `full`.                             *)
Charge(s, fits, orphaned, full) ==
    LET booked == Recorded(s, measured[s]) IN
    \E V \in SUBSET Evictable(s) :
        /\ IsEvicted(s, booked, V)
        /\ \/ /\ Total(sources \ V, booked) <= Budget
              /\ Remove(V, "budget", booked, orphaned)
              /\ pc' = [pc EXCEPT ![s] = fits]
           \/ /\ Total(sources \ V, booked) > Budget
              /\ Remove(V, "budget", booked, orphaned_since)
              /\ pc' = [pc EXCEPT ![s] = full]
        /\ measured' = [measured EXCEPT ![s] = 0]
        /\ UNCHANGED <<error, tabVars, now>>

-----------------------------------------------------------------------------
(* What a session may retain after a chunk, at end of input, and after a   *)
(* re-parse. Only a session with a line limit ever shrinks on ingest, and  *)
(* finishing or re-parsing an empty session leaves it empty.               *)
AfterIngest(s) == IF s \in Stdin THEN 0..MaxHeld ELSE held[s]..MaxHeld
AfterFinish(s) == IF held[s] = 0 THEN {0} ELSE held[s]..MaxHeld
AfterReparse(s) == IF held[s] = 0 THEN {0} ELSE 1..MaxHeld

(* Slip: the size is read before the session is fed. *)
Slip_Feed(s, sizes, ends, next) ==
    /\ \E bytes \in sizes : held' = [held EXCEPT ![s] = bytes]
    /\ measured' = [measured EXCEPT ![s] = held[s]]
    /\ finished' = [finished EXCEPT ![s] = finished[s] \/ ends]
    /\ pc' = [pc EXCEPT ![s] = next]

(* Under the source lock, a reader feeds or finishes the session and reads *)
(* session.retained_bytes() to charge it once the lock is released.        *)
Feed(s, sizes, ends, next) ==
    /\ \E bytes \in sizes :
        /\ held' = [held EXCEPT ![s] = bytes]
        /\ measured' = [measured EXCEPT ![s] = bytes]
    /\ finished' = [finished EXCEPT ![s] = finished[s] \/ ends]
    /\ pc' = [pc EXCEPT ![s] = next]

Goto(s, next) ==
    /\ pc' = [pc EXCEPT ![s] = next]
    /\ UNCHANGED <<registryVars, sourceVars, measured, tabVars, now>>

-----------------------------------------------------------------------------
(* The reader thread of an argv file: read, charge, settle, repeat.        *)

(* Slip: a reader that never looks at `closed`. *)
Slip_ArgvRead(s) ==
    /\ s \in Argv
    /\ pc[s] = "read"
    /\ Feed(s, AfterIngest(s), FALSE, "charge")
    /\ UNCHANGED <<error, registryVars, closed, tabVars, now>>

ArgvRead(s) ==
    /\ s \in Argv
    /\ pc[s] = "read"
    /\ closed[s] = None
    /\ \/ /\ Feed(s, AfterIngest(s), FALSE, "charge")
          /\ UNCHANGED error
       \/ /\ Feed(s, AfterFinish(s), TRUE, "charge")
          /\ \E failed \in BOOLEAN :
                 error' = [error EXCEPT ![s] = error[s] \/ failed]
    /\ UNCHANGED <<registryVars, closed, tabVars, now>>

ArgvStop(s) ==
    /\ s \in Argv
    /\ pc[s] = "read"
    /\ closed[s] # None
    /\ Goto(s, "done")

ArgvCharge(s) ==
    /\ s \in Argv
    /\ pc[s] = "charge"
    /\ Charge(s, "fits", orphaned_since, "full")

ArgvSettle(s) ==
    /\ s \in Argv
    /\ pc[s] = "fits"
    /\ Goto(s, IF finished[s] THEN "done" ELSE "read")

ArgvGiveUp(s) ==
    /\ s \in Argv
    /\ pc[s] = "full"
    /\ error' = [error EXCEPT ![s] = TRUE]
    /\ \E bytes \in AfterFinish(s) : held' = [held EXCEPT ![s] = bytes]
    /\ finished' = [finished EXCEPT ![s] = TRUE]
    /\ pc' = [pc EXCEPT ![s] = "done"]
    /\ UNCHANGED <<registryVars, closed, measured, tabVars, now>>

-----------------------------------------------------------------------------
(* The stdin reader only ever records, and never looks at `closed`.        *)

StdinRead(s) ==
    /\ s \in Stdin
    /\ pc[s] = "read"
    /\ \/ Feed(s, AfterIngest(s), FALSE, "charge")
       \/ Feed(s, AfterFinish(s), TRUE, "charge")
    /\ UNCHANGED <<registryVars, closed, error, tabVars, now>>

StdinRecord(s) ==
    /\ s \in Stdin
    /\ pc[s] = "charge"
    /\ retained' = Recorded(s, measured[s])
    /\ pc' = [pc EXCEPT ![s] = IF finished[s] THEN "done" ELSE "read"]
    /\ measured' = [measured EXCEPT ![s] = 0]
    /\ UNCHANGED <<sources, gone, tabs, orphaned_since, sourceVars, tabVars, now>>

(* The detection hold times out: the held lines become entries. Whether    *)
(* the session is still detecting is left open.                            *)
DetectionHold(s) ==
    /\ s \in Stdin
    /\ ~finished[s]
    /\ \E bytes \in AfterFinish(s) : held' = [held EXCEPT ![s] = bytes]
    /\ UNCHANGED <<registryVars, closed, finished, error, readerVars, tabVars,
                   now>>

-----------------------------------------------------------------------------
(* The handler of one POST /upload, from the moment its first chunk is     *)
(* there. It can be cancelled only while it awaits the next chunk.         *)

(* Slip: the id of a refused upload is handed out again. *)
Slip_UploadBegin(s) ==
    /\ s \in Upload
    /\ pc[s] \in {"unborn", "refused"}
    /\ sources' = sources \union {s}
    /\ pc' = [pc EXCEPT ![s] = "first"]
    /\ UNCHANGED <<gone, retained, tabs, orphaned_since, sourceVars, measured,
                   tabVars, now>>

UploadBegin(s) ==
    /\ s \in Upload
    /\ pc[s] = "unborn"
    /\ sources' = sources \union {s}
    /\ pc' = [pc EXCEPT ![s] = "first"]
    /\ UNCHANGED <<gone, retained, tabs, orphaned_since, sourceVars, measured,
                   tabVars, now>>

UploadChunk(s) ==
    /\ s \in Upload
    /\ pc[s] \in {"first", "await"}
    /\ closed[s] = None
    /\ Feed(s, AfterIngest(s), FALSE, "charge")
    /\ UNCHANGED <<registryVars, closed, error, tabVars, now>>

(* The next chunk finds the source closed: 409. *)
UploadConflict(s) ==
    /\ s \in Upload
    /\ pc[s] \in {"first", "await"}
    /\ closed[s] # None
    /\ Goto(s, "dropped")

UploadCharge(s) ==
    /\ s \in Upload
    /\ pc[s] = "charge"
    /\ Charge(s, "await", orphaned_since, "overBudget")

(* The body fails, outgrows the cap, or the client goes away. *)
UploadAbort(s) ==
    /\ s \in Upload
    /\ pc[s] = "await"
    /\ Goto(s, "dropped")

(* The body ends; whether the source is still registered is not asked. *)
UploadEnd(s) ==
    /\ s \in Upload
    /\ pc[s] = "await"
    /\ Feed(s, AfterFinish(s), TRUE, "final")
    /\ UNCHANGED <<registryVars, closed, error, tabVars, now>>

(* Slip: the end of the body is recorded, but not held to the budget. *)
Slip_UploadAccept(s) ==
    /\ s \in Upload
    /\ pc[s] = "final"
    /\ retained' = Recorded(s, measured[s])
    /\ orphaned_since' = Done(s)
    /\ pc' = [pc EXCEPT ![s] = "created"]
    /\ UNCHANGED <<sources, gone, tabs, sourceVars, measured, tabVars, now>>

(* The last charge and upload_done, under one hold of the registry lock. *)
UploadAccept(s) ==
    /\ s \in Upload
    /\ pc[s] = "final"
    /\ Charge(s, "created", Done(s), "overBudget")

(* Slip: the source is told again although its entry is already gone. *)
Slip_DropPartialTwice(s) ==
    /\ s \in Upload
    /\ pc[s] \in {"dropped", "overBudget"}
    /\ Remove({s}, IF pc[s] = "dropped" THEN "closed" ELSE "budget",
              retained, orphaned_since)
    /\ pc' = [pc EXCEPT ![s] = "refused"]
    /\ UNCHANGED <<error, measured, tabVars, now>>

(* PartialUpload::drop *)
DropPartial(s) ==
    /\ s \in Upload
    /\ pc[s] \in {"dropped", "overBudget"}
    /\ Remove({s} \intersect sources,
              IF pc[s] = "dropped" THEN "closed" ELSE "budget",
              retained, orphaned_since)
    /\ pc' = [pc EXCEPT ![s] = "refused"]
    /\ UNCHANGED <<error, measured, tabVars, now>>

-----------------------------------------------------------------------------
(* A tab's connection: serve_source.                                       *)

(* Slip: the second tab of a source is not counted. *)
Slip_AttachUncounted(t, s) ==
    /\ conn[t] = "idle"
    /\ s \in sources
    /\ conn' = [conn EXCEPT ![t] = "open"]
    /\ tabs' = [tabs EXCEPT ![s] = 1]
    /\ orphaned_since' = [orphaned_since EXCEPT ![s] = None]
    /\ guard' = [guard EXCEPT ![t] = s]
    /\ shown' = [shown EXCEPT ![t] = s]
    /\ UNCHANGED <<told, sources, gone, retained, sourceVars, readerVars, rebook,
                   now>>

(* After authentication: an entry gains a tab, or the tab is told why      *)
(* there is none. Only an id that was handed out can be asked for here; an *)
(* unknown id behaves as a gone one.                                       *)
Attach(t, s) ==
    /\ conn[t] = "idle"
    /\ conn' = [conn EXCEPT ![t] = "open"]
    /\ \/ /\ s \in sources
          /\ tabs' = [tabs EXCEPT ![s] = @ + 1]
          /\ orphaned_since' = [orphaned_since EXCEPT ![s] = None]
          /\ guard' = [guard EXCEPT ![t] = s]
          /\ shown' = [shown EXCEPT ![t] = s]
          /\ told' = [told EXCEPT ![t] = 0]
       \/ /\ s \notin sources
          /\ told' = [told EXCEPT ![t] = 1]
          /\ UNCHANGED <<tabs, orphaned_since, guard, shown>>
    /\ UNCHANGED <<sources, gone, retained, sourceVars, readerVars, rebook, now>>

(* Slip: any tab that leaves, not only the last, starts the grace period. *)
Slip_Detach(t) ==
    /\ conn[t] = "open"
    /\ guard[t] \in sources
    /\ conn' = [conn EXCEPT ![t] = "idle"]
    /\ guard' = [guard EXCEPT ![t] = None]
    /\ shown' = [shown EXCEPT ![t] = None]
    /\ told' = [told EXCEPT ![t] = 0]
    /\ tabs' = [tabs EXCEPT ![guard[t]] = @ - 1]
    /\ orphaned_since' = [orphaned_since EXCEPT ![guard[t]] = now]
    /\ UNCHANGED <<sources, gone, retained, sourceVars, readerVars, rebook, now>>

(* The socket closes: Tab::drop calls Registry::detach. *)
Detach(t) ==
    /\ conn[t] = "open"
    /\ conn' = [conn EXCEPT ![t] = "idle"]
    /\ guard' = [guard EXCEPT ![t] = None]
    /\ shown' = [shown EXCEPT ![t] = None]
    /\ told' = [told EXCEPT ![t] = 0]
    /\ \/ /\ guard[t] \in sources
          /\ LET s == guard[t]
                 left == IF tabs[s] = 0 THEN 0 ELSE tabs[s] - 1
             IN  /\ tabs' = [tabs EXCEPT ![s] = left]
                 /\ orphaned_since' =
                        IF left = 0 /\ s \in Upload
                        THEN [orphaned_since EXCEPT ![s] = now]
                        ELSE orphaned_since
       \/ /\ guard[t] \notin sources
          /\ UNCHANGED <<tabs, orphaned_since>>
    /\ UNCHANGED <<sources, gone, retained, sourceVars, readerVars, rebook, now>>

(* Slip: the source is announced on every tick. *)
Slip_Notify(t) ==
    /\ conn[t] = "open"
    /\ shown[t] # None
    /\ closed[shown[t]] # None
    /\ told' = [told EXCEPT ![t] = @ + 1]
    /\ UNCHANGED <<registryVars, sourceVars, readerVars, conn, guard, shown, rebook,
                   now>>

(* Slip: only a close by the user is announced. *)
Slip_NotifyClosedOnly(t) ==
    /\ conn[t] = "open"
    /\ shown[t] # None
    /\ closed[shown[t]] = "closed"
    /\ told' = [told EXCEPT ![t] = @ + 1]
    /\ shown' = [shown EXCEPT ![t] = None]
    /\ UNCHANGED <<registryVars, sourceVars, readerVars, conn, guard, rebook, now>>

(* A tick finds the source closed: it is announced, then let go of. *)
Notify(t) ==
    /\ conn[t] = "open"
    /\ shown[t] # None
    /\ closed[shown[t]] # None
    /\ told' = [told EXCEPT ![t] = @ + 1]
    /\ shown' = [shown EXCEPT ![t] = None]
    /\ UNCHANGED <<registryVars, sourceVars, readerVars, conn, guard, rebook, now>>

(* set_format: dispatch re-parses, unless the source is closed or the      *)
(* format is refused; then the retained bytes are read under a second hold *)
(* of the source lock and recorded under the registry lock.                *)
SetFormat(t) ==
    /\ t \in Editors
    /\ conn[t] = "open"
    /\ shown[t] # None
    /\ LET s == shown[t] IN
       \E bytes \in (IF closed[s] = None THEN AfterReparse(s) \union {held[s]}
                     ELSE {held[s]}) :
           held' = [held EXCEPT ![s] = bytes]
    /\ conn' = [conn EXCEPT ![t] = "reformatted"]
    /\ UNCHANGED <<registryVars, closed, finished, error, readerVars, guard,
                   shown, told, rebook, now>>

Measure(t) ==
    /\ conn[t] = "reformatted"
    /\ rebook' = [rebook EXCEPT ![t] = held[shown[t]]]
    /\ conn' = [conn EXCEPT ![t] = "measured"]
    /\ UNCHANGED <<registryVars, sourceVars, readerVars, guard, shown, told, now>>

Rebook(t) ==
    /\ conn[t] = "measured"
    /\ retained' = Recorded(guard[t], rebook[t])
    /\ conn' = [conn EXCEPT ![t] = "open"]
    /\ rebook' = [rebook EXCEPT ![t] = 0]
    /\ UNCHANGED <<sources, gone, tabs, orphaned_since, sourceVars, readerVars,
                   guard, shown, told, now>>

-----------------------------------------------------------------------------
(* Registry::close, on behalf of POST /sources/{id}/close or of a landing. *)
(* stdin is refused.                                                       *)
Close(s) ==
    /\ s \in sources
    /\ s \notin Stdin
    /\ Remove({s}, "closed", retained, orphaned_since)
    /\ UNCHANGED <<error, readerVars, tabVars, now>>

(* Slip: the grace period is one tick longer than ORPHAN_GRACE. *)
Slip_Expired ==
    {s \in sources \intersect Upload :
        orphaned_since[s] # None /\ now - orphaned_since[s] > Grace}

Expired ==
    {s \in sources \intersect Upload :
        orphaned_since[s] # None /\ now - orphaned_since[s] >= Grace}

(* The sweeper task. *)
Sweep ==
    /\ Expired # {}
    /\ Remove(Expired, "unloaded", retained, orphaned_since)
    /\ UNCHANGED <<error, readerVars, tabVars, now>>

Tick ==
    /\ now < MaxTime
    /\ now' = now + 1
    /\ UNCHANGED <<registryVars, sourceVars, readerVars, tabVars>>

-----------------------------------------------------------------------------
ArgvStep(s) ==
    \/ ArgvRead(s)
    \/ ArgvStop(s)
    \/ ArgvCharge(s)
    \/ ArgvSettle(s)
    \/ ArgvGiveUp(s)

(* The steps of an upload that wait for nothing but a lock. *)
UploadStep(s) ==
    \/ UploadCharge(s)
    \/ UploadAccept(s)
    \/ DropPartial(s)

Next ==
    \/ \E s \in Source :
        \/ ArgvStep(s)
        \/ StdinRead(s)
        \/ StdinRecord(s)
        \/ DetectionHold(s)
        \/ UploadBegin(s)
        \/ UploadChunk(s)
        \/ UploadConflict(s)
        \/ UploadAbort(s)
        \/ UploadEnd(s)
        \/ UploadStep(s)
        \/ Close(s)
        \/ \E t \in Tabs : Attach(t, s)
    \/ \E t \in Tabs :
        \/ Detach(t)
        \/ Notify(t)
        \/ SetFormat(t)
        \/ Measure(t)
        \/ Rebook(t)
    \/ Sweep
    \/ Tick

Spec == Init /\ [][Next]_vars

(* Threads and tasks that wait for nothing but a lock, a disk or a timer   *)
(* keep running. Users, clients and the program writing to stdin need not. *)
Fairness ==
    /\ \A s \in Argv : WF_vars(ArgvStep(s))
    /\ \A s \in Upload : WF_vars(UploadStep(s))
    /\ \A s \in Stdin : WF_vars(StdinRecord(s))
    /\ \A t \in Tabs : WF_vars(Notify(t)) /\ WF_vars(Measure(t) \/ Rebook(t))
    /\ WF_vars(Sweep)
    /\ WF_vars(Tick)

FairSpec == Spec /\ Fairness

-----------------------------------------------------------------------------
(* Properties.                                                             *)

Holders(s) == {t \in Tabs : guard[t] = s}

(* Entry::tabs is the number of connections that will detach from the      *)
(* entry: every attach is matched by one detach, whatever removed the      *)
(* source in between.                                                      *)
TabsCounted ==
    \A s \in sources : tabs[s] = Cardinality(Holders(s))

(* Only an upload without a tab is a candidate of the sweeper and of the   *)
(* budget.                                                                 *)
HeldNeverOrphaned ==
    \A s \in sources :
        orphaned_since[s] # None => s \in Upload /\ Holders(s) = {}

(* No upload leaks: once its handler has answered, an upload that no tab   *)
(* shows has its grace period running, in whatever order the tabs came and *)
(* went while it was arriving.                                             *)
AcceptedNeverLeaks ==
    \A s \in sources :
        pc[s] = "created" /\ Holders(s) = {} => orphaned_since[s] # None

(* A closed source has left the registry, under the reason the registry    *)
(* gives latecomers, and retains nothing: no reader that was mid-chunk     *)
(* when it was closed fills the emptied session again.                     *)
ClosedHoldsNothing ==
    \A s \in Source :
        closed[s] # None =>
            /\ s \notin sources
            /\ gone[s] = closed[s]
            /\ held[s] = 0

(* "A failed upload leaves no source behind" (README.md:166), whether it   *)
(* failed by itself, by the budget, or because somebody closed it.         *)
RefusedLeavesNothing ==
    \A s \in Upload : pc[s] = "refused" => s \notin sources /\ held[s] = 0

(* A connection is told that its source is gone at most once, and lets go  *)
(* of the source when it is.                                               *)
ToldOnce ==
    \A t \in Tabs : told[t] <= 1 /\ (told[t] = 1 => shown[t] = None)

(* A connection that is somewhere in serve_source has no other source than *)
(* the one its guard detaches from, and that one was added.                *)
ConnOK ==
    \A t \in Tabs :
        /\ guard[t] # None => conn[t] # "idle" /\ pc[guard[t]] # "unborn"
        /\ shown[t] \in {None, guard[t]}
        /\ conn[t] \in {"reformatted", "measured"} => shown[t] # None

(* An id without an entry was never added, or was told why; stdin always   *)
(* has one; only uploads are born late, accepted or refused.               *)
EntriesOK ==
    \A s \in Source :
        /\ s \in Stdin => s \in sources
        /\ s \notin sources => tabs[s] = 0 /\ orphaned_since[s] = None
        /\ s \notin sources /\ pc[s] # "unborn" => closed[s] # None
        /\ pc[s] = "unborn" => s \in Upload /\ s \notin sources /\ closed[s] = None
        /\ pc[s] \in {"created", "refused"} => s \in Upload

(* The inductive invariant: each of its parts needs the others. *)
IInv ==
    /\ ConnOK
    /\ EntriesOK
    /\ ClosedHoldsNothing
    /\ RefusedLeavesNothing
    /\ TabsCounted
    /\ HeldNeverOrphaned
    /\ AcceptedNeverLeaks
    /\ ToldOnce

(* Who may hold more than fits: the ingest that exceeded the budget, while *)
(* it is being stopped, an argv file that was stopped and keeps what it    *)
(* read, and stdin, which only records.                                    *)
Excused(s) ==
    \/ pc[s] \in {"overBudget", "full"}
    \/ s \in Argv /\ error[s]
    \/ s \in Stdin

(* Whatever uploads, closes, sweeps and evictions come together, what all  *)
(* others hold fits the budget, as far as it is booked: a charge that      *)
(* fails leaves no more behind than was there before it. (set_format only  *)
(* records, too: this is of registries without it.)                        *)
BudgetHonoured ==
    Total({s \in sources : ~Excused(s)}, retained) <= Budget

(* Nobody is between changing the session of s and recording its size. *)
Quiet(s) ==
    /\ pc[s] \in {"first", "read", "await", "fits", "created", "done"}
    /\ \A t \in Tabs : shown[t] = s => conn[t] = "open"

(* What the budget counts is "what each session actually retains"          *)
(* (ADR-0011) whenever nobody is about to record it. (Not of stdin, whose  *)
(* detection hold records nothing, nor after a set_format.)                *)
AccountedWhenQuiet ==
    \A s \in sources \ Stdin : Quiet(s) /\ ~error[s] => retained[s] = held[s]

(* Why it is: the size a reader carries to the registry is the size its    *)
(* session still has, and an entry without a charge under way is right.    *)
BooksKept ==
    \A s \in Source :
        /\ s \notin sources => retained[s] = 0
        /\ pc[s] = "unborn" => held[s] = 0
        /\ s \in sources \ Stdin /\ ~error[s] =>
               IF pc[s] \in {"charge", "final"} THEN measured[s] = held[s]
                                                ELSE retained[s] = held[s]

(* A source that left stays away, for the reason it was first given: a     *)
(* close, an eviction, a sweep and the drop of a partial upload may all    *)
(* come to remove the same source.                                         *)
GoneIsFinal ==
    [][\A s \in Source :
        closed[s] # None => closed'[s] = closed[s] /\ s \notin sources']_vars

(* Unless a user closes it or its own upload fails, a source leaves only   *)
(* as an upload that no tab is connected to.                               *)
HeldNeverUnloaded ==
    [][\A s \in sources \ sources' :
        \/ closed'[s] = "closed"
        \/ pc[s] = "overBudget"
        \/ s \in Upload /\ Holders(s) = {}]_vars

(* The promise of a source's life, without locks, sizes and clock. *)
Lifecycle == INSTANCE SourceLifecycle WITH
    fate <- [s \in Source |-> IF s \in sources THEN "live"
                              ELSE IF closed[s] = None THEN "unborn"
                              ELSE closed[s]],
    accepted <- {s \in Upload : pc[s] = "created"},
    bound <- guard

LifecycleSpec == Lifecycle!Spec

(* An upload whose handler has answered and that no tab shows is unloaded  *)
(* or gets a tab again. (Only graces that end before the clock does.)      *)
OrphansUnloaded ==
    \A s \in Upload :
        (/\ s \in sources
         /\ pc[s] = "created"
         /\ orphaned_since[s] # None
         /\ orphaned_since[s] + Grace <= MaxTime)
            ~> (s \notin sources \/ Holders(s) # {})

(* A connected tab whose source is gone learns it, unless it leaves first. *)
TabsLearn ==
    \A t \in Tabs :
        (shown[t] # None /\ closed[shown[t]] # None) ~> shown[t] = None

(* Closing an argv file stops its reader thread, wherever it was. *)
ClosedReaderStops ==
    \A s \in Argv : closed[s] # None ~> pc[s] = "done"

-----------------------------------------------------------------------------
(* What documentation says of the program and the program does not do.     *)

(* "an upload still arriving has none and is never a candidate"            *)
(* (docs/devlog.md:3429-3430, of orphaned_since; source.rs:161-162).            *)
ArrivingNeverOrphaned ==
    \A s \in Upload :
        pc[s] \in {"first", "charge", "await", "final"} => orphaned_since[s] = None

(* "A failed upload ... touches no other source." (README.md:166)          *)
RefusalTouchesNoOther ==
    [][\A s \in Upload :
        pc[s] # "overBudget" /\ pc'[s] = "overBudget" =>
            \A o \in sources : pc[o] = "created" => o \in sources']_vars

(* "counted from what each session actually retains" (ADR-0011), once      *)
(* whoever feeds the source is done and no set_format is under way.        *)
AccountedForGood ==
    \A s \in sources :
        pc[s] \in {"created", "done"} /\ Quiet(s) /\ ~error[s] => retained[s] = held[s]

=============================================================================
