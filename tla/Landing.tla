------------------------------ MODULE Landing ------------------------------
(***************************************************************************)
(* The list of sources on the landing, and the locks it is read under      *)
(* (serve_landing in crates/looqlog/src/server.rs, Registry::rows and      *)
(* Registry::remove in source.rs, landing-list.ts, looqlog-landing.ts).    *)
(*                                                                         *)
(* A thread takes one lock at a time here: the registry's, a source's, or  *)
(* a source's while it holds the registry's. Sources are uploads: stdin is *)
(* one more row, without a button. Which of them the budget or a sweep     *)
(* picks is the matter of SourceRegistry: here it is any.                  *)
(***************************************************************************)
EXTENDS Integers, SequencesExt, FiniteSets

CONSTANTS
    None,
    Sources,         \* ids of uploads
    Workers,         \* threads that read sources, unload them or serve their pages
    MaxSize,         \* bound: bytes per source
    MaxDrops,        \* bound: connections lost
    MaxDown          \* bound: messages on their way to the page

ASSUME LandingAssumption ==
    /\ {MaxSize, MaxDrops, MaxDown} \subseteq Nat
    /\ None \notin Sources \union {"rows", "loop"}
    /\ Workers \intersect {None, "rows", "loop"} = {}

VARIABLES
    order,     \* Registry::order
    gone,      \* Registry::gone
    size,      \* of each source
    registry,  \* who holds the lock of the registry
    lock,      \* who holds the lock of a source
    job,       \* what each worker is at, and with which source
    snap,      \* Registry::rows on its blocking thread
    loop,      \* serve_landing: alive, what was sent, the close it is at
    up,        \* requests on their way
    down,      \* lists and replies on their way
    page,      \* LandingState and the pending requests of its client
    acked,     \* for the properties: closes the page was told of
    drops      \* connections lost

server == <<order, gone, size, registry, lock, job>>
landing == <<snap, loop>>
client  == <<page, acked>>
vars == <<server, landing, up, down, client, drops>>

Open(id) == Contains(order, id)

Ids(rows) == {row.id : row \in ToSet(rows)}

Row(id) == [id |-> id, size |-> size[id]]

-----------------------------------------------------------------------------
(* Registry::remove, whoever calls it: out of the list under the lock of   *)
(* the registry, then closed under the lock of the source as well.         *)

(* An id is listed once (Listed), so what `retain` drops is one place. *)
Unlist(id) ==
    /\ \E k \in DOMAIN order : order[k] = id /\ order' = RemoveAt(order, k)
    /\ gone'  = gone \union {id}

At(w, at) == job[w].at = at

Goes(w, at, id) == job' = [job EXCEPT ![w] = [at |-> at, id |-> id]]

(* src.closed is set last: until then its reader goes on. *)
HasReader(id) ==
    \/ Open(id) \/ loop.closing = id
    \/ \E w \in Workers : job[w] = [at |-> "close", id |-> id]

(* Registry::add, at the first bytes of an upload. *)
Add(id) ==
    /\ registry = None
    /\ id \notin gone /\ ~Open(id)
    /\ order' = Append(order, id)
    /\ UNCHANGED <<gone, size, registry, lock, job, landing, up, down, client, drops>>

(* A chunk, a re-parse: under the lock of its source. *)
Ingest(w, id) ==
    /\ At(w, "idle")
    /\ lock[id] = None
    /\ HasReader(id) /\ size[id] < MaxSize
    /\ lock' = [lock EXCEPT ![id] = w]
    /\ Goes(w, "ingest", id)
    /\ UNCHANGED <<order, gone, size, registry, landing, up, down, client, drops>>

Ingested(w) ==
    LET id == job[w].id
    IN  /\ At(w, "ingest")
        /\ size' = [size EXCEPT ![id] = @ + 1]
        /\ lock' = [lock EXCEPT ![id] = None]
        /\ Goes(w, "charge", id)
        /\ UNCHANGED <<order, gone, registry, landing, up, down, client, drops>>

(* Registry::record: a re-parse does not trip the budget. *)
Record(w) ==
    /\ At(w, "charge")
    /\ registry = None
    /\ Goes(w, "idle", None)
    /\ UNCHANGED <<order, gone, size, registry, lock, landing, up, down, client, drops>>

(* Registry::charge after a chunk; Registry::sweep by itself. *)
Charge(w) ==
    /\ At(w, "charge")
    /\ registry = None
    /\ registry' = w
    /\ Goes(w, "unload", job[w].id)
    /\ UNCHANGED <<order, gone, size, lock, landing, up, down, client, drops>>

Sweep(w) ==
    /\ At(w, "idle")
    /\ registry = None
    /\ order # <<>>
    /\ registry' = w
    /\ Goes(w, "unload", None)
    /\ UNCHANGED <<order, gone, size, lock, landing, up, down, client, drops>>

Unload(w) ==
    /\ At(w, "unload")
    /\ \E id \in Sources \ {job[w].id} :
            /\ Open(id)
            /\ Unlist(id)
            /\ Goes(w, "close", id)
    /\ UNCHANGED <<size, registry, lock, landing, up, down, client, drops>>

(* Slip: each removal ends the hold of the registry it was made under. *)
Slip_Closes(w) ==
    /\ At(w, "close")
    /\ lock[job[w].id] = None
    /\ registry' = None
    /\ Goes(w, "unload", None)
    /\ UNCHANGED <<order, gone, size, lock, landing, up, down, client, drops>>

(* Both locks, and none of them when it is done. *)
Closes(w) ==
    /\ At(w, "close")
    /\ lock[job[w].id] = None
    /\ Goes(w, "unload", None)
    /\ UNCHANGED <<order, gone, size, registry, lock, landing, up, down, client, drops>>

Unloaded(w) ==
    /\ At(w, "unload")
    /\ registry' = None
    /\ Goes(w, "idle", None)
    /\ UNCHANGED <<order, gone, size, lock, landing, up, down, client, drops>>

(* source_page_handler: the guard of the registry outlives the look at the *)
(* source, for it is a temporary of the whole statement.                   *)
Page(w, id) ==
    /\ At(w, "idle")
    /\ registry = None
    /\ Open(id)
    /\ registry' = w
    /\ Goes(w, "page", id)
    /\ UNCHANGED <<order, gone, size, lock, landing, up, down, client, drops>>

PageDone(w) ==
    /\ At(w, "page")
    /\ lock[job[w].id] = None
    /\ registry' = None
    /\ Goes(w, "idle", None)
    /\ UNCHANGED <<order, gone, size, lock, landing, up, down, client, drops>>

-----------------------------------------------------------------------------
(* serve_landing. The tick waits for the rows, and requests wait for both. *)

NoRows == [at |-> "none", left |-> <<>>, rows |-> <<>>]

Tick ==
    /\ loop.alive /\ loop.closing = None
    /\ snap.at = "none"
    /\ registry = None
    /\ registry' = "rows"
    /\ snap' = [at |-> "reading", left |-> order, rows |-> <<>>]
    /\ UNCHANGED <<order, gone, size, lock, job, loop, up, down, client, drops>>

ReadRow ==
    /\ snap.left # <<>>
    /\ lock[Head(snap.left)] = None
    /\ snap' = [snap EXCEPT !.left = Tail(@), !.rows = Append(@, Row(Head(snap.left)))]
    /\ UNCHANGED <<server, loop, up, down, client, drops>>

RowsRead ==
    /\ snap.at = "reading" /\ snap.left = <<>>
    /\ registry' = None
    /\ snap' = [snap EXCEPT !.at = "read"]
    /\ UNCHANGED <<order, gone, size, lock, job, loop, up, down, client, drops>>

(* The list goes out if it is not the one that was sent. *)
SendRows ==
    /\ snap.at = "read"
    /\ Len(down) < MaxDown
    /\ snap' = NoRows
    /\ IF snap.rows = loop.sent THEN UNCHANGED <<loop, down>>
       ELSE /\ loop' = [loop EXCEPT !.sent = snap.rows, !.alive = page.connected]
            /\ down' = IF page.connected
                       THEN Append(down, [type |-> "sources", rows |-> snap.rows]) ELSE down
    /\ UNCHANGED <<server, up, client, drops>>

Answers(id, ok) ==
    down' = IF page.connected THEN Append(down, [type |-> "reply", id |-> id, ok |-> ok])
            ELSE down

Takes(id) ==
    /\ up' = Tail(up)
    /\ IF Open(id)
       THEN /\ registry' = "loop"
            /\ Unlist(id)
            /\ loop' = [loop EXCEPT !.closing = id]
            /\ UNCHANGED down
       ELSE /\ Answers(id, FALSE)
            /\ UNCHANGED <<registry, order, gone, loop>>
    /\ UNCHANGED <<size, lock, job, snap, client, drops>>

(* Slip: the loop goes on while the rows are read. *)
Slip_NextRequest ==
    /\ loop.alive /\ loop.closing = None
    /\ up # <<>>
    /\ registry = None
    /\ Takes(Head(up))

(* Registry::close: an error for a source that is not there. *)
NextRequest ==
    /\ loop.alive /\ loop.closing = None
    /\ snap.at = "none"
    /\ up # <<>>
    /\ registry = None
    /\ Takes(Head(up))

Closed ==
    /\ loop.closing # None
    /\ lock[loop.closing] = None
    /\ registry' = None
    /\ loop' = [loop EXCEPT !.closing = None]
    /\ Answers(loop.closing, TRUE)
    /\ UNCHANGED <<order, gone, size, lock, job, snap, up, client, drops>>

(* The loop ends when its socket has. *)
Ends ==
    /\ loop.alive /\ loop.closing = None
    /\ snap.at = "none"
    /\ ~page.connected
    /\ loop' = [loop EXCEPT !.alive = FALSE]
    /\ UNCHANGED <<server, snap, up, down, client, drops>>

-----------------------------------------------------------------------------
(* The page.                                                               *)

(* close: a failed request takes the mark back. *)
UserCloses(id) ==
    /\ page.connected
    /\ id \in Ids(page.rows) \ page.closing
    /\ page' = [page EXCEPT !.closing = @ \union {id}, !.pending = @ \union {id}]
    /\ up' = Append(up, id)
    /\ UNCHANGED <<server, landing, down, acked, drops>>

(* reduceLanding *)
Reduce(state, message) ==
    CASE message.type = "sources" ->
            [state EXCEPT !.rows = message.rows, !.closing = @ \intersect Ids(message.rows)]
      [] message.ok -> [state EXCEPT !.pending = @ \ {message.id}]
      [] OTHER ->
            [state EXCEPT !.pending = @ \ {message.id}, !.closing = @ \ {message.id}]

Receive ==
    /\ down # <<>>
    /\ page' = Reduce(page, Head(down))
    /\ acked' = IF Head(down).type = "reply" /\ Head(down).ok
                THEN acked \union {Head(down).id} ELSE acked
    /\ down' = Tail(down)
    /\ UNCHANGED <<server, landing, up, drops>>

(* Slip: requests that had no answer stay pending. *)
Slip_Fail(state) == [state EXCEPT !.connected = FALSE]

(* failPending *)
Fail(state) ==
    [state EXCEPT !.connected = FALSE, !.pending = {}, !.closing = @ \ state.pending]

Drop ==
    /\ page.connected
    /\ drops < MaxDrops
    /\ drops' = drops + 1
    /\ page' = Fail(page)
    /\ up' = <<>>
    /\ down' = <<>>
    /\ UNCHANGED <<server, landing, acked>>

NewLoop == [alive |-> TRUE, closing |-> None, sent |-> None]

(* scheduleReconnect, and a loop of its own for the new connection. Bound: *)
(* the one before has ended by then.                                       *)
Reconnect ==
    /\ ~page.connected
    /\ ~loop.alive
    /\ page' = [page EXCEPT !.connected = TRUE]
    /\ loop' = NewLoop
    /\ UNCHANGED <<server, snap, up, down, acked, drops>>

-----------------------------------------------------------------------------
Init ==
    /\ order = <<>>
    /\ gone = {}
    /\ size = [id \in Sources |-> 0]
    /\ registry = None
    /\ lock = [id \in Sources |-> None]
    /\ job = [w \in Workers |-> [at |-> "idle", id |-> None]]
    /\ snap = NoRows
    /\ loop = NewLoop
    /\ up = <<>>
    /\ down = <<>>
    /\ page = [connected |-> TRUE, rows |-> <<>>, closing |-> {}, pending |-> {}]
    /\ acked = {}
    /\ drops = 0

(* What a worker does on its own accord, and what it does to get done. *)
Starts(w) == Sweep(w) \/ \E id \in Sources : Ingest(w, id) \/ Page(w, id)

Proceeds(w) == Ingested(w) \/ Record(w) \/ Charge(w) \/ Closes(w) \/ Unloaded(w) \/ PageDone(w)

Serves == Tick \/ ReadRow \/ RowsRead \/ SendRows \/ NextRequest \/ Closed \/ Ends

Next ==
    \/ \E id \in Sources : Add(id) \/ UserCloses(id)
    \/ \E w \in Workers : Starts(w) \/ Unload(w) \/ Proceeds(w)
    \/ Serves
    \/ Receive \/ Drop \/ Reconnect

Spec == Init /\ [][Next]_vars

(* Every thread that has begun goes on; a lock that is free again and      *)
(* again is had at last, for the ticks are NOTIFY_INTERVAL apart; and      *)
(* select! takes its ready branches in a random order.                     *)
FairSpec ==
    /\ Spec
    /\ \A w \in Workers : SF_vars(Record(w) \/ Charge(w)) /\ WF_vars(Proceeds(w))
    /\ SF_vars(Tick) /\ SF_vars(NextRequest \/ Ends)
    /\ WF_vars(Serves) /\ WF_vars(Receive) /\ WF_vars(Reconnect)

-----------------------------------------------------------------------------
(* Properties.                                                             *)

Listing == Seq([id : Sources, size : Nat])

Message == [type : {"sources"}, rows : Listing]
           \union [type : {"reply"}, id : Sources, ok : BOOLEAN]

TypeOK ==
    /\ order \in Seq(Sources) /\ gone \subseteq Sources
    /\ size \in [Sources -> Nat]
    /\ registry \in Workers \union {None, "rows", "loop"}
    /\ lock \in [Sources -> Workers \union {None}]
    /\ job \in [Workers -> [at : {"idle", "ingest", "charge", "unload", "close", "page"},
                            id : Sources \union {None}]]
    /\ snap \in [at : {"none", "reading", "read"},
                  left : Seq(Sources), rows : Listing]
    /\ loop \in [alive : BOOLEAN, closing : Sources \union {None},
                  sent : Listing \union {None}]
    /\ up \in Seq(Sources) /\ down \in Seq(Message)
    /\ page \in [connected : BOOLEAN, rows : Listing,
                  closing : SUBSET Sources, pending : SUBSET Sources]
    /\ acked \subseteq Sources
    /\ drops \in Nat

(* "Lock order is always registry, then source" (source.rs), and no circle *)
(* of waits: the registry's lock is with the one whose step under it is    *)
(* not over, a source's with the one that reads it, who waits for nothing. *)
LocksHeld ==
    /\ \A w \in Workers :
           /\ registry = w <=> job[w].at \in {"unload", "close", "page"}
           /\ job[w].at \in {"ingest", "charge", "close", "page"} => job[w].id # None
           /\ \A id \in Sources : lock[id] = w <=> job[w] = [at |-> "ingest", id |-> id]
    /\ registry = "rows" <=> snap.at = "reading"
    /\ registry = "loop" <=> loop.closing # None
    /\ loop.closing # None => loop.alive /\ snap.at = "none"

(* A source the page was told is closed is in no list it gets afterwards:  *)
(* lists and replies come from one loop, and a list it has begun is sent   *)
(* before the next request is taken.                                       *)
NotShownAgain ==
    \A k \in DOMAIN down :
        down[k].type = "sources" =>
            \A id \in Ids(down[k].rows) :
                /\ id \notin acked
                /\ \A j \in 1..(k - 1) :
                        down[j].type = "sources" \/ down[j].id # id \/ ~down[j].ok

(* Why it is not: ids are listed once, and never again once they are gone; *)
(* a close is confirmed of an id that is gone, while no list is being made. *)
Confirms(message, id) == message.type = "reply" /\ message.id = id /\ message.ok

Told(id) == id \in acked \/ \E k \in DOMAIN down : Confirms(down[k], id)

Listed ==
    /\ \A i, j \in DOMAIN order : order[i] = order[j] => i = j
    /\ \A i \in DOMAIN order : order[i] \notin gone
    /\ \A id \in Sources : Told(id) \/ loop.closing = id => id \in gone
    /\ snap.at = "none" => snap = NoRows
    /\ \A i \in DOMAIN snap.left : ~Told(snap.left[i])
    /\ \A i \in DOMAIN snap.rows : ~Told(snap.rows[i].id)

IInv == LocksHeld /\ Listed /\ NotShownAgain

(* The page comes to show what there is, and no close stays at "Closing…": *)
(* the locks come free whoever holds them, a list is sent for any change,  *)
(* and a close whose answer was lost can be asked for again.               *)
ListCatchesUp ==
    <>[](page.rows = [k \in DOMAIN order |-> Row(order[k])] /\ page.closing = {})
=============================================================================
