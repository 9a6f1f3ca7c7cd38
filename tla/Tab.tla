-------------------------------- MODULE Tab ---------------------------------
(***************************************************************************)
(* A browser tab on one source: the connection that serves it              *)
(* (serve_source in crates/looqlog/src/server.rs) and the client on the    *)
(* other side of the socket (query-client.ts, view-session.ts,             *)
(* components/view-controller.ts, looqlog-live-tail.ts and                 *)
(* looqlog-entry-table.ts in web/src).                                     *)
(*                                                                         *)
(* A source is the range of its retained lines, an entry each; lines 2k-1  *)
(* and 2k are an event. What a view makes of them is Views' concern: here  *)
(* a query decides on events, and a view answers what is right at the      *)
(* time. The socket keeps the order of messages and loses all of them.     *)
(* Progress and the end of the input only change labels: left out.         *)
(***************************************************************************)
EXTENDS Integers, FiniteSets, SequencesExt

CONSTANTS
    None,
    Query,        \* what a user may search for: "all", "some", "bad"
    MaxLines,     \* how many lines a stream retains
    InputLines,   \* bound: the lines of the input
    MaxActs,      \* bound: what the user does, the re-parses another tab
                  \* asks for, and the connections that are lost
    MaxInFlight,  \* bound: messages on the way to the client
    MaxPending    \* bound: requests a timer or the user may add to

ASSUME TabAssumption ==
    /\ Query \subseteq {"all", "some", "bad"}
    /\ MaxLines \in Nat \ {0}
    /\ {InputLines, MaxActs, MaxInFlight, MaxPending} \subseteq Nat

VARIABLES
    src,    \* the source: lines first..last, epoch, revision, closed
    conn,   \* Conn: its phase, whether it has its source, its view and Sent
    c2s, s2c,   \* the socket
    client, \* QueryClient, ViewSession, ViewController and the table
    acts    \* a bound

vars == <<src, conn, c2s, s2c, client, acts>>

-----------------------------------------------------------------------------
(* The source and what a view of it shows.                                 *)

Root(o) == IF o % 2 = 1 THEN o ELSE o - 1

Base(query) ==
    {o \in src.first..src.last :
        query = "some" => (Root(o) \div 2 + src.epoch) % 2 = 0}

Rows(view) ==
    LET base == Base(view.query)
    IN  {o \in base : o = Root(o) \/ Root(o) \notin base
                                  \/ Root(o) \in view.toggled}

Counts(view) ==
    [total |-> src.last - src.first + 1,
     matched |-> Cardinality(Base(view.query)),
     row_count |-> Cardinality(Rows(view))]

NewSource == [first |-> 1, last |-> 0, epoch |-> 0, revision |-> 0,
              closed |-> FALSE]

NewView == [generation |-> 0, query |-> "all", toggled |-> {}]

NewSent == [epoch |-> None, revision |-> None, counts |-> None,
            evicted |-> 0]

NoConn == [phase |-> "none", source |-> FALSE, view |-> NewView,
           sent |-> NewSent]

(* Slip: an unknown source gets no answer. *)
Slip_Attached ==
    [messages |-> <<>>,
     conn |-> [NoConn EXCEPT !.phase = "serving", !.source = ~src.closed]]

(* The start of serve_source: a gone source is announced right away. *)
Attached ==
    [messages |-> IF src.closed THEN <<[type |-> "closed"]>> ELSE <<>>,
     conn |-> [NoConn EXCEPT !.phase = "serving", !.source = ~src.closed]]

Authenticate ==
    /\ conn.phase = "auth"
    /\ c2s # <<>>
    /\ c2s' = Tail(c2s)
    /\ conn' = Attached.conn
    /\ s2c' = s2c \o Attached.messages
    /\ UNCHANGED <<src, client, acts>>

-----------------------------------------------------------------------------
(* Requests (dispatch).                                                    *)

(* Slip: the toggles stay as they were. *)
Slip_SetQuery(view, request) ==
    IF request.query = "bad" THEN view
    ELSE [view EXCEPT !.generation = @ + 1, !.query = request.query]

(* Session::set_query: a search that does not compile changes nothing. *)
SetQuery(view, request) ==
    IF request.query = "bad" THEN view
    ELSE [generation |-> view.generation + 1, query |-> request.query,
          toggled |-> request.toggled]

Flip(set, x) == IF x \in set THEN set \ {x} ELSE set \union {x}

ViewAfter(view, request) ==
    CASE request.type = "query" -> SetQuery(view, request)
      [] request.type = "toggle_chain" ->
            [view EXCEPT !.toggled = Flip(@, request.root)]
      [] OTHER -> view

(* `of` is not sent: the query the rows are of, for the properties. *)
Data(view, request) ==
    [generation |-> view.generation, counts |-> Counts(view),
     rows |-> SetToSortSeq(Rows(view), <), of |-> view.query,
     compiled |-> request.type = "query" => request.query # "bad"]

(* Slip: a request to a closed source is dropped. *)
Slip_Answer(request, view) ==
    IF ~conn.source \/ src.closed THEN <<>>
    ELSE <<[type |-> "reply", id |-> request.id, data |-> Data(view, request)]>>

Answer(request, view) ==
    IF ~conn.source \/ src.closed
    THEN <<[type |-> "error", id |-> request.id]>>
    ELSE <<[type |-> "reply", id |-> request.id, data |-> Data(view, request)]>>

Serve ==
    LET request == Head(c2s)
        view == IF conn.source /\ ~src.closed
                THEN ViewAfter(conn.view, request) ELSE conn.view
    IN  /\ conn.phase = "serving"
        /\ c2s # <<>>
        /\ Len(s2c) < MaxInFlight
        /\ c2s' = Tail(c2s)
        /\ conn' = [conn EXCEPT !.view = view]
        /\ s2c' = s2c \o Answer(request, view)
        /\ UNCHANGED <<src, client, acts>>

(* notifications: what changed since the connection was last told. Counts  *)
(* are compared with the last that were pushed, not with those that        *)
(* replies carried.                                                        *)
Reset == conn.sent.epoch \notin {None, src.epoch}

Grown ==
    /\ Reset \/ conn.sent.counts = None \/ conn.sent.revision # src.revision
    /\ Reset \/ conn.sent.counts # Counts(conn.view)

Evicted == src.first - 1 # conn.sent.evicted

Notifications ==
    (IF Reset THEN <<[type |-> "reset"]>> ELSE <<>>)
    \o (IF Grown THEN <<[type |-> "grown", counts |-> Counts(conn.view)]>> ELSE <<>>)
    \o (IF Evicted THEN <<[type |-> "evicted"]>> ELSE <<>>)

Notify ==
    LET sent == [epoch |-> src.epoch, revision |-> src.revision,
                 counts |-> IF Grown THEN Counts(conn.view) ELSE conn.sent.counts,
                 evicted |-> src.first - 1]
    IN  /\ conn.phase = "serving"
        /\ conn.source
        /\ Len(s2c) < MaxInFlight
        /\ \/ /\ src.closed
              /\ s2c' = Append(s2c, [type |-> "closed"])
              /\ conn' = [conn EXCEPT !.source = FALSE, !.view = NewView]
           \/ /\ ~src.closed
              /\ sent # conn.sent
              /\ s2c' = s2c \o Notifications
              /\ conn' = [conn EXCEPT !.sent = sent]
        /\ UNCHANGED <<src, c2s, client, acts>>

-----------------------------------------------------------------------------
(* The client. `out` holds what a step sends; Say puts it on the socket.   *)

NewClient ==
    [state |-> "disconnected", connected |-> FALSE,
     pending |-> << >>, out |-> <<>>,
     generation |-> 0, toggled |-> {}, applied |-> "all",
     counts |-> [total |-> 0, matched |-> 0, row_count |-> 0],
     want |-> "all",
     cache |-> <<>>, of |-> "all", dirty |-> FALSE, frame |-> FALSE,
     following |-> TRUE, gone |-> FALSE,
     behind |-> FALSE]    \* for the properties: redrawn since the last fetch

(* Ids are only compared: a fresh one is the smallest that is not in use. *)
FreshId(c) ==
    CHOOSE i \in 1..(Cardinality(DOMAIN c.pending) + 1) :
        /\ i \notin DOMAIN c.pending
        /\ \A j \in 1..(i - 1) : j \in DOMAIN c.pending

(* QueryClient.request. querySeq and fetchSeq only tell the latest query   *)
(* and the latest fetch from earlier ones: `latest` does.                  *)
Request(c, request) ==
    LET asked == [request EXCEPT !.id = FreshId(c)]
        older == [i \in DOMAIN c.pending |->
                    IF c.pending[i].type = request.type
                    THEN [c.pending[i] EXCEPT !.latest = FALSE]
                    ELSE c.pending[i]]
    IN  IF c.state # "live" THEN [c EXCEPT !.pending = older]
        ELSE [c EXCEPT
                 !.pending = [i \in DOMAIN older \union {asked.id} |->
                    IF i = asked.id THEN [asked EXCEPT !.latest = TRUE] ELSE older[i]],
                 !.out = Append(@, asked)]

Of(type) == [id |-> None, type |-> type, latest |-> FALSE]

Stats(c) == Request(c, Of("stats"))

(* ViewController.runQuery *)
RunQuery(c) ==
    Request(c, [id |-> None, type |-> "query", latest |-> FALSE,
                query |-> c.want, toggled |-> c.toggled])

(* LooqlogEntryTable: fetchAround, and renderVisibleRows, which schedules  *)
(* a fetch when a visible row is not in the cache.                         *)
Fetch(c) == Request([c EXCEPT !.behind = FALSE], Of("window"))

RenderVisibleRows(c) ==
    IF c.counts.row_count > Len(c.cache) THEN [c EXCEPT !.frame = TRUE] ELSE c

(* reload, and refresh of a table at the top of its rows. *)
Reload(c) == Fetch(RenderVisibleRows([c EXCEPT !.cache = <<>>]))

(* Slip: a window of another generation is taken for the current one. *)
Slip_OnWindow(c, data, latest) ==
    LET counted == [c EXCEPT !.counts = data.counts]
    IN  IF ~latest THEN counted
        ELSE RenderVisibleRows([counted EXCEPT !.cache = data.rows, !.of = data.of])

OnWindow(c, data, latest) ==
    LET counted == [c EXCEPT !.counts = data.counts]
    IN  IF data.generation # c.generation THEN c
        ELSE IF ~latest THEN counted
        ELSE RenderVisibleRows([counted EXCEPT !.cache = data.rows, !.of = data.of])

(* The reply to a query: ViewSession.query, then ViewController.runQuery,  *)
(* which redraws only for the latest query and only when it compiled.      *)
OnQuery(c, data, request) ==
    LET taken == IF data.compiled
                 THEN [c EXCEPT !.applied = request.query,
                                !.generation = data.generation,
                                !.counts = data.counts]
                 ELSE [c EXCEPT !.counts = data.counts]
    IN  IF request.latest /\ data.compiled THEN Reload(taken) ELSE taken

OnToggle(c, data, request) ==
    Fetch([c EXCEPT !.toggled = Flip(@, request.root),
                    !.counts.row_count = data.counts.row_count])

Settle(c, id) ==
    [c EXCEPT !.pending = [i \in DOMAIN @ \ {id} |-> @[i]]]

(* QueryClient.handle with the continuations of what it settles; a stats   *)
(* request that fails is followed by the query like one that does not.     *)
OnReply(c, msg) ==
    LET request == c.pending[msg.id]
        settled == Settle(c, msg.id)
        ok      == msg.type = "reply"
    IN  CASE request.type = "stats" -> RunQuery(settled)
          [] request.type = "query" /\ ok -> OnQuery(settled, msg.data, request)
          [] request.type = "window" /\ ok ->
                OnWindow(settled, msg.data, request.latest)
          [] request.type = "toggle_chain" /\ ok ->
                OnToggle(settled, msg.data, request)
          [] OTHER -> settled

(* Slip: new counts are shown, and the rows left as they are. *)
Slip_OnNotification(c, msg) ==
    CASE msg.type = "grown" -> [c EXCEPT !.counts = msg.counts]
      [] msg.type = "evicted" -> [c EXCEPT !.dirty = TRUE]
      [] msg.type = "reset" -> Stats(c)
      [] msg.type = "closed" -> [c EXCEPT !.gone = TRUE]

OnNotification(c, msg) ==
    CASE msg.type = "grown" -> [c EXCEPT !.counts = msg.counts, !.dirty = TRUE]
      [] msg.type = "evicted" -> [c EXCEPT !.dirty = TRUE]
      [] msg.type = "reset" -> Stats(c)
      [] msg.type = "closed" -> [c EXCEPT !.gone = TRUE]

(* The first frame of a connection: it is live, and the current query is   *)
(* issued again once the stats are there.                                  *)
OnFirst(c, msg) ==
    LET live == [c EXCEPT !.state = "live"]
        attached == IF c.connected THEN live
                    ELSE Reload([live EXCEPT !.connected = TRUE])
    IN  IF msg.type = "closed" THEN live ELSE Stats(attached)

Say(c) ==
    \E said \in {c} : client' = [said EXCEPT !.out = <<>>] /\ c2s' = c2s \o said.out

Receive ==
    LET msg == Head(s2c)
        c   == IF client.state = "connecting" THEN OnFirst(client, msg) ELSE client
    IN  /\ s2c # <<>>
        /\ s2c' = Tail(s2c)
        /\ Say(IF msg.type \in {"reply", "error"} THEN OnReply(c, msg)
               ELSE OnNotification(c, msg))
        /\ UNCHANGED <<src, conn, acts>>

(* QueryClient.open: at first, and when the reconnect timer fires. *)
Open ==
    /\ client.state = "disconnected"
    /\ client' = [client EXCEPT !.state = "connecting"]
    /\ conn' = [NoConn EXCEPT !.phase = "auth"]
    /\ c2s' = <<[type |-> "auth"]>>
    /\ UNCHANGED <<src, s2c, acts>>

Act == acts < MaxActs /\ acts' = acts + 1

(* The connection is lost: every pending request fails. *)
Drop ==
    /\ conn.phase # "none"
    /\ Act
    /\ client' = [client EXCEPT !.state = "disconnected", !.pending = << >>]
    /\ conn' = NoConn
    /\ c2s' = <<>>
    /\ s2c' = <<>>
    /\ UNCHANGED src

Quiet == Cardinality(DOMAIN client.pending) < MaxPending

(* Timers of the page: the next frame, and the table's redraw. *)
Frame ==
    /\ client.frame
    /\ Quiet
    /\ Say(Fetch([client EXCEPT !.frame = FALSE]))
    /\ UNCHANGED <<src, conn, s2c, acts>>

TickTableRender ==
    LET clean == [client EXCEPT !.dirty = FALSE]
    IN  /\ client.dirty
        /\ Quiet
        /\ Say(IF client.following
               THEN RenderVisibleRows([clean EXCEPT !.behind = TRUE]) ELSE Reload(clean))
        /\ UNCHANGED <<src, conn, s2c, acts>>

(* The user. *)
UserQuery(query) ==
    /\ client.connected /\ ~client.gone
    /\ query # client.want
    /\ Say(RunQuery([client EXCEPT !.want = query]))

UserToggle(root) ==
    /\ ~client.gone
    /\ Say(Request(client, [id |-> None, type |-> "toggle_chain", latest |-> FALSE,
                            root |-> root]))

UserScroll ==
    /\ ~client.gone
    /\ Say(IF client.following THEN [client EXCEPT !.following = FALSE]
           ELSE RenderVisibleRows([client EXCEPT !.following = TRUE]))

User ==
    /\ Act
    /\ Quiet
    /\ \/ \E query \in Query : UserQuery(query)
       \/ \E o \in ToSet(client.cache) : o = Root(o) /\ UserToggle(o)
       \/ UserScroll
    /\ UNCHANGED <<src, conn, s2c>>

(* The source. *)
Line ==
    LET last == src.last + 1
    IN  /\ last <= InputLines
        /\ ~src.closed
        /\ src' = [src EXCEPT !.last = last, !.revision = @ + 1,
                   !.first = IF last - @ + 1 > MaxLines THEN @ + 1 ELSE @]

Reparse ==
    /\ Act
    /\ ~src.closed
    /\ src' = [src EXCEPT !.epoch = @ + 1, !.revision = @ + 1]

Close == ~src.closed /\ src' = [src EXCEPT !.closed = TRUE]

Source ==
    /\ Reparse \/ ((Line \/ Close) /\ UNCHANGED acts)
    /\ UNCHANGED <<conn, c2s, s2c, client>>

Init ==
    /\ src = NewSource
    /\ conn = NoConn
    /\ c2s = <<>> /\ s2c = <<>>
    /\ client = NewClient
    /\ acts = 0

System ==
    Authenticate \/ Serve \/ Notify \/ Receive \/ Open \/ Frame \/ TickTableRender

Next == System \/ Drop \/ User \/ Source

Spec == Init /\ [][Next]_vars

(* The connection's loop and the page's timers run, and the socket         *)
(* delivers. Sources, users and networks need do nothing. Of opening,      *)
(* authenticating and serving one at most is possible at a time.           *)
Fairness ==
    /\ WF_vars(Open \/ Authenticate \/ Serve)
    /\ WF_vars(Notify) /\ WF_vars(Receive)
    /\ WF_vars(Frame) /\ WF_vars(TickTableRender)

FairSpec == Spec /\ Fairness

-----------------------------------------------------------------------------
(* Properties.                                                             *)

Asked == {k \in DOMAIN c2s : c2s[k].type \in {"query", "window", "toggle_chain", "stats"}}

Answered == {k \in DOMAIN s2c : s2c[k].type \in {"reply", "error"}}

(* "Every request carries a client-chosen id and gets exactly one reply or *)
(* error with that id" (protocol.rs): every promise the page waits on is   *)
(* one request on its way or one answer on its way, never both, and no     *)
(* answer comes for a promise nobody holds.                                *)
RequestsAnswered ==
    /\ \A j, k \in Asked : c2s[j].id = c2s[k].id => j = k
    /\ \A j, k \in Answered : s2c[j].id = s2c[k].id => j = k
    /\ \A j \in Asked, k \in Answered : c2s[j].id # s2c[k].id
    /\ DOMAIN client.pending = {c2s[j].id : j \in Asked} \union {s2c[k].id : k \in Answered}

(* Why: both ends agree on where their connection is, and what the page    *)
(* waits for it asked on this connection.                                  *)
InStep ==
    /\ client.state = "disconnected" <=> conn.phase = "none"
    /\ conn.phase = "none" => c2s = <<>> /\ s2c = <<>>
    /\ conn.phase = "auth" =>
           client.state = "connecting" /\ s2c = <<>> /\ c2s = <<[type |-> "auth"]>>
    /\ conn.phase = "serving" => Asked = DOMAIN c2s
    /\ client.state # "live" => DOMAIN client.pending = {}
    /\ client.out = <<>>

(* "No component ever renders a window that belongs to a superseded        *)
(* filter" (view-session.ts): rows that enter the table are rows of the    *)
(* query the session shows as applied, however late their reply comes.     *)
StoredRowsCurrent ==
    [][client'.cache # client.cache /\ client'.cache # <<>>
        => client'.of = client'.applied]_vars

Replies == {k \in DOMAIN s2c : s2c[k].type = "reply"}

(* The page will take the query that this is the reply to as applied.      *)
Applies(k) ==
    /\ k \in Replies
    /\ client.pending[s2c[k].id].type = "query"
    /\ s2c[k].data.compiled

(* Why: a generation is one query of one connection, and a reply of a      *)
(* generation the page knows from an earlier connection comes behind the   *)
(* reply that tells the page what this connection's is.                    *)
GenerationsKept ==
    /\ client.generation = 0 => client.applied = "all"
    /\ \A k \in Asked :
           LET request == client.pending[c2s[k].id]
           IN  /\ request.type = c2s[k].type
               /\ request.type = "query" => request.query = c2s[k].query
    /\ \A k \in Replies :
           /\ Applies(k) => /\ s2c[k].data.generation > 0
                            /\ s2c[k].data.of = client.pending[s2c[k].id].query
           /\ \A j \in Replies : s2c[j].data.generation = s2c[k].data.generation
                                     => s2c[j].data.of = s2c[k].data.of
           /\ s2c[k].data.generation = client.generation =>
                  \/ s2c[k].data.of = client.applied
                  \/ \E j \in Replies :
                         /\ j <= k /\ Applies(j)
                         /\ s2c[j].data.generation = s2c[k].data.generation
    /\ conn.source =>
           /\ \A k \in Replies :
                  /\ s2c[k].data.generation <= conn.view.generation
                  /\ s2c[k].data.generation = conn.view.generation =>
                         s2c[k].data.of = conn.view.query
           /\ conn.view.generation = client.generation =>
                  \/ conn.view.query = client.applied
                  \/ \E j \in Replies :
                         Applies(j) /\ s2c[j].data.generation = conn.view.generation

IInv == RequestsAnswered /\ InStep /\ GenerationsKept

(* What a settled tab shows: the rows, and the counts, of its query over   *)
(* the lines the source retains now.                                       *)
Shown(view) ==
    /\ client.applied = view.query
    /\ client.cache = SetToSortSeq(Rows(view), <)
    /\ client.counts = Counts(view)

(* Lines, evictions, re-parses, queries, toggles and reconnects in any     *)
(* order: once they stop, a tab shows what its view of the source holds    *)
(* (notifications, refresh), unless it was redrawn last to follow the tail *)
(* and nothing was fetched for it (tickTableRender: FollowShowsNewest).    *)
CatchesUp ==
    <>[](client.gone \/ client.behind
         \/ (conn.view.query = client.want /\ Shown(conn.view)))

(* The chains that the connection will have toggled once it has served the *)
(* requests that are on their way, and the page once it has its answers.   *)
ToggledThere == FoldLeft(ViewAfter, conn.view, c2s).toggled

ToggledHere ==
    LET Waiting(root) == {i \in DOMAIN client.pending :
                              /\ client.pending[i].type = "toggle_chain"
                              /\ client.pending[i].root = root}
    IN  {root \in 1..InputLines :
            (root \in client.toggled) # (Cardinality(Waiting(root)) % 2 = 1)}

Agree ==
    conn.source /\ ~src.closed /\ client.state = "live" => ToggledThere = ToggledHere

QuerySent ==
    \E k \in DOMAIN c2s' : /\ k > Len(c2s)
                           /\ c2s'[k].type = "query" /\ c2s'[k].query # "bad"

ToggleWaits == \E i \in DOMAIN client.pending : client.pending[i].type = "toggle_chain"

(* Both sides keep the chains that the user has toggled: whatever is on    *)
(* its way between them, they come to the same set, and a query brings a   *)
(* connection that is new to the set of the page (set_query, toggleChain). *)
(* Only a query that is sent while a toggle waits for its answer takes     *)
(* them apart: it does not have that toggle, and the page applies it after.*)
TogglesAgree ==
    [][/\ Agree /\ ~Agree' => client.state = "connecting" \/ (QuerySent /\ ToggleWaits)
       /\ QuerySent /\ ~ToggleWaits => Agree']_vars

(* A tab on a source that is closed is told so, over as many connections   *)
(* as it takes, never left waiting, and goes on saying so (showGone,       *)
(* looqlog-live-tail.ts).                                                  *)
ClosedShown == <>[](src.closed => client.gone)

(* "Scrolls to the newest row. Used by a follow caller after each refresh" *)
(* (looqlog-entry-table.ts): a tab that follows the tail ends up showing   *)
(* the newest row.                                                         *)
FollowShowsNewest ==
    <>[](\/ client.gone \/ ~client.following \/ Rows(conn.view) = {}
         \/ /\ client.cache # <<>>
            /\ Last(client.cache) = Last(SetToSortSeq(Rows(conn.view), <)))
=============================================================================
