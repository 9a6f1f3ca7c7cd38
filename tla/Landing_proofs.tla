-------------------------- MODULE Landing_proofs ---------------------------
(***************************************************************************)
(* Proofs about Landing, for any sources and workers: who holds which      *)
(* lock, and that no list shows a source again whose close was confirmed.  *)
(***************************************************************************)
EXTENDS Landing, SequenceTheorems, TLAPS

(* What is left of a sequence when a place is taken out of it. *)
LEMMA RemovedAt ==
    ASSUME NEW S, NEW s \in Seq(S), NEW k \in 1..Len(s)
    PROVE  /\ RemoveAt(s, k) \in Seq(S)
           /\ Len(RemoveAt(s, k)) = Len(s) - 1
           /\ \A i \in 1..(Len(s) - 1) :
                  RemoveAt(s, k)[i] = IF i < k THEN s[i] ELSE s[i + 1]
<1>1. /\ SubSeq(s, 1, k - 1) \in Seq(S) /\ Len(SubSeq(s, 1, k - 1)) = k - 1
      /\ \A i \in 1..(k - 1) : SubSeq(s, 1, k - 1)[i] = s[i]
    OBVIOUS
<1>2. /\ SubSeq(s, k + 1, Len(s)) \in Seq(S) /\ Len(SubSeq(s, k + 1, Len(s))) = Len(s) - k
      /\ \A i \in 1..(Len(s) - k) : SubSeq(s, k + 1, Len(s))[i] = s[k + i]
    OBVIOUS
<1> DEFINE front == SubSeq(s, 1, k - 1)
           back  == SubSeq(s, k + 1, Len(s))
<1>3. RemoveAt(s, k) = front \o back
    BY DEF RemoveAt
<1> HIDE DEF front, back
<1>4. /\ front \o back \in Seq(S)
      /\ Len(front \o back) = Len(front) + Len(back)
      /\ \A i \in 1..(Len(front) + Len(back)) : (front \o back)[i] =
             IF i <= Len(front) THEN front[i] ELSE back[i - Len(front)]
    BY <1>1, <1>2, ConcatProperties DEF front, back
<1>5. Len(front) = k - 1 /\ Len(back) = Len(s) - k
    BY <1>1, <1>2 DEF front, back
<1>6. Len(s) \in Nat
    OBVIOUS
<1>7. \A i \in 1..(Len(s) - 1) :
          (front \o back)[i] = IF i < k THEN s[i] ELSE s[i + 1]
    <2>1. ASSUME NEW i \in 1..(Len(s) - 1), i < k PROVE (front \o back)[i] = s[i]
        BY <1>1, <1>4, <1>5, <1>6, <2>1 DEF front
    <2>2. ASSUME NEW i \in 1..(Len(s) - 1), ~(i < k) PROVE (front \o back)[i] = s[i + 1]
        <3>1. (front \o back)[i] = back[i - (k - 1)]
            BY <1>4, <1>5, <1>6, <2>2
        <3>2. i - (k - 1) \in 1..(Len(s) - k)
            BY <1>6, <2>2
        <3>3. back[i - (k - 1)] = s[k + (i - (k - 1))]
            BY <1>2, <3>2 DEF back
        <3>4. QED
            BY <3>1, <3>3
    <2>3. QED
        BY <2>1, <2>2
<1>8. QED
    BY <1>3, <1>4, <1>5, <1>6, <1>7

(* The list after a removal: of the same ids, but for the one that left.   *)
LEMMA Unlisted ==
    ASSUME TypeOK, NEW id, Unlist(id)
    PROVE  /\ order' \in Seq(Sources) /\ id \in Sources /\ gone' = gone \union {id}
           /\ Listed => /\ \A i, j \in DOMAIN order' : order'[i] = order'[j] => i = j
                        /\ \A i \in DOMAIN order' : order'[i] \notin gone'
<1>1. PICK k \in 1..Len(order) : order[k] = id /\ order' = RemoveAt(order, k)
    BY DEF TypeOK, Unlist
<1>2. /\ order' \in Seq(Sources)
      /\ Len(order') = Len(order) - 1
      /\ \A i \in 1..(Len(order) - 1) : order'[i] = IF i < k THEN order[i] ELSE order[i + 1]
    <2>1. order \in Seq(Sources)
        BY DEF TypeOK
    <2> HIDE DEF TypeOK
    <2>2. QED
        BY <1>1, <2>1, RemovedAt
<1>3. id \in Sources /\ gone' = gone \union {id}
    BY <1>1 DEF TypeOK, Unlist
<1>4. ASSUME Listed
      PROVE  /\ \A i, j \in DOMAIN order' : order'[i] = order'[j] => i = j
             /\ \A i \in DOMAIN order' : order'[i] \notin gone'
    <2>1. order \in Seq(Sources) /\ Len(order) \in Nat
        BY DEF TypeOK
    <2>2. \A i, j \in 1..Len(order) : order[i] = order[j] => i = j
        BY <1>4, <2>1 DEF Listed
    <2>3. \A i \in 1..Len(order) : order[i] \notin gone
        BY <1>4, <2>1 DEF Listed
    <2>4. DOMAIN order' = 1..(Len(order) - 1)
        BY <1>2
    <2> DEFINE at(i) == IF i < k THEN i ELSE i + 1
    <2>5. \A i \in DOMAIN order' :
              at(i) \in 1..Len(order) /\ at(i) # k /\ order'[i] = order[at(i)]
        BY <1>2, <2>1, <2>4
    <2>6. \A i, j \in DOMAIN order' : at(i) = at(j) => i = j
        BY <2>1, <2>4
    <2> HIDE DEF at
    <2>7. \A i, j \in DOMAIN order' : order'[i] = order'[j] => i = j
        BY <2>2, <2>5, <2>6
    <2>8. \A i \in DOMAIN order' : order'[i] \notin gone'
        BY <1>1, <1>3, <2>2, <2>3, <2>5
    <2>9. QED
        BY <2>7, <2>8
<1>5. QED
    BY <1>2, <1>3, <1>4

LEMMA ListingIds ==
    ASSUME NEW rows \in Listing PROVE \A i \in DOMAIN rows : rows[i].id \in Sources
<1> SUFFICES ASSUME NEW i \in DOMAIN rows PROVE rows[i].id \in Sources
    OBVIOUS
<1> DEFINE R == [id : Sources, size : Nat]
<1>1. rows \in Seq(R)
    BY DEF Listing
<1> HIDE DEF R
<1>2. rows[i] \in R
    BY <1>1
<1>3. QED
    BY <1>2 DEF R

(* What a message carries, and which records are messages. *)
LEMMA MessageFields ==
    /\ \A m \in Message :
           /\ m.type \in {"sources", "reply"}
           /\ m.type = "sources" => m.rows \in Listing
           /\ m.type = "reply" => m.id \in Sources /\ m.ok \in BOOLEAN
    /\ \A rows \in Listing : [type |-> "sources", rows |-> rows] \in Message
    /\ \A id \in Sources, ok \in BOOLEAN :
           [type |-> "reply", id |-> id, ok |-> ok] \in Message
BY DEF Message

-----------------------------------------------------------------------------
LEMMA InitType == Init => TypeOK
BY LandingAssumption DEF Init, TypeOK, NoRows, NewLoop, Listing, Message

LEMMA NextType == TypeOK /\ [Next]_vars => TypeOK'
<1> SUFFICES ASSUME TypeOK, [Next]_vars PROVE TypeOK'
    OBVIOUS
<1> USE LandingAssumption
<1>1. ASSUME NEW id \in Sources, Add(id) PROVE TypeOK'
    BY <1>1 DEF Add, TypeOK, landing, client
<1>2. ASSUME NEW id \in Sources, UserCloses(id) PROVE TypeOK'
    <2>1. page' \in [connected : BOOLEAN, rows : Listing,
                     closing : SUBSET Sources, pending : SUBSET Sources]
        BY <1>2 DEF UserCloses, TypeOK
    <2>2. up' \in Seq(Sources)
        BY <1>2 DEF UserCloses, TypeOK
    <2>3. QED
        BY <1>2, <2>1, <2>2 DEF UserCloses, TypeOK, server, landing
<1>3. ASSUME NEW w \in Workers, NEW id \in Sources, Ingest(w, id) PROVE TypeOK'
    BY <1>3 DEF Ingest, Goes, TypeOK, landing, client
<1>4. ASSUME NEW w \in Workers, NEW id \in Sources, Page(w, id) PROVE TypeOK'
    BY <1>4 DEF Page, Goes, TypeOK, landing, client
<1>5. ASSUME NEW w \in Workers, Sweep(w) PROVE TypeOK'
    BY <1>5 DEF Sweep, Goes, TypeOK, landing, client
<1>6. ASSUME NEW w \in Workers, Unload(w) PROVE TypeOK'
    <2>1. PICK id \in Sources : Unlist(id) /\ Goes(w, "close", id)
        BY <1>6 DEF Unload
    <2>2. order' \in Seq(Sources) /\ gone' \subseteq Sources
        BY <2>1, Unlisted DEF TypeOK
    <2>3. QED
        BY <1>6, <2>1, <2>2 DEF Unload, Goes, TypeOK, landing, client
<1>7. ASSUME NEW w \in Workers, Ingested(w) PROVE TypeOK'
    <2> DEFINE id == job[w].id
    <2>1. id \in Sources \union {None}
        BY DEF TypeOK
    <2>2. /\ size' = [size EXCEPT ![id] = @ + 1]
          /\ lock' = [lock EXCEPT ![id] = None]
          /\ job' = [job EXCEPT ![w] = [at |-> "charge", id |-> id]]
          /\ UNCHANGED <<order, gone, registry, landing, up, down, client, drops>>
        BY <1>7 DEF Ingested, Goes
    <2> HIDE DEF id
    <2>3. size' \in [Sources -> Nat]
        <3>1. CASE id \in Sources
            BY <2>2, <3>1 DEF TypeOK
        <3>2. CASE id \notin Sources
            BY <2>2, <3>2 DEF TypeOK
        <3>3. QED
            BY <3>1, <3>2
    <2>4. QED
        BY <2>1, <2>2, <2>3 DEF TypeOK, landing, client
<1>8. ASSUME NEW w \in Workers, Record(w) PROVE TypeOK'
    BY <1>8 DEF Record, Goes, TypeOK, landing, client
<1>9. ASSUME NEW w \in Workers, Charge(w) PROVE TypeOK'
    BY <1>9 DEF Charge, Goes, TypeOK, landing, client
<1>10. ASSUME NEW w \in Workers, Closes(w) PROVE TypeOK'
    BY <1>10 DEF Closes, Goes, TypeOK, landing, client
<1>11. ASSUME NEW w \in Workers, Unloaded(w) PROVE TypeOK'
    BY <1>11 DEF Unloaded, Goes, TypeOK, landing, client
<1>12. ASSUME NEW w \in Workers, PageDone(w) PROVE TypeOK'
    BY <1>12 DEF PageDone, Goes, TypeOK, landing, client
<1>13. CASE Tick
    BY <1>13 DEF Tick, TypeOK, Listing, client
<1>14. CASE ReadRow
    <2> DEFINE id == Head(snap.left)
    <2>1. /\ id \in Sources /\ Row(id) \in [id : Sources, size : Nat]
          /\ Tail(snap.left) \in Seq(Sources)
        BY <1>14 DEF ReadRow, TypeOK, Row
    <2>2. Append(snap.rows, Row(id)) \in Listing
        BY <2>1 DEF TypeOK, Listing
    <2>3. /\ snap' = [snap EXCEPT !.left = Tail(@), !.rows = Append(@, Row(id))]
          /\ UNCHANGED <<server, loop, up, down, client, drops>>
        BY <1>14 DEF ReadRow
    <2> HIDE DEF id
    <2>4. snap' \in [at : {"none", "reading", "read"}, left : Seq(Sources), rows : Listing]
        BY <2>1, <2>2, <2>3 DEF TypeOK
    <2>5. QED
        BY <2>3, <2>4 DEF TypeOK, server, client
<1>15. CASE RowsRead
    BY <1>15 DEF RowsRead, TypeOK, client
<1>16. CASE SendRows
    <2>1. snap' \in [at : {"none", "reading", "read"}, left : Seq(Sources), rows : Listing]
        BY <1>16 DEF SendRows, NoRows, Listing
    <2>2. down' \in Seq(Message)
        <3> DEFINE m == [type |-> "sources", rows |-> snap.rows]
        <3>1. m \in Message
            BY MessageFields DEF TypeOK
        <3>2. down' = down \/ down' = Append(down, m)
            BY <1>16 DEF SendRows
        <3>3. down \in Seq(Message)
            BY DEF TypeOK
        <3> HIDE DEF m, TypeOK
        <3>4. QED
            BY <3>1, <3>2, <3>3, AppendProperties
    <2>3. loop' \in [alive : BOOLEAN, closing : Sources \union {None},
                     sent : Listing \union {None}]
        BY <1>16, ZenonT(60) DEF SendRows, TypeOK
    <2>4. QED
        BY <1>16, <2>1, <2>2, <2>3 DEF SendRows, TypeOK, server, client
<1>17. CASE NextRequest
    <2> DEFINE id == Head(up)
    <2>1. id \in Sources /\ Tail(up) \in Seq(Sources)
        BY <1>17 DEF NextRequest, TypeOK
    <2>2. Takes(id)
        BY <1>17 DEF NextRequest
    <2> HIDE DEF id
    <2>3. order' \in Seq(Sources) /\ gone' \subseteq Sources
        <3>1. Unlist(id) \/ UNCHANGED <<order, gone>>
            BY <2>2 DEF Takes
        <3>2. CASE Unlist(id)
            BY <3>2, Unlisted DEF TypeOK
        <3>3. QED
            BY <3>1, <3>2 DEF TypeOK
    <2>4. down' \in Seq(Message)
        <3> DEFINE m == [type |-> "reply", id |-> id, ok |-> FALSE]
        <3>1. m \in Message
            BY <2>1, MessageFields
        <3>2. down' = down \/ down' = Append(down, m)
            BY <2>2 DEF Takes, Answers
        <3>3. down \in Seq(Message)
            BY DEF TypeOK
        <3> HIDE DEF m, TypeOK
        <3>4. QED
            BY <3>1, <3>2, <3>3, AppendProperties
    <2>5. loop' \in [alive : BOOLEAN, closing : Sources \union {None},
                     sent : Listing \union {None}]
        BY <2>1, <2>2, ZenonT(60) DEF Takes, TypeOK
    <2>6. up' \in Seq(Sources)
        BY <1>17, <2>1, <2>2 DEF Takes, id
    <2>7. QED
        BY <2>2, <2>3, <2>4, <2>5, <2>6 DEF Takes, TypeOK, client
<1>18. CASE Closed
    <2>1. down' \in Seq(Message)
        <3> DEFINE m == [type |-> "reply", id |-> loop.closing, ok |-> TRUE]
        <3>1. m \in Message
            BY <1>18, MessageFields DEF Closed, TypeOK
        <3>2. down' = down \/ down' = Append(down, m)
            BY <1>18 DEF Closed, Answers
        <3>3. down \in Seq(Message)
            BY DEF TypeOK
        <3> HIDE DEF m, TypeOK
        <3>4. QED
            BY <3>1, <3>2, <3>3, AppendProperties
    <2>2. loop' \in [alive : BOOLEAN, closing : Sources \union {None},
                     sent : Listing \union {None}]
        BY <1>18 DEF Closed, TypeOK
    <2>3. QED
        BY <1>18, <2>1, <2>2 DEF Closed, TypeOK, client
<1>19. CASE Ends
    BY <1>19 DEF Ends, TypeOK, server, client
<1>20. CASE Receive
    <2> DEFINE m == Head(down)
    <2>1. m \in Message /\ Tail(down) \in Seq(Message)
        BY <1>20 DEF Receive, TypeOK
    <2>2. /\ page' = Reduce(page, m)
          /\ acked' = IF m.type = "reply" /\ m.ok THEN acked \union {m.id} ELSE acked
          /\ down' = Tail(down)
          /\ UNCHANGED <<server, landing, up, drops>>
        BY <1>20 DEF Receive
    <2> HIDE DEF m
    <2>3. m.type = "reply" => m.id \in Sources /\ m.ok \in BOOLEAN
        BY <2>1, MessageFields
    <2>4. m.type = "sources" => m.rows \in Listing
        BY <2>1, MessageFields
    <2>5. m.type = "sources" \/ m.type = "reply"
        BY <2>1, MessageFields
    <2>6. page' \in [connected : BOOLEAN, rows : Listing,
                     closing : SUBSET Sources, pending : SUBSET Sources]
        <3>1. CASE m.type = "sources"
            BY <2>2, <2>4, <3>1 DEF Reduce, TypeOK
        <3>2. CASE m.type = "reply"
            BY <2>2, <2>3, <3>2 DEF Reduce, TypeOK
        <3>3. QED
            BY <2>5, <3>1, <3>2
    <2>7. acked' \subseteq Sources
        BY <2>2, <2>3 DEF TypeOK
    <2>8. QED
        BY <2>1, <2>2, <2>6, <2>7 DEF TypeOK, server, landing
<1>21. CASE Drop
    <2>1. page' \in [connected : BOOLEAN, rows : Listing,
                     closing : SUBSET Sources, pending : SUBSET Sources]
        BY <1>21 DEF Drop, Fail, TypeOK
    <2>2. QED
        BY <1>21, <2>1 DEF Drop, TypeOK, server, landing
<1>22. CASE Reconnect
    BY <1>22 DEF Reconnect, NewLoop, TypeOK, Listing, server
<1>23. CASE UNCHANGED vars
    BY <1>23 DEF vars, server, landing, client, TypeOK
<1>24. QED
    BY <1>1, <1>2, <1>3, <1>4, <1>5, <1>6, <1>7, <1>8, <1>9, <1>10, <1>11, <1>12,
       <1>13, <1>14, <1>15, <1>16, <1>17, <1>18, <1>19, <1>20, <1>21, <1>22, <1>23
    DEF Next, Starts, Proceeds, Serves

-----------------------------------------------------------------------------
(* A worker's step that leaves the locks of the sources alone.             *)
LEMMA WorkerLocks ==
    ASSUME TypeOK, LocksHeld, NEW w \in Workers, NEW at, NEW id, Goes(w, at, id),
           at \in {"idle", "charge", "unload", "close", "page"},
           at \in {"charge", "close", "page"} => id # None,
           job[w].at # "ingest", UNCHANGED <<lock, snap, loop>>,
           \/ registry' = registry
              /\ (registry = w <=> at \in {"unload", "close", "page"})
           \/ registry = None /\ registry' = w /\ at \in {"unload", "close", "page"}
           \/ registry = w /\ registry' = None /\ at \in {"idle", "charge"}
    PROVE  LocksHeld'
<1>1. /\ job'[w] = [at |-> at, id |-> id]
      /\ \A v \in Workers \ {w} : job'[v] = job[v]
    BY DEF Goes, TypeOK
<1>2. \A v \in Workers : registry' = v <=> job'[v].at \in {"unload", "close", "page"}
    BY <1>1, LandingAssumption DEF LocksHeld
<1>3. \A v \in Workers :
          /\ job'[v].at \in {"ingest", "charge", "close", "page"} => job'[v].id # None
          /\ \A x \in Sources : lock'[x] = v <=> job'[v] = [at |-> "ingest", id |-> x]
    BY <1>1 DEF LocksHeld
<1>4. /\ registry' = "rows" <=> snap'.at = "reading"
      /\ registry' = "loop" <=> loop'.closing # None
      /\ loop'.closing # None => loop'.alive /\ snap'.at = "none"
    <2>1. registry' = registry \/ {registry, registry'} \subseteq {w, None}
        OBVIOUS
    <2>2. w # "rows" /\ w # "loop" /\ None # "rows" /\ None # "loop"
        BY LandingAssumption
    <2>3. QED
        BY <2>1, <2>2 DEF LocksHeld
<1>5. QED
    BY <1>2, <1>3, <1>4 DEF LocksHeld

(* A step of serve_landing or of the page. *)
LEMMA OtherLocks ==
    ASSUME TypeOK, LocksHeld, UNCHANGED <<lock, job>>,
           registry' = registry \/ ({registry, registry'} \subseteq {None, "rows", "loop"}),
           registry' = "rows" <=> snap'.at = "reading",
           registry' = "loop" <=> loop'.closing # None,
           loop'.closing # None => loop'.alive /\ snap'.at = "none"
    PROVE  LocksHeld'
BY LandingAssumption DEF LocksHeld

LEMMA NextLocks == TypeOK /\ LocksHeld /\ [Next]_vars => LocksHeld'
<1> SUFFICES ASSUME TypeOK, LocksHeld, [Next]_vars PROVE LocksHeld'
    OBVIOUS
<1> USE LandingAssumption
<1>a. ASSUME UNCHANGED <<lock, job, registry, snap, loop>> PROVE LocksHeld'
    BY <1>a DEF LocksHeld
<1>1. ASSUME NEW id \in Sources, Add(id) \/ UserCloses(id) PROVE LocksHeld'
    BY <1>1, <1>a DEF Add, UserCloses, server, landing
<1>2. ASSUME NEW w \in Workers, NEW id \in Sources, Ingest(w, id) PROVE LocksHeld'
    <2>1. /\ job'[w] = [at |-> "ingest", id |-> id] /\ lock'[id] = w
          /\ \A v \in Workers \ {w} : job'[v] = job[v]
          /\ \A x \in Sources \ {id} : lock'[x] = lock[x]
          /\ UNCHANGED <<registry, snap, loop>>
        BY <1>2 DEF Ingest, Goes, TypeOK, landing
    <2>2. job[w].at = "idle" /\ lock[id] = None
        BY <1>2 DEF Ingest, At
    <2>3. QED
        BY <2>1, <2>2 DEF LocksHeld
<1>3. ASSUME NEW w \in Workers, Ingested(w) PROVE LocksHeld'
    <2> DEFINE id == job[w].id
    <2>1. id \in Sources /\ job[w].at = "ingest"
        BY <1>3 DEF Ingested, At, LocksHeld, TypeOK
    <2>2. /\ job'[w] = [at |-> "charge", id |-> id] /\ lock'[id] = None
          /\ \A v \in Workers \ {w} : job'[v] = job[v]
          /\ \A x \in Sources \ {id} : lock'[x] = lock[x]
          /\ UNCHANGED <<registry, snap, loop>>
        BY <1>3, <2>1 DEF Ingested, Goes, TypeOK, landing
    <2>3. job[w] = [at |-> "ingest", id |-> id]
        BY <2>1 DEF TypeOK
    <2>4. lock[id] = w
        BY <2>1, <2>3 DEF LocksHeld
    <2> HIDE DEF id
    <2>5. QED
        BY <2>1, <2>2, <2>3, <2>4 DEF LocksHeld
<1>4. ASSUME NEW w \in Workers, NEW id \in Sources, Page(w, id) PROVE LocksHeld'
    BY <1>4, WorkerLocks DEF Page, At, landing
<1>5. ASSUME NEW w \in Workers, Record(w) \/ Charge(w) \/ Sweep(w) PROVE LocksHeld'
    BY <1>5, WorkerLocks DEF Record, Charge, Sweep, At, landing, LocksHeld
<1>6. ASSUME NEW w \in Workers, Unload(w) PROVE LocksHeld'
    BY <1>6, WorkerLocks DEF Unload, At, landing, LocksHeld
<1>7. ASSUME NEW w \in Workers, Closes(w) \/ Unloaded(w) \/ PageDone(w) PROVE LocksHeld'
    BY <1>7, WorkerLocks DEF Closes, Unloaded, PageDone, At, landing, LocksHeld
<1>8. CASE Tick
    BY <1>8, OtherLocks DEF Tick, LocksHeld
<1>9. CASE ReadRow
    <2>1. snap'.at = snap.at
        BY <1>9 DEF ReadRow, TypeOK
    <2>2. QED
        BY <1>9, <2>1, OtherLocks DEF ReadRow, LocksHeld, server
<1>10. CASE RowsRead
    <2>1. snap'.at = "read" /\ registry = "rows" /\ registry' = None
        BY <1>10 DEF RowsRead, TypeOK, LocksHeld
    <2>2. loop.closing = None
        BY <2>1 DEF LocksHeld
    <2>3. QED
        BY <1>10, <2>1, <2>2, OtherLocks DEF RowsRead, LocksHeld
<1>11. CASE SendRows
    <2>1. loop'.closing = loop.closing
        <3>1. loop' = loop \/ loop' = [loop EXCEPT !.sent = snap.rows, !.alive = page.connected]
            BY <1>11 DEF SendRows
        <3>2. QED
            BY <3>1 DEF TypeOK
    <2>2. snap'.at = "none"
        BY <1>11 DEF SendRows, NoRows
    <2>3. loop.closing = None
        BY <1>11 DEF SendRows, LocksHeld
    <2>4. QED
        BY <1>11, <2>1, <2>2, <2>3, OtherLocks DEF SendRows, LocksHeld, server
<1>12. CASE NextRequest
    <2>1. Takes(Head(up)) /\ Head(up) \in Sources /\ loop.closing = None /\ registry = None
        BY <1>12 DEF NextRequest, TypeOK
    <2>2. CASE registry' = "loop" /\ loop' = [loop EXCEPT !.closing = Head(up)]
        <3>1. loop'.closing = Head(up) /\ loop'.alive
            BY <1>12, <2>2 DEF NextRequest, TypeOK
        <3>2. snap.at = "none"
            BY <1>12 DEF NextRequest
        <3>3. QED
            BY <2>1, <2>2, <3>1, <3>2, OtherLocks DEF Takes
    <2>3. CASE UNCHANGED <<registry, loop>>
        BY <2>1, <2>3, OtherLocks DEF Takes, LocksHeld
    <2>4. QED
        BY <2>1, <2>2, <2>3 DEF Takes
<1>13. CASE Closed
    <2>1. registry = "loop" /\ registry' = None /\ loop'.closing = None
        BY <1>13 DEF Closed, LocksHeld, TypeOK
    <2>2. snap.at # "reading"
        BY <2>1 DEF LocksHeld
    <2>3. QED
        BY <1>13, <2>1, <2>2, OtherLocks DEF Closed
<1>14. CASE Ends
    <2>1. loop.closing = None /\ loop'.closing = None
        BY <1>14 DEF Ends, TypeOK
    <2>2. QED
        BY <1>14, <2>1, OtherLocks DEF Ends, LocksHeld, server
<1>15. CASE Receive \/ Drop \/ UNCHANGED vars
    BY <1>15, <1>a DEF Receive, Drop, vars, server, landing
<1>16. CASE Reconnect
    <2>1. loop.closing = None /\ loop'.closing = None /\ loop'.alive
        BY <1>16 DEF Reconnect, NewLoop, LocksHeld
    <2>2. QED
        BY <1>16, <2>1, OtherLocks DEF Reconnect, LocksHeld, server
<1>17. QED
    BY <1>1, <1>2, <1>3, <1>4, <1>5, <1>6, <1>7, <1>8, <1>9, <1>10, <1>11, <1>12,
       <1>13, <1>14, <1>15, <1>16 DEF Next, Starts, Proceeds, Serves

-----------------------------------------------------------------------------
(* A step that confirms no close and reads no row. *)
LEMMA ListedKept ==
    ASSUME TypeOK, Listed, UNCHANGED snap,
           \/ UNCHANGED <<order, gone>>
           \/ \E id : Unlist(id)
           \/ \E id : id \notin gone /\ ~Open(id) /\ order' = Append(order, id)
                     /\ gone' = gone /\ id \in Sources,
           \A id \in Sources : Told(id)' => Told(id),
           \A id \in Sources : loop'.closing = id => loop.closing = id \/ id \in gone'
    PROVE  Listed'
<1>1. /\ gone \subseteq gone'
      /\ \A i, j \in DOMAIN order' : order'[i] = order'[j] => i = j
      /\ \A i \in DOMAIN order' : order'[i] \notin gone'
    <2>1. CASE UNCHANGED <<order, gone>>
        BY <2>1 DEF Listed
    <2>2. ASSUME NEW id, Unlist(id)
          PROVE  /\ gone \subseteq gone'
                 /\ \A i, j \in DOMAIN order' : order'[i] = order'[j] => i = j
                 /\ \A i \in DOMAIN order' : order'[i] \notin gone'
        BY <2>2, Unlisted, SMTT(30)
    <2>3. ASSUME NEW id \in Sources, id \notin gone, ~Open(id),
                 order' = Append(order, id), gone' = gone
          PROVE  /\ gone \subseteq gone'
                 /\ \A i, j \in DOMAIN order' : order'[i] = order'[j] => i = j
                 /\ \A i \in DOMAIN order' : order'[i] \notin gone'
        <3>1. /\ order \in Seq(Sources)
              /\ DOMAIN order = 1..Len(order) /\ Len(order) \in Nat
              /\ DOMAIN order' = 1..(Len(order) + 1)
              /\ \A i \in 1..Len(order) : order'[i] = order[i]
              /\ order'[Len(order) + 1] = id
            BY <2>3 DEF TypeOK
        <3>2. \A i \in 1..Len(order) : order[i] # id
            BY <2>3 DEF Open, Contains
        <3>3. /\ \A i, j \in 1..Len(order) : order[i] = order[j] => i = j
              /\ \A i \in 1..Len(order) : order[i] \notin gone
            BY <3>1 DEF Listed
        <3>4. \A i \in DOMAIN order' : i \in 1..Len(order) \/ i = Len(order) + 1
            BY <3>1
        <3>5. \A i, j \in DOMAIN order' : order'[i] = order'[j] => i = j
            BY <3>1, <3>2, <3>3, <3>4
        <3>6. QED
            BY <2>3, <3>1, <3>3, <3>4, <3>5, ZenonT(60)
    <2>4. QED
        BY <2>1, <2>2, <2>3
<1>2. \A i \in DOMAIN snap.left : ~Told(snap.left[i])'
    <2>1. \A i \in DOMAIN snap.left : snap.left[i] \in Sources
        BY DEF TypeOK
    <2>2. QED
        BY <2>1 DEF Listed
<1>3. \A i \in DOMAIN snap.rows : ~Told(snap.rows[i].id)'
    <2>1. \A i \in DOMAIN snap.rows : snap.rows[i].id \in Sources
        BY ListingIds DEF TypeOK
    <2>2. QED
        BY <2>1 DEF Listed
<1>4. QED
    BY <1>1, <1>2, <1>3 DEF Listed

LEMMA NextListed ==
    TypeOK /\ LocksHeld /\ Listed /\ [Next]_vars => Listed'
<1> SUFFICES ASSUME TypeOK, LocksHeld, Listed, [Next]_vars PROVE Listed'
    OBVIOUS
<1> USE LandingAssumption
<1>a. ASSUME UNCHANGED <<order, gone, snap, loop, down, acked>> PROVE Listed'
    BY <1>a, ListedKept DEF Told, Listed
<1>1. ASSUME NEW id \in Sources, Add(id) PROVE Listed'
    BY <1>1, ListedKept DEF Add, Told, Listed, landing, client
<1>2. ASSUME NEW id \in Sources, UserCloses(id) PROVE Listed'
    BY <1>2, <1>a DEF UserCloses, server, landing
<1>3. ASSUME NEW w \in Workers, Starts(w) PROVE Listed'
    BY <1>3, <1>a DEF Starts, Sweep, Ingest, Page, landing, client
<1>4. ASSUME NEW w \in Workers, Proceeds(w) PROVE Listed'
    BY <1>4, <1>a DEF Proceeds, Ingested, Record, Charge, Closes, Unloaded, PageDone,
       landing, client
<1>5. ASSUME NEW w \in Workers, Unload(w) PROVE Listed'
    BY <1>5, ListedKept DEF Unload, Told, Listed, landing, client
<1>6. CASE Tick
    <2>1. /\ snap' = [at |-> "reading", left |-> order, rows |-> <<>>]
          /\ UNCHANGED <<order, gone, loop, down, acked>>
        BY <1>6 DEF Tick, client
    <2>2. \A i \in DOMAIN order : order[i] \in Sources /\ ~Told(order[i])
        BY DEF Listed, TypeOK
    <2>3. \A id \in Sources : Told(id)' <=> Told(id)
        BY <2>1 DEF Told
    <2>4. /\ \A i \in DOMAIN snap'.left : ~Told(snap.left[i])'
          /\ \A i \in DOMAIN snap'.rows : ~Told(snap.rows[i].id)'
        BY <2>1, <2>2, <2>3
    <2>5. QED
        BY <2>1, <2>3, <2>4 DEF Listed
<1>7. CASE ReadRow
    <2> DEFINE id == Head(snap.left)
    <2>1. /\ snap'.at = snap.at
          /\ snap'.left = Tail(snap.left) /\ snap'.rows = Append(snap.rows, Row(id))
          /\ snap.left \in Seq(Sources) /\ snap.left # <<>>
          /\ UNCHANGED <<order, gone, loop, down, acked>>
        BY <1>7 DEF ReadRow, TypeOK, server, client
    <2>2. \A i \in DOMAIN snap'.left : i + 1 \in DOMAIN snap.left /\ snap'.left[i] = snap.left[i + 1]
        BY <2>1
    <2>3. 1 \in DOMAIN snap.left /\ id = snap.left[1]
        BY <2>1
    <2>4. \A x \in Sources : Told(x)' <=> Told(x)
        BY <2>1 DEF Told
    <2>5. \A i \in DOMAIN snap'.left : ~Told(snap.left[i])'
        <3>1. \A i \in DOMAIN snap'.left : snap'.left[i] \in Sources /\ ~Told(snap'.left[i])
            BY <2>1, <2>2 DEF Listed
        <3>2. QED
            BY <2>4, <3>1
    <2>6. \A i \in DOMAIN snap'.rows : ~Told(snap.rows[i].id)'
        <3>1. snap.rows \in Seq([id : Sources, size : Nat]) /\ Row(id).id = id
            BY DEF TypeOK, Listing, Row
        <3>2. \A i \in DOMAIN snap'.rows :
                  snap'.rows[i] = IF i \in DOMAIN snap.rows THEN snap.rows[i] ELSE Row(id)
            BY <2>1, <3>1
        <3>3. ~Told(id) /\ id \in Sources
            BY <2>1, <2>3 DEF Listed
        <3>4. \A i \in DOMAIN snap.rows : ~Told(snap.rows[i].id) /\ snap.rows[i].id \in Sources
            BY ListingIds DEF Listed, TypeOK
        <3> HIDE DEF id
        <3>5. QED
            BY <2>4, <3>1, <3>2, <3>3, <3>4
    <2>7. snap.at # "none"
        BY <2>1 DEF Listed, NoRows
    <2>8. QED
        BY <2>1, <2>4, <2>5, <2>6, <2>7 DEF Listed
<1>8. CASE RowsRead
    <2>1. /\ snap'.at = "read" /\ snap'.left = snap.left /\ snap'.rows = snap.rows
          /\ UNCHANGED <<order, gone, loop, down, acked>>
        BY <1>8 DEF RowsRead, TypeOK, client
    <2>2. QED
        BY <2>1 DEF Listed, Told
<1>9. CASE SendRows
    <2>1. /\ snap' = NoRows /\ loop'.closing = loop.closing
          /\ UNCHANGED <<order, gone, acked>>
        BY <1>9 DEF SendRows, TypeOK, server, client
    <2>2. \A id \in Sources : Told(id)' => Told(id)
        <3> DEFINE m == [type |-> "sources", rows |-> snap.rows]
        <3>1. down' = down \/ down' = Append(down, m)
            BY <1>9 DEF SendRows
        <3>2. \A id \in Sources : ~Confirms(m, id)
            BY DEF Confirms
        <3>3. down \in Seq(Message)
            BY DEF TypeOK
        <3> HIDE DEF m
        <3>4. \A k \in DOMAIN down' : (k \in DOMAIN down /\ down'[k] = down[k]) \/ down'[k] = m
            BY <3>1, <3>3
        <3>5. QED
            BY <2>1, <3>2, <3>4 DEF Told
    <2>3. QED
        BY <2>1, <2>2 DEF Listed, NoRows
<1>10. CASE NextRequest
    <2> DEFINE id == Head(up)
           m == [type |-> "reply", id |-> id, ok |-> FALSE]
    <2>1. Takes(id) /\ id \in Sources
        BY <1>10 DEF NextRequest, TypeOK
    <2>2. UNCHANGED <<snap, acked>>
        BY <2>1 DEF Takes, client
    <2>3. \/ Unlist(id) /\ loop'.closing = id /\ down' = down
          \/ UNCHANGED <<order, gone, loop>> /\ (down' = down \/ down' = Append(down, m))
        BY <2>1 DEF Takes, Answers, TypeOK
    <2>4. \A x \in Sources : Told(x)' => Told(x)
        <3>1. \A x \in Sources : ~Confirms(m, x)
            BY DEF Confirms
        <3>2. down \in Seq(Message)
            BY DEF TypeOK
        <3> HIDE DEF m
        <3>3. \A k \in DOMAIN down' : (k \in DOMAIN down /\ down'[k] = down[k]) \/ down'[k] = m
            BY <2>3, <3>2
        <3>4. QED
            BY <2>2, <3>1, <3>3 DEF Told
    <2> HIDE DEF id, m
    <2>5. CASE Unlist(id) /\ loop'.closing = id
        <3>1. id \in gone'
            BY <2>5, Unlisted
        <3>2. QED
            BY <2>2, <2>4, <2>5, <3>1, ListedKept
    <2>6. CASE UNCHANGED <<order, gone, loop>>
        BY <2>2, <2>4, <2>6, ListedKept
    <2>7. QED
        BY <2>3, <2>5, <2>6
<1>11. CASE Closed
    <2> DEFINE id == loop.closing
               m == [type |-> "reply", id |-> id, ok |-> TRUE]
    <2>1. /\ id # None /\ id \in Sources /\ loop'.closing = None
          /\ UNCHANGED <<order, gone, snap, acked>>
          /\ down' = down \/ down' = Append(down, m)
        BY <1>11 DEF Closed, Answers, TypeOK, client
    <2>2. snap = NoRows /\ id \in gone
        BY <2>1 DEF Listed, LocksHeld
    <2>3. \A x \in Sources : Told(x)' => Told(x) \/ x = id
        <3>1. \A x \in Sources : Confirms(m, x) => x = id
            BY DEF Confirms
        <3>2. down \in Seq(Message)
            BY DEF TypeOK
        <3> HIDE DEF m, id
        <3>3. \A k \in DOMAIN down' : (k \in DOMAIN down /\ down'[k] = down[k]) \/ down'[k] = m
            BY <2>1, <3>2
        <3>4. QED
            BY <2>1, <3>1, <3>3 DEF Told
    <2> HIDE DEF id, m
    <2>4. QED
        BY <2>1, <2>2, <2>3 DEF Listed, NoRows
<1>12. CASE Ends
    <2>1. loop'.closing = loop.closing
        BY <1>12 DEF Ends, TypeOK
    <2>2. QED
        BY <1>12, <2>1, ListedKept DEF Ends, Told, Listed, server, client
<1>13. CASE Receive
    <2>1. down # <<>> /\ down \in Seq(Message)
        BY <1>13 DEF Receive, TypeOK
    <2>2. \A k \in DOMAIN down' : k + 1 \in DOMAIN down /\ down'[k] = down[k + 1]
        BY <1>13, <2>1 DEF Receive
    <2>3. 1 \in DOMAIN down /\ Head(down) = down[1]
        BY <2>1
    <2>4. \A id \in acked' : id \in acked \/ Confirms(down[1], id)
        BY <1>13, <2>3 DEF Receive, Confirms
    <2>5. \A id \in Sources : Told(id)' => Told(id)
        BY <2>2, <2>3, <2>4 DEF Told
    <2>6. QED
        BY <1>13, <2>5, ListedKept DEF Receive, Listed, server, landing
<1>14. CASE Drop
    BY <1>14, ListedKept DEF Drop, Told, Listed, server, landing
<1>15. CASE Reconnect
    BY <1>15, ListedKept DEF Reconnect, NewLoop, Told, Listed, server
<1>16. CASE UNCHANGED vars
    BY <1>16, <1>a DEF vars, server, landing, client
<1>17. QED
    BY <1>1, <1>2, <1>3, <1>4, <1>5, <1>6, <1>7, <1>8, <1>9, <1>10, <1>11, <1>12,
       <1>13, <1>14, <1>15, <1>16 DEF Next, Serves

-----------------------------------------------------------------------------
(* A list that was not confirmed against is sent behind the confirmations. *)
LEMMA NextShown ==
    TypeOK /\ LocksHeld /\ Listed /\ NotShownAgain /\ [Next]_vars => NotShownAgain'
<1> SUFFICES ASSUME TypeOK, LocksHeld, Listed, NotShownAgain, [Next]_vars
             PROVE  NotShownAgain'
    OBVIOUS
<1> DEFINE Clear(k, lists, done) ==
              lists[k].type = "sources" =>
                  \A id \in Ids(lists[k].rows) :
                      /\ id \notin done
                      /\ \A j \in 1..(k - 1) :
                             lists[j].type = "sources" \/ lists[j].id # id \/ ~lists[j].ok
<1>1. \A k \in DOMAIN down : Clear(k, down, acked)
    BY DEF NotShownAgain
<1>2. down \in Seq(Message) /\ DOMAIN down = 1..Len(down) /\ Len(down) \in Nat
    BY DEF TypeOK
<1>3. SUFFICES \A k \in DOMAIN down' : Clear(k, down', acked')
    BY DEF NotShownAgain
<1>a. ASSUME UNCHANGED <<down, acked>> PROVE \A k \in DOMAIN down' : Clear(k, down', acked')
    BY <1>1, <1>a
<1>b. ASSUME NEW m, down' = Append(down, m), acked' = acked,
             m.type = "sources" => \A id \in Ids(m.rows) : ~Told(id)
      PROVE  \A k \in DOMAIN down' : Clear(k, down', acked')
    <2>1. /\ DOMAIN down' = 1..(Len(down) + 1)
          /\ \A k \in 1..Len(down) : down'[k] = down[k]
          /\ down'[Len(down) + 1] = m
        BY <1>2, <1>b
    <2>2. \A k \in 1..Len(down) : Clear(k, down', acked')
        <3>1. ASSUME NEW k \in 1..Len(down) PROVE Clear(k, down', acked')
            <4>1. \A j \in 1..(k - 1) : down'[j] = down[j]
                BY <1>2, <2>1
            <4>2. down'[k] = down[k] /\ Clear(k, down, acked)
                BY <1>1, <1>2, <2>1
            <4>3. QED
                BY <1>b, <4>1, <4>2
        <3>2. QED
            BY <3>1
    <2>3. Clear(Len(down) + 1, down', acked')
        <3>1. ASSUME m.type = "sources", NEW id \in Ids(m.rows), NEW j \in 1..Len(down)
              PROVE  down[j].type = "sources" \/ down[j].id # id \/ ~down[j].ok
            <4>1. ~Confirms(down[j], id)
                BY <1>2, <1>b, <3>1 DEF Told
            <4>2. down[j].type = "sources" \/ down[j].type = "reply"
                BY <1>2, MessageFields
            <4>3. QED
                BY <4>1, <4>2 DEF Confirms
        <3>2. m.type = "sources" => \A id \in Ids(m.rows) : id \notin acked
            BY <1>b DEF Told
        <3>3. Len(down) + 1 - 1 = Len(down)
            BY <1>2
        <3>4. QED
            BY <1>b, <2>1, <3>1, <3>2, <3>3
    <2>4. \A k \in DOMAIN down' : k \in 1..Len(down) \/ k = Len(down) + 1
        BY <1>2, <2>1
    <2> HIDE DEF Clear
    <2>5. QED
        BY <2>2, <2>3, <2>4
<1>4. CASE SendRows
    <2> DEFINE m == [type |-> "sources", rows |-> snap.rows]
    <2>1. (down' = down \/ down' = Append(down, m)) /\ acked' = acked
        BY <1>4 DEF SendRows, client
    <2>2. \A id \in Ids(snap.rows) : ~Told(id)
        BY DEF Listed, Ids, ToSet
    <2>3. m.rows = snap.rows
        OBVIOUS
    <2> HIDE DEF m
    <2>4. QED
        BY <1>a, <1>b, <2>1, <2>2, <2>3
<1>5. CASE NextRequest \/ Closed
    <2>1. \/ down' = down
          \/ \E id, ok : down' = Append(down, [type |-> "reply", id |-> id, ok |-> ok])
        BY <1>5 DEF NextRequest, Takes, Closed, Answers
    <2>2. acked' = acked
        BY <1>5 DEF NextRequest, Takes, Closed, client
    <2>3. CASE down' = down
        BY <1>a, <2>2, <2>3
    <2>4. ASSUME NEW id, NEW ok, down' = Append(down, [type |-> "reply", id |-> id, ok |-> ok])
          PROVE  \A k \in DOMAIN down' : Clear(k, down', acked')
        <3> DEFINE m == [type |-> "reply", id |-> id, ok |-> ok]
        <3>1. m.type # "sources" /\ down' = Append(down, m)
            BY <2>4
        <3> HIDE DEF m
        <3>2. QED
            BY <1>b, <2>2, <3>1
    <2>5. QED
        BY <2>1, <2>3, <2>4
<1>6. CASE Receive
    <2>1. /\ DOMAIN down' = 1..(Len(down) - 1) /\ 1 \in DOMAIN down
          /\ \A k \in 1..(Len(down) - 1) : down'[k] = down[k + 1]
          /\ Head(down) = down[1]
        BY <1>2, <1>6 DEF Receive
    <2>2. ASSUME NEW k \in DOMAIN down' PROVE Clear(k, down', acked')
        <3>1. PICK n \in DOMAIN down :
                  n = k + 1 /\ down'[k] = down[n] /\ k \in 1..(Len(down) - 1)
            BY <1>2, <2>1
        <3>2. Clear(n, down, acked)
            BY <1>1, Zenon
        <3>3. SUFFICES ASSUME down[n].type = "sources", NEW id \in Ids(down[n].rows)
              PROVE  /\ id \notin acked'
                     /\ \A j \in 1..(k - 1) :
                            down'[j].type = "sources" \/ down'[j].id # id \/ ~down'[j].ok
            BY <3>1
        <3>4. /\ id \notin acked
              /\ \A j \in 1..(n - 1) :
                     down[j].type = "sources" \/ down[j].id # id \/ ~down[j].ok
            BY <3>2, <3>3
        <3>5. 1 \in 1..(n - 1) /\ n - 1 = k
            BY <1>2, <3>1
        <3>6. id \notin acked'
            BY <1>6, <2>1, <3>4, <3>5 DEF Receive
        <3>7. ASSUME NEW j \in 1..(k - 1)
              PROVE  down'[j].type = "sources" \/ down'[j].id # id \/ ~down'[j].ok
            <4>1. j + 1 \in 1..(n - 1) /\ down'[j] = down[j + 1]
                BY <1>2, <2>1, <3>1
            <4>2. QED
                BY <3>4, <4>1
        <3>8. QED
            BY <3>6, <3>7
    <2>3. QED
        BY <2>2
<1>7. CASE Drop
    BY <1>7 DEF Drop
<1>8. ASSUME NEW w \in Workers, Starts(w) \/ Unload(w) \/ Proceeds(w)
      PROVE  UNCHANGED <<down, acked>>
    BY <1>8 DEF Starts, Sweep, Ingest, Page, Unload, Proceeds, Ingested, Record, Charge,
       Closes, Unloaded, PageDone, client
<1>9. ASSUME NEW id \in Sources, Add(id) \/ UserCloses(id)
      PROVE  UNCHANGED <<down, acked>>
    BY <1>9 DEF Add, UserCloses, client
<1>10. CASE Tick \/ ReadRow \/ RowsRead \/ Ends \/ Reconnect \/ UNCHANGED vars
    BY <1>10, <1>a DEF Tick, ReadRow, RowsRead, Ends, Reconnect, vars, client
<1>11. QED
    BY <1>a, <1>4, <1>5, <1>6, <1>7, <1>8, <1>9, <1>10 DEF Next, Serves

LEMMA InitInvariant == Init => IInv
BY LandingAssumption DEF Init, IInv, LocksHeld, Listed, NotShownAgain, NoRows, NewLoop, Told

-----------------------------------------------------------------------------
(* Every state is well typed. *)
THEOREM TypeCorrect == Spec => []TypeOK
BY InitType, NextType, PTL DEF Spec

(* The locks, the list and what was sent of it, at every interleaving of   *)
(* uploads, unloads, page loads, requests and reconnects (server.rs,       *)
(* source.rs).                                                             *)
THEOREM LandingInvariant == Spec => []IInv
<1>1. Init => IInv
    BY InitInvariant
<1>2. TypeOK /\ IInv /\ [Next]_vars => IInv'
    BY NextLocks, NextListed, NextShown DEF IInv
<1>3. QED
    BY <1>1, <1>2, TypeCorrect, PTL DEF Spec

(* "Lock order is always registry, then source" (source.rs): whoever has   *)
(* the lock of a source is ingesting and waits for no lock.                *)
THEOREM LocksAreOrdered == Spec => []LocksHeld
BY LandingInvariant, PTL DEF IInv

(* A source the page was told is closed is in no list it gets afterwards.  *)
THEOREM NeverShownAgain == Spec => []NotShownAgain
BY LandingInvariant, PTL DEF IInv
=============================================================================
