----------------------------- MODULE Tab_proofs -----------------------------
(***************************************************************************)
(* Proofs about Tab, for any queries and bounds: every request gets its    *)
(* one answer, and rows that enter the table are of the applied query.     *)
(***************************************************************************)
EXTENDS Tab, FiniteSetTheorems, SequenceTheorems, TLAPS

Counting == INSTANCE LeftFolds WITH Op <- +

(* A value that is a function of its domain, and a sequence of whatever.   *)
Whole(f) == f = [x \in DOMAIN f |-> f[x]]

Sequence(s) == s \in Seq(ToSet(s))

LEMMA IsSequence == ASSUME NEW S, NEW q \in Seq(S) PROVE Sequence(q)
<1>1. q \in [1..Len(q) -> ToSet(q)] /\ Len(q) \in Nat
    BY DEF ToSet
<1>2. QED
    BY <1>1 DEF Sequence

LEMMA AppendSequence ==
    ASSUME NEW s, Sequence(s), NEW m
    PROVE  /\ Sequence(Append(s, m)) /\ Sequence(s \o <<m>>)
           /\ s \o <<m>> = Append(s, m)
           /\ Len(Append(s, m)) = Len(s) + 1 /\ Len(s) \in Nat
           /\ DOMAIN s = 1..Len(s) /\ DOMAIN Append(s, m) = 1..(Len(s) + 1)
           /\ Append(s, m)[Len(s) + 1] = m
           /\ \A k \in 1..Len(s) : Append(s, m)[k] = s[k]
<1> DEFINE S == ToSet(s) \union {m}
<1>1. s \in Seq(S) /\ m \in S
    BY SeqMonotonic DEF Sequence
<1> HIDE DEF S
<1>2. /\ Append(s, m) \in Seq(S) /\ s \o <<m>> = Append(s, m)
      /\ Len(Append(s, m)) = Len(s) + 1 /\ Len(s) \in Nat
      /\ DOMAIN s = 1..Len(s) /\ DOMAIN Append(s, m) = 1..(Len(s) + 1)
      /\ Append(s, m)[Len(s) + 1] = m
      /\ \A k \in 1..Len(s) : Append(s, m)[k] = s[k]
    BY <1>1
<1>3. Sequence(Append(s, m))
    BY <1>2, IsSequence
<1>4. QED
    BY <1>2, <1>3

LEMMA AppendPlaces ==
    ASSUME NEW a, Sequence(a), NEW m
    PROVE  \E n \in Nat :
               /\ n \in DOMAIN Append(a, m) /\ n \notin DOMAIN a
               /\ Append(a, m)[n] = m
               /\ \A k \in DOMAIN a : k \in DOMAIN Append(a, m) /\ Append(a, m)[k] = a[k]
               /\ \A k \in DOMAIN Append(a, m) : k \in Nat /\ k <= n /\ (k \in DOMAIN a \/ k = n)
<1> DEFINE b == Append(a, m)
<1>1. /\ DOMAIN a = 1..Len(a) /\ DOMAIN b = 1..(Len(a) + 1)
      /\ Len(a) \in Nat /\ b[Len(a) + 1] = m /\ \A k \in 1..Len(a) : b[k] = a[k]
    BY AppendSequence, Zenon
<1> HIDE DEF b
<1>2. LET n == Len(a) + 1
      IN  /\ n \in Nat /\ n \in DOMAIN b /\ n \notin DOMAIN a /\ b[n] = m
          /\ \A k \in DOMAIN a : k \in DOMAIN b /\ b[k] = a[k]
          /\ \A k \in DOMAIN b : k \in Nat /\ k <= n /\ (k \in DOMAIN a \/ k = n)
    BY <1>1
<1>3. QED
    BY <1>2, Zenon DEF b

LEMMA ConcatSequence ==
    ASSUME NEW s, Sequence(s), NEW r, Sequence(r)
    PROVE  /\ Sequence(s \o r)
           /\ \A k \in DOMAIN s : k \in DOMAIN (s \o r) /\ (s \o r)[k] = s[k]
           /\ \A k \in DOMAIN r : /\ Len(s) + k \in DOMAIN (s \o r)
                                  /\ Len(s) + k \notin DOMAIN s
                                  /\ (s \o r)[Len(s) + k] = r[k]
           /\ \A k \in DOMAIN (s \o r) : k \in DOMAIN s \/ \E j \in DOMAIN r : k = Len(s) + j
<1> DEFINE S == ToSet(s) \union ToSet(r)
           b == s \o r
           n == Len(s)
<1>1. s \in Seq(S) /\ r \in Seq(S)
    BY SeqMonotonic DEF Sequence
<1> HIDE DEF S
<1>2. /\ b \in Seq(S)
      /\ n \in Nat /\ Len(r) \in Nat
      /\ DOMAIN s = 1..n /\ DOMAIN r = 1..Len(r)
      /\ DOMAIN b = 1..(n + Len(r))
      /\ \A k \in 1..n : b[k] = s[k]
      /\ \A k \in 1..Len(r) : b[n + k] = r[k]
    BY <1>1, ConcatProperties
<1> HIDE DEF b, n
<1>3. Sequence(b)
    BY <1>2, IsSequence
<1>4. \A k \in DOMAIN b : k \in DOMAIN s \/ (k - n \in DOMAIN r /\ k = n + (k - n))
    BY <1>2
<1>5. /\ \A k \in DOMAIN s : k \in DOMAIN b /\ b[k] = s[k]
      /\ \A k \in DOMAIN r : n + k \in DOMAIN b /\ n + k \notin DOMAIN s /\ b[n + k] = r[k]
    BY <1>2
<1>6. \A k \in DOMAIN b : k \in DOMAIN s \/ \E j \in DOMAIN r : k = n + j
    BY <1>4
<1>7. QED
    BY <1>3, <1>5, <1>6, Zenon DEF b, n

(* Every message of b is one of s or of r. *)
Joins(b, s, r) ==
    \A k \in DOMAIN b : (\E j \in DOMAIN s : b[k] = s[j]) \/ (\E j \in DOMAIN r : b[k] = r[j])

LEMMA ConcatEach ==
    ASSUME NEW s, Sequence(s), NEW r, Sequence(r)
    PROVE  Sequence(s \o r) /\ Joins(s \o r, s, r)
<1> DEFINE b == s \o r
<1>1. /\ Sequence(b)
      /\ \A k \in DOMAIN s : b[k] = s[k]
      /\ \A k \in DOMAIN r : b[Len(s) + k] = r[k]
      /\ \A k \in DOMAIN b : k \in DOMAIN s \/ \E j \in DOMAIN r : k = Len(s) + j
    BY ConcatSequence
<1> HIDE DEF b
<1>2. Joins(b, s, r)
    BY <1>1 DEF Joins
<1>3. QED
    BY <1>1, <1>2, Zenon DEF b

LEMMA TailSequence ==
    ASSUME NEW s, Sequence(s), s # <<>>
    PROVE  /\ Sequence(Tail(s))
           /\ Len(Tail(s)) = Len(s) - 1 /\ Len(s) \in Nat
           /\ DOMAIN s = 1..Len(s) /\ DOMAIN Tail(s) = 1..(Len(s) - 1)
           /\ 1 \in DOMAIN s /\ Head(s) = s[1]
           /\ \A k \in 1..(Len(s) - 1) : Tail(s)[k] = s[k + 1]
<1> DEFINE S == ToSet(s)
<1>1. s \in Seq(S)
    BY DEF Sequence
<1> HIDE DEF S
<1>2. /\ Tail(s) \in Seq(S)
      /\ Len(Tail(s)) = Len(s) - 1 /\ Len(s) \in Nat
      /\ DOMAIN s = 1..Len(s) /\ DOMAIN Tail(s) = 1..(Len(s) - 1)
      /\ 1 \in DOMAIN s /\ Head(s) = s[1]
      /\ \A k \in 1..(Len(s) - 1) : Tail(s)[k] = s[k + 1]
    BY <1>1
<1>3. Sequence(Tail(s))
    BY <1>2, IsSequence
<1>4. QED
    BY <1>2, <1>3

-----------------------------------------------------------------------------
(* The client between two of its calls.                                    *)

Fields == {"state", "connected", "pending", "out", "generation", "toggled", "applied",
           "counts", "want", "cache", "of", "dirty", "frame", "following", "gone", "behind"}

IsClient(c) ==
    /\ c = [f \in Fields |-> c[f]]
    /\ Sequence(c.out)
    /\ Whole(c.pending) /\ IsFiniteSet(DOMAIN c.pending)
    /\ \A i \in DOMAIN c.pending :
           /\ Whole(c.pending[i]) /\ {"type", "latest"} \subseteq DOMAIN c.pending[i]
           /\ c.pending[i].type = "query" => "query" \in DOMAIN c.pending[i]

IsRequest(r) ==
    /\ Whole(r)
    /\ {"id", "type", "latest"} \subseteq DOMAIN r
    /\ r.type \in {"query", "window", "toggle_chain", "stats"}
    /\ r.type = "query" => "query" \in DOMAIN r

(* The page knows what it waits for as it asked for it. *)
Asks(m, pending) ==
    /\ m.type \in {"query", "window", "toggle_chain", "stats"}
    /\ m.id \in DOMAIN pending
    /\ pending[m.id].type = m.type
    /\ m.type = "query" => pending[m.id].query = m.query

(* What it waits for by now is what it waited for when it was `before`,    *)
(* and what it is about to ask.                                            *)
AsksOn(before, c) ==
    /\ IsClient(c)
    /\ DOMAIN c.pending = DOMAIN before \union {c.out[k].id : k \in DOMAIN c.out}
    /\ \A i \in DOMAIN before :
           /\ c.pending[i].type = before[i].type
           /\ before[i].type = "query" => c.pending[i].query = before[i].query
    /\ \A k \in DOMAIN c.out :
           c.out[k].id \notin DOMAIN before /\ Asks(c.out[k], c.pending)
    /\ \A j, k \in DOMAIN c.out : c.out[j].id = c.out[k].id => j = k
    /\ c.state # "live" => DOMAIN c.pending = {}

(* What asking leaves alone. *)
Rest(c) == <<c.state, c.generation, c.applied, c.cache, c.of>>

(* There is an id that is not in use. *)
LEMMA FreshIdFresh ==
    ASSUME NEW c, IsFiniteSet(DOMAIN c.pending)
    PROVE  FreshId(c) \notin DOMAIN c.pending
<1> DEFINE D == DOMAIN c.pending
           n == Cardinality(D)
           T == (1..(n + 1)) \ D
<1>1. n \in Nat
    BY FS_CardinalityType
<1>2. T # {}
    <2>1. SUFFICES ASSUME 1..(n + 1) \subseteq D PROVE FALSE
        OBVIOUS
    <2>2. IsFiniteSet(1..(n + 1)) /\ Cardinality(1..(n + 1)) = n + 1
        BY <1>1, FS_Interval
    <2>3. Cardinality(1..(n + 1)) <= n
        BY <2>1, FS_Subset
    <2>4. QED
        BY <1>1, <2>2, <2>3
<1>3. T \subseteq Nat
    BY <1>1
<1>4. PICK m \in T : \A k \in T : m <= k
    <2> HIDE DEF T
    <2>1. QED
        BY <1>2, <1>3, Counting!LeastNatural
<1>5. \A j \in 1..(m - 1) : j \in D
    BY <1>1, <1>4
<1>6. QED
    BY <1>4, <1>5 DEF FreshId

LEMMA RequestAsks ==
    ASSUME NEW before, NEW c, AsksOn(before, c), NEW r, IsRequest(r)
    PROVE  /\ AsksOn(before, Request(c, r))
           /\ Rest(Request(c, r)) = Rest(c)
<1> DEFINE id    == FreshId(c)
           older == [i \in DOMAIN c.pending |->
                        IF c.pending[i].type = r.type
                        THEN [c.pending[i] EXCEPT !.latest = FALSE]
                        ELSE c.pending[i]]
           m     == [r EXCEPT !.id = id]
           p     == [m EXCEPT !.latest = TRUE]
           asked == [i \in DOMAIN older \union {id} |-> IF i = id THEN p ELSE older[i]]
<1>1. /\ DOMAIN older = DOMAIN c.pending /\ Whole(older)
      /\ \A i \in DOMAIN older :
             /\ Whole(older[i]) /\ DOMAIN older[i] = DOMAIN c.pending[i]
             /\ older[i].type = c.pending[i].type
             /\ older[i].type = "query" => older[i].query = c.pending[i].query
    <2>1. DOMAIN older = DOMAIN c.pending /\ Whole(older)
        BY DEF Whole
    <2>2. ASSUME NEW i \in DOMAIN c.pending
          PROVE  /\ Whole(older[i]) /\ DOMAIN older[i] = DOMAIN c.pending[i]
                 /\ older[i].type = c.pending[i].type
                 /\ older[i].type = "query" => older[i].query = c.pending[i].query
        <3> DEFINE q == c.pending[i]
        <3>1. Whole(q) /\ "type" \in DOMAIN q /\ (q.type = "query" => "query" \in DOMAIN q)
            BY DEF AsksOn, IsClient
        <3>2. older[i] = q \/ older[i] = [q EXCEPT !.latest = FALSE]
            OBVIOUS
        <3> HIDE DEF q, older
        <3>3. Whole(older[i]) /\ DOMAIN older[i] = DOMAIN q
            BY <3>1, <3>2 DEF Whole
        <3>4. older[i].type = q.type /\ (q.type = "query" => older[i].query = q.query)
            BY <3>1, <3>2
        <3>5. QED
            BY <3>3, <3>4 DEF q
    <2>3. QED
        BY <2>1, <2>2
<1>2. id \notin DOMAIN c.pending
    BY FreshIdFresh DEF AsksOn, IsClient
<1>3. /\ m.id = id /\ m.type = r.type /\ (r.type = "query" => m.query = r.query)
      /\ Whole(p) /\ DOMAIN p = DOMAIN r /\ p.type = r.type
      /\ r.type = "query" => p.query = r.query
    <2> HIDE DEF id
    <2>1. Whole(m) /\ DOMAIN m = DOMAIN r
        BY DEF IsRequest, Whole
    <2>2. m.id = id /\ m.type = r.type /\ (r.type = "query" => m.query = r.query)
        BY DEF IsRequest
    <2> HIDE DEF m
    <2>3. /\ Whole(p) /\ DOMAIN p = DOMAIN r /\ p.type = m.type
          /\ r.type = "query" => p.query = m.query
        BY <2>1 DEF IsRequest, Whole
    <2>4. QED
        BY <2>1, <2>2, <2>3
<1> DEFINE d == [c EXCEPT !.pending = asked, !.out = Append(@, m)]
<1>4. Request(c, r) = IF c.state # "live" THEN [c EXCEPT !.pending = older] ELSE d
    <2>1. m.id = id
        BY <1>3
    <2>2. QED
        BY <2>1 DEF Request
<1> HIDE DEF id, older, m, p
<1>5. /\ Whole(asked) /\ DOMAIN asked = DOMAIN c.pending \union {id}
      /\ IsFiniteSet(DOMAIN asked)
      /\ \A i \in DOMAIN c.pending : asked[i] = older[i]
      /\ asked[id] = p
    <2>1. IsFiniteSet(DOMAIN c.pending \union {id})
        BY FS_AddElement DEF AsksOn, IsClient
    <2>2. QED
        BY <1>1, <1>2, <2>1 DEF Whole
<1> HIDE DEF asked
<1>6. CASE c.state # "live"
    <2> DEFINE e == [c EXCEPT !.pending = older]
    <2>1. /\ e = [f \in Fields |-> e[f]] /\ e.pending = older
          /\ \A f \in Fields \ {"pending"} : e[f] = c[f]
        BY DEF AsksOn, IsClient, Fields
    <2>2. /\ e.out = c.out /\ e.state = c.state
          /\ Rest(e) = Rest(c)
        BY <2>1 DEF Fields, Rest
    <2> HIDE DEF e
    <2>3. DOMAIN c.pending = {}
        BY <1>6 DEF AsksOn
    <2>4. IsClient(e)
        BY <1>1, <2>1, <2>2, <2>3 DEF AsksOn, IsClient
    <2>5. AsksOn(before, e)
        BY <1>1, <2>1, <2>2, <2>3, <2>4 DEF AsksOn
    <2>6. QED
        BY <1>4, <1>6, <2>2, <2>5 DEF e
<1>7. CASE c.state = "live"
    <2>1. /\ d = [f \in Fields |-> d[f]] /\ d.pending = asked /\ d.out = Append(c.out, m)
          /\ \A f \in Fields \ {"pending", "out"} : d[f] = c[f]
        BY DEF AsksOn, IsClient, Fields
    <2>2. d.state = c.state /\ Rest(d) = Rest(c)
        BY <2>1 DEF Fields, Rest
    <2> HIDE DEF d
    <2>3. /\ Sequence(d.out) /\ Len(c.out) \in Nat /\ DOMAIN c.out = 1..Len(c.out)
          /\ DOMAIN d.out = 1..(Len(c.out) + 1) /\ d.out[Len(c.out) + 1] = m
          /\ \A k \in 1..Len(c.out) : d.out[k] = c.out[k]
        <3>1. Sequence(c.out)
            BY DEF AsksOn, IsClient
        <3>2. /\ Sequence(Append(c.out, m)) /\ Len(c.out) \in Nat
              /\ DOMAIN c.out = 1..Len(c.out) /\ Append(c.out, m)[Len(c.out) + 1] = m
              /\ DOMAIN Append(c.out, m) = 1..(Len(c.out) + 1)
              /\ \A k \in 1..Len(c.out) : Append(c.out, m)[k] = c.out[k]
            BY <3>1, AppendSequence, Zenon
        <3>3. d.out = Append(c.out, m)
            BY <2>1
        <3>4. QED
            BY <3>2, <3>3, Zenon
    <2>4. \A k \in DOMAIN d.out :
              \/ k \in DOMAIN c.out /\ d.out[k] = c.out[k]
              \/ k = Len(c.out) + 1 /\ k \notin DOMAIN c.out /\ d.out[k] = m
        BY <2>3
    <2>5. IsClient(d)
        <3>1. ASSUME NEW i \in DOMAIN asked
              PROVE  /\ Whole(asked[i]) /\ {"type", "latest"} \subseteq DOMAIN asked[i]
                     /\ asked[i].type = "query" => "query" \in DOMAIN asked[i]
            <4>1. CASE i = id
                BY <1>3, <1>5, <4>1 DEF IsRequest
            <4>2. CASE i \in DOMAIN c.pending
                BY <1>1, <1>5, <4>2 DEF AsksOn, IsClient
            <4>3. QED
                BY <1>5, <4>1, <4>2
        <3>2. QED
            BY <1>5, <2>1, <2>3, <3>1 DEF IsClient
    <2>6. \A i \in DOMAIN before :
              /\ d.pending[i].type = before[i].type
              /\ before[i].type = "query" => d.pending[i].query = before[i].query
        BY <1>1, <1>2, <1>5, <2>1 DEF AsksOn
    <2>7. \A k \in DOMAIN c.out : Asks(c.out[k], d.pending) /\ c.out[k].id # id
        BY <1>1, <1>2, <1>5, <2>1 DEF AsksOn, Asks
    <2>8. Asks(m, d.pending) /\ m.id = id /\ id \notin DOMAIN before
        BY <1>2, <1>3, <1>5, <2>1 DEF AsksOn, Asks, IsRequest
    <2>9. DOMAIN d.pending = DOMAIN before \union {d.out[k].id : k \in DOMAIN d.out}
        <3>1. {d.out[k].id : k \in DOMAIN d.out} = {c.out[k].id : k \in DOMAIN c.out} \union {id}
            BY <2>3, <2>4, <2>8
        <3>2. DOMAIN c.pending = DOMAIN before \union {c.out[k].id : k \in DOMAIN c.out}
            BY DEF AsksOn
        <3>3. QED
            BY <1>5, <2>1, <3>1, <3>2
    <2>10. \A j, k \in DOMAIN d.out : d.out[j].id = d.out[k].id => j = k
        BY <2>4, <2>7, <2>8 DEF AsksOn
    <2>11. \A k \in DOMAIN d.out : d.out[k].id \notin DOMAIN before /\ Asks(d.out[k], d.pending)
        BY <2>4, <2>7, <2>8 DEF AsksOn
    <2>12. AsksOn(before, d)
        BY <1>7, <2>2, <2>5, <2>6, <2>9, <2>10, <2>11 DEF AsksOn
    <2>13. QED
        BY <1>4, <1>7, <2>2, <2>12
<1>8. QED
    BY <1>6, <1>7

(* A change of anything else leaves that alone. *)
LEMMA SameAsks ==
    ASSUME NEW before, NEW c, AsksOn(before, c), NEW d,
           d = [f \in Fields |-> d[f]],
           d.pending = c.pending, d.out = c.out, d.state = c.state
    PROVE  AsksOn(before, d)
<1>1. IsClient(d)
    BY DEF AsksOn, IsClient
<1>2. /\ DOMAIN d.pending = DOMAIN before \union {d.out[k].id : k \in DOMAIN d.out}
      /\ \A i \in DOMAIN before :
             /\ d.pending[i].type = before[i].type
             /\ before[i].type = "query" => d.pending[i].query = before[i].query
      /\ d.state # "live" => DOMAIN d.pending = {}
    BY DEF AsksOn
<1>3. \A k \in DOMAIN d.out : d.out[k].id \notin DOMAIN before /\ Asks(d.out[k], d.pending)
    BY DEF AsksOn
<1>4. \A j, k \in DOMAIN d.out : d.out[j].id = d.out[k].id => j = k
    BY DEF AsksOn
<1>5. QED
    BY <1>1, <1>2, <1>3, <1>4 DEF AsksOn

LEMMA StatsAsks ==
    ASSUME NEW before, NEW c, AsksOn(before, c)
    PROVE  AsksOn(before, Stats(c)) /\ Rest(Stats(c)) = Rest(c)
<1>1. IsRequest(Of("stats"))
    BY DEF IsRequest, Of, Whole
<1>2. QED
    BY <1>1, RequestAsks DEF Stats

LEMMA RunQueryAsks ==
    ASSUME NEW before, NEW c, AsksOn(before, c)
    PROVE  AsksOn(before, RunQuery(c)) /\ Rest(RunQuery(c)) = Rest(c)
<1> DEFINE r == [id |-> None, type |-> "query", latest |-> FALSE,
                 query |-> c.want, toggled |-> c.toggled]
<1>1. IsRequest(r)
    BY DEF IsRequest, Whole
<1>2. RunQuery(c) = Request(c, r)
    BY DEF RunQuery
<1> HIDE DEF r
<1>3. QED
    BY <1>1, <1>2, RequestAsks

LEMMA FetchAsks ==
    ASSUME NEW before, NEW c, AsksOn(before, c)
    PROVE  AsksOn(before, Fetch(c)) /\ Rest(Fetch(c)) = Rest(c)
<1> DEFINE d == [c EXCEPT !.behind = FALSE]
<1>1. /\ d = [f \in Fields |-> d[f]]
      /\ d.pending = c.pending /\ d.out = c.out /\ d.state = c.state
      /\ Rest(d) = Rest(c)
    BY DEF AsksOn, IsClient, Fields, Rest
<1>2. IsRequest(Of("window"))
    BY DEF IsRequest, Of, Whole
<1>3. Fetch(c) = Request(d, Of("window"))
    BY DEF Fetch
<1> HIDE DEF d
<1>4. AsksOn(before, d)
    BY <1>1, SameAsks
<1>5. QED
    BY <1>1, <1>2, <1>3, <1>4, RequestAsks

LEMMA RenderAsks ==
    ASSUME NEW before, NEW c, AsksOn(before, c)
    PROVE  AsksOn(before, RenderVisibleRows(c)) /\ Rest(RenderVisibleRows(c)) = Rest(c)
<1> DEFINE d == [c EXCEPT !.frame = TRUE]
<1>1. /\ d = [f \in Fields |-> d[f]]
      /\ d.pending = c.pending /\ d.out = c.out /\ d.state = c.state
      /\ Rest(d) = Rest(c)
    BY DEF AsksOn, IsClient, Fields, Rest
<1>2. RenderVisibleRows(c) = d \/ RenderVisibleRows(c) = c
    BY DEF RenderVisibleRows
<1> HIDE DEF d
<1>3. AsksOn(before, d)
    BY <1>1, SameAsks
<1>4. QED
    BY <1>1, <1>2, <1>3

LEMMA ReloadAsks ==
    ASSUME NEW before, NEW c, AsksOn(before, c)
    PROVE  /\ AsksOn(before, Reload(c))
           /\ Rest(Reload(c)) = <<c.state, c.generation, c.applied, <<>>, c.of>>
<1> DEFINE d == [c EXCEPT !.cache = <<>>]
<1>1. /\ d = [f \in Fields |-> d[f]]
      /\ d.pending = c.pending /\ d.out = c.out /\ d.state = c.state
      /\ Rest(d) = <<c.state, c.generation, c.applied, <<>>, c.of>>
    BY DEF AsksOn, IsClient, Fields, Rest
<1>2. Reload(c) = Fetch(RenderVisibleRows(d))
    BY DEF Reload
<1> HIDE DEF d
<1>3. AsksOn(before, d)
    BY <1>1, SameAsks
<1>4. QED
    BY <1>1, <1>2, <1>3, RenderAsks, FetchAsks

LEMMA OnWindowAsks ==
    ASSUME NEW before, NEW c, AsksOn(before, c), NEW data, NEW latest
    PROVE  LET d == OnWindow(c, data, latest)
           IN  /\ AsksOn(before, d)
               /\ d.state = c.state /\ d.generation = c.generation /\ d.applied = c.applied
               /\ \/ d.cache = c.cache
                  \/ data.generation = c.generation /\ d.of = data.of
<1> DEFINE d == OnWindow(c, data, latest)
           counted == [c EXCEPT !.counts = data.counts]
           stored == [counted EXCEPT !.cache = data.rows, !.of = data.of]
<1>1. /\ counted = [f \in Fields |-> counted[f]]
      /\ counted.pending = c.pending /\ counted.out = c.out /\ counted.state = c.state
      /\ Rest(counted) = Rest(c)
    BY DEF AsksOn, IsClient, Fields, Rest
<1>2. /\ stored = [f \in Fields |-> stored[f]]
      /\ stored.pending = c.pending /\ stored.out = c.out /\ stored.state = c.state
      /\ Rest(stored) = <<c.state, c.generation, c.applied, data.rows, data.of>>
    BY DEF AsksOn, IsClient, Fields, Rest
<1>3. \/ d = c \/ d = counted
      \/ data.generation = c.generation /\ d = RenderVisibleRows(stored)
    BY DEF OnWindow
<1> HIDE DEF d, counted, stored
<1>4. AsksOn(before, counted) /\ AsksOn(before, stored)
    BY <1>1, <1>2, SameAsks
<1>5. AsksOn(before, RenderVisibleRows(stored)) /\ Rest(RenderVisibleRows(stored)) = Rest(stored)
    BY <1>4, RenderAsks
<1>6. AsksOn(before, d)
    BY <1>3, <1>4, <1>5
<1>7. CASE Rest(d) = Rest(c)
    BY <1>6, <1>7 DEF Rest, d
<1>8. CASE data.generation = c.generation /\ Rest(d) = Rest(stored)
    BY <1>2, <1>6, <1>8 DEF Rest, d
<1>9. QED
    BY <1>1, <1>3, <1>5, <1>7, <1>8

LEMMA OnQueryAsks ==
    ASSUME NEW before, NEW c, AsksOn(before, c), NEW data, NEW request
    PROVE  LET d == OnQuery(c, data, request)
           IN  /\ AsksOn(before, d)
               /\ d.state = c.state
               /\ IF data.compiled
                  THEN d.generation = data.generation /\ d.applied = request.query
                  ELSE d.generation = c.generation /\ d.applied = c.applied
               /\ d.cache \in {c.cache, <<>>}
<1> DEFINE d == OnQuery(c, data, request)
           taken == IF data.compiled
                    THEN [c EXCEPT !.applied = request.query,
                                   !.generation = data.generation,
                                   !.counts = data.counts]
                    ELSE [c EXCEPT !.counts = data.counts]
<1>1. /\ taken = [f \in Fields |-> taken[f]]
      /\ taken.pending = c.pending /\ taken.out = c.out
      /\ taken.state = c.state /\ taken.cache = c.cache
      /\ IF data.compiled
         THEN taken.generation = data.generation /\ taken.applied = request.query
         ELSE taken.generation = c.generation /\ taken.applied = c.applied
    <2>1. CASE data.compiled
        BY <2>1 DEF AsksOn, IsClient, Fields
    <2>2. CASE ~data.compiled
        BY <2>2 DEF AsksOn, IsClient, Fields
    <2>3. QED
        BY <2>1, <2>2
<1>2. d = taken \/ d = Reload(taken)
    BY DEF OnQuery
<1> HIDE DEF d, taken
<1>3. AsksOn(before, taken)
    BY <1>1, SameAsks
<1>4. /\ AsksOn(before, Reload(taken))
      /\ Rest(Reload(taken)) = <<taken.state, taken.generation, taken.applied, <<>>, taken.of>>
    BY <1>3, ReloadAsks
<1>5. AsksOn(before, d)
    BY <1>2, <1>3, <1>4
<1>6. CASE d = taken
    BY <1>1, <1>5, <1>6 DEF d
<1>7. CASE d = Reload(taken)
    BY <1>1, <1>4, <1>5, <1>7 DEF d, Rest
<1>8. QED
    BY <1>2, <1>6, <1>7

LEMMA OnToggleAsks ==
    ASSUME NEW before, NEW c, AsksOn(before, c), NEW data, NEW request
    PROVE  /\ AsksOn(before, OnToggle(c, data, request))
           /\ Rest(OnToggle(c, data, request)) = Rest(c)
<1> DEFINE d == [c EXCEPT !.toggled = Flip(@, request.root),
                          !.counts.row_count = data.counts.row_count]
<1>1. /\ d = [f \in Fields |-> d[f]]
      /\ d.pending = c.pending /\ d.out = c.out /\ d.state = c.state
      /\ Rest(d) = Rest(c)
    BY DEF AsksOn, IsClient, Fields, Rest
<1>2. OnToggle(c, data, request) = Fetch(d)
    BY DEF OnToggle
<1> HIDE DEF d
<1>3. AsksOn(before, d)
    BY <1>1, SameAsks
<1>4. QED
    BY <1>1, <1>2, <1>3, FetchAsks

(* The promises that are left when one is settled. *)
Without(pending, id) == [i \in DOMAIN pending \ {id} |-> pending[i]]

(* A client that has asked nothing yet. *)
LEMMA NothingAsked ==
    ASSUME NEW c, IsClient(c), c.out = <<>>, c.state # "live" => DOMAIN c.pending = {}
    PROVE  AsksOn(c.pending, c)
<1>1. DOMAIN c.out = {}
    BY DEF IsClient
<1>2. QED
    BY <1>1 DEF AsksOn

LEMMA SettleAsks ==
    ASSUME NEW c, IsClient(c), c.out = <<>>, c.state # "live" => DOMAIN c.pending = {},
           NEW id
    PROVE  /\ AsksOn(Without(c.pending, id), Settle(c, id))
           /\ Rest(Settle(c, id)) = Rest(c)
<1> DEFINE p == Without(c.pending, id)
           d == [c EXCEPT !.pending = p]
<1>1. Settle(c, id) = d
    BY DEF Settle, Without, IsClient, Fields
<1>2. /\ DOMAIN p = DOMAIN c.pending \ {id} /\ Whole(p) /\ IsFiniteSet(DOMAIN p)
      /\ \A i \in DOMAIN p : p[i] = c.pending[i]
    <2>1. DOMAIN p = DOMAIN c.pending \ {id} /\ Whole(p) /\ \A i \in DOMAIN p : p[i] = c.pending[i]
        BY DEF Without, Whole
    <2>2. IsFiniteSet(DOMAIN c.pending \ {id})
        BY FS_Subset DEF IsClient
    <2>3. QED
        BY <2>1, <2>2
<1> HIDE DEF p
<1>3. /\ d = [f \in Fields |-> d[f]]
      /\ d.pending = p /\ d.out = c.out /\ d.state = c.state
      /\ Rest(d) = Rest(c)
    BY DEF IsClient, Fields, Rest
<1> HIDE DEF d
<1>4. IsClient(d)
    BY <1>2, <1>3 DEF IsClient
<1>5. AsksOn(d.pending, d)
    BY <1>2, <1>3, <1>4, NothingAsked, SMTT(30)
<1>6. QED
    BY <1>1, <1>3, <1>5 DEF p

(* What the answer to a request makes of the page. *)
LEMMA OnReplyAsks ==
    ASSUME NEW c, IsClient(c), c.out = <<>>, c.state # "live" => DOMAIN c.pending = {},
           NEW msg
    PROVE  LET d       == OnReply(c, msg)
               request == c.pending[msg.id]
           IN  /\ AsksOn(Without(c.pending, msg.id), d)
               /\ d.state = c.state
               /\ IF msg.type = "reply" /\ request.type = "query" /\ msg.data.compiled
                  THEN d.generation = msg.data.generation /\ d.applied = request.query
                  ELSE d.generation = c.generation /\ d.applied = c.applied
               /\ \/ d.cache \in {c.cache, <<>>}
                  \/ /\ msg.type = "reply" /\ request.type = "window"
                     /\ msg.data.generation = c.generation /\ d.of = msg.data.of
<1> DEFINE d       == OnReply(c, msg)
           request == c.pending[msg.id]
           s       == Settle(c, msg.id)
           before  == Without(c.pending, msg.id)
<1>1. AsksOn(before, s) /\ Rest(s) = Rest(c)
    BY SettleAsks
<1>2. /\ s.state = c.state /\ s.generation = c.generation /\ s.applied = c.applied
      /\ s.cache = c.cache
    BY <1>1 DEF Rest
<1> USE DEF OnReply
<1> HIDE DEF s, before
<1>3. CASE request.type = "stats"
    <2>1. d = RunQuery(s)
        BY <1>3 DEF s
    <2> HIDE DEF d
    <2>2. AsksOn(before, d) /\ Rest(d) = Rest(s)
        BY <1>1, <2>1, RunQueryAsks
    <2>3. QED
        BY <1>2, <1>3, <2>2 DEF Rest, before, d
<1>4. CASE request.type = "query" /\ msg.type = "reply"
    <2>1. d = OnQuery(s, msg.data, request)
        BY <1>4 DEF s
    <2> HIDE DEF d, request
    <2>2. /\ AsksOn(before, d)
          /\ d.state = s.state
          /\ IF msg.data.compiled
             THEN d.generation = msg.data.generation /\ d.applied = request.query
             ELSE d.generation = s.generation /\ d.applied = s.applied
          /\ d.cache \in {s.cache, <<>>}
        BY <1>1, <2>1, OnQueryAsks
    <2>3. QED
        BY <1>2, <1>4, <2>2 DEF before, d, request
<1>5. CASE request.type = "window" /\ msg.type = "reply"
    <2>1. d = OnWindow(s, msg.data, request.latest)
        BY <1>5 DEF s
    <2> HIDE DEF d, request
    <2>2. /\ AsksOn(before, d)
          /\ d.state = s.state /\ d.generation = s.generation /\ d.applied = s.applied
          /\ \/ d.cache = s.cache
             \/ msg.data.generation = s.generation /\ d.of = msg.data.of
        BY <1>1, <2>1, OnWindowAsks
    <2>3. QED
        BY <1>2, <1>5, <2>2 DEF before, d, request
<1>6. CASE request.type = "toggle_chain" /\ msg.type = "reply"
    <2>1. d = OnToggle(s, msg.data, request)
        BY <1>6 DEF s
    <2> HIDE DEF d, request
    <2>2. AsksOn(before, d) /\ Rest(d) = Rest(s)
        BY <1>1, <2>1, OnToggleAsks
    <2>3. QED
        BY <1>2, <1>6, <2>2 DEF Rest, before, d, request
<1>7. CASE /\ request.type # "stats"
           /\ ~(request.type \in {"query", "window", "toggle_chain"} /\ msg.type = "reply")
    <2>1. d = s
        BY <1>7 DEF s
    <2> HIDE DEF d, request
    <2>2. QED
        BY <1>1, <1>2, <1>7, <2>1 DEF before, d, request
<1>8. QED
    BY <1>3, <1>4, <1>5, <1>6, <1>7, ZenonT(60)

LEMMA OnNotificationAsks ==
    ASSUME NEW before, NEW c, AsksOn(before, c),
           NEW msg, msg.type \in {"grown", "evicted", "reset", "closed"}
    PROVE  /\ AsksOn(before, OnNotification(c, msg))
           /\ Rest(OnNotification(c, msg)) = Rest(c)
<1> DEFINE grown   == [c EXCEPT !.counts = msg.counts, !.dirty = TRUE]
           evicted == [c EXCEPT !.dirty = TRUE]
           closed  == [c EXCEPT !.gone = TRUE]
<1>1. \A d \in {grown, evicted, closed} :
          /\ d = [f \in Fields |-> d[f]]
          /\ d.pending = c.pending /\ d.out = c.out /\ d.state = c.state
          /\ Rest(d) = Rest(c)
    BY ZenonT(60) DEF AsksOn, IsClient, Fields, Rest
<1>2. OnNotification(c, msg) \in {grown, evicted, closed, Stats(c)}
    BY DEF OnNotification
<1> HIDE DEF grown, evicted, closed
<1>3. \A d \in {grown, evicted, closed} : AsksOn(before, d)
    BY <1>1, SameAsks
<1>4. QED
    BY <1>1, <1>2, <1>3, StatsAsks

(* The first frame finds nothing that is waited for. *)
LEMMA OnFirstAsks ==
    ASSUME NEW before, NEW c, AsksOn(before, c), NEW msg
    PROVE  LET d == OnFirst(c, msg)
           IN  /\ AsksOn(before, d)
               /\ d.state = "live"
               /\ d.generation = c.generation /\ d.applied = c.applied
               /\ d.cache \in {c.cache, <<>>}
<1> DEFINE d    == OnFirst(c, msg)
           live == [c EXCEPT !.state = "live"]
           new  == [live EXCEPT !.connected = TRUE]
<1>1. /\ live = [f \in Fields |-> live[f]]
      /\ live.pending = c.pending /\ live.out = c.out /\ live.state = "live"
      /\ Rest(live) = <<"live", c.generation, c.applied, c.cache, c.of>>
      /\ new = [f \in Fields |-> new[f]]
      /\ new.pending = c.pending /\ new.out = c.out /\ new.state = "live"
      /\ Rest(new) = <<"live", c.generation, c.applied, c.cache, c.of>>
    BY DEF AsksOn, IsClient, Fields, Rest
<1>2. d \in {live, Stats(live), Stats(Reload(new))}
    BY DEF OnFirst
<1> HIDE DEF d, live, new
<1>3. AsksOn(before, live)
    <2>1. IsClient(live)
        BY <1>1 DEF AsksOn, IsClient
    <2>2. /\ DOMAIN live.pending = DOMAIN before \union {live.out[k].id : k \in DOMAIN live.out}
          /\ \A i \in DOMAIN before :
                 /\ live.pending[i].type = before[i].type
                 /\ before[i].type = "query" => live.pending[i].query = before[i].query
        BY <1>1, SMTT(30) DEF AsksOn
    <2>3. \A k \in DOMAIN live.out :
              live.out[k].id \notin DOMAIN before /\ Asks(live.out[k], live.pending)
        BY <1>1 DEF AsksOn
    <2>4. \A j, k \in DOMAIN live.out : live.out[j].id = live.out[k].id => j = k
        BY <1>1 DEF AsksOn
    <2>5. QED
        BY <1>1, <2>1, <2>2, <2>3, <2>4 DEF AsksOn
<1>4. AsksOn(before, new)
    BY <1>1, <1>3, SameAsks
<1>5. /\ AsksOn(before, Reload(new))
      /\ Rest(Reload(new)) = <<"live", c.generation, c.applied, <<>>, c.of>>
    <2>1. /\ AsksOn(before, Reload(new))
          /\ Rest(Reload(new)) = <<new.state, new.generation, new.applied, <<>>, new.of>>
        BY <1>4, ReloadAsks
    <2>2. QED
        BY <1>1, <2>1 DEF Rest
<1>6. AsksOn(before, d) /\ (Rest(d) = Rest(live) \/ Rest(d) = Rest(Reload(new)))
    BY <1>2, <1>3, <1>5, StatsAsks
<1>7. QED
    BY <1>1, <1>5, <1>6 DEF Rest, d

-----------------------------------------------------------------------------
(* RequestsAnswered, of any socket and any promises.                       *)

RequestsOn(q) == {k \in DOMAIN q : q[k].type \in {"query", "window", "toggle_chain", "stats"}}

AnswersOn(a) == {k \in DOMAIN a : a[k].type \in {"reply", "error"}}

Books(q, a, pending) ==
    /\ \A j, k \in RequestsOn(q) : q[j].id = q[k].id => j = k
    /\ \A j, k \in AnswersOn(a) : a[j].id = a[k].id => j = k
    /\ \A j \in RequestsOn(q), k \in AnswersOn(a) : q[j].id # a[k].id
    /\ DOMAIN pending = {q[j].id : j \in RequestsOn(q)} \union {a[k].id : k \in AnswersOn(a)}

(* Where the messages of a tail were.                                      *)
LEMMA TailPlaces ==
    ASSUME NEW s, Sequence(s), s # <<>>
    PROVE  /\ \A k \in DOMAIN Tail(s) :
                  k + 1 \in DOMAIN s /\ k + 1 # 1 /\ k \in Nat /\ Tail(s)[k] = s[k + 1]
           /\ \A k \in DOMAIN s :
                  k # 1 => k - 1 \in DOMAIN Tail(s) /\ k \in Nat /\ Tail(s)[k - 1] = s[k]
BY TailSequence

LEMMA BooksSay ==
    ASSUME NEW q, Sequence(q), NEW a, NEW before, Books(q, a, before),
           NEW c, AsksOn(before, c)
    PROVE  Sequence(q \o c.out) /\ Books(q \o c.out, a, c.pending)
<1> DEFINE r == c.out
           s == q \o r
<1>1. Sequence(r)
    BY DEF AsksOn, IsClient
<1>2. /\ \A k \in DOMAIN r : /\ r[k].type \in {"query", "window", "toggle_chain", "stats"}
                             /\ r[k].id \notin DOMAIN before
      /\ \A j, k \in DOMAIN r : r[j].id = r[k].id => j = k
      /\ DOMAIN c.pending = DOMAIN before \union {r[k].id : k \in DOMAIN r}
    BY DEF AsksOn, Asks
<1> HIDE DEF r
<1>3. /\ Sequence(s)
      /\ \A k \in DOMAIN q : k \in DOMAIN s /\ s[k] = q[k]
      /\ \A k \in DOMAIN r : /\ Len(q) + k \in DOMAIN s /\ Len(q) + k \notin DOMAIN q
                             /\ s[Len(q) + k] = r[k]
      /\ \A k \in DOMAIN s : k \in DOMAIN q \/ \E j \in DOMAIN r : k = Len(q) + j
    BY <1>1, ConcatSequence, ZenonT(60)
<1> HIDE DEF s
<1>4. /\ \A k \in RequestsOn(q) : k \in RequestsOn(s) /\ s[k] = q[k]
      /\ \A k \in DOMAIN r : Len(q) + k \in RequestsOn(s) /\ s[Len(q) + k] = r[k]
      /\ \A k \in RequestsOn(s) :
             \/ k \in RequestsOn(q) /\ s[k] = q[k]
             \/ \E j \in DOMAIN r : k = Len(q) + j /\ s[k] = r[j]
    BY <1>2, <1>3 DEF RequestsOn
<1>5. \A k \in RequestsOn(q) : q[k].id \in DOMAIN before
    BY DEF Books
<1>6. \A k \in AnswersOn(a) : a[k].id \in DOMAIN before
    BY DEF Books
<1>7. \A j, k \in RequestsOn(s) : s[j].id = s[k].id => j = k
    BY <1>2, <1>4, <1>5 DEF Books
<1>8. \A j \in RequestsOn(s), k \in AnswersOn(a) : s[j].id # a[k].id
    BY <1>2, <1>4, <1>6 DEF Books
<1>9. {s[j].id : j \in RequestsOn(s)} = {q[j].id : j \in RequestsOn(q)} \union {r[k].id : k \in DOMAIN r}
    BY <1>4
<1>10. DOMAIN c.pending = {s[j].id : j \in RequestsOn(s)} \union {a[k].id : k \in AnswersOn(a)}
    BY <1>2, <1>9 DEF Books
<1>11. Books(s, a, c.pending)
    BY <1>7, <1>8, <1>10 DEF Books
<1>12. QED
    BY <1>3, <1>11 DEF s, r

LEMMA BooksAnswer ==
    ASSUME NEW q, Sequence(q), q # <<>>, 1 \in RequestsOn(q), NEW a, Sequence(a),
           NEW pending, Books(q, a, pending),
           NEW m, m.type \in {"reply", "error"}, m.id = q[1].id
    PROVE  /\ Sequence(Tail(q)) /\ Sequence(Append(a, m))
           /\ Books(Tail(q), Append(a, m), pending)
<1> DEFINE t == Tail(q)
           b == Append(a, m)
           n == Len(a) + 1
<1>1. /\ Sequence(t)
      /\ \A k \in DOMAIN t : k + 1 \in DOMAIN q /\ k + 1 # 1 /\ k \in Nat /\ t[k] = q[k + 1]
      /\ \A k \in DOMAIN q : k # 1 => k - 1 \in DOMAIN t /\ k \in Nat /\ t[k - 1] = q[k]
    BY TailSequence, TailPlaces
<1>2. /\ Sequence(b) /\ n \in DOMAIN b /\ n \notin DOMAIN a /\ b[n] = m
      /\ \A k \in DOMAIN a : k \in DOMAIN b /\ b[k] = a[k]
      /\ \A k \in DOMAIN b : k \in DOMAIN a \/ k = n
    <2>1. /\ Sequence(b) /\ DOMAIN a = 1..Len(a) /\ DOMAIN b = 1..(Len(a) + 1)
          /\ Len(a) \in Nat /\ b[Len(a) + 1] = m /\ \A k \in 1..Len(a) : b[k] = a[k]
        BY AppendSequence, Zenon
    <2> HIDE DEF b
    <2>2. QED
        BY <2>1
<1> HIDE DEF t, b, n
<1>3. /\ \A k \in RequestsOn(t) : k + 1 \in RequestsOn(q) /\ k + 1 # 1 /\ k \in Nat /\ t[k] = q[k + 1]
      /\ \A k \in RequestsOn(q) : k # 1 => k - 1 \in RequestsOn(t) /\ t[k - 1] = q[k]
    BY <1>1 DEF RequestsOn
<1>4. /\ n \in AnswersOn(b) /\ b[n] = m
      /\ \A k \in AnswersOn(a) : k \in AnswersOn(b) /\ b[k] = a[k] /\ k # n
      /\ \A k \in AnswersOn(b) : (k \in AnswersOn(a) /\ b[k] = a[k]) \/ k = n
    BY <1>2 DEF AnswersOn
<1>5. \A j, k \in RequestsOn(t) : t[j].id = t[k].id => j = k
    BY <1>3 DEF Books
<1>6. \A j, k \in AnswersOn(b) : b[j].id = b[k].id => j = k
    BY <1>4 DEF Books
<1>7. \A j \in RequestsOn(t), k \in AnswersOn(b) : t[j].id # b[k].id
    BY <1>3, <1>4 DEF Books
<1>8. {q[j].id : j \in RequestsOn(q)} = {t[j].id : j \in RequestsOn(t)} \union {m.id}
    BY <1>3
<1>9. {b[k].id : k \in AnswersOn(b)} = {a[k].id : k \in AnswersOn(a)} \union {m.id}
    BY <1>4
<1>10. DOMAIN pending = {t[j].id : j \in RequestsOn(t)} \union {b[k].id : k \in AnswersOn(b)}
    BY <1>8, <1>9 DEF Books
<1>11. Books(t, b, pending)
    BY <1>5, <1>6, <1>7, <1>10 DEF Books
<1>12. QED
    BY <1>1, <1>2, <1>11 DEF t, b

LEMMA BooksTell ==
    ASSUME NEW q, NEW a, Sequence(a), NEW pending, Books(q, a, pending),
           NEW r, Sequence(r), AnswersOn(r) = {}
    PROVE  /\ Sequence(a \o r) /\ AnswersOn(a \o r) = AnswersOn(a)
           /\ \A k \in AnswersOn(a) : (a \o r)[k] = a[k]
           /\ Books(q, a \o r, pending)
<1> DEFINE b == a \o r
<1>1. /\ Sequence(b)
      /\ \A k \in DOMAIN a : k \in DOMAIN b /\ b[k] = a[k]
      /\ \A k \in DOMAIN r : b[Len(a) + k] = r[k]
      /\ \A k \in DOMAIN b : k \in DOMAIN a \/ \E j \in DOMAIN r : k = Len(a) + j
    BY ConcatSequence
<1> HIDE DEF b
<1>2. AnswersOn(b) = AnswersOn(a) /\ \A k \in AnswersOn(a) : b[k] = a[k]
    BY <1>1 DEF AnswersOn
<1>3. {b[k].id : k \in AnswersOn(b)} = {a[k].id : k \in AnswersOn(a)}
    BY <1>2
<1>4. Books(q, b, pending)
    BY <1>2, <1>3 DEF Books
<1>5. QED
    BY <1>1, <1>2, <1>4 DEF b

LEMMA BooksTake ==
    ASSUME NEW q, NEW a, Sequence(a), a # <<>>, 1 \in AnswersOn(a),
           NEW pending, Books(q, a, pending)
    PROVE  /\ a[1].id \in DOMAIN pending
           /\ Sequence(Tail(a)) /\ Books(q, Tail(a), Without(pending, a[1].id))
<1> DEFINE t == Tail(a)
           p == Without(pending, a[1].id)
<1>1. /\ Sequence(t)
      /\ \A k \in DOMAIN t : k + 1 \in DOMAIN a /\ k + 1 # 1 /\ k \in Nat /\ t[k] = a[k + 1]
      /\ \A k \in DOMAIN a : k # 1 => k - 1 \in DOMAIN t /\ k \in Nat /\ t[k - 1] = a[k]
    BY TailSequence, TailPlaces
<1>2. DOMAIN p = DOMAIN pending \ {a[1].id}
    BY DEF Without
<1> HIDE DEF t, p
<1>3. /\ \A k \in AnswersOn(t) : k + 1 \in AnswersOn(a) /\ k + 1 # 1 /\ k \in Nat /\ t[k] = a[k + 1]
      /\ \A k \in AnswersOn(a) : k # 1 => k - 1 \in AnswersOn(t) /\ t[k - 1] = a[k]
    BY <1>1 DEF AnswersOn
<1>4. \A j, k \in AnswersOn(t) : t[j].id = t[k].id => j = k
    BY <1>3 DEF Books
<1>5. \A j \in RequestsOn(q), k \in AnswersOn(t) : q[j].id # t[k].id
    BY <1>3 DEF Books
<1>6. {a[k].id : k \in AnswersOn(a)} = {t[k].id : k \in AnswersOn(t)} \union {a[1].id}
    BY <1>3
<1>7. a[1].id \notin {t[k].id : k \in AnswersOn(t)} /\ a[1].id \notin {q[j].id : j \in RequestsOn(q)}
    BY <1>3 DEF Books
<1>8. DOMAIN p = {q[j].id : j \in RequestsOn(q)} \union {t[k].id : k \in AnswersOn(t)}
    BY <1>2, <1>6, <1>7, ZenonT(60) DEF Books
<1>9. Books(q, t, p)
    BY <1>4, <1>5, <1>8 DEF Books
<1>10. a[1].id \in DOMAIN pending
    BY DEF Books
<1>11. QED
    BY <1>1, <1>9, <1>10 DEF t, p

LEMMA BooksHear ==
    ASSUME NEW q, NEW a, Sequence(a), a # <<>>, 1 \notin AnswersOn(a),
           NEW pending, Books(q, a, pending)
    PROVE  Sequence(Tail(a)) /\ Books(q, Tail(a), pending)
<1> DEFINE t == Tail(a)
<1>1. /\ Sequence(t)
      /\ \A k \in DOMAIN t : k + 1 \in DOMAIN a /\ k + 1 # 1 /\ k \in Nat /\ t[k] = a[k + 1]
      /\ \A k \in DOMAIN a : k # 1 => k - 1 \in DOMAIN t /\ k \in Nat /\ t[k - 1] = a[k]
    BY TailSequence, TailPlaces
<1> HIDE DEF t
<1>2. /\ \A k \in AnswersOn(t) : k + 1 \in AnswersOn(a) /\ k \in Nat /\ t[k] = a[k + 1]
      /\ \A k \in AnswersOn(a) : k - 1 \in AnswersOn(t) /\ t[k - 1] = a[k]
    BY <1>1 DEF AnswersOn
<1>3. \A j, k \in AnswersOn(t) : t[j].id = t[k].id => j = k
    BY <1>2 DEF Books
<1>4. \A j \in RequestsOn(q), k \in AnswersOn(t) : q[j].id # t[k].id
    BY <1>2 DEF Books
<1>5. {a[k].id : k \in AnswersOn(a)} = {t[k].id : k \in AnswersOn(t)}
    BY <1>2
<1>6. Books(q, t, pending)
    BY <1>3, <1>4, <1>5 DEF Books
<1>7. QED
    BY <1>1, <1>6 DEF t

-----------------------------------------------------------------------------
(* GenerationsKept, of any socket, promises, view and session.             *)

RepliesOn(a) == {k \in DOMAIN a : a[k].type = "reply"}

Takes(a, pending, k) ==
    /\ k \in RepliesOn(a)
    /\ pending[a[k].id].type = "query"
    /\ a[k].data.compiled

Remembered(q, pending) ==
    \A k \in RequestsOn(q) :
        /\ pending[q[k].id].type = q[k].type
        /\ pending[q[k].id].type = "query" => pending[q[k].id].query = q[k].query

OfItsQuery(a, pending) ==
    \A k \in RepliesOn(a) :
        Takes(a, pending, k) => /\ a[k].data.generation > 0
                                /\ a[k].data.of = pending[a[k].id].query

OneQueryEach(a) ==
    \A k, j \in RepliesOn(a) :
        a[j].data.generation = a[k].data.generation => a[j].data.of = a[k].data.of

OldBehindNew(a, pending, generation, applied) ==
    \A k \in RepliesOn(a) :
        a[k].data.generation = generation =>
            \/ a[k].data.of = applied
            \/ \E j \in RepliesOn(a) :
                   /\ j <= k /\ Takes(a, pending, j)
                   /\ a[j].data.generation = a[k].data.generation

OfThisView(a, view) ==
    \A k \in RepliesOn(a) :
        /\ a[k].data.generation <= view.generation
        /\ a[k].data.generation = view.generation => a[k].data.of = view.query

ViewKnown(a, pending, view, generation, applied) ==
    view.generation = generation =>
        \/ view.query = applied
        \/ \E j \in RepliesOn(a) :
               Takes(a, pending, j) /\ a[j].data.generation = view.generation

Generations(q, a, pending, source, view, generation, applied) ==
    /\ generation = 0 => applied = "all"
    /\ Remembered(q, pending)
    /\ OfItsQuery(a, pending)
    /\ OneQueryEach(a)
    /\ OldBehindNew(a, pending, generation, applied)
    /\ source => /\ OfThisView(a, view)
                 /\ ViewKnown(a, pending, view, generation, applied)

LEMMA GenerationsAre ==
    /\ GenerationsKept <=> Generations(c2s, s2c, client.pending, conn.source, conn.view,
                                       client.generation, client.applied)
    /\ GenerationsKept' <=> Generations(c2s', s2c', client'.pending, conn'.source, conn'.view,
                                        client'.generation, client'.applied)
BY DEF GenerationsKept, Generations, Remembered, OfItsQuery, OneQueryEach, OldBehindNew,
       OfThisView, ViewKnown, Takes, Applies, Replies, RepliesOn, Asked, RequestsOn

LEMMA BooksAre ==
    /\ RequestsAnswered <=> Books(c2s, s2c, client.pending)
    /\ RequestsAnswered' <=> Books(c2s', s2c', client'.pending)
BY DEF RequestsAnswered, Books, Asked, RequestsOn, Answered, AnswersOn

LEMMA GenerationsSay ==
    ASSUME NEW q, Sequence(q), NEW a, NEW before, Books(q, a, before),
           NEW source, NEW view, NEW generation, NEW applied,
           Generations(q, a, before, source, view, generation, applied),
           NEW c, AsksOn(before, c)
    PROVE  Generations(q \o c.out, a, c.pending, source, view, generation, applied)
<1> DEFINE r == c.out
           s == q \o r
<1>1. Sequence(r)
    BY DEF AsksOn, IsClient
<1>2. /\ \A k \in DOMAIN r : Asks(r[k], c.pending)
      /\ \A i \in DOMAIN before :
             /\ c.pending[i].type = before[i].type
             /\ before[i].type = "query" => c.pending[i].query = before[i].query
    BY DEF AsksOn
<1> HIDE DEF r
<1>3. /\ \A k \in DOMAIN r : s[Len(q) + k] = r[k]
      /\ \A k \in DOMAIN q : s[k] = q[k]
      /\ \A k \in DOMAIN s : k \in DOMAIN q \/ \E j \in DOMAIN r : k = Len(q) + j
    BY <1>1, ConcatSequence, ZenonT(60)
<1> HIDE DEF s
<1>4. /\ \A k \in RequestsOn(q) : q[k].id \in DOMAIN before
      /\ \A k \in RepliesOn(a) : a[k].id \in DOMAIN before
    BY DEF Books, RepliesOn, AnswersOn
<1>5. Remembered(s, c.pending)
    <2>1. SUFFICES ASSUME NEW k \in RequestsOn(s)
                   PROVE  /\ c.pending[s[k].id].type = s[k].type
                          /\ c.pending[s[k].id].type = "query" =>
                                 c.pending[s[k].id].query = s[k].query
        BY DEF Remembered
    <2>2. CASE k \in DOMAIN q
        BY <1>2, <1>3, <1>4, <2>2 DEF Generations, Remembered, RequestsOn
    <2>3. CASE \E j \in DOMAIN r : k = Len(q) + j
        BY <1>2, <1>3, <2>3 DEF Asks
    <2>4. QED
        BY <1>3, <2>2, <2>3 DEF RequestsOn
<1>6. \A k \in RepliesOn(a) :
          /\ Takes(a, c.pending, k) <=> Takes(a, before, k)
          /\ Takes(a, before, k) => c.pending[a[k].id].query = before[a[k].id].query
    BY <1>2, <1>4 DEF Takes
<1>7. OfItsQuery(a, c.pending)
    BY <1>6 DEF Generations, OfItsQuery
<1>8. OldBehindNew(a, c.pending, generation, applied)
    BY <1>6 DEF Generations, OldBehindNew
<1>9. source => ViewKnown(a, c.pending, view, generation, applied)
    BY <1>6 DEF Generations, ViewKnown
<1>10. Generations(s, a, c.pending, source, view, generation, applied)
    BY <1>5, <1>7, <1>8, <1>9 DEF Generations
<1>11. QED
    BY <1>10 DEF s, r

(* Messages that are no replies change nothing of this. *)
LEMMA GenerationsTell ==
    ASSUME NEW q, NEW a, NEW b, RepliesOn(b) = RepliesOn(a),
           \A k \in RepliesOn(a) : b[k] = a[k], NEW pending,
           NEW source, NEW view, NEW generation, NEW applied,
           Generations(q, a, pending, source, view, generation, applied)
    PROVE  Generations(q, b, pending, source, view, generation, applied)
<1>1. \A k \in RepliesOn(a) : Takes(b, pending, k) <=> Takes(a, pending, k)
    BY DEF Takes
<1>2. OfItsQuery(b, pending) /\ OneQueryEach(b)
    BY <1>1 DEF Generations, OfItsQuery, OneQueryEach
<1>3. OldBehindNew(b, pending, generation, applied)
    BY <1>1 DEF Generations, OldBehindNew
<1>4. source => OfThisView(b, view) /\ ViewKnown(b, pending, view, generation, applied)
    BY <1>1 DEF Generations, OfThisView, ViewKnown
<1>5. QED
    BY <1>2, <1>3, <1>4 DEF Generations

(* The first message, no answer, is heard. *)
LEMMA GenerationsHear ==
    ASSUME NEW q, NEW a, Sequence(a), a # <<>>, 1 \notin AnswersOn(a), NEW pending,
           NEW source, NEW view, NEW generation, NEW applied,
           Generations(q, a, pending, source, view, generation, applied)
    PROVE  Generations(q, Tail(a), pending, source, view, generation, applied)
<1> DEFINE t == Tail(a)
<1>1. /\ \A k \in DOMAIN t : k + 1 \in DOMAIN a /\ k + 1 # 1 /\ k \in Nat /\ t[k] = a[k + 1]
      /\ \A k \in DOMAIN a : k # 1 => k - 1 \in DOMAIN t /\ k \in Nat /\ t[k - 1] = a[k]
    BY TailPlaces
<1> HIDE DEF t
<1>2. /\ \A k \in RepliesOn(t) : k + 1 \in RepliesOn(a) /\ k \in Nat /\ t[k] = a[k + 1]
      /\ \A k \in RepliesOn(a) : k - 1 \in RepliesOn(t) /\ k \in Nat /\ t[k - 1] = a[k]
    BY <1>1 DEF RepliesOn, AnswersOn
<1>3. /\ \A k \in RepliesOn(t) : Takes(t, pending, k) <=> Takes(a, pending, k + 1)
      /\ \A k \in RepliesOn(a) : Takes(t, pending, k - 1) <=> Takes(a, pending, k)
    BY <1>2 DEF Takes
<1>4. OfItsQuery(t, pending) /\ OneQueryEach(t)
    <2>1. OfItsQuery(t, pending)
        BY <1>2, <1>3 DEF Generations, OfItsQuery
    <2>2. OneQueryEach(t)
        BY <1>2 DEF Generations, OneQueryEach
    <2>3. QED
        BY <2>1, <2>2
<1>5. OldBehindNew(t, pending, generation, applied)
    <2>1. SUFFICES ASSUME NEW k \in RepliesOn(t), t[k].data.generation = generation,
                          t[k].data.of # applied
                   PROVE  \E j \in RepliesOn(t) :
                              /\ j <= k /\ Takes(t, pending, j)
                              /\ t[j].data.generation = t[k].data.generation
        BY DEF OldBehindNew
    <2>2. PICK j \in RepliesOn(a) : /\ j <= k + 1 /\ Takes(a, pending, j)
                                    /\ a[j].data.generation = t[k].data.generation
        BY <1>2, <2>1 DEF Generations, OldBehindNew
    <2>3. /\ j - 1 \in RepliesOn(t) /\ j - 1 <= k /\ Takes(t, pending, j - 1)
          /\ t[j - 1].data.generation = t[k].data.generation
        BY <1>2, <1>3, <2>2
    <2>4. QED
        BY <2>3
<1>6. source => OfThisView(t, view)
    BY <1>2 DEF Generations, OfThisView
<1>7. source => ViewKnown(t, pending, view, generation, applied)
    BY <1>2, <1>3 DEF Generations, ViewKnown
<1>8. QED
    BY <1>4, <1>5, <1>6, <1>7 DEF Generations, t

(* The first message is the answer to a request, which is settled. *)
LEMMA GenerationsTake ==
    ASSUME NEW q, NEW a, Sequence(a), a # <<>>, 1 \in AnswersOn(a),
           NEW pending, Books(q, a, pending),
           NEW source, NEW view, NEW generation, NEW applied,
           Generations(q, a, pending, source, view, generation, applied),
           NEW g, NEW x,
           IF Takes(a, pending, 1)
           THEN g = a[1].data.generation /\ x = pending[a[1].id].query
           ELSE g = generation /\ x = applied
    PROVE  Generations(q, Tail(a), Without(pending, a[1].id), source, view, g, x)
<1> DEFINE t == Tail(a)
           p == Without(pending, a[1].id)
<1>1. /\ \A k \in DOMAIN t : k + 1 \in DOMAIN a /\ k + 1 # 1 /\ k \in Nat /\ t[k] = a[k + 1]
      /\ \A k \in DOMAIN a : k # 1 => k - 1 \in DOMAIN t /\ k \in Nat /\ t[k - 1] = a[k]
    BY TailPlaces
<1>2. /\ DOMAIN p = DOMAIN pending \ {a[1].id}
      /\ \A i \in DOMAIN p : p[i] = pending[i]
    BY DEF Without
<1> HIDE DEF t, p
<1>3. /\ \A k \in RepliesOn(t) : /\ k + 1 \in RepliesOn(a) /\ k + 1 # 1 /\ k \in Nat
                                 /\ t[k] = a[k + 1]
      /\ \A k \in RepliesOn(a) : k # 1 => /\ k - 1 \in RepliesOn(t) /\ k \in Nat
                                          /\ t[k - 1] = a[k]
    BY <1>1 DEF RepliesOn
<1>4. /\ \A k \in RepliesOn(a) : k # 1 => p[a[k].id] = pending[a[k].id]
      /\ \A k \in RequestsOn(q) : p[q[k].id] = pending[q[k].id]
    <2>1. \A k \in RepliesOn(a) : k # 1 => a[k].id \in DOMAIN p
        BY <1>2 DEF Books, RepliesOn, AnswersOn
    <2>2. \A k \in RequestsOn(q) : q[k].id \in DOMAIN p
        BY <1>2 DEF Books
    <2>3. QED
        BY <1>2, <2>1, <2>2
<1>5. /\ \A k \in RepliesOn(t) : /\ Takes(t, p, k) <=> Takes(a, pending, k + 1)
                                 /\ p[t[k].id] = pending[a[k + 1].id]
      /\ \A k \in RepliesOn(a) : k # 1 => (Takes(t, p, k - 1) <=> Takes(a, pending, k))
    BY <1>3, <1>4 DEF Takes
<1>6. g = 0 => x = "all"
    BY DEF Generations, OfItsQuery, Takes
<1>7. Remembered(q, p)
    BY <1>4 DEF Generations, Remembered
<1>8. OfItsQuery(t, p) /\ OneQueryEach(t)
    <2>1. OfItsQuery(t, p)
        BY <1>3, <1>5 DEF Generations, OfItsQuery
    <2>2. OneQueryEach(t)
        BY <1>3 DEF Generations, OneQueryEach
    <2>3. QED
        BY <2>1, <2>2
<1>9. ASSUME Takes(a, pending, 1)
      PROVE  OldBehindNew(t, p, g, x) /\ (source => ViewKnown(t, p, view, g, x))
    <2>1. g = a[1].data.generation /\ x = a[1].data.of /\ 1 \in RepliesOn(a)
        BY <1>9 DEF Generations, OfItsQuery, Takes
    <2>2. \A k \in RepliesOn(t) : t[k].data.generation = g => t[k].data.of = x
        BY <1>3, <2>1 DEF Generations, OneQueryEach
    <2>3. OldBehindNew(t, p, g, x)
        BY <2>2 DEF OldBehindNew
    <2>4. source => ViewKnown(t, p, view, g, x)
        BY <2>1 DEF Generations, OfThisView, ViewKnown
    <2>5. QED
        BY <2>3, <2>4
<1>10. ASSUME ~Takes(a, pending, 1)
       PROVE  OldBehindNew(t, p, g, x) /\ (source => ViewKnown(t, p, view, g, x))
    <2>1. g = generation /\ x = applied
        BY <1>10
    <2>2. OldBehindNew(t, p, g, x)
        <3>1. SUFFICES ASSUME NEW k \in RepliesOn(t), t[k].data.generation = g,
                              t[k].data.of # x
                       PROVE  \E j \in RepliesOn(t) :
                                  /\ j <= k /\ Takes(t, p, j)
                                  /\ t[j].data.generation = t[k].data.generation
            BY DEF OldBehindNew
        <3>2. PICK j \in RepliesOn(a) : /\ j <= k + 1 /\ Takes(a, pending, j)
                                        /\ a[j].data.generation = t[k].data.generation
            BY <1>3, <2>1, <3>1 DEF Generations, OldBehindNew
        <3>3. j # 1
            BY <1>10, <3>2
        <3>4. /\ j - 1 \in RepliesOn(t) /\ j - 1 <= k /\ Takes(t, p, j - 1)
              /\ t[j - 1].data.generation = t[k].data.generation
            BY <1>3, <1>5, <3>2, <3>3
        <3>5. QED
            BY <3>4
    <2>3. ASSUME source, view.generation = g, view.query # x
          PROVE  \E j \in RepliesOn(t) :
                     Takes(t, p, j) /\ t[j].data.generation = view.generation
        <3>1. PICK j \in RepliesOn(a) :
                  Takes(a, pending, j) /\ a[j].data.generation = view.generation
            BY <2>1, <2>3 DEF Generations, ViewKnown
        <3>2. j # 1
            BY <1>10, <3>1
        <3>3. QED
            BY <1>3, <1>5, <3>1, <3>2
    <2>4. source => ViewKnown(t, p, view, g, x)
        BY <2>3 DEF ViewKnown
    <2>5. QED
        BY <2>2, <2>4
<1>11. source => OfThisView(t, view)
    BY <1>3 DEF Generations, OfThisView
<1>12. Generations(q, t, p, source, view, g, x)
    BY <1>6, <1>7, <1>8, <1>9, <1>10, <1>11 DEF Generations
<1>13. QED
    BY <1>12 DEF t, p

(* The first request is taken off the socket. *)
LEMMA RememberedTail ==
    ASSUME NEW q, Sequence(q), q # <<>>, NEW pending, Remembered(q, pending)
    PROVE  Remembered(Tail(q), pending)
<1>1. \A k \in DOMAIN Tail(q) : k + 1 \in DOMAIN q /\ Tail(q)[k] = q[k + 1]
    BY TailPlaces
<1> DEFINE t == Tail(q)
<1> HIDE DEF t
<1>2. \A k \in RequestsOn(t) : k + 1 \in RequestsOn(q) /\ t[k] = q[k + 1]
    BY <1>1 DEF t, RequestsOn
<1>3. Remembered(t, pending)
    BY <1>2 DEF Remembered
<1>4. QED
    BY <1>3 DEF t

(* An error is appended. *)
LEMMA GenerationsError ==
    ASSUME NEW q, Sequence(q), q # <<>>, NEW a, Sequence(a), NEW pending,
           NEW source, NEW view, NEW generation, NEW applied,
           Generations(q, a, pending, source, view, generation, applied),
           NEW m, m.type = "error"
    PROVE  Generations(Tail(q), Append(a, m), pending, source, view, generation, applied)
<1> DEFINE b == Append(a, m)
<1>1. /\ DOMAIN a = 1..Len(a) /\ DOMAIN b = 1..(Len(a) + 1)
      /\ Len(a) \in Nat /\ b[Len(a) + 1] = m /\ \A k \in 1..Len(a) : b[k] = a[k]
    BY AppendSequence, Zenon
<1> HIDE DEF b
<1>2. RepliesOn(b) = RepliesOn(a) /\ \A k \in RepliesOn(a) : b[k] = a[k]
    BY <1>1 DEF RepliesOn
<1>3. Generations(q, b, pending, source, view, generation, applied)
    BY <1>2, GenerationsTell
<1>4. Remembered(Tail(q), pending)
    BY RememberedTail DEF Generations
<1>5. QED
    BY <1>3, <1>4 DEF Generations, b

(* The reply to the first request is appended, and the view is now w. *)
LEMMA GenerationsReply ==
    ASSUME NEW q, Sequence(q), q # <<>>, 1 \in RequestsOn(q), NEW a, Sequence(a),
           \A k \in RepliesOn(a) : a[k].data.generation \in Nat,
           NEW pending, Books(q, a, pending),
           NEW view, view.generation \in Nat, NEW generation, NEW applied,
           Generations(q, a, pending, TRUE, view, generation, applied),
           NEW m, m.type = "reply", m.id = q[1].id,
           NEW w,
           \/ /\ q[1].type = "query" /\ m.data.compiled
              /\ w.generation = view.generation + 1 /\ w.query = q[1].query
           \/ /\ ~(q[1].type = "query" /\ m.data.compiled)
              /\ w.generation = view.generation /\ w.query = view.query,
           m.data.generation = w.generation, m.data.of = w.query
    PROVE  Generations(Tail(q), Append(a, m), pending, TRUE, w, generation, applied)
<1> DEFINE b == Append(a, m)
<1>1. PICK n \in Nat :
          /\ n \in DOMAIN b /\ n \notin DOMAIN a /\ b[n] = m
          /\ \A k \in DOMAIN a : k \in DOMAIN b /\ b[k] = a[k]
          /\ \A k \in DOMAIN b : k \in Nat /\ k <= n /\ (k \in DOMAIN a \/ k = n)
    BY AppendPlaces
<1> HIDE DEF b
<1>2. /\ n \in RepliesOn(b) /\ b[n] = m
      /\ \A k \in RepliesOn(a) : k \in RepliesOn(b) /\ b[k] = a[k] /\ k <= n
      /\ \A k \in RepliesOn(b) : (k \in RepliesOn(a) /\ b[k] = a[k]) \/ k = n
    BY <1>1 DEF RepliesOn
<1>3. /\ pending[m.id].type = q[1].type
      /\ q[1].type = "query" => pending[m.id].query = q[1].query
    BY DEF Generations, Remembered
<1>4. /\ \A k \in RepliesOn(a) : Takes(b, pending, k) <=> Takes(a, pending, k)
      /\ Takes(b, pending, n) <=> (q[1].type = "query" /\ m.data.compiled)
    BY <1>2, <1>3 DEF Takes
<1>5. /\ OfThisView(a, view) /\ ViewKnown(a, pending, view, generation, applied)
      /\ OfItsQuery(a, pending) /\ OneQueryEach(a)
      /\ OldBehindNew(a, pending, generation, applied)
    BY DEF Generations
<1>6. \A k \in RepliesOn(a) :
          /\ a[k].data.generation <= w.generation
          /\ a[k].data.generation = w.generation => a[k].data.of = w.query
    BY <1>5 DEF OfThisView
<1>7. OfThisView(b, w)
    <2>1. w.generation \in Nat
        OBVIOUS
    <2>2. QED
        BY <1>2, <1>6, <2>1 DEF OfThisView
<1>8. OneQueryEach(b)
    BY <1>2, <1>5, <1>6 DEF OneQueryEach
<1>9. OfItsQuery(b, pending)
    <2>1. ASSUME NEW k \in RepliesOn(b), Takes(b, pending, k)
          PROVE  b[k].data.generation > 0 /\ b[k].data.of = pending[b[k].id].query
        <3>1. CASE k \in RepliesOn(a) /\ b[k] = a[k]
            BY <1>4, <1>5, <2>1, <3>1 DEF OfItsQuery
        <3>2. CASE k = n
            BY <1>2, <1>3, <1>4, <2>1, <3>2
        <3>3. QED
            BY <1>2, <3>1, <3>2
    <2>2. QED
        BY <2>1 DEF OfItsQuery
<1>10. ViewKnown(b, pending, w, generation, applied)
    <2>1. CASE q[1].type = "query" /\ m.data.compiled
        BY <1>2, <1>4, <2>1 DEF ViewKnown
    <2>2. CASE ~(q[1].type = "query" /\ m.data.compiled)
        BY <1>2, <1>4, <1>5, <2>2 DEF ViewKnown
    <2>3. QED
        BY <2>1, <2>2
<1>11. OldBehindNew(b, pending, generation, applied)
    <2>1. SUFFICES ASSUME NEW k \in RepliesOn(b), b[k].data.generation = generation,
                          b[k].data.of # applied
                   PROVE  \E j \in RepliesOn(b) :
                              /\ j <= k /\ Takes(b, pending, j)
                              /\ b[j].data.generation = b[k].data.generation
        BY DEF OldBehindNew
    <2>2. CASE k \in RepliesOn(a) /\ b[k] = a[k]
        <3>1. a[k].data.generation = generation /\ a[k].data.of # applied
            BY <2>1, <2>2
        <3>2. PICK j \in RepliesOn(a) :
                  /\ j <= k /\ Takes(a, pending, j)
                  /\ a[j].data.generation = a[k].data.generation
            BY <1>5, <2>2, <3>1 DEF OldBehindNew
        <3>3. j \in RepliesOn(b) /\ b[j] = a[j] /\ Takes(b, pending, j)
            BY <1>2, <1>4, <3>2
        <3>4. QED
            BY <2>2, <3>2, <3>3
    <2>3. CASE k = n
        <3>1. PICK j \in RepliesOn(b) :
                  Takes(b, pending, j) /\ b[j].data.generation = w.generation
            BY <1>2, <1>10, <2>1, <2>3 DEF ViewKnown
        <3>2. j <= n
            BY <1>1, <1>2, <3>1
        <3>3. QED
            BY <1>2, <2>3, <3>1, <3>2
    <2>4. QED
        BY <1>2, <2>2, <2>3
<1>12. Remembered(Tail(q), pending)
    BY RememberedTail DEF Generations
<1>13. Generations(Tail(q), b, pending, TRUE, w, generation, applied)
    BY <1>7, <1>8, <1>9, <1>10, <1>11, <1>12 DEF Generations
<1>14. QED
    BY <1>13 DEF b

-----------------------------------------------------------------------------
(* The inductive invariant: IInv, with the shape of the state.             *)

Messages(a) ==
    /\ Sequence(a)
    /\ \A k \in DOMAIN a :
           /\ a[k].type \in {"reply", "error", "grown", "evicted", "reset", "closed"}
           /\ a[k].type = "reply" => a[k].data.generation \in Nat

IsConn(x) ==
    /\ x = [f \in {"phase", "source", "view", "sent"} |-> x[f]]
    /\ x.phase \in {"none", "auth", "serving"}
    /\ x.view = [f \in {"generation", "query", "toggled"} |-> x.view[f]]
    /\ x.view.generation \in Nat

Shape ==
    /\ IsClient(client) /\ client.generation \in Nat
    /\ Sequence(c2s) /\ Messages(s2c)
    /\ IsConn(conn)

Inductive == IInv /\ Shape

(* A client that is not live asks nothing. *)
LEMMA OnlyLiveAsk ==
    ASSUME NEW before, NEW c, AsksOn(before, c), c.state # "live"
    PROVE  c.out = <<>>
<1>1. Sequence(c.out) /\ DOMAIN c.out = {}
    <2>1. {c.out[k].id : k \in DOMAIN c.out} = {}
        BY DEF AsksOn
    <2>2. Sequence(c.out)
        BY DEF AsksOn, IsClient
    <2>3. QED
        BY <2>1, <2>2
<1>2. Len(c.out) \in Nat /\ DOMAIN c.out = 1..Len(c.out)
    BY <1>1, AppendSequence
<1>3. c.out \in Seq(ToSet(c.out)) /\ Len(c.out) = 0
    BY <1>1, <1>2, SMTT(30) DEF Sequence
<1>4. QED
    BY <1>3

(* What a client has asked is said on the connection that it is on. *)
LEMMA SayKeeps ==
    ASSUME Inductive, NEW before, NEW c, AsksOn(before, c), Say(c), conn' = conn,
           c.generation \in Nat, Messages(s2c'),
           Books(c2s, s2c', before),
           Generations(c2s, s2c', before, conn.source, conn.view, c.generation, c.applied),
           c.state = client.state \/ (conn.phase = "serving" /\ c.state = "live"),
           s2c' = s2c \/ conn.phase = "serving"
    PROVE  /\ Inductive'
           /\ client'.cache = c.cache /\ client'.of = c.of /\ client'.applied = c.applied
<1> DEFINE q == c2s \o c.out
<1>1. /\ client' = [f \in Fields |-> client'[f]]
      /\ client'.out = <<>> /\ client'.pending = c.pending /\ client'.state = c.state
      /\ client'.generation = c.generation /\ client'.applied = c.applied
      /\ client'.cache = c.cache /\ client'.of = c.of
    <2>1. client' = [c EXCEPT !.out = <<>>]
        BY DEF Say
    <2>2. QED
        BY <2>1 DEF AsksOn, IsClient, Fields
<1>2. c2s' = q
    BY DEF Say
<1>3. Sequence(q) /\ Books(q, s2c', c.pending)
    BY BooksSay DEF Inductive, Shape
<1>4. Generations(q, s2c', c.pending, conn.source, conn.view, c.generation, c.applied)
    BY GenerationsSay DEF Inductive, Shape
<1> HIDE DEF q
<1>5. RequestsAnswered' /\ GenerationsKept'
    BY <1>1, <1>2, <1>3, <1>4, BooksAre, GenerationsAre
<1>6. Shape'
    <2>1. Sequence(<<>>)
        <3>1. <<>> \in Seq({})
            OBVIOUS
        <3>2. QED
            BY <3>1, IsSequence
    <2>2. IsClient(client')
        BY <1>1, <2>1 DEF AsksOn, IsClient
    <2>3. QED
        BY <1>1, <1>2, <1>3, <2>2 DEF Inductive, Shape
<1>7. InStep'
    <2>1. c.state # "live" => c2s' = c2s
        <3>1. c.state # "live" => c.out = <<>>
            BY OnlyLiveAsk
        <3>2. c2s \in Seq(ToSet(c2s))
            BY DEF Inductive, Shape, Sequence
        <3>3. c2s \o <<>> = c2s
            BY <3>2, ConcatEmptySeq
        <3>4. QED
            BY <3>1, <3>3 DEF Say
    <2>2. c.state = "live" => conn.phase = "serving"
        BY DEF Inductive, IInv, InStep, Shape, IsConn
    <2>3. conn.phase = "serving" => (Asked = DOMAIN c2s)'
        <3>1. SUFFICES ASSUME conn.phase = "serving" PROVE Asked' = DOMAIN c2s'
            OBVIOUS
        <3>2. \A k \in DOMAIN c2s :
                  c2s[k].type \in {"query", "window", "toggle_chain", "stats"}
            BY <3>1 DEF Inductive, IInv, InStep, Asked
        <3>3. \A k \in DOMAIN c.out :
                  c.out[k].type \in {"query", "window", "toggle_chain", "stats"}
            BY DEF AsksOn, Asks
        <3>4. Joins(q, c2s, c.out)
            <4>1. Sequence(c2s) /\ Sequence(c.out)
                BY DEF Inductive, Shape, AsksOn, IsClient
            <4>2. QED
                BY <4>1, ConcatEach DEF q
        <3>5. \A k \in DOMAIN q : q[k].type \in {"query", "window", "toggle_chain", "stats"}
            BY <3>2, <3>3, <3>4 DEF Joins
        <3>6. QED
            BY <1>2, <3>5 DEF Asked
    <2>4. client'.state # "live" => DOMAIN client'.pending = {}
        BY <1>1 DEF AsksOn
    <2>5. /\ client'.state = "disconnected" <=> conn'.phase = "none"
          /\ conn'.phase = "none" => c2s' = <<>> /\ s2c' = <<>>
          /\ conn'.phase = "auth" =>
                 client'.state = "connecting" /\ s2c' = <<>> /\ c2s' = <<[type |-> "auth"]>>
        BY <1>1, <2>1, <2>2 DEF Inductive, IInv, InStep
    <2>6. QED
        BY <1>1, <2>3, <2>4, <2>5 DEF InStep
<1>8. QED
    BY <1>1, <1>5, <1>6, <1>7 DEF Inductive, IInv

-----------------------------------------------------------------------------
(* One step at a time.                                                     *)

LEMMA OneMessage ==
    ASSUME NEW m
    PROVE  Sequence(<<m>>) /\ Sequence(<<>>) /\ DOMAIN <<m>> = {1} /\ <<m>>[1] = m
<1>1. <<m>> \in Seq({m}) /\ <<>> \in Seq({m})
    OBVIOUS
<1>2. Sequence(<<m>>) /\ Sequence(<<>>)
    BY <1>1, IsSequence
<1>3. QED
    BY <1>2

LEMMA NewConn == IsConn(NoConn) /\ NoConn.phase = "none" /\ NoConn.source = FALSE
<1>1. NoConn = [f \in {"phase", "source", "view", "sent"} |-> NoConn[f]]
    BY DEF NoConn
<1>2. NoConn.phase = "none" /\ NoConn.source = FALSE /\ NoConn.view = NewView
    BY DEF NoConn
<1>3. NewView = [f \in {"generation", "query", "toggled"} |-> NewView[f]] /\ NewView.generation = 0
    BY DEF NewView
<1>4. QED
    BY <1>1, <1>2, <1>3 DEF IsConn

LEMMA InitHolds == Init => Inductive
<1>1. SUFFICES ASSUME Init PROVE Inductive
    OBVIOUS
<1>2. c2s = <<>> /\ s2c = <<>> /\ conn = NoConn /\ client = NewClient
    BY <1>1 DEF Init
<1>3. DOMAIN <<>> = {} /\ Sequence(<<>>)
    <2>1. DOMAIN <<>> = {}
        OBVIOUS
    <2>2. Sequence(<<>>)
        BY OneMessage, Zenon
    <2>3. QED
        BY <2>1, <2>2, Zenon
<1>4. NewClient = [f \in Fields |-> NewClient[f]]
    BY DEF NewClient, Fields
<1>5. /\ NewClient.state = "disconnected" /\ NewClient.out = <<>>
      /\ NewClient.generation = 0 /\ NewClient.applied = "all"
      /\ NewClient.pending = << >>
    BY DEF NewClient
<1>6. << >> = [i \in {} |-> << >>[i]]
    OBVIOUS
<1>7. DOMAIN client.pending = {} /\ Whole(client.pending)
    BY <1>2, <1>3, <1>5, <1>6 DEF Whole
<1>8. IsClient(client)
    BY <1>2, <1>3, <1>4, <1>5, <1>7, FS_EmptySet DEF IsClient
<1>9. Shape
    BY <1>2, <1>3, <1>5, <1>8, NewConn DEF Shape, Messages
<1>10. InStep
    BY <1>2, <1>5, <1>7, NewConn DEF InStep
<1>11. RequestsAnswered
    BY <1>2, <1>3, <1>7 DEF RequestsAnswered, Asked, Answered
<1>12. GenerationsKept
    BY <1>2, <1>3, <1>5, NewConn DEF GenerationsKept, Asked, Replies
<1>13. QED
    BY <1>9, <1>10, <1>11, <1>12 DEF Inductive, IInv

(* A step in which the client asks, and the socket delivers nothing. *)
LEMMA AskKeeps ==
    ASSUME Inductive, NEW c, AsksOn(client.pending, c), Say(c), conn' = conn, s2c' = s2c,
           c.state = client.state, c.generation = client.generation,
           c.applied = client.applied
    PROVE  /\ Inductive'
           /\ client'.cache = c.cache /\ client'.of = c.of /\ client'.applied = c.applied
<1>1. Books(c2s, s2c, client.pending)
    BY BooksAre DEF Inductive, IInv
<1>2. Generations(c2s, s2c, client.pending, conn.source, conn.view, c.generation, c.applied)
    BY GenerationsAre DEF Inductive, IInv
<1>3. Messages(s2c') /\ c.generation \in Nat
    BY DEF Inductive, Shape
<1>4. QED
    BY <1>1, <1>2, <1>3, SayKeeps

(* The page before a step has asked nothing that is not on the socket. *)
LEMMA PageAsksNothing ==
    ASSUME Inductive, NEW d, d = [f \in Fields |-> d[f]], d.pending = client.pending,
           d.out = client.out, d.state = client.state
    PROVE  AsksOn(client.pending, client) /\ AsksOn(client.pending, d)
<1>1. AsksOn(client.pending, client)
    BY NothingAsked DEF Inductive, IInv, InStep, Shape
<1>2. QED
    BY <1>1, SameAsks

StoresRows == client'.cache # client.cache /\ client'.cache # <<>>
                  => client'.of = client'.applied

LEMMA FrameKeeps == ASSUME Inductive, Frame PROVE Inductive' /\ StoresRows
<1> DEFINE d == [client EXCEPT !.frame = FALSE]
<1>1. /\ d = [f \in Fields |-> d[f]] /\ d.pending = client.pending
      /\ d.out = client.out /\ d.state = client.state /\ Rest(d) = Rest(client)
    BY DEF Inductive, Shape, IsClient, Fields, Rest
<1>2. Say(Fetch(d)) /\ conn' = conn /\ s2c' = s2c
    BY DEF Frame
<1> HIDE DEF d
<1>3. AsksOn(client.pending, d)
    BY <1>1, PageAsksNothing
<1>4. AsksOn(client.pending, Fetch(d)) /\ Rest(Fetch(d)) = Rest(client)
    BY <1>1, <1>3, FetchAsks
<1>5. QED
    BY <1>2, <1>4, AskKeeps DEF Rest, StoresRows

LEMMA TickTableRenderKeeps == ASSUME Inductive, TickTableRender PROVE Inductive' /\ StoresRows
<1> DEFINE d == [client EXCEPT !.dirty = FALSE]
           e == [d EXCEPT !.behind = TRUE]
<1>1. /\ d = [f \in Fields |-> d[f]] /\ d.pending = client.pending
      /\ d.out = client.out /\ d.state = client.state /\ Rest(d) = Rest(client)
      /\ e = [f \in Fields |-> e[f]] /\ e.pending = client.pending
      /\ e.out = client.out /\ e.state = client.state /\ Rest(e) = Rest(client)
    BY DEF Inductive, Shape, IsClient, Fields, Rest
<1>2. /\ Say(RenderVisibleRows(e)) \/ Say(Reload(d))
      /\ conn' = conn /\ s2c' = s2c
    BY DEF TickTableRender
<1> HIDE DEF d, e
<1>3. AsksOn(client.pending, d) /\ AsksOn(client.pending, e)
    BY <1>1, PageAsksNothing
<1>4. CASE Say(RenderVisibleRows(e))
    <2>1. /\ AsksOn(client.pending, RenderVisibleRows(e))
          /\ Rest(RenderVisibleRows(e)) = Rest(client)
        BY <1>1, <1>3, RenderAsks
    <2>2. QED
        BY <1>2, <1>4, <2>1, AskKeeps DEF Rest, StoresRows
<1>5. CASE Say(Reload(d))
    <2>1. /\ AsksOn(client.pending, Reload(d))
          /\ Rest(Reload(d)) = <<d.state, d.generation, d.applied, <<>>, d.of>>
        BY <1>3, ReloadAsks
    <2>2. QED
        BY <1>1, <1>2, <1>5, <2>1, AskKeeps DEF Rest, StoresRows
<1>6. QED
    BY <1>2, <1>4, <1>5

LEMMA UserKeeps == ASSUME Inductive, User PROVE Inductive' /\ StoresRows
<1>1. conn' = conn /\ s2c' = s2c
    BY DEF User
<1>2. ASSUME NEW query \in Query, UserQuery(query) PROVE Inductive' /\ StoresRows
    <2> DEFINE d == [client EXCEPT !.want = query]
    <2>1. /\ d = [f \in Fields |-> d[f]] /\ d.pending = client.pending
          /\ d.out = client.out /\ d.state = client.state /\ Rest(d) = Rest(client)
        BY DEF Inductive, Shape, IsClient, Fields, Rest
    <2>2. Say(RunQuery(d))
        BY <1>2 DEF UserQuery
    <2> HIDE DEF d
    <2>3. AsksOn(client.pending, RunQuery(d)) /\ Rest(RunQuery(d)) = Rest(client)
        BY <2>1, PageAsksNothing, RunQueryAsks
    <2>4. QED
        BY <1>1, <2>2, <2>3, AskKeeps DEF Rest, StoresRows
<1>3. ASSUME NEW root, UserToggle(root) PROVE Inductive' /\ StoresRows
    <2> DEFINE r == [id |-> None, type |-> "toggle_chain", latest |-> FALSE, root |-> root]
    <2>1. IsRequest(r) /\ Say(Request(client, r))
        BY <1>3 DEF UserToggle, IsRequest, Whole
    <2> HIDE DEF r
    <2>2. AsksOn(client.pending, client)
        BY PageAsksNothing DEF Inductive, Shape, IsClient
    <2>3. AsksOn(client.pending, Request(client, r)) /\ Rest(Request(client, r)) = Rest(client)
        BY <2>1, <2>2, RequestAsks
    <2>4. QED
        BY <1>1, <2>1, <2>3, AskKeeps DEF Rest, StoresRows
<1>4. ASSUME UserScroll PROVE Inductive' /\ StoresRows
    <2> DEFINE d == [client EXCEPT !.following = FALSE]
               e == [client EXCEPT !.following = TRUE]
    <2>1. /\ d = [f \in Fields |-> d[f]] /\ d.pending = client.pending
          /\ d.out = client.out /\ d.state = client.state /\ Rest(d) = Rest(client)
          /\ e = [f \in Fields |-> e[f]] /\ e.pending = client.pending
          /\ e.out = client.out /\ e.state = client.state /\ Rest(e) = Rest(client)
        BY DEF Inductive, Shape, IsClient, Fields, Rest
    <2>2. Say(d) \/ Say(RenderVisibleRows(e))
        BY <1>4 DEF UserScroll
    <2> HIDE DEF d, e
    <2>3. AsksOn(client.pending, d) /\ AsksOn(client.pending, e)
        BY <2>1, PageAsksNothing
    <2>4. /\ AsksOn(client.pending, RenderVisibleRows(e))
          /\ Rest(RenderVisibleRows(e)) = Rest(client)
        BY <2>1, <2>3, RenderAsks
    <2>5. CASE Say(d)
        BY <1>1, <2>1, <2>3, <2>5, AskKeeps DEF Rest, StoresRows
    <2>6. CASE Say(RenderVisibleRows(e))
        BY <1>1, <2>4, <2>6, AskKeeps DEF Rest, StoresRows
    <2>7. QED
        BY <2>2, <2>5, <2>6
<1>5. QED
    BY <1>2, <1>3, <1>4 DEF User

LEMMA AppendMessages ==
    ASSUME NEW a, Messages(a), NEW m, m.type \in {"reply", "error"},
           m.type = "reply" => m.data.generation \in Nat
    PROVE  Messages(Append(a, m))
<1> DEFINE b == Append(a, m)
<1>1. Sequence(a)
    BY DEF Messages
<1>2. PICK n \in Nat :
          /\ b[n] = m
          /\ \A k \in DOMAIN a : b[k] = a[k]
          /\ \A k \in DOMAIN b : k \in DOMAIN a \/ k = n
    BY <1>1, AppendPlaces
<1>3. Sequence(b)
    BY <1>1, AppendSequence
<1> HIDE DEF b
<1>4. Messages(b)
    BY <1>2, <1>3 DEF Messages
<1>5. QED
    BY <1>4 DEF b

LEMMA ReceiveKeeps == ASSUME Inductive, Receive PROVE Inductive' /\ StoresRows
<1> DEFINE msg == Head(s2c)
           t == Tail(s2c)
           c == IF client.state = "connecting" THEN OnFirst(client, msg) ELSE client
<1>1. /\ s2c # <<>> /\ s2c' = t /\ conn' = conn
      /\ Say(IF msg.type \in {"reply", "error"} THEN OnReply(c, msg)
             ELSE OnNotification(c, msg))
    BY DEF Receive
<1>2. /\ Sequence(s2c) /\ 1 \in DOMAIN s2c /\ msg = s2c[1]
      /\ msg.type \in {"reply", "error", "grown", "evicted", "reset", "closed"}
      /\ msg.type = "reply" => msg.data.generation \in Nat
    BY <1>1, TailSequence DEF Inductive, Shape, Messages
<1>3. Messages(t)
    <2>1. /\ Sequence(t)
          /\ \A k \in DOMAIN t : k + 1 \in DOMAIN s2c /\ t[k] = s2c[k + 1]
        BY <1>1, <1>2, TailSequence, TailPlaces
    <2> HIDE DEF t
    <2>2. QED
        BY <2>1 DEF Inductive, Shape, Messages
<1>4. conn.phase = "serving"
    BY <1>1 DEF Inductive, IInv, InStep, Shape, IsConn
<1>5. /\ Books(c2s, s2c, client.pending)
      /\ Generations(c2s, s2c, client.pending, conn.source, conn.view,
                     client.generation, client.applied)
    BY BooksAre, GenerationsAre DEF Inductive, IInv
<1>6. AsksOn(client.pending, client) /\ client.generation \in Nat
    BY PageAsksNothing DEF Inductive, Shape, IsClient
<1> HIDE DEF t
<1>7. CASE msg.type \in {"reply", "error"}
    <2> DEFINE d == OnReply(client, msg)
               before == Without(client.pending, msg.id)
               takes == msg.type = "reply" /\ client.pending[msg.id].type = "query" /\ msg.data.compiled
    <2>1. 1 \in AnswersOn(s2c)
        BY <1>2, <1>7 DEF AnswersOn
    <2>2. msg.id \in DOMAIN client.pending /\ Books(c2s, t, before)
        BY <1>1, <1>2, <1>5, <2>1, BooksTake DEF t
    <2>3. client.state = "live"
        BY <2>2 DEF Inductive, IInv, InStep
    <2>4. Say(d)
        BY <1>1, <1>7, <2>3
    <2>5. /\ AsksOn(before, d)
          /\ d.state = client.state
          /\ IF msg.type = "reply" /\ client.pending[msg.id].type = "query" /\ msg.data.compiled
             THEN d.generation = msg.data.generation /\ d.applied = client.pending[msg.id].query
             ELSE d.generation = client.generation /\ d.applied = client.applied
          /\ \/ d.cache \in {client.cache, <<>>}
             \/ /\ msg.type = "reply" /\ client.pending[msg.id].type = "window"
                /\ msg.data.generation = client.generation /\ d.of = msg.data.of
        <3>1. IsClient(client) /\ client.out = <<>> /\ (client.state # "live" => DOMAIN client.pending = {})
            BY DEF Inductive, IInv, InStep, Shape
        <3> HIDE DEF msg, d
        <3>2. QED
            BY <3>1, OnReplyAsks DEF d
    <2> HIDE DEF d
    <2>6. Takes(s2c, client.pending, 1) <=>
              msg.type = "reply" /\ client.pending[msg.id].type = "query" /\ msg.data.compiled
        BY <1>2 DEF Takes, RepliesOn
    <2>7. IF Takes(s2c, client.pending, 1)
          THEN d.generation = s2c[1].data.generation /\ d.applied = client.pending[s2c[1].id].query
          ELSE d.generation = client.generation /\ d.applied = client.applied
        BY <1>2, <2>5, <2>6
    <2>8. Generations(c2s, t, before, conn.source, conn.view, d.generation, d.applied)
        BY <1>1, <1>2, <1>5, <2>1, <2>7, GenerationsTake DEF t
    <2>9. d.generation \in Nat
        BY <1>2, <1>6, <2>5
    <2>10. /\ Inductive'
           /\ client'.cache = d.cache /\ client'.of = d.of /\ client'.applied = d.applied
        BY <1>1, <1>3, <1>4, <2>2, <2>4, <2>5, <2>8, <2>9, SayKeeps
    <2>11. StoresRows
        <3>1. CASE d.cache \in {client.cache, <<>>}
            BY <2>10, <3>1 DEF StoresRows
        <3>2. CASE /\ msg.type = "reply" /\ client.pending[msg.id].type = "window"
                   /\ msg.data.generation = client.generation /\ d.of = msg.data.of
            <4>1. ~Takes(s2c, client.pending, 1) /\ d.applied = client.applied
                BY <2>5, <2>6, <3>2
            <4>2. 1 \in RepliesOn(s2c) /\ \A j \in RepliesOn(s2c) : j <= 1 => j = 1
                <5>1. DOMAIN s2c = 1..Len(s2c) /\ Len(s2c) \in Nat
                    BY <1>2, AppendSequence
                <5>2. QED
                    BY <1>2, <3>2, <5>1 DEF RepliesOn
            <4>3. msg.data.of = client.applied
                BY <1>2, <1>5, <3>2, <4>1, <4>2 DEF Generations, OldBehindNew
            <4>4. QED
                BY <2>10, <3>2, <4>1, <4>3 DEF StoresRows
        <3>3. QED
            BY <2>5, <3>1, <3>2
    <2>12. QED
        BY <2>10, <2>11
<1>8. CASE msg.type \notin {"reply", "error"}
    <2> DEFINE d == OnNotification(c, msg)
    <2>1. 1 \notin AnswersOn(s2c)
        BY <1>2, <1>8 DEF AnswersOn
    <2>2. Books(c2s, t, client.pending)
        BY <1>1, <1>2, <1>5, <2>1, BooksHear DEF t
    <2>3. Generations(c2s, t, client.pending, conn.source, conn.view,
                      client.generation, client.applied)
        BY <1>1, <1>2, <1>5, <2>1, GenerationsHear DEF t
    <2>4. /\ AsksOn(client.pending, c)
          /\ c.generation = client.generation /\ c.applied = client.applied
          /\ c.cache \in {client.cache, <<>>}
          /\ c.state = client.state \/ c.state = "live"
        <3>1. CASE client.state = "connecting"
            <4>1. c = OnFirst(client, msg)
                BY <3>1
            <4> HIDE DEF c, msg
            <4>2. QED
                BY <1>6, <4>1, OnFirstAsks
        <3>2. CASE client.state # "connecting"
            BY <1>6, <3>2
        <3>3. QED
            BY <3>1, <3>2
    <2> HIDE DEF c
    <2>5. Say(d)
        BY <1>1, <1>8 DEF c
    <2>6. AsksOn(client.pending, d) /\ Rest(d) = Rest(c)
        <3>1. msg.type \in {"grown", "evicted", "reset", "closed"}
            BY <1>2, <1>8
        <3>2. QED
            BY <2>4, <3>1, OnNotificationAsks
    <2> HIDE DEF d
    <2>7. /\ d.generation = client.generation /\ d.applied = client.applied
          /\ d.cache \in {client.cache, <<>>}
          /\ d.state = client.state \/ d.state = "live"
        BY <2>4, <2>6 DEF Rest
    <2>8. /\ Inductive'
          /\ client'.cache = d.cache /\ client'.of = d.of /\ client'.applied = d.applied
        BY <1>1, <1>3, <1>4, <1>6, <2>2, <2>3, <2>5, <2>6, <2>7, SayKeeps
    <2>9. QED
        BY <2>7, <2>8 DEF StoresRows
<1>9. QED
    BY <1>7, <1>8

(* The server takes a step of which the page has heard nothing yet. *)
LEMMA PageUntouched ==
    ASSUME Inductive, client' = client, conn.phase = "serving", conn'.phase = "serving",
           IsConn(conn'), Sequence(c2s'), Messages(s2c'),
           \A k \in DOMAIN c2s' : c2s'[k].type \in {"query", "window", "toggle_chain", "stats"},
           Books(c2s', s2c', client.pending),
           Generations(c2s', s2c', client.pending, conn'.source, conn'.view,
                       client.generation, client.applied)
    PROVE  Inductive' /\ StoresRows
<1>1. RequestsAnswered' /\ GenerationsKept'
    BY BooksAre, GenerationsAre
<1>2. Shape'
    BY DEF Inductive, Shape
<1>3. InStep'
    BY DEF Inductive, IInv, InStep, Asked
<1>4. StoresRows
    BY DEF StoresRows
<1>5. QED
    BY <1>1, <1>2, <1>3, <1>4 DEF Inductive, IInv

LEMMA ServeKeeps == ASSUME Inductive, Serve PROVE Inductive' /\ StoresRows
<1> DEFINE request == Head(c2s)
           view == IF conn.source /\ ~src.closed
                   THEN ViewAfter(conn.view, request) ELSE conn.view
           b == s2c'
<1>1. /\ conn.phase = "serving" /\ c2s # <<>>
      /\ c2s' = Tail(c2s) /\ conn' = [conn EXCEPT !.view = view]
      /\ s2c' = s2c \o Answer(request, view) /\ client' = client
    BY DEF Serve
<1>2. /\ Sequence(c2s) /\ 1 \in DOMAIN c2s /\ request = c2s[1] /\ Sequence(Tail(c2s))
      /\ \A k \in DOMAIN c2s : c2s[k].type \in {"query", "window", "toggle_chain", "stats"}
      /\ 1 \in RequestsOn(c2s)
    BY <1>1, TailSequence DEF Inductive, IInv, InStep, Shape, Asked, RequestsOn
<1>3. \A k \in DOMAIN Tail(c2s) :
          Tail(c2s)[k].type \in {"query", "window", "toggle_chain", "stats"}
    BY <1>1, <1>2, TailPlaces
<1>4. /\ Books(c2s, s2c, client.pending)
      /\ Generations(c2s, s2c, client.pending, conn.source, conn.view,
                     client.generation, client.applied)
    BY BooksAre, GenerationsAre DEF Inductive, IInv
<1>5. /\ Sequence(s2c) /\ Messages(s2c) /\ conn.view.generation \in Nat
      /\ \A k \in RepliesOn(s2c) : s2c[k].data.generation \in Nat
    BY DEF Inductive, Shape, Messages, IsConn, RepliesOn
<1> HIDE DEF request
<1>6. CASE ~conn.source \/ src.closed
    <2> DEFINE m == [type |-> "error", id |-> request.id]
    <2>1. view = conn.view
        BY <1>6
    <2>2. conn' = conn
        BY <1>1, <2>1 DEF Inductive, Shape, IsConn
    <2>3. s2c' = Append(s2c, m)
        <3>1. s2c' = s2c \o <<m>>
            BY <1>1, <1>6 DEF Answer
        <3> HIDE DEF m
        <3>2. QED
            BY <1>5, <3>1, AppendSequence
    <2>4. m.type = "error" /\ m.id = c2s[1].id
        BY <1>2
    <2> HIDE DEF m, view
    <2>5. Books(c2s', s2c', client.pending)
        <3>1. Books(Tail(c2s), Append(s2c, m), client.pending)
            <4>1. m.type \in {"reply", "error"}
                BY <2>4
            <4>2. QED
                BY <1>1, <1>2, <1>4, <1>5, <2>4, <4>1, BooksAnswer
        <3>2. QED
            BY <1>1, <2>3, <3>1
    <2>6. Generations(c2s', s2c', client.pending, conn.source, conn.view,
                      client.generation, client.applied)
        BY <1>1, <1>2, <1>4, <1>5, <2>3, <2>4, GenerationsError
    <2>7. Messages(s2c')
        BY <1>5, <2>3, <2>4, AppendMessages
    <2>8. QED
        BY <1>1, <1>2, <1>3, <2>2, <2>5, <2>6, <2>7, PageUntouched DEF Inductive, Shape
<1>7. CASE conn.source /\ ~src.closed
    <2> DEFINE m == [type |-> "reply", id |-> request.id, data |-> Data(view, request)]
    <2>1. view = ViewAfter(conn.view, request)
        BY <1>7
    <2>2. /\ view = [f \in {"generation", "query", "toggled"} |-> view[f]]
          /\ view.generation \in Nat
          /\ \/ /\ request.type = "query" /\ request.query # "bad"
                /\ view.generation = conn.view.generation + 1 /\ view.query = request.query
             \/ /\ ~(request.type = "query" /\ request.query # "bad")
                /\ view.generation = conn.view.generation /\ view.query = conn.view.query
        <3> DEFINE old == conn.view
        <3>1. /\ old = [f \in {"generation", "query", "toggled"} |-> old[f]]
              /\ old.generation \in Nat
            BY DEF Inductive, Shape, IsConn
        <3> HIDE DEF old, view
        <3>2. CASE request.type = "query"
            BY <2>1, <3>1, <3>2 DEF ViewAfter, SetQuery, old
        <3>3. CASE request.type = "toggle_chain"
            BY <2>1, <3>1, <3>3 DEF ViewAfter, old
        <3>4. CASE request.type \notin {"query", "toggle_chain"}
            BY <2>1, <3>1, <3>4 DEF ViewAfter, old
        <3>5. QED
            BY <3>2, <3>3, <3>4
    <2> HIDE DEF view
    <2>3. s2c' = Append(s2c, m)
        <3>1. s2c' = s2c \o <<m>>
            BY <1>1, <1>7 DEF Answer
        <3> HIDE DEF m
        <3>2. QED
            BY <1>5, <3>1, AppendSequence
    <2>4. /\ m.type = "reply" /\ m.id = c2s[1].id
          /\ m.data.generation = view.generation /\ m.data.of = view.query
          /\ m.data.compiled <=> (request.type = "query" => request.query # "bad")
        BY <1>2 DEF Data
    <2> HIDE DEF m
    <2>5. \/ /\ c2s[1].type = "query" /\ m.data.compiled
             /\ view.generation = conn.view.generation + 1 /\ view.query = c2s[1].query
          \/ /\ ~(c2s[1].type = "query" /\ m.data.compiled)
             /\ view.generation = conn.view.generation /\ view.query = conn.view.query
        BY <1>2, <2>2, <2>4
    <2>6. /\ IsConn(conn') /\ conn'.phase = "serving" /\ conn'.view = view
          /\ conn'.source = conn.source
        BY <1>1, <2>2 DEF Inductive, Shape, IsConn
    <2>7. Books(c2s', s2c', client.pending)
        <3>1. Books(Tail(c2s), Append(s2c, m), client.pending)
            <4>1. m.type \in {"reply", "error"}
                BY <2>4
            <4>2. QED
                BY <1>1, <1>2, <1>4, <1>5, <2>4, <4>1, BooksAnswer
        <3>2. QED
            BY <1>1, <2>3, <3>1
    <2>8. Generations(c2s, s2c, client.pending, TRUE, conn.view,
                      client.generation, client.applied)
        BY <1>4, <1>7 DEF Generations
    <2>9. Generations(c2s', s2c', client.pending, TRUE, view,
                      client.generation, client.applied)
        BY <1>1, <1>2, <1>4, <1>5, <2>3, <2>4, <2>5, <2>8, GenerationsReply
    <2>10. Generations(c2s', s2c', client.pending, conn'.source, conn'.view,
                       client.generation, client.applied)
        BY <2>6, <2>9 DEF Generations
    <2>11. Messages(s2c')
        BY <1>5, <2>2, <2>3, <2>4, AppendMessages
    <2>12. QED
        BY <1>1, <1>2, <1>3, <2>6, <2>7, <2>10, <2>11, PageUntouched
<1>8. QED
    BY <1>6, <1>7

LEMMA NotificationsTell ==
    /\ Sequence(Notifications)
    /\ \A k \in DOMAIN Notifications : Notifications[k].type \in {"reset", "grown", "evicted"}
<1> DEFINE r == IF Reset THEN <<[type |-> "reset"]>> ELSE <<>>
           g == IF Grown THEN <<[type |-> "grown", counts |-> Counts(conn.view)]>> ELSE <<>>
           e == IF Evicted THEN <<[type |-> "evicted"]>> ELSE <<>>
           Types == {"reset", "grown", "evicted"}
<1>1. Notifications = (r \o g) \o e
    BY DEF Notifications
<1>2. ASSUME NEW m, m.type \in Types, NEW p, p = <<m>> \/ p = <<>>
      PROVE  Sequence(p) /\ \A k \in DOMAIN p : p[k].type \in Types
    <2>1. Sequence(p)
        BY <1>2, OneMessage
    <2>2. \A k \in DOMAIN p : p[k] = m
        BY <1>2
    <2>3. QED
        BY <1>2, <2>1, <2>2
<1>3. Sequence(r) /\ \A k \in DOMAIN r : r[k].type \in Types
    <2> DEFINE m == [type |-> "reset"]
    <2>1. m.type \in Types /\ (r = <<m>> \/ r = <<>>)
        OBVIOUS
    <2> HIDE DEF m, r, Types
    <2>2. QED
        BY <1>2, <2>1
<1>4. Sequence(g) /\ \A k \in DOMAIN g : g[k].type \in Types
    <2> DEFINE m == [type |-> "grown", counts |-> Counts(conn.view)]
    <2>1. m.type \in Types /\ (g = <<m>> \/ g = <<>>)
        OBVIOUS
    <2> HIDE DEF m, g, Types
    <2>2. QED
        BY <1>2, <2>1
<1>5. Sequence(e) /\ \A k \in DOMAIN e : e[k].type \in Types
    <2> DEFINE m == [type |-> "evicted"]
    <2>1. m.type \in Types /\ (e = <<m>> \/ e = <<>>)
        OBVIOUS
    <2> HIDE DEF m, e, Types
    <2>2. QED
        BY <1>2, <2>1
<1> DEFINE rg == r \o g
<1> HIDE DEF r, g, e
<1>6. Sequence(rg) /\ \A k \in DOMAIN rg : rg[k].type \in Types
    <2>1. Sequence(rg) /\ Joins(rg, r, g)
        BY <1>3, <1>4, ConcatEach
    <2> HIDE DEF rg
    <2>2. QED
        BY <1>3, <1>4, <2>1 DEF Joins
<1> DEFINE all == rg \o e
<1> HIDE DEF rg
<1>7. Sequence(all) /\ \A k \in DOMAIN all : all[k].type \in Types
    <2>1. Sequence(all) /\ Joins(all, rg, e)
        BY <1>5, <1>6, ConcatEach
    <2> HIDE DEF all
    <2>2. QED
        BY <1>5, <1>6, <2>1 DEF Joins
<1>8. QED
    BY <1>1, <1>7 DEF rg

(* The server says r, which answers nothing, and has its view or gives it up. *)
LEMMA TellKeeps ==
    ASSUME Inductive, NEW r, Sequence(r),
           \A k \in DOMAIN r : r[k].type \in {"reset", "grown", "evicted", "closed"},
           s2c' = s2c \o r, client' = client, c2s' = c2s,
           conn.phase = "serving", IsConn(conn'), conn'.phase = "serving",
           conn'.source => conn.source /\ conn'.view = conn.view
    PROVE  Inductive' /\ StoresRows
<1> DEFINE b == s2c \o r
<1>1. /\ Books(c2s, s2c, client.pending)
      /\ Generations(c2s, s2c, client.pending, conn.source, conn.view,
                     client.generation, client.applied)
    BY BooksAre, GenerationsAre DEF Inductive, IInv
<1>2. Sequence(s2c) /\ Sequence(c2s)
    BY DEF Inductive, Shape, Messages
<1>3. AnswersOn(r) = {}
    BY DEF AnswersOn
<1>4. /\ Sequence(b) /\ AnswersOn(b) = AnswersOn(s2c)
      /\ \A k \in AnswersOn(s2c) : b[k] = s2c[k]
      /\ Books(c2s, b, client.pending)
    BY <1>1, <1>2, <1>3, BooksTell
<1>5. Joins(b, s2c, r)
    BY <1>2, ConcatEach
<1> HIDE DEF b
<1>6. Messages(b)
    <2>1. ASSUME NEW k \in DOMAIN b
          PROVE  /\ b[k].type \in {"reply", "error", "grown", "evicted", "reset", "closed"}
                 /\ b[k].type = "reply" => b[k].data.generation \in Nat
        <3>1. CASE \E j \in DOMAIN s2c : b[k] = s2c[j]
            BY <3>1 DEF Inductive, Shape, Messages
        <3>2. CASE \E j \in DOMAIN r : b[k] = r[j]
            BY <3>2
        <3>3. QED
            BY <1>5, <3>1, <3>2 DEF Joins
    <2>2. QED
        BY <1>4, <2>1 DEF Messages
<1>7. /\ RepliesOn(b) = RepliesOn(s2c)
      /\ \A k \in RepliesOn(s2c) : b[k] = s2c[k]
    <2>1. \A k : k \in RepliesOn(b) <=> k \in AnswersOn(b) /\ b[k].type = "reply"
        BY DEF RepliesOn, AnswersOn
    <2>2. \A k : k \in RepliesOn(s2c) <=> k \in AnswersOn(s2c) /\ s2c[k].type = "reply"
        BY DEF RepliesOn, AnswersOn
    <2>3. QED
        BY <1>4, <2>1, <2>2
<1>8. Generations(c2s, b, client.pending, conn.source, conn.view,
                  client.generation, client.applied)
    BY <1>1, <1>7, GenerationsTell
<1>9. Generations(c2s, b, client.pending, conn'.source, conn'.view,
                  client.generation, client.applied)
    BY <1>8 DEF Generations
<1>10. \A k \in DOMAIN c2s : c2s[k].type \in {"query", "window", "toggle_chain", "stats"}
    BY DEF Inductive, IInv, InStep, Asked
<1>11. s2c' = b
    BY DEF b
<1>12. QED
    BY <1>2, <1>4, <1>6, <1>9, <1>10, <1>11, PageUntouched

LEMMA NotifyKeeps == ASSUME Inductive, Notify PROVE Inductive' /\ StoresRows
<1>1. conn.phase = "serving" /\ conn.source /\ client' = client /\ c2s' = c2s /\ IsConn(conn)
    BY DEF Notify, Inductive, Shape
<1>2. CASE s2c' = Append(s2c, [type |-> "closed"])
           /\ conn' = [conn EXCEPT !.source = FALSE, !.view = NewView]
    <2> DEFINE m == [type |-> "closed"]
    <2>1. m.type = "closed"
        OBVIOUS
    <2>2. IsConn(conn') /\ conn'.phase = "serving" /\ conn'.source = FALSE
        <3>1. NewView = [f \in {"generation", "query", "toggled"} |-> NewView[f]]
              /\ NewView.generation = 0
            BY DEF NewView
        <3>2. /\ conn' = [f \in {"phase", "source", "view", "sent"} |-> conn'[f]]
              /\ conn'.phase = "serving" /\ conn'.source = FALSE /\ conn'.view = NewView
            BY <1>1, <1>2 DEF IsConn
        <3>3. QED
            BY <3>1, <3>2 DEF IsConn
    <2>3. s2c' = Append(s2c, m)
        BY <1>2
    <2> HIDE DEF m
    <2>4. Sequence(<<m>>) /\ \A k \in DOMAIN <<m>> : <<m>>[k].type \in {"closed"}
        BY <2>1, OneMessage
    <2>5. s2c' = s2c \o <<m>>
        BY <2>3, AppendSequence DEF Inductive, Shape, Messages
    <2> DEFINE r == <<m>>
    <2> HIDE DEF r
    <2>6. s2c' = s2c \o r /\ Sequence(r) /\ \A k \in DOMAIN r : r[k].type \in {"closed"}
        BY <2>4, <2>5 DEF r
    <2>7. QED
        BY <1>1, <2>2, <2>6, TellKeeps
<1>3. CASE s2c' = s2c \o Notifications /\ \E sent : conn' = [conn EXCEPT !.sent = sent]
    <2>1. IsConn(conn') /\ conn'.phase = "serving" /\ conn'.view = conn.view
        BY <1>1, <1>3 DEF IsConn
    <2>2. QED
        BY <1>1, <1>3, <2>1, NotificationsTell, TellKeeps
<1>4. QED
    BY <1>2, <1>3 DEF Notify

LEMMA AuthenticateKeeps == ASSUME Inductive, Authenticate PROVE Inductive' /\ StoresRows
<1>1. /\ conn.phase = "auth" /\ c2s' = Tail(c2s) /\ conn' = Attached.conn
      /\ s2c' = s2c \o Attached.messages /\ client' = client
    BY DEF Authenticate
<1>2. /\ client.state = "connecting" /\ s2c = <<>> /\ c2s = <<[type |-> "auth"]>>
      /\ DOMAIN client.pending = {}
    BY <1>1 DEF Inductive, IInv, InStep
<1>3. c2s' = <<>> /\ Sequence(c2s') /\ DOMAIN c2s' = {}
    <2>1. c2s' = <<>> /\ DOMAIN c2s' = {}
        BY <1>1, <1>2
    <2>2. QED
        BY <2>1, OneMessage
<1>4. IsConn(conn') /\ conn'.phase = "serving" /\ conn'.view = NewView
    <2>1. conn' = [NoConn EXCEPT !.phase = "serving", !.source = ~src.closed]
        BY <1>1 DEF Attached
    <2>2. NoConn.view = NewView
        BY DEF NoConn
    <2>3. QED
        BY <2>1, <2>2, NewConn DEF IsConn
<1>5. Messages(s2c') /\ AnswersOn(s2c') = {}
    <2> DEFINE m == [type |-> "closed"]
    <2>1. s2c' = <<m>> \/ s2c' = <<>>
        BY <1>1, <1>2 DEF Attached
    <2>2. m.type = "closed"
        OBVIOUS
    <2> HIDE DEF m
    <2>3. Sequence(s2c') /\ \A k \in DOMAIN s2c' : s2c'[k] = m
        <3>1. Sequence(s2c')
            BY <2>1, OneMessage
        <3>2. \A k \in DOMAIN s2c' : s2c'[k] = m
            BY <2>1
        <3>3. QED
            BY <3>1, <3>2
    <2>4. QED
        BY <2>2, <2>3 DEF Messages, AnswersOn
<1>6. Books(c2s', s2c', client.pending)
    BY <1>2, <1>3, <1>5 DEF Books, RequestsOn
<1>7. Generations(c2s', s2c', client.pending, conn'.source, conn'.view,
                  client.generation, client.applied)
    <2>1. RepliesOn(s2c') = {} /\ RequestsOn(c2s') = {}
        BY <1>3, <1>5 DEF RepliesOn, AnswersOn, RequestsOn
    <2>2. client.generation = 0 => client.applied = "all"
        BY DEF Inductive, IInv, GenerationsKept
    <2>3. NewView.generation = 0 /\ NewView.query = "all"
        BY DEF NewView
    <2>4. QED
        BY <1>4, <2>1, <2>2, <2>3
        DEF Generations, Remembered, OfItsQuery, OneQueryEach, OldBehindNew, OfThisView, ViewKnown
<1>8. RequestsAnswered' /\ GenerationsKept'
    BY <1>1, <1>6, <1>7, BooksAre, GenerationsAre
<1>9. Shape'
    BY <1>1, <1>3, <1>4, <1>5 DEF Inductive, Shape
<1>10. InStep'
    BY <1>1, <1>2, <1>3, <1>4 DEF Inductive, IInv, InStep, Asked
<1>11. QED
    BY <1>1, <1>8, <1>9, <1>10 DEF Inductive, IInv, StoresRows

LEMMA OpenKeeps == ASSUME Inductive, Open PROVE Inductive' /\ StoresRows
<1> DEFINE m == [type |-> "auth"]
<1>1. /\ client.state = "disconnected" /\ client' = [client EXCEPT !.state = "connecting"]
      /\ conn' = [NoConn EXCEPT !.phase = "auth"] /\ c2s' = <<m>> /\ s2c' = s2c
    BY DEF Open
<1>2. /\ s2c = <<>> /\ DOMAIN client.pending = {} /\ client.out = <<>> /\ IsClient(client)
      /\ client.generation \in Nat /\ Messages(s2c)
    BY <1>1 DEF Inductive, IInv, InStep, Shape
<1>3. /\ client' = [f \in Fields |-> client'[f]]
      /\ client'.state = "connecting"
      /\ \A f \in Fields \ {"state"} : client'[f] = client[f]
    BY <1>1, <1>2 DEF IsClient, Fields
<1>4. /\ client'.pending = client.pending /\ client'.out = client.out
      /\ client'.generation = client.generation /\ client'.applied = client.applied
      /\ client'.cache = client.cache
    BY <1>3 DEF Fields
<1>5. IsClient(client')
    BY <1>2, <1>3, <1>4 DEF IsClient
<1>6. IsConn(conn') /\ conn'.phase = "auth" /\ conn'.source = FALSE
    <2>1. /\ conn' = [f \in {"phase", "source", "view", "sent"} |-> conn'[f]]
          /\ conn'.phase = "auth" /\ conn'.source = FALSE /\ conn'.view = NoConn.view
        BY <1>1, NewConn DEF IsConn
    <2>2. QED
        BY <2>1, NewConn DEF IsConn
<1>7. Sequence(c2s') /\ RequestsOn(c2s') = {}
    <2>1. m.type = "auth"
        OBVIOUS
    <2> HIDE DEF m
    <2>2. QED
        BY <1>1, <2>1, OneMessage DEF RequestsOn
<1>8. AnswersOn(s2c') = {} /\ RepliesOn(s2c') = {}
    BY <1>1, <1>2 DEF AnswersOn, RepliesOn
<1>9. RequestsAnswered'
    <2>1. Books(c2s', s2c', client'.pending)
        BY <1>2, <1>4, <1>7, <1>8 DEF Books
    <2>2. QED
        BY <2>1, BooksAre
<1>10. GenerationsKept'
    <2>1. client.generation = 0 => client.applied = "all"
        BY DEF Inductive, IInv, GenerationsKept
    <2>2. Generations(c2s', s2c', client'.pending, conn'.source, conn'.view,
                      client'.generation, client'.applied)
        BY <1>4, <1>6, <1>7, <1>8, <2>1
        DEF Generations, Remembered, OfItsQuery, OneQueryEach, OldBehindNew
    <2>3. QED
        BY <2>2, GenerationsAre
<1>11. Shape'
    BY <1>1, <1>2, <1>4, <1>5, <1>6, <1>7 DEF Shape
<1>12. InStep'
    BY <1>1, <1>2, <1>3, <1>4, <1>6 DEF InStep
<1>13. StoresRows
    BY <1>4 DEF StoresRows
<1>14. QED
    BY <1>9, <1>10, <1>11, <1>12, <1>13 DEF Inductive, IInv

LEMMA DropKeeps == ASSUME Inductive, Drop PROVE Inductive' /\ StoresRows
<1>1. /\ client' = [client EXCEPT !.state = "disconnected", !.pending = << >>]
      /\ conn' = NoConn /\ c2s' = <<>> /\ s2c' = <<>>
    BY DEF Drop
<1>2. /\ client.out = <<>> /\ IsClient(client) /\ client.generation \in Nat
    BY DEF Inductive, IInv, InStep, Shape
<1>3. /\ client' = [f \in Fields |-> client'[f]]
      /\ client'.state = "disconnected" /\ client'.pending = << >>
      /\ \A f \in Fields \ {"state", "pending"} : client'[f] = client[f]
    BY <1>1, <1>2 DEF IsClient, Fields
<1>4. /\ client'.out = client.out
      /\ client'.generation = client.generation /\ client'.applied = client.applied
      /\ client'.cache = client.cache
    BY <1>3 DEF Fields
<1>5. << >> = [i \in {} |-> << >>[i]] /\ DOMAIN << >> = {}
    OBVIOUS
<1>6. Whole(client'.pending) /\ DOMAIN client'.pending = {}
    BY <1>3, <1>5 DEF Whole
<1>7. IsClient(client')
    BY <1>2, <1>3, <1>4, <1>6, FS_EmptySet DEF IsClient
<1>8. Sequence(c2s') /\ Sequence(s2c') /\ DOMAIN c2s' = {} /\ DOMAIN s2c' = {}
    BY <1>1, <1>5, OneMessage
<1>9. RequestsOn(c2s') = {} /\ AnswersOn(s2c') = {} /\ RepliesOn(s2c') = {}
    BY <1>8 DEF RequestsOn, AnswersOn, RepliesOn
<1>10. RequestsAnswered'
    <2>1. Books(c2s', s2c', client'.pending)
        BY <1>6, <1>9 DEF Books
    <2>2. QED
        BY <2>1, BooksAre
<1>11. GenerationsKept'
    <2>1. client.generation = 0 => client.applied = "all"
        BY DEF Inductive, IInv, GenerationsKept
    <2>2. Generations(c2s', s2c', client'.pending, conn'.source, conn'.view,
                      client'.generation, client'.applied)
        BY <1>1, <1>4, <1>9, <2>1, NewConn
        DEF Generations, Remembered, OfItsQuery, OneQueryEach, OldBehindNew
    <2>3. QED
        BY <2>2, GenerationsAre
<1>12. Shape'
    BY <1>1, <1>2, <1>4, <1>7, <1>8, NewConn DEF Shape, Messages
<1>13. InStep'
    BY <1>1, <1>2, <1>3, <1>4, <1>6, NewConn DEF InStep
<1>14. StoresRows
    BY <1>4 DEF StoresRows
<1>15. QED
    BY <1>10, <1>11, <1>12, <1>13, <1>14 DEF Inductive, IInv

(* What happens to the source alone, and a step of nothing here. *)
LEMMA ElsewhereKeeps ==
    ASSUME Inductive, UNCHANGED <<conn, c2s, s2c, client>>
    PROVE  Inductive' /\ StoresRows
<1>1. RequestsAnswered'
    BY DEF Inductive, IInv, RequestsAnswered, Asked, Answered
<1>2. GenerationsKept'
    <2>1. Generations(c2s, s2c, client.pending, conn.source, conn.view,
                      client.generation, client.applied)
        BY GenerationsAre DEF Inductive, IInv
    <2>2. QED
        BY <2>1, GenerationsAre
<1>3. InStep'
    BY DEF Inductive, IInv, InStep, Asked
<1>4. Shape'
    BY DEF Inductive, Shape
<1>5. QED
    BY <1>1, <1>2, <1>3, <1>4 DEF Inductive, IInv, StoresRows

LEMMA NextKeeps == ASSUME Inductive, [Next]_vars PROVE Inductive' /\ StoresRows
<1>1. CASE Authenticate
    BY <1>1, AuthenticateKeeps
<1>2. CASE Serve
    BY <1>2, ServeKeeps
<1>3. CASE Notify
    BY <1>3, NotifyKeeps
<1>4. CASE Receive
    BY <1>4, ReceiveKeeps
<1>5. CASE Open
    BY <1>5, OpenKeeps
<1>6. CASE Frame
    BY <1>6, FrameKeeps
<1>7. CASE TickTableRender
    BY <1>7, TickTableRenderKeeps
<1>8. CASE Drop
    BY <1>8, DropKeeps
<1>9. CASE User
    BY <1>9, UserKeeps
<1>10. CASE Source
    BY <1>10, ElsewhereKeeps DEF Source
<1>11. CASE UNCHANGED vars
    BY <1>11, ElsewhereKeeps DEF vars
<1>12. QED
    BY <1>1, <1>2, <1>3, <1>4, <1>5, <1>6, <1>7, <1>8, <1>9, <1>10, <1>11 DEF Next, System

-----------------------------------------------------------------------------
LEMMA AlwaysInductive == Spec => []Inductive
<1>1. Inductive /\ [Next]_vars => Inductive'
    BY NextKeeps
<1>2. QED
    BY <1>1, InitHolds, PTL DEF Spec

(* The reasons RequestsAnswered and StoredRowsCurrent hold: both ends of a *)
(* connection agree on where it is (serve_source, query-client.ts), and a  *)
(* generation is one query of one connection (Session::set_query).         *)
THEOREM TabInvariant == Spec => []IInv
<1>1. Inductive => IInv
    BY DEF Inductive
<1>2. QED
    BY <1>1, AlwaysInductive, PTL

(* Whatever is asked of a tab, every request has exactly one answer to     *)
(* come, or is still to be answered (protocol.rs, query-client.ts).        *)
THEOREM EveryRequestAnswered == Spec => []RequestsAnswered
<1>1. Inductive => RequestsAnswered
    BY DEF Inductive, IInv
<1>2. QED
    BY <1>1, AlwaysInductive, PTL

(* No reply, however late or of whichever connection, puts rows of another *)
(* query than the applied one into the table (view-session.ts).            *)
THEOREM RowsAreCurrent == Spec => StoredRowsCurrent
<1>1. Inductive /\ [Next]_vars =>
          [client'.cache # client.cache /\ client'.cache # <<>>
               => client'.of = client'.applied]_vars
    BY NextKeeps DEF StoresRows
<1>2. QED
    BY <1>1, AlwaysInductive, PTL DEF Spec, StoredRowsCurrent
=============================================================================
