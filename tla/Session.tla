------------------------------ MODULE Session -------------------------------
(***************************************************************************)
(* The data side of a session (crates/looqlog-core/src/session.rs): raw    *)
(* lines, the line still arriving, and the entries a parser made of them,  *)
(* while chunks cut lines anywhere, opening lines are held for format      *)
(* detection, a stream evicts its oldest lines, and tabs have everything   *)
(* re-parsed. A session is behind its source's lock: a call is a step.     *)
(*                                                                         *)
(* The index is the sequence of its entries.                               *)
(***************************************************************************)
EXTENDS Parser, FiniteSetsExt

CONSTANTS
    Kinds,       \* the kinds of lines the input may hold
    Stream,      \* whether the source is stdin, with its detection hold
    MaxLines,    \* SessionConfig::max_lines, or None
    InputLines,  \* bound: the lines of the input
    LineBytes,   \* bound: the bytes of one line
    MaxChunk,    \* bound: the bytes of one chunk
    MaxEpoch     \* bound: the number of re-parses

ASSUME SessionAssumption ==
    /\ Kinds \subseteq {"json", "logfmt", "stamped", "logcat", "frame",
                        "latin", "blank"}
    /\ Stream \in BOOLEAN
    /\ MaxLines \in Nat \union {None}
    /\ {InputLines, LineBytes, MaxChunk, MaxEpoch} \subseteq Nat

VARIABLES
    raw,               \* the retained lines
    raw_bytes,         \* their length
    first_line,        \* the line number of the first of them
    evicted_lines,
    pending,           \* the line still arriving
    parser,
    entries,           \* the index
    finished,
    detection_forced,
    epoch,             \* bumped by a re-parse
    revision,          \* bumped when entries come or go
    (* The input, not part of the program. *)
    log,               \* the kind of each line
    line               \* the line the next byte belongs to

vars == <<raw, raw_bytes, first_line, evicted_lines, pending, parser, entries,
          finished, detection_forced, epoch, revision, log, line>>

Byte == [line : 1..InputLines, kind : Kinds]
Entry == [line : Nat, text : Seq(Byte), root : Nat \union {None}]

ASSUME ByteAssumption == Newline \notin Byte

Init ==
    /\ raw = <<>>
    /\ raw_bytes = 0
    /\ first_line = 1
    /\ evicted_lines = 0
    /\ pending = <<>>
    /\ parser = NewParser(None, 1)
    /\ entries = <<>>
    /\ finished = FALSE
    /\ detection_forced = FALSE
    /\ epoch = 0
    /\ revision = 0
    /\ log \in [1..InputLines -> Kinds]
    /\ line = 1

-----------------------------------------------------------------------------
AddLength(n, text) == n + Len(text)

(* The bytes of some lines together. *)
Bytes(lines) == FoldLeft(AddLength, 0, lines)

(* How many of `lines` Session::evict drains. *)
Surplus(lines) ==
    IF MaxLines = None THEN 0
    ELSE LET max == IF MaxLines = 0 THEN 1 ELSE MaxLines
         IN  IF Len(lines) > max THEN Len(lines) - max ELSE 0

(* Slip: the bytes of evicted lines stay counted. *)
Slip_RawBytes(lines, n) ==
    raw_bytes + Bytes(SubSeq(lines, Len(raw) + 1, Len(lines)))

(* raw_bytes once the lines beyond `raw` are pushed and n are drained. *)
RawBytes(lines, n) ==
    raw_bytes + Bytes(SubSeq(lines, Len(raw) + 1, Len(lines)))
              - Bytes(SubSeq(lines, 1, n))

(* Slip: entries the hold releases after their lines left are kept. *)
Slip_Retained(all, first) ==
    LET old == {i \in DOMAIN all : all[i].line < first}
    IN  IF first > first_line THEN SubSeq(all, Cardinality(old) + 1, Len(all))
                              ELSE all

(* EntryIndex::evict_before(first) on entries that are in input order: the *)
(* partition point is the number of those before it.                       *)
Retained(all, first) ==
    LET old == {i \in DOMAIN all : all[i].line < first}
    IN  SubSeq(all, Cardinality(old) + 1, Len(all))

Revised(p, evicted) ==
    IF p.out # <<>> \/ evicted THEN revision + 1 ELSE revision

(* Session::absorb, with evict: the entries the parser returned join the   *)
(* index, lines beyond the limit leave, and so does every entry of a line  *)
(* that left, those included that the detection hold released too late.    *)
Absorb(p, lines) ==
    LET n     == Surplus(lines)
        first == first_line + n
        all   == entries \o p.out
        kept  == Retained(all, first)
    IN  /\ raw' = SubSeq(lines, n + 1, Len(lines))
        /\ raw_bytes' = RawBytes(lines, n)
        /\ first_line' = first
        /\ evicted_lines' = evicted_lines + n
        /\ entries' = kept
        /\ parser' = [p EXCEPT !.out = <<>>]
        /\ revision' = Revised(p, kept # all)

(* A chunk of n bytes that starts in the current line; those at `ends` are *)
(* newlines.                                                               *)
Chunk(n, ends) ==
    [i \in 1..n |->
        IF i \in ends THEN Newline
        ELSE LET at == line + Cardinality({j \in ends : j < i})
             IN  [line |-> at, kind |-> log[at]]]

(* The input really holds the chunk: only a blank line has no bytes, and   *)
(* none has more than LineBytes.                                           *)
IsInput(n, ends) ==
    LET lines == line + Cardinality(ends)
    IN  /\ lines <= InputLines + 1
        /\ lines = InputLines + 1 => n \in ends
        /\ LET s == Split(pending \o Chunk(n, ends))
           IN  /\ \A i \in DOMAIN s.lines :
                      /\ Len(s.lines[i]) <= LineBytes
                      /\ s.lines[i] = <<>> => log[line + i - 1] = "blank"
               /\ Len(s.rest) <= LineBytes

(* Session::ingest *)
Ingest(n, ends) ==
    /\ ~finished
    /\ IsInput(n, ends)
    /\ LET chunk == Chunk(n, ends)
           s     == Split(pending \o chunk)
       IN  /\ pending' = s.rest
           /\ Absorb(Feed(parser, chunk), raw \o s.lines)
    /\ line' = line + Cardinality(ends)
    /\ UNCHANGED <<finished, detection_forced, epoch, log>>

(* Session::finish *)
Finish ==
    /\ ~finished
    /\ finished' = TRUE
    /\ pending' = <<>>
    /\ Absorb(Flush(parser),
              IF pending = <<>> THEN raw ELSE Append(raw, pending))
    /\ UNCHANGED <<detection_forced, epoch, log, line>>

(* Session::force_detection, called by the detection hold of stdin while   *)
(* the session is detecting.                                               *)
ForceDetection ==
    /\ Stream
    /\ parser.format = None
    /\ \E p \in {ForceDetected(parser)} :
           /\ Absorb(p, raw)
           /\ detection_forced' = (detection_forced \/ p.format # None)
    /\ UNCHANGED <<pending, finished, epoch, log, line>>

FeedLine(p, text) == Feed(p, Append(text, Newline))

(* Slip: retained lines are numbered from 1 again. *)
Slip_Reparsed(format) ==
    Feed(FoldLeft(FeedLine, NewParser(format, 1), raw), pending)

(* A re-parse feeds the retained lines, here one by one, then the one that *)
(* is still arriving.                                                      *)
Reparsed(format) ==
    Feed(FoldLeft(FeedLine, NewParser(format, first_line), raw), pending)

(* Slip: a re-parse looks like an append to the views. *)
Slip_Replace(p) ==
    /\ parser' = [p EXCEPT !.out = <<>>]
    /\ entries' = p.out
    /\ revision' = revision + 1
    /\ UNCHANGED epoch

Replace(p) ==
    /\ parser' = [p EXCEPT !.out = <<>>]
    /\ entries' = p.out
    /\ epoch' = epoch + 1
    /\ revision' = revision + 1

(* Session::set_format, of a format or of None, which detects it anew. A   *)
(* time zone that does not exist changes nothing; one that does changes    *)
(* how timestamps are read.                                                *)
SetFormat(format) ==
    /\ epoch < MaxEpoch
    /\ LET fed == Reparsed(format)
       IN  Replace(IF finished THEN Flush(fed)
                   ELSE IF detection_forced THEN ForceDetected(fed)
                   ELSE fed)
    /\ UNCHANGED <<raw, raw_bytes, first_line, evicted_lines, pending,
                   finished, detection_forced, log, line>>

Next ==
    \/ \E n \in 1..MaxChunk : \E ends \in SUBSET (1..n) : Ingest(n, ends)
    \/ Finish
    \/ ForceDetection
    \/ \E format \in Format \union {None} : SetFormat(format)

Spec == Init /\ [][Next]_vars

(* The detection hold is a 100 ms interval that waits for nothing else. *)
FairSpec == Spec /\ WF_vars(ForceDetection)

-----------------------------------------------------------------------------
(* The number of the last retained line. *)
LastLine == first_line + Len(raw) - 1

(* The text is a part of line n and of no other. *)
IsOf(text, n) ==
    \A i \in DOMAIN text : text[i] = [line |-> n, kind |-> log[n]]

(* Every retained line and every entry has the number that its bytes had   *)
(* in the input, and an entry is shown with its own raw line, whatever was *)
(* cut by a chunk, evicted, held for detection or re-parsed.               *)
OwnLine ==
    /\ \A i \in DOMAIN raw : IsOf(raw[i], first_line + i - 1)
    /\ IsOf(pending, LastLine + 1)
    /\ parser.line_no = LastLine
    /\ parser.pending = pending
    /\ \A i \in DOMAIN entries :
           /\ entries[i].line \in first_line..LastLine
           /\ entries[i].text = raw[entries[i].line - first_line + 1]

(* What the memory budget counts is what the session holds, and the lines  *)
(* it dropped are the ones before the first it has.                        *)
BytesCounted ==
    /\ raw_bytes = Bytes(raw)
    /\ evicted_lines = first_line - 1

(* The lines that have an entry once the format is known. *)
Shown == {n \in first_line..LastLine :
              LET kind == KindOf(raw[n - first_line + 1])
              IN  /\ kind # "blank"
                  /\ parser.format = "json" => kind \in LooksJson}

(* No retained line is lost or shown twice: each has its entry, in input   *)
(* order, or is blank, or malformed under the format in force, or is held  *)
(* for detection.                                                          *)
NoLineLost ==
    /\ \A i, j \in DOMAIN entries : i < j => entries[i].line < entries[j].line
    /\ LET shown == {entries[i].line : i \in DOMAIN entries}
           held  == {parser.sample[i].line : i \in DOMAIN parser.sample}
       IN  IF parser.format = None
           THEN shown = {} /\ Shown \subseteq held
           ELSE shown = Shown /\ held = {}

(* The event an entry belongs to: the root it continues, or itself. *)
Event(e) == IF e.root # None THEN e.root
            ELSE IF KindOf(e.text) \in Prefixed THEN e.line
            ELSE None

(* A line continues the event of the line right before it, and only of     *)
(* that one, when it is a frame below a timestamp or a logcat record below *)
(* one, unless the event has all the lines it may have. Neither the chunks *)
(* nor the detection hold nor evictions change which lines are one event.  *)
OneEvent ==
    \A i \in DOMAIN entries :
        LET e    == entries[i]
            prev == {entries[j] : j \in {k \in DOMAIN entries :
                                           entries[k].line = e.line - 1}}
            mine == {o \in prev :
                        /\ parser.format = "plain"
                        /\ Event(o) # None
                        /\ e.line - Event(o) <= MaxChainLines
                        /\ \/ KindOf(e.text) = "frame"
                           \/ /\ KindOf(e.text) = "logcat"
                              /\ log[Event(o)] = "logcat"}
        IN  e.line > first_line =>
                e.root = IF mine = {} THEN None
                         ELSE Event(CHOOSE o \in mine : TRUE)

(* Opening lines of a stream that has gone quiet are shown in the end. *)
HeldLinesAppear == parser.sample # <<>> ~> parser.sample = <<>>

(* Each line consumed since the parser was made became an entry, was       *)
(* blank, was malformed, or is held.                                       *)
LinesAccounted ==
    epoch = 0 => parser.line_no = parser.entries_emitted + parser.blank_lines
                     + parser.diagnostics["malformed"] + Len(parser.sample)

(* The comments of finish_entry and total_lines (parser.rs:289-292 and     *)
(* 354-356): entries_emitted + blank_lines + diagnostics.total() equals    *)
(* total_lines, for a parser of a whole input.                             *)
TotalsAddUp ==
    finished /\ epoch = 0 =>
        parser.entries_emitted + parser.blank_lines
            + MapThenSumSet(LAMBDA r : parser.diagnostics[r], Reason)
            = parser.line_no

(* Entries as the views over a session see them. *)
Viewed(all) ==
    [i \in DOMAIN all |-> [ordinal |-> all[i].line, root |-> all[i].root,
                           data |-> all[i].text]]

(* What the views are promised. *)
Promise == INSTANCE EntryFeed WITH entries <- Viewed(entries)

(* A session is such a feed, wherever chunks, the detection hold, eviction *)
(* and re-parses fall: what Views relies on.                               *)
FeedsViews == Promise!Spec

=============================================================================
