-------------------------------- MODULE Lines -------------------------------
(***************************************************************************)
(* Lines parsed one after the other: the sticky hint, the year of lines    *)
(* that carry none, and the events that lines of plain text are joined to  *)
(* (parse_line_chained in crates/looqlog-core/src/parsers/plain.rs).       *)
(*                                                                         *)
(* A clock runs, and the next line is one of the forms of the source;      *)
(* Text(form, local) are its lexemes when it is written at `local`, by the *)
(* wall clock of the zone of the source.                                   *)
(***************************************************************************)
EXTENDS LineParsers

CONSTANTS
    Sources,        \* what is read: its forms and zone, from when to when, as opened,
                    \* and how late the clock that stamps the lines is changed
    Text(_, _),
    MaxChainLines

ASSUME LinesAssumption ==
    /\ MaxChainLines \in Nat
    /\ \A s \in Sources : s.reference \in Nat /\ {s.from, s.late} \subseteq Nat /\ s.to >= s.from

VARIABLES
    source,   \* the source read
    format,   \* Format
    ctx,      \* ParseContext
    chain,    \* Option<ChainState>
    clock,    \* when the next line is written
    event     \* for the properties: the lines of the last event

vars == <<source, format, ctx, chain, clock, event>>

-----------------------------------------------------------------------------
(* Continuations.                                                          *)

IsFileFrame(text) == At(TrimStart(text), 1) = T("File")

(* is_frame_marker: explicit marks, never the absence of a prefix. *)
IsFrame(text) == At(TrimStart(text), 1) \in {T("at"), T("Caused by:"), T("File")}

IsIndented(line) == At(line, 1) = Blank

(* logcat_message_indented: beyond the blank that always follows a tag. *)
IsMessageIndented(rest) == At(rest, 1) = Blank /\ At(rest, 2) = Blank

NextDepth(depth, text) ==
    FoldLeft(LAMBDA d, x : CASE x = T("{") -> d + 1
                             [] x = T("}") -> IF d = 0 THEN 0 ELSE d - 1
                             [] OTHER      -> d,
             depth, text)

Identity(match) ==
    IF match.logcat = None THEN None
    ELSE [pid |-> match.logcat.pid, tid |-> match.logcat.tid,
          tag |-> match.logcat.tag, letter |-> match.letter]

(* Accepted by one of the recognizers: frames and open braces (R1, R3),    *)
(* or a logcat record with the root's identity and a signal of its own     *)
(* (R2). `adjacent` stands for the line numbers.                           *)
Accepted(state, line, match, message) ==
    /\ state.adjacent
    /\ IF match = None
       THEN state.depth > 0 \/ IsFrame(line) \/ (state.after_file_frame /\ IsIndented(line))
       ELSE /\ match.logcat # None
            /\ state.logcat = Identity(match)
            /\ \/ IsMessageIndented(match.rest_raw)
               \/ IsFrame(message)
               \/ state.depth > 0

Opened(match, message) ==
    IF match = None THEN None
    ELSE [logcat |-> Identity(match), depth |-> NextDepth(0, message), members |-> 0,
          adjacent |-> TRUE, after_file_frame |-> IsFileFrame(message)]

(* Slip: the chain outlives its last brace. *)
Slip_Extended(state, message) ==
    [state EXCEPT !.depth = NextDepth(state.depth, message), !.members = @ + 1,
                  !.after_file_frame = IsFileFrame(message)]

Extended(state, message) ==
    LET depth == NextDepth(state.depth, message)
    IN  IF state.depth > 0 /\ depth = 0 THEN None
        ELSE [state EXCEPT !.depth = depth, !.members = @ + 1,
                           !.after_file_frame = IsFileFrame(message)]

(* resolve_chain *)
Joins(line, match, message) ==
    chain # None /\ Accepted(chain, line, match, message) /\ chain.members < MaxChainLines

-----------------------------------------------------------------------------
(* The line a format hands to the prefix scanner. *)
Scanned(line) ==
    CASE format = "plain" -> line
      [] format = "json" /\ IsDocker(line, ctx) -> Trim(line)[1].members["log"]
      [] OTHER -> <<>>

Entry(line) ==
    CASE format = "plain"  -> ParsePlain(line, ExtractLeading(line, ctx), ctx)
      [] format = "json"   -> ParseJson(line, ctx)
      [] format = "logfmt" -> ParseLogfmt(line, ctx)

(* The wall clock of the program. In the hours that it is changed late it  *)
(* shows those that the zone leaves out.                                   *)
Local == clock + OffsetAt(ctx.zone, clock - source.late)

Written(form) == Text(form, Local)

(* What the definition of an event below asks of a line. *)
Fact(line, match, message) ==
    [prefixed |-> match # None,
     identity |-> IF match = None THEN None ELSE Identity(match),
     indented |-> IF match = None THEN IsIndented(line) ELSE IsMessageIndented(match.rest_raw),
     frame    |-> IsFrame(message),
     file     |-> IsFileFrame(message),
     braces   |-> SelectSeq(message, LAMBDA x : x \in {T("{"), T("}")})]

Joining(line, match, message) ==
    LET joins == Joins(line, match, message)
    IN  /\ chain' = IF joins THEN Extended(chain, message) ELSE Opened(match, message)
        /\ event' = Append(IF joins THEN event ELSE <<>>, Fact(line, match, message))

Reading(line, match) ==
    /\ ctx' = Noted(ctx, match)
    /\ IF format = "plain"
       THEN Joining(line, match, ParsePlain(line, match, ctx).message)
       ELSE UNCHANGED <<chain, event>>
    /\ UNCHANGED <<source, format, clock>>

Line(form) == Reading(Written(form), ExtractLeading(Scanned(Written(form)), ctx))

(* close_chain: a blank line, and, when the sample is replayed without its *)
(* blank lines, the gap it has left.                                       *)
BlankLine ==
    /\ format = "plain"
    /\ chain # None
    /\ chain' \in {None, [chain EXCEPT !.adjacent = FALSE]}
    /\ event' = <<>>
    /\ UNCHANGED <<source, format, ctx, clock>>

Tick ==
    /\ clock < source.to
    /\ clock' = clock + 1
    /\ UNCHANGED <<source, format, ctx, chain, event>>

Init ==
    /\ source \in Sources
    /\ format \in {"plain", "json", "logfmt"}
    /\ ctx = NewContext(source.zone, source.reference, None)
    /\ chain = None
    /\ clock = source.from
    /\ event = <<>>

Next == (\E form \in source.forms : Line(form)) \/ BlankLine \/ Tick

Spec == Init /\ [][Next]_vars

-----------------------------------------------------------------------------
(* Properties, of the line that comes next, whatever it is.                *)

(* "Sticky choice does not change the result" (SHAPES, extract_leading):   *)
(* whatever lines came before, a line is read as a full sweep reads it.    *)
HintNeutral ==
    format = "plain" =>
        \A form \in source.forms :
            ExtractLeading(Written(form), ctx)
                = ExtractLeading(Written(form), [ctx EXCEPT !.hint = None])

(* An event by its definition: what it takes for `fact` to continue the    *)
(* lines before it, counted from the whole event.                          *)
OpenBraces(lines) == FoldLeft(LAMBDA d, fact : NextDepth(d, fact.braces), 0, lines)

Ended(lines) ==
    \E k \in 2..Len(lines) : /\ OpenBraces(SubSeq(lines, 1, k - 1)) > 0
                             /\ OpenBraces(SubSeq(lines, 1, k)) = 0

Continues(lines, fact) ==
    /\ lines # <<>>
    /\ lines[1].prefixed
    /\ ~Ended(lines)
    /\ Len(lines) <= MaxChainLines
    /\ fact.prefixed => fact.identity # None /\ fact.identity = lines[1].identity
    /\ \/ fact.frame
       \/ OpenBraces(lines) > 0
       \/ fact.indented /\ (fact.prefixed \/ Last(lines).file)

(* A line joins the event before it exactly if it continues it: not when   *)
(* the braces of a payload have closed, nor with another record's identity,*)
(* nor past the cap, nor under a line without a prefix (resolve_chain).    *)
JoinsExactly(line, match, message) ==
    Joins(line, match, message) <=> Continues(event, Fact(line, match, message))

Judged(line, match) == JoinsExactly(line, match, ParsePlain(line, match, ctx).message)

EventsExact ==
    format = "plain" =>
        \A form \in source.forms :
            Judged(Written(form), ExtractLeading(Written(form), ctx))

(* The instant a wall clock of the zone shows `local`: the earlier of two, *)
(* and in a gap what the clock before the transition would have meant.     *)
Meant(zone, local) ==
    LET instants == {u \in (local - 30)..(local + 30) : u + OffsetAt(zone, u) = local}
    IN  IF instants = {} THEN local - zone.before ELSE Min(instants)

(* Now, as that clock tells it. *)
Now == Meant(ctx.zone, Local)

DatedNow(entry) ==
    \/ entry = None
    \/ entry.timestamp = None
    \/ ~entry.timestamp.default_tz
    \/ entry.timestamp.instant = Now

(* A line that was written, within a year before the source was opened, by *)
(* a clock of the source's zone is dated at the instant that this clock    *)
(* means there, also in an hour that the zone leaves out or has twice, and *)
(* whether or not its shape has a year (resolve_inferred_year, resolve),   *)
(* wherever in the line the timestamp was taken from - unless it is        *)
(* already the new year in the zone and not yet in UTC.                    *)
DatedRight ==
    clock <= ctx.reference /\ YearOf(Local) <= YearOf(ctx.reference) =>
        \A form \in source.forms : DatedNow(Entry(Written(form)))

InferredNow(entry) ==
    \/ entry = None
    \/ entry.timestamp = None
    \/ ~entry.timestamp.year_inferred
    \/ entry.timestamp.instant = Now

(* "Stepping back a year rather than dating an entry in the future"        *)
(* (README.md): a line that comes while the stream is read is dated when   *)
(* it was written, by the clock of the machine.                            *)
LiveLinesDatedRight ==
    \A form \in source.forms : InferredNow(Entry(Written(form)))

WordsOf(text) == SelectSeq(text, LAMBDA x : x # Blank)

(* What stands behind the timestamp and is not its level: of a line that   *)
(* has no letter for one, all but the token that is one.                   *)
Unread(match) ==
    LET token == Positional(match.rest)
    IN  IF FromLetter(match.letter) # None \/ token.level = None THEN match.rest
        ELSE SubSeq(match.rest, token.after, Len(match.rest))

Kept(match, entry) ==
    IF Payload(TrimStart(Unread(match)), ctx) = None
    THEN WordsOf(entry.message) = WordsOf(match.head) \o WordsOf(Unread(match))
    ELSE \/ entry.timestamp.instant = match.parsed.instant
         \/ entry.fields["prefix_ts"] = <<match.parsed>>

KeptOf(match) ==
    match # None => Kept(match, ParsePrefixed(match, ctx))

(* "Quiet loss" is what join_head and prefix_ts are there against: of a    *)
(* line without a payload the message is, word for word and in their       *)
(* order, what stands before the timestamp and what stands behind it but   *)
(* for the one token that was read as the level; and where a payload       *)
(* disagrees with the timestamp before it both are kept.                   *)
NothingLost ==
    format = "plain" =>
        \A form \in source.forms : KeptOf(ExtractLeading(Written(form), ctx))

HeadKept(match) ==
    match # None => ToSet(WordsOf(match.head)) \subseteq ToSet(ParsePrefixed(match, ctx).message)

(* "Text that preceded the timestamp inside the head window [...] is put   *)
(* back in front of the message rather than dropped" (join_head), before a *)
(* payload as well.                                                        *)
HeadsKept ==
    format = "plain" =>
        \A form \in source.forms : HeadKept(ExtractLeading(Written(form), ctx))
=============================================================================
