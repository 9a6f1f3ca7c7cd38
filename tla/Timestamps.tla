----------------------------- MODULE Timestamps -----------------------------
(***************************************************************************)
(* Timestamps at the head of a line, and as the value of a field           *)
(* (crates/looqlog-core/src/timestamp.rs).                                 *)
(*                                                                         *)
(* A line is a sequence of lexemes: digit runs, month names, and pieces of *)
(* text (a word, a separator, a blank). An instant is a number of hours;   *)
(* minutes and below never decide anything here, and every month has the   *)
(* 31 places of its longest: instants keep their order.                    *)
(***************************************************************************)
EXTENDS Integers, SequencesExt, FiniteSetsExt

CONSTANTS
    None,
    HeadWindow,       \* how far into a line a timestamp is looked for
    StickyMissLimit   \* misses in a row before the hint is replaced

ASSUME TimestampsAssumption == HeadWindow \in Nat \ {0} /\ StickyMissLimit \in Nat

(* Lexemes. *)
D(n, value)     == [digits |-> n, value |-> value]
T(text)         == [text |-> text]
Month(m)        == [month |-> m]
Pair(key, text) == [key |-> key, is |-> text]     \* key=value
Object(members) == [members |-> members]          \* a JSON object

Blank == T(" ")

At(line, i) == IF i \in DOMAIN line THEN line[i] ELSE T("")

IsDigits(x, lengths) == "digits" \in DOMAIN x /\ x.digits \in lengths

(* The first place from i on that does not hold x. *)
Past(line, i, x) ==
    Min({j \in i..(Len(line) + 1) : At(line, j) # x})

TrimStart(line) == SubSeq(line, Past(line, 1, Blank), Len(line))
Trim(line)      == Reverse(TrimStart(Reverse(TrimStart(line))))

-----------------------------------------------------------------------------
(* Scanner primitives: each returns the place after what it matched, 0     *)
(* when it matches nothing, and takes 0 for a match that failed before.    *)

Fits(x, p) ==
    CASE p = "dd"   -> IsDigits(x, {2})
      [] p = "dddd" -> IsDigits(x, {4})
      [] p = "d"    -> IsDigits(x, {1, 2})
      [] p = "mon"  -> "month" \in DOMAIN x
      [] OTHER      -> x = T(p)

Take(line, i, pattern) ==
    IF i > 0 /\ \A k \in DOMAIN pattern : Fits(At(line, i + k - 1), pattern[k])
    THEN i + Len(pattern) ELSE 0

Time == <<"dd", ":", "dd", ":", "dd">>

Optional(line, i, pattern) ==
    LET j == Take(line, i, pattern) IN IF j = 0 THEN i ELSE j

(* match_fraction: the digits of a fraction are one run of any length. *)
Fraction(line, i) ==
    IF i > 0 /\ At(line, i) = T(".") /\ "digits" \in DOMAIN At(line, i + 1)
    THEN i + 2 ELSE i

DatedTime(line, i, sep) ==
    LET date == Take(line, i, <<"dddd", sep, "dd", sep, "dd">>)
        day  == IF At(line, date) \in {T("T"), Blank} THEN date + 1 ELSE 0
    IN  Optional(line, Fraction(line, Take(line, day, Time)), <<"Z">>)

LetterCodes == [V |-> "TRACE", T |-> "TRACE", D |-> "DEBUG", I |-> "INFO",
                W |-> "WARN", E |-> "ERROR", F |-> "FATAL"]

IsLetterCode(x) == "text" \in DOMAIN x /\ x.text \in DOMAIN LetterCodes

Klog(line, i) ==
    LET head == IF IsLetterCode(At(line, i)) THEN i + 1 ELSE i
    IN  Fraction(line, Take(line, head, <<"dddd", " ">> \o Time))

Syslog(line, i) ==
    LET blanks == IF Take(line, i, <<"mon", " ", " ">>) > 0 THEN <<" ", " ">> ELSE <<" ">>
    IN  Fraction(line, Take(line, i, <<"mon">> \o blanks \o <<"d", " ">> \o Time))

Clf(line, i) ==
    LET time == Take(line, i, <<"dd", "/", "mon", "/", "dddd", ":">> \o Time)
    IN  IF time = 0 THEN 0 ELSE Optional(line, time, <<" ", "+", "dddd">>)

EpochText(line, i) ==
    IF i = 1 /\ IsDigits(At(line, i), 10..19) /\ At(line, i + 1) \in {T(""), Blank}
    THEN 2 ELSE 0

(* A logcat record: time with a fraction, two or three columns, a severity *)
(* letter, and a tag that ends in a colon. Columns are digits or lowercase *)
(* words; the colon may stand away from its tag.                           *)
IsColumn(x) ==
    "digits" \in DOMAIN x \/ ("text" \in DOMAIN x /\ x.text \in {"root", "u0_a2"})

IsSeverity(x) == x = T("S") \/ (IsLetterCode(x) /\ x # T("T"))

(* One blank stands between two columns: the k-th behind `from`. *)
Column(from, k) == from + 2 * k - 1

HasColumns(line, from, n) ==
    /\ from > 0
    /\ \A k \in 1..n : /\ At(line, Column(from, k) - 1) = Blank
                       /\ IsColumn(At(line, Column(from, k)))
    /\ At(line, Column(from, n + 1) - 1) = Blank
    /\ IsSeverity(At(line, Column(from, n + 1)))
    /\ At(line, Column(from, n + 1) + 1) = Blank

Record(line, from, n, tag, end) ==
    IF n = 0 \/ At(line, tag) \in {T(""), T(":")} \/ At(line, end) # T(":")
    THEN [end |-> 0]
    ELSE [end |-> end + 1, letter |-> At(line, Column(from, n + 1)),
          uid |-> IF n = 3 THEN At(line, Column(from, 1)) ELSE None,
          pid |-> At(line, Column(from, n - 1)), tid |-> At(line, Column(from, n)),
          tag |-> At(line, tag)]

Columns(line, from) ==
    LET n   == IF HasColumns(line, from, 2) THEN 2
               ELSE IF HasColumns(line, from, 3) THEN 3 ELSE 0
        tag == Past(line, Column(from, n + 1) + 1, Blank)
    IN  Record(line, from, n, tag, Past(line, tag + 1, Blank))

Logcat(line, i) ==
    LET time == Take(line, i, <<"dd", "-", "dd", " ">> \o Time)
    IN  Columns(line, IF Fraction(line, time) = time THEN 0 ELSE Fraction(line, time))

-----------------------------------------------------------------------------
(* Instants. A zone has one offset before the instant `at`, one from it.   *)

Instant(y, m, d, h) == ((y * 12 + m - 1) * 31 + d - 1) * 24 + h

YearOf(instant) == instant \div (12 * 31 * 24)

DaysIn(y, m) ==
    CASE m = 2 -> IF y % 4 = 0 /\ (y % 100 # 0 \/ y % 400 = 0) THEN 29 ELSE 28
      [] m \in {4, 6, 9, 11} -> 30
      [] OTHER -> 31

IsTime(y, m, d, h) == m \in 1..12 /\ d \in 1..DaysIn(y, m) /\ h \in 0..23

OffsetAt(zone, instant) == IF instant < zone.at THEN zone.before ELSE zone.after

(* resolve: the earlier of two instants; in a gap, the offset of the day   *)
(* before, read from the zone as if that local time were UTC.              *)
Resolve(zone, local) ==
    LET instants == {u \in {local - zone.before, local - zone.after} :
                        u + OffsetAt(zone, u) = local}
    IN  IF instants # {} THEN Min(instants)
        ELSE local - OffsetAt(zone, local - 24)

Parsed(instant, default_tz, year_inferred) ==
    [instant |-> instant, default_tz |-> default_tz, year_inferred |-> year_inferred]

(* Slip: the year of the reference it is. *)
Slip_InferredYear(m, d, h, ctx) ==
    LET year == YearOf(ctx.reference)
    IN  IF IsTime(year, m, d, h)
        THEN Parsed(Resolve(ctx.zone, Instant(year, m, d, h)), TRUE, TRUE)
        ELSE None

(* resolve_inferred_year *)
InferredYear(m, d, h, ctx) ==
    LET year == YearOf(ctx.reference)
        Dated(y) == Resolve(ctx.zone, Instant(y, m, d, h))
    IN  CASE IsTime(year, m, d, h) /\ Dated(year) <= ctx.reference ->
                Parsed(Dated(year), TRUE, TRUE)
          [] IsTime(year - 1, m, d, h) -> Parsed(Dated(year - 1), TRUE, TRUE)
          [] OTHER -> None

(* A date with its year; None for an offset: the zone of the context. *)
FullDate(y, m, d, h, offset, ctx) ==
    IF ~IsTime(y, m, d, h) THEN None
    ELSE IF offset # None THEN Parsed(Instant(y, m, d, h) - offset, FALSE, FALSE)
    ELSE Parsed(Resolve(ctx.zone, Instant(y, m, d, h)), TRUE, FALSE)

(* parse_epoch: seconds, milliseconds or microseconds by magnitude. An     *)
(* epoch lexeme has the instant it denotes as its value.                   *)
Epoch(x) == IF x.digits >= 10 THEN Parsed(x.value, FALSE, FALSE) ELSE None

Dated(line, i, end, ctx) ==
    FullDate(line[i].value, line[i + 2].value, line[i + 4].value, line[i + 6].value,
             IF line[end - 1] = T("Z") THEN 0 ELSE None, ctx)

(* parse_value: the whole text is an epoch or a date-time. *)
ParseValue(text, ctx) ==
    LET end == DatedTime(text, 1, "-")
    IN  IF Len(text) = 1 /\ IsDigits(text[1], 1..19) THEN Epoch(text[1])
        ELSE IF end = Len(text) + 1 THEN Dated(text, 1, end, ctx)
        ELSE None

-----------------------------------------------------------------------------
(* The head-window sweep.                                                  *)

Shapes == <<"iso", "slash", "klog", "logcat", "syslog", "clf", "epoch">>

EndOf(line, i, shape) ==
    CASE shape = "iso"    -> DatedTime(line, i, "-")
      [] shape = "slash"  -> DatedTime(line, i, "/")
      [] shape = "klog"   -> Klog(line, i)
      [] shape = "logcat" -> Logcat(line, i).end
      [] shape = "syslog" -> Syslog(line, i)
      [] shape = "clf"    -> Clf(line, i)
      [] shape = "epoch"  -> EpochText(line, i)

(* What a match of a shape denotes: None when it is no instant. *)
ParsedAt(line, i, end, shape, ctx) ==
    LET k == IF IsLetterCode(line[i]) THEN i + 1 ELSE i
        s == IF line[i + 2] = Blank THEN i + 3 ELSE i + 2
    IN  CASE shape \in {"iso", "slash"} -> Dated(line, i, end, ctx)
          [] shape = "klog" ->
                InferredYear(line[k].value \div 100, line[k].value % 100,
                             line[k + 2].value, ctx)
          [] shape = "logcat" ->
                InferredYear(line[i].value, line[i + 2].value, line[i + 4].value, ctx)
          [] shape = "syslog" ->
                InferredYear(line[i].month, line[s].value, line[s + 2].value, ctx)
          [] shape = "clf" ->
                FullDate(line[i + 4].value, line[i + 2].month, line[i].value,
                         line[i + 6].value,
                         IF end > i + 11 THEN line[end - 1].value \div 100 ELSE None, ctx)
          [] shape = "epoch" -> Epoch(line[i])

Closer == ("[" :> "]") @@ ("(" :> ")") @@ ("<" :> ">")

(* try_shape *)
Matched(line, i, shape, end, parsed) ==
    LET opener == IF i > 1 /\ "text" \in DOMAIN line[i - 1] THEN line[i - 1].text ELSE ""
        closed == opener \in DOMAIN Closer /\ At(line, end) = T(Closer[opener])
        rest   == SubSeq(line, IF closed THEN end + 1 ELSE end, Len(line))
    IN  IF parsed = None THEN None
        ELSE [parsed |-> parsed, shape |-> shape, offset |-> i,
              head |-> Trim(SubSeq(line, 1, IF closed THEN i - 2 ELSE i - 1)),
              rest |-> TrimStart(rest), rest_raw |-> rest,
              letter |-> CASE shape = "klog" /\ IsLetterCode(line[i]) -> line[i]
                           [] shape = "logcat" -> Logcat(line, i).letter
                           [] OTHER -> None,
              logcat |-> IF shape = "logcat" THEN Logcat(line, i) ELSE None]

Denoted(line, i, shape, end, ctx) ==
    IF end = 0 THEN None
    ELSE Matched(line, i, shape, end, ParsedAt(line, i, end, shape, ctx))

TryShape(line, i, shape, ctx) == Denoted(line, i, shape, EndOf(line, i, shape), ctx)

TokenStarts(line) ==
    {i \in DOMAIN line :
        /\ i <= HeadWindow
        /\ i = 1 \/ line[i - 1] \in {Blank, T("["), T("("), T("<")}}

Tried(hint) ==
    IF hint = None THEN Shapes
    ELSE <<hint>> \o SelectSeq(Shapes, LAMBDA shape : shape # hint)

(* The first offset has it, and of the shapes that fit there the first. *)
Earliest(matches, shapes) ==
    LET Rank(m) == CHOOSE k \in DOMAIN shapes : shapes[k] = m.shape
    IN  IF matches = {} THEN None
        ELSE CHOOSE m \in matches :
                \A other \in matches :
                    \/ m.offset < other.offset
                    \/ m.offset = other.offset /\ Rank(m) <= Rank(other)

FirstMatch(line, offsets, shapes, ctx) ==
    Earliest({TryShape(line, i, shape, ctx) : i \in offsets, shape \in ToSet(shapes)} \ {None},
             shapes)

(* Slip: the hint is tried along the whole line before any other shape. *)
Slip_ExtractLeading(line, ctx) ==
    LET hinted == FirstMatch(line, TokenStarts(line), <<ctx.hint>>, ctx)
    IN  IF ctx.hint # None /\ hinted # None THEN hinted
        ELSE FirstMatch(line, TokenStarts(line), Shapes, ctx)

ExtractLeading(line, ctx) ==
    FirstMatch(line, TokenStarts(line), Tried(ctx.hint), ctx)

(* ParseContext: the zone, the reference instant and the sticky hint. *)
NewContext(zone, reference, hint) ==
    [zone |-> zone, reference |-> reference, hint |-> hint, misses |-> 0]

(* note_sticky_hit, note_sticky_miss *)
Noted(ctx, match) ==
    CASE match = None -> ctx
      [] match.shape = ctx.hint -> [ctx EXCEPT !.misses = 0]
      [] ctx.hint = None \/ ctx.misses + 1 > StickyMissLimit ->
            [ctx EXCEPT !.hint = match.shape, !.misses = 0]
      [] OTHER -> [ctx EXCEPT !.misses = @ + 1]
=============================================================================
