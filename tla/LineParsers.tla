---------------------------- MODULE LineParsers ----------------------------
(***************************************************************************)
(* From the text of a line to its timestamp, level, message and fields, in *)
(* each format (parsers/mod.rs, json.rs, logfmt.rs, plain.rs and level.rs  *)
(* in crates/looqlog-core/src). Only levels have a wording here; a value   *)
(* is a sequence of lexemes and a message the lexemes that remain.         *)
(***************************************************************************)
EXTENDS Timestamps

(* Levels. *)
Canonical == {"TRACE", "DEBUG", "INFO", "WARN", "ERROR", "FATAL"}

Aliases == [WARNING |-> "WARN", ERR |-> "ERROR", CRITICAL |-> "FATAL"]

SeverityAliases ==
    [EMERG |-> "FATAL", PANIC |-> "FATAL", ALERT |-> "FATAL", CRIT |-> "FATAL",
     NOTICE |-> "INFO"]

Syslogs == <<"FATAL", "FATAL", "FATAL", "ERROR", "WARN", "INFO", "INFO", "DEBUG">>

Named(word, names) ==
    CASE word \in DOMAIN names -> names[word]
      [] word \in Canonical    -> word
      [] OTHER                 -> None

IsText(x) == "text" \in DOMAIN x

(* normalize: of the value of a level field. *)
Normalize(text) ==
    IF Len(text) = 1 /\ IsText(text[1])
    THEN Named(text[1].text, Aliases @@ SeverityAliases) ELSE None

(* scan_message: the first word that is a level; a key is none, its value  *)
(* may be one.                                                             *)
Words(message) ==
    FoldLeft(LAMBDA words, x :
                IF IsText(x) THEN Append(words, x.text)
                ELSE IF "key" \in DOMAIN x
                THEN words \o [k \in DOMAIN x.is |->
                                IF IsText(x.is[k]) THEN x.is[k].text ELSE ""]
                ELSE words,
             <<>>, message)

ScanMessage(message) ==
    LET words  == Words(message)
        levels == {k \in DOMAIN words : Named(words[k], Aliases) # None}
    IN  IF levels = {} THEN None ELSE Named(words[Min(levels)], Aliases)

FromLetter(x) == IF x # None /\ IsLetterCode(x) THEN LetterCodes[x.text] ELSE None

(* A token without its brackets, and without the marks behind it. *)
Unwrapped(token) ==
    IF Len(token) > 1 /\ <<Head(token), Last(token)>> \in {<<T("["), T("]")>>, <<T("<"), T(">")>>}
    THEN Front(Tail(token)) ELSE token

Unmarked(token) ==
    SubSeq(token, 1, Max({0} \union {k \in DOMAIN token : token[k] \notin {T(":"), T(",")}}))

(* from_positional_token: a priority (of nine digits at most) in angle     *)
(* brackets, a letter or a word.                                           *)
TokenLevel(token) ==
    LET inner == Unmarked(Unwrapped(token))
    IN  IF Len(inner) # 1 THEN None
        ELSE IF IsDigits(inner[1], 1..9)
        THEN IF token[1] = T("<") /\ Last(token) = T(">")
             THEN Syslogs[(inner[1].value % 8) + 1] ELSE None
        ELSE IF IsLetterCode(inner[1]) THEN FromLetter(inner[1])
        ELSE Normalize(inner)

(* match_positional: the token up to the first blank. *)
Positional(rest) ==
    LET end == Min({k \in 1..(Len(rest) + 1) : At(rest, k) \in {Blank, T("")}})
    IN  [level |-> TokenLevel(SubSeq(rest, 1, end - 1)), after |-> end]

-----------------------------------------------------------------------------
(* Fields. A field map is a function from names to texts.                  *)

NoFields == [name \in {} |-> <<>>]

TimestampFields == <<"timestamp", "ts", "time", "@timestamp", "t">>
LevelFields     == <<"level", "lvl", "severity">>
MessageFields   == <<"message", "msg">>

(* The name of highest precedence that is there. *)
Chosen(names, raw) ==
    LET there == SelectSeq(names, LAMBDA name : name \in DOMAIN raw)
    IN  IF there = <<>> THEN None ELSE Head(there)

Without(raw, names) == [name \in DOMAIN raw \ names |-> raw[name]]

(* extract: a level that is no level is consumed, a timestamp that is no   *)
(* timestamp stays a field and says so.                                    *)
Extract(raw, ctx) ==
    LET ts      == Chosen(TimestampFields, raw)
        parsed  == IF ts = None THEN None ELSE ParseValue(raw[ts], ctx)
        level   == Chosen(LevelFields, raw)
        message == Chosen(MessageFields, raw)
    IN  [timestamp |-> parsed,
         diagnostic |-> ts # None /\ parsed = None,
         level |-> IF level = None THEN None ELSE Normalize(raw[level]),
         message |-> IF message = None THEN None ELSE raw[message],
         fields |-> Without(raw, {level, message}
                                 \union (IF parsed = None THEN {} ELSE {ts}))]

OrElse(x, y) == IF x = None THEN y ELSE x

IsPair(x) == "key" \in DOMAIN x

Pairs(line) == SelectSeq(line, IsPair)

(* logfmt: pairs are fields, a later one of a key replaces an earlier one, *)
(* and bare words are the message when no field is.                        *)
ParseLogfmt(line, ctx) ==
    LET raw == FoldLeft(LAMBDA fields, pair : (pair.key :> pair.is) @@ fields,
                        NoFields, Pairs(line))
        extracted == Extract(raw, ctx)
    IN  [extracted EXCEPT !.message =
            OrElse(@, SelectSeq(line, LAMBDA x : ~IsPair(x) /\ x # Blank))]

(* looks_like_payload *)
PayloadMinPairs == 2
LooksLikePayload(line) == Len(Pairs(line)) >= PayloadMinPairs

(* parse_payload in json.rs: None when the text is no JSON object. *)
ParseJsonPayload(line, ctx) ==
    LET text == Trim(line)
    IN  IF Len(text) # 1 \/ "members" \notin DOMAIN At(text, 1) THEN None
        ELSE LET extracted == Extract(text[1].members, ctx)
             IN  [extracted EXCEPT !.message = OrElse(@, <<>>)]

(* dispatch_payload. A text that starts with a brace is JSON or none. *)
Payload(rest, ctx) ==
    CASE "members" \in DOMAIN At(rest, 1) -> ParseJsonPayload(rest, ctx)
      [] At(rest, 1) = T("{")   -> None
      [] LooksLikePayload(rest) -> ParseLogfmt(rest, ctx)
      [] OTHER                  -> None

LogcatFields(record) ==
    IF record = None THEN NoFields
    ELSE [tag |-> <<record.tag>>, pid |-> <<record.pid>>, tid |-> <<record.tid>>]
         @@ (IF record.uid = None THEN NoFields ELSE [uid |-> <<record.uid>>])

JoinHead(head, rest) ==
    CASE head = <<>> -> rest
      [] rest = <<>> -> head
      [] OTHER       -> head \o <<Blank>> \o rest

ParseUnprefixed(line) ==
    [timestamp |-> None, diagnostic |-> FALSE, level |-> ScanMessage(line),
     message |-> line, fields |-> NoFields]

(* Slip: what stands behind the level goes with it. *)
Slip_PositionalLevel(match) ==
    LET letter == FromLetter(match.letter)
        token  == Positional(match.rest)
    IN  IF letter # None \/ token.level = None THEN [level |-> letter, rest |-> match.rest]
        ELSE [level |-> token.level, rest |-> <<>>]

(* The level by position, and what stands behind it. *)
PositionalLevel(match) ==
    LET letter == FromLetter(match.letter)
        token  == Positional(match.rest)
    IN  IF letter # None \/ token.level = None THEN [level |-> letter, rest |-> match.rest]
        ELSE [level |-> token.level,
              rest  |-> TrimStart(SubSeq(match.rest, token.after, Len(match.rest)))]

(* parse_prefixed: a payload has the better claim to timestamp, level and  *)
(* fields than what stands before it.                                      *)
Claimed(match, level, message, payload) ==
    LET columns == LogcatFields(match.logcat)
        differs == /\ payload.timestamp # None
                   /\ payload.timestamp.instant # match.parsed.instant
    IN  IF payload = None
        THEN [timestamp |-> match.parsed, diagnostic |-> FALSE,
              level |-> OrElse(level, ScanMessage(message)),
              message |-> message, fields |-> columns]
        ELSE [timestamp |-> OrElse(payload.timestamp, match.parsed),
              diagnostic |-> FALSE,
              level |-> OrElse(payload.level, level),
              message |-> payload.message,
              fields |-> (IF differs THEN [prefix_ts |-> <<match.parsed>>] ELSE NoFields)
                         @@ payload.fields @@ columns]

Positioned(match, at, ctx) ==
    Claimed(match, at.level, JoinHead(match.head, at.rest), Payload(at.rest, ctx))

ParsePrefixed(match, ctx) == Positioned(match, PositionalLevel(match), ctx)

ParsePlain(line, match, ctx) ==
    IF match = None THEN ParseUnprefixed(line) ELSE ParsePrefixed(match, ctx)

(* unwrap_docker_record: exactly the three members docker writes. *)
IsDocker(line, ctx) ==
    /\ ParseJsonPayload(line, ctx) # None
    /\ DOMAIN Trim(line)[1].members = {"log", "stream", "time"}

UnwrapDocker(members, ctx) ==
    LET inner == ParsePlain(members["log"], ExtractLeading(members["log"], ctx), ctx)
    IN  [inner EXCEPT !.timestamp = OrElse(@, ParseValue(members["time"], ctx)),
                      !.fields = ("stream" :> members["stream"]) @@ @]

(* parse_line in json.rs: None for a malformed line. *)
ParseJson(line, ctx) ==
    IF IsDocker(line, ctx) THEN UnwrapDocker(Trim(line)[1].members, ctx)
    ELSE ParseJsonPayload(line, ctx)
=============================================================================
