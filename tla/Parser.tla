------------------------------- MODULE Parser -------------------------------
(***************************************************************************)
(* The incremental parser of one source (crates/looqlog-core/src/parser.rs *)
(* with detect.rs and the chains of parsers/plain.rs): bytes in, entries   *)
(* out. A parser is a record and an operation takes one and yields another *)
(* with the entries it returns appended to `out`.                          *)
(*                                                                         *)
(* A byte knows the input line it belongs to and that line's kind; a text  *)
(* is a sequence of bytes. The kind is all that the grammars see of it:    *)
(*   "json"     a JSON object                                              *)
(*   "logfmt"   key=value pairs                                            *)
(*   "stamped"  a timestamp, then key=value pairs                          *)
(*   "logcat"   a logcat record with an indented message; all of them have *)
(*              the same process, thread, tag and letter                   *)
(*   "frame"    a stack frame, without a timestamp                         *)
(*   "latin"    words that are not valid UTF-8                             *)
(*   "blank"    nothing but white space                                    *)
(***************************************************************************)
EXTENDS Naturals, FiniteSets, SequencesExt

CONSTANTS
    Newline,        \* the byte that ends a line
    SampleSize,     \* detect::SAMPLE_SIZE
    MaxChainLines,  \* MAX_CHAIN_LINES
    None            \* the absent value of an Option

ASSUME ParserAssumption ==
    /\ SampleSize \in Nat \ {0}
    /\ MaxChainLines \in Nat

Format == {"json", "logfmt", "plain"}

(* A multi-line event that more lines may continue (plain::Chain). *)
Chain == [root : Nat, logcat : BOOLEAN, members : Nat, last_line : Nat]

ASSUME NoneAssumption == None \notin Nat \union Format \union Chain

(* Why a diagnostic is recorded: the first kind stands for a line without  *)
(* an entry, the others for a notice about a line that may well have one.  *)
Reason == {"malformed", "encoding", "truncated"}

KindOf(text) == IF text = <<>> THEN "blank" ELSE Head(text).kind

(* What the grammars recognise. *)
LooksJson   == {"json"}
LooksLogfmt == {"logfmt", "stamped"}
Prefixed    == {"stamped", "logcat"}

(* Parser::with_context and starting_at_line. `format` is None while the   *)
(* opening lines are sampled.                                              *)
NewParser(format, first_line) ==
    [format |-> format, sample |-> <<>>, pending |-> <<>>,
     line_no |-> first_line - 1, blank_lines |-> 0, entries_emitted |-> 0,
     diagnostics |-> [r \in Reason |-> 0], chain |-> None, out |-> <<>>]

Cut(s, b) ==
    IF b = Newline
    THEN [lines |-> Append(s.lines, s.rest), rest |-> <<>>]
    ELSE [s EXCEPT !.rest = Append(@, b)]

(* The lines a newline ends in `bytes`, and what follows the last one. *)
Split(bytes) == FoldLeft(Cut, [lines |-> <<>>, rest |-> <<>>], bytes)

(* detect::detect: a format is chosen when four fifths of the sample match *)
(* it; a recognised timestamp prefix breaks the tie against logfmt.        *)
Detect(sample) ==
    LET Passes(kinds) ==
            5 * Cardinality({i \in DOMAIN sample :
                                 KindOf(sample[i].text) \in kinds})
                >= 4 * Len(sample)
    IN  IF sample = <<>> THEN "plain"
        ELSE IF Passes(LooksJson) THEN "json"
        ELSE IF Passes(LooksLogfmt) /\ ~Passes(Prefixed) THEN "logfmt"
        ELSE "plain"

Noted(p, reason) == [p EXCEPT !.diagnostics[reason] = @ + 1]

(* finish_entry: `root` is continuation_of. *)
FinishEntry(p, l, root) ==
    [p EXCEPT !.entries_emitted = @ + 1,
              !.out = Append(@, [line |-> l.line, text |-> l.text,
                                 root |-> root])]

(* Slip: a blank line between the two was counted, so it is forgotten. *)
Slip_Continues(chain, l) ==
    /\ chain # None
    /\ \/ KindOf(l.text) = "frame"
       \/ KindOf(l.text) = "logcat" /\ chain.logcat

(* Whether line l continues the open chain: it follows its last member at  *)
(* once and is a frame (R1), or a record with the identity of a logcat     *)
(* root (R2).                                                              *)
Continues(chain, l) ==
    /\ chain # None
    /\ l.line = chain.last_line + 1
    /\ \/ KindOf(l.text) = "frame"
       \/ KindOf(l.text) = "logcat" /\ chain.logcat

(* The chain a line opens that continues none. *)
Opened(l) ==
    IF KindOf(l.text) \in Prefixed
    THEN [root |-> l.line, logcat |-> KindOf(l.text) = "logcat",
          members |-> 0, last_line |-> l.line]
    ELSE None

(* Slip: the cap is one line too far. *)
Slip_EmitPlain(p, l) ==
    IF ~Continues(p.chain, l)
    THEN FinishEntry([p EXCEPT !.chain = Opened(l)], l, None)
    ELSE IF p.chain.members > MaxChainLines
    THEN FinishEntry(Noted([p EXCEPT !.chain = Opened(l)], "truncated"),
                     l, None)
    ELSE FinishEntry([p EXCEPT !.chain.members = @ + 1,
                               !.chain.last_line = l.line],
                     l, p.chain.root)

(* plain::parse_line_chained and what the parser does with its decision. *)
EmitPlain(p, l) ==
    IF ~Continues(p.chain, l)
    THEN FinishEntry([p EXCEPT !.chain = Opened(l)], l, None)
    ELSE IF p.chain.members >= MaxChainLines
    THEN FinishEntry(Noted([p EXCEPT !.chain = Opened(l)], "truncated"),
                     l, None)
    ELSE FinishEntry([p EXCEPT !.chain.members = @ + 1,
                               !.chain.last_line = l.line],
                     l, p.chain.root)

(* process_and_emit, once the format is known *)
Emit(p, l) ==
    CASE p.format = "json" /\ KindOf(l.text) \notin LooksJson ->
             Noted(p, "malformed")
      [] p.format = "plain" -> EmitPlain(p, l)
      [] OTHER -> FinishEntry(p, l, None)

(* finalize_detection: the sample is replayed under the format it chose. *)
FinalizeDetection(p) ==
    FoldLeft(Emit, [p EXCEPT !.format = Detect(p.sample), !.sample = <<>>],
             p.sample)

(* consume_line *)
Consume(p, text) ==
    LET l    == [line |-> p.line_no + 1, text |-> text]
        read == [p EXCEPT !.line_no = @ + 1,
                          !.diagnostics["encoding"] =
                              @ + IF KindOf(text) = "latin" THEN 1 ELSE 0]
        held == [read EXCEPT !.sample = Append(@, l)]
    IN  IF KindOf(text) = "blank"
        THEN [read EXCEPT !.blank_lines = @ + 1, !.chain = None]
        ELSE IF p.format # None THEN Emit(read, l)
        ELSE IF Len(held.sample) >= SampleSize THEN FinalizeDetection(held)
        ELSE held

(* Parser::feed *)
Feed(p, chunk) ==
    LET s == Split(p.pending \o chunk)
    IN  FoldLeft(Consume, [p EXCEPT !.pending = s.rest], s.lines)

(* Parser::finish *)
Flush(p) ==
    LET flushed == IF p.pending = <<>> THEN p
                   ELSE Consume([p EXCEPT !.pending = <<>>], p.pending)
    IN  IF flushed.format = None THEN FinalizeDetection(flushed) ELSE flushed

(* Slip: detection waits for the line that is still arriving. *)
Slip_ForceDetected(p) ==
    IF p.format = None /\ p.sample # <<>> /\ p.pending = <<>>
    THEN FinalizeDetection(p) ELSE p

(* Parser::force_detection *)
ForceDetected(p) ==
    IF p.format = None /\ p.sample # <<>> THEN FinalizeDetection(p) ELSE p

=============================================================================
