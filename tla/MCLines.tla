------------------------------ MODULE MCLines ------------------------------
(* Sample lines, zones and hours of Lines: the turn of the year 2023.      *)
EXTENDS Lines

(* The stamp of a wall clock, in each shape; the date-time has no fraction. *)
Of(shape, local) ==
    LET y == YearOf(local)
        m == ((local \div (31 * 24)) % 12) + 1
        d == ((local \div 24) % 31) + 1
        time == <<D(2, local % 24), T(":"), D(2, 0), T(":"), D(2, 0)>>
    IN  CASE shape = "iso" ->
                <<D(4, y), T("-"), D(2, m), T("-"), D(2, d), T("T")>> \o time
          [] shape = "slash" ->
                <<D(4, y), T("/"), D(2, m), T("/"), D(2, d), Blank>> \o time
          [] shape = "klog" ->
                <<T("I"), D(4, m * 100 + d), Blank>> \o time \o <<T("."), D(6, 0)>>
          [] shape = "logcat" ->
                <<D(2, m), T("-"), D(2, d), Blank>> \o time
                    \o <<T("."), D(3, 0), Blank, D(3, 7), Blank, D(3, 7), Blank>>
          [] shape = "syslog" ->
                <<Month(m)>> \o (IF d > 9 THEN <<Blank, D(2, d)>> ELSE <<Blank, Blank, D(1, d)>>)
                    \o <<Blank>> \o time
          [] shape = "clf" ->
                <<D(2, d), T("/"), Month(m), T("/"), D(4, y), T(":")>> \o time

S(text) == <<Blank, T(text)>>
Tagged(letter, tag) == <<T(letter), Blank, T(tag), T(":")>>

TextOf(form, local) ==
    CASE form = "iso"     -> Of("iso", local) \o S("WARN") \o S("up")
      [] form = "utc"     -> Of("iso", local) \o <<T("Z"), Blank, T("up"), T("{")>>
      [] form = "slash"   -> <<T("["), D(1, 1), T("]"), Blank, T("[")>> \o Of("slash", local)
                                \o <<T("]"), Blank, T("["), T("INFO"), T("]")>> \o S("up")
      [] form = "klog"    -> Of("klog", local) \o S("up")
      [] form = "syslog"  -> Of("syslog", local) \o S("{") \o S("up")
      [] form = "clf"     -> <<T("ip"), Blank, T("[")>> \o Of("clf", local)
                                \o <<Blank, T("+"), D(4, 100), T("]")>> \o S("GET")
      [] form = "epoch"   -> <<D(13, local)>> \o S("up")
      [] form = "two"     -> <<D(13, local), Blank>> \o Of("iso", local) \o <<T("Z")>>
      [] form = "late"    -> <<T("a"), Blank, T("b"), Blank, T("c"), Blank>> \o Of("iso", local)
      [] form = "open"    -> Of("logcat", local) \o Tagged("E", "app") \o S("{")
      [] form = "more"    -> Of("logcat", local) \o Tagged("E", "app") \o S("") \o <<Blank, T("x")>>
      [] form = "frame"   -> Of("logcat", local) \o Tagged("E", "app") \o S("at")
      [] form = "shut"    -> Of("logcat", local) \o Tagged("E", "app") \o S("}")
      [] form = "other"   -> Of("logcat", local) \o Tagged("W", "app") \o S("at")
      [] form = "nested"  -> Of("iso", local) \o <<T("Z"), Blank, Object(
                                [ts |-> Of("iso", local), level |-> <<T("ERR")>>])>>
      [] form = "pairs"   -> Of("syslog", local) \o <<Blank, Pair("msg", <<T("up")>>), Blank,
                                Pair("ts", <<T("soon")>>)>>
      [] form = "glued"   -> Of("iso", local) \o <<Blank, T("["), T("INFO"), T("]"), T("up")>>
      [] form = "priority" -> Of("iso", local) \o <<Blank, T("<"), D(3, 130), T(">"), T(":"), T(","),
                                Blank, T("ERROR"), T(":"), Blank, T("up")>>
      [] form = "wrapped" -> <<T("ip"), Blank>> \o Of("iso", local) \o <<Blank, Object(
                                [msg |-> <<T("up")>>])>>
      [] form = "file"    -> <<Blank, T("File")>>
      [] form = "code"    -> <<Blank, T("raise")>>
      [] form = "close"   -> <<T("}")>>
      [] form = "word"    -> <<T("ERROR")>>
      [] form = "object"  -> <<Object([time |-> <<T("soon")>>, ts |-> Of("iso", local),
                                severity |-> <<T("WARNING")>>, a |-> <<T("b")>>])>>
      [] form = "docker"  -> <<Object([log |-> Of("clf", local) \o S("ERROR"),
                                stream |-> <<T("out")>>, time |-> Of("iso", local)])>>

(* A zone of one offset; a gap, and an hour that comes twice. *)
Zone(before, at, after) == [before |-> before, at |-> at, after |-> after]
NewYear == Instant(2024, 1, 1, 0)
ZonesDef == {Zone(-2, 0, -2), Zone(1, NewYear, 2), Zone(2, NewYear, 1)}

Stamped == {"iso", "klog", "syslog", "clf", "frame", "nested", "object", "docker"}

Others == {"utc", "slash", "epoch", "two", "late", "open", "more", "shut", "other", "pairs", "file",
           "code", "close", "word", "glued", "priority", "wrapped"}

(* Every line there is, within an hour; every hour, with the stamped ones, *)
(* by clocks that are changed on time and an hour late.                    *)
SourcesDef ==
    {[zone |-> Zone(0, 0, 0), forms |-> Stamped \union Others, reference |-> NewYear,
      from |-> NewYear, to |-> NewYear, late |-> 0]}
    \union
    [zone : ZonesDef, forms : {Stamped}, reference : {NewYear - 1, NewYear + 1},
     from : {NewYear - 2}, to : {NewYear + 1}, late : {0, 1}]

(* A source that was opened at the turn of the year and is still read. *)
LiveDef ==
    {[zone |-> Zone(0, 0, 0), forms |-> Stamped, reference |-> NewYear,
      from |-> NewYear - 2, to |-> NewYear + 1, late |-> 0]}

(* A collector's line around a record: the address comes first. *)
HeadsDef ==
    {[zone |-> Zone(0, 0, 0), forms |-> {"iso", "wrapped"}, reference |-> NewYear,
      from |-> NewYear, to |-> NewYear, late |-> 0]}
============================================================================
