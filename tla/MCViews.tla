------------------------------ MODULE MCViews -------------------------------
(* Instances of Views: the lines of the inputs. *)
EXTENDS Views

Of(kind, ts, level, hit) ==
    [kind |-> kind, ts |-> ts, level |-> level, hit |-> hit]

(* Records and frames, found by a search or not, under a filter or not,    *)
(* and blank lines.                                                        *)
MixedLines ==
    {Of("stamped", 2, "error", "none"), Of("stamped", 1, "info", "message"),
     Of("frame", None, "none", "message"), Of("frame", None, "none", "field"),
     Of("blank", None, "none", "none")}

Intervals == {None, <<2, 3>>}
=============================================================================
