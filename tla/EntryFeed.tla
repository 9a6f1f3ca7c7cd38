----------------------------- MODULE EntryFeed ------------------------------
(***************************************************************************)
(* What a session promises the views over it: its entries in input order,  *)
(* which only join at the end and leave at the front until everything is   *)
(* parsed anew, and two counters that give every change away. An entry is  *)
(* a record with an ordinal, the root of its event (or None), and data.    *)
(*                                                                         *)
(* Session implements this; Views relies on it.                            *)
(***************************************************************************)
EXTENDS Integers, SequencesExt

CONSTANT None

VARIABLES entries, epoch, revision

vars == <<entries, epoch, revision>>

(* Ordinals ascend, and a line that continues an event follows the root or *)
(* another line of the same event directly, unless that has left.          *)
InputOrder(es) ==
    /\ \A i \in 2..Len(es) : es[i - 1].ordinal < es[i].ordinal
    /\ \A i \in DOMAIN es :
           es[i].root # None =>
               /\ es[i].root < es[i].ordinal
               /\ i > 1 =>
                      /\ es[i - 1].ordinal = es[i].ordinal - 1
                      /\ \/ es[i - 1].root = es[i].root
                         \/ /\ es[i - 1].ordinal = es[i].root
                            /\ es[i - 1].root = None

Init == entries = <<>> /\ epoch = 0 /\ revision = 0

(* Lines were read and the oldest left; views test what joined. *)
Advance ==
    /\ \E n \in 0..Len(entries) :
           LET kept == SubSeq(entries, n + 1, Len(entries))
           IN  /\ IsPrefix(kept, entries')
               /\ \A i \in DOMAIN entries, j \in DOMAIN entries' :
                      j > Len(kept) => entries[i].ordinal < entries'[j].ordinal
    /\ InputOrder(entries')
    /\ revision' = revision + 1
    /\ UNCHANGED epoch

(* The retained lines were parsed anew; views start from scratch. *)
Restart ==
    /\ InputOrder(entries')
    /\ revision' = revision + 1
    /\ epoch' = epoch + 1

Next == Advance \/ Restart

Spec == Init /\ [][Next]_vars

=============================================================================
