--------------------------- MODULE SourceLifecycle ---------------------------
(***************************************************************************)
(* What looqlog promises about the life of a source, whatever happens      *)
(* concurrently (docs/adr/0011-sources-owned-by-process-or-tabs.md): argv  *)
(* files and stdin belong to the process, uploads belong to the tabs that  *)
(* show them. There are no locks, sizes, budget or clock here: an upload   *)
(* that no tab shows may go at any time, one that a tab shows may not.     *)
(***************************************************************************)
CONSTANTS Argv, Stdin, Upload, Tabs, None

VARIABLES
    fate,      \* of each source: unborn, live, or why it is gone
    accepted,  \* the uploads that were answered with 201
    bound      \* the source each tab is connected to

vars == <<fate, accepted, bound>>

Source == Argv \union Stdin \union Upload

Init ==
    /\ fate = [s \in Source |-> IF s \in Upload THEN "unborn" ELSE "live"]
    /\ accepted = {}
    /\ bound = [t \in Tabs |-> None]

Live == {s \in Source : fate[s] = "live"}

Unheld(V) == \A t \in Tabs : bound[t] \notin V

Appear(s) ==
    /\ fate[s] = "unborn"
    /\ fate' = [fate EXCEPT ![s] = "live"]
    /\ UNCHANGED <<accepted, bound>>

(* Only a live source can be bound, and only by a tab that is not bound. *)
Bind(t, s) ==
    /\ s \in Live
    /\ bound[t] = None
    /\ bound' = [bound EXCEPT ![t] = s]
    /\ UNCHANGED <<fate, accepted>>

Unbind(t) ==
    /\ bound' = [bound EXCEPT ![t] = None]
    /\ UNCHANGED <<fate, accepted>>

(* A user may close anything but stdin. *)
Close(s) ==
    /\ s \in Live \ Stdin
    /\ fate' = [fate EXCEPT ![s] = "closed"]
    /\ UNCHANGED <<accepted, bound>>

(* An upload that was not accepted yet may fail, tabs or not. *)
Refuse(s) ==
    /\ s \in (Live \intersect Upload) \ accepted
    /\ fate' = [fate EXCEPT ![s] = "closed"] \/ fate' = [fate EXCEPT ![s] = "budget"]
    /\ UNCHANGED <<accepted, bound>>

(* Uploads that no tab shows are unloaded, ... *)
Unload(V, reason) ==
    /\ V \subseteq Live \intersect Upload
    /\ Unheld(V)
    /\ fate' = [s \in Source |-> IF s \in V THEN reason ELSE fate[s]]
    /\ UNCHANGED bound

(* ... also by the upload that needs their room, as it is accepted. It may *)
(* itself be gone by then.                                                 *)
Accept(s, V) ==
    /\ fate[s] # "unborn"
    /\ s \notin V
    /\ Unload(V, "budget")
    /\ accepted' = accepted \union {s}

Next ==
    \/ \E s \in Upload : Appear(s) \/ Refuse(s)
    \/ \E s \in Source : Close(s) \/ \E t \in Tabs : Bind(t, s)
    \/ \E t \in Tabs : Unbind(t)
    \/ \E V \in SUBSET Upload :
        \/ \E reason \in {"unloaded", "budget"} :
               Unload(V, reason) /\ UNCHANGED accepted
        \/ \E s \in Upload : Accept(s, V)

Spec == Init /\ [][Next]_vars

=============================================================================
