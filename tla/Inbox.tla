------------------------------- MODULE Inbox -------------------------------
(***************************************************************************)
(* What the notification module promises one user: an item is offered or   *)
(* not, the user opens it or dismisses it, and that is not forgotten while *)
(* the item exists, except that a dismissal is forgotten after its         *)
(* retention.  A deleted item never comes back.                            *)
(***************************************************************************)
CONSTANT Item

VARIABLES
    offered,     \* the items the user may see
    opened,      \* the items the user has read or dismissed
    dismissed,   \* the items the user has removed from the list
    deleted      \* the items that are gone for everybody

vars == <<offered, opened, dismissed, deleted>>

Init == offered = {} /\ opened = {} /\ dismissed = {} /\ deleted = {}

Offer(i) ==
    /\ i \notin deleted
    /\ offered' = offered \union {i}
    /\ UNCHANGED <<opened, dismissed, deleted>>

Withdraw(i) ==
    /\ offered' = offered \ {i}
    /\ UNCHANGED <<opened, dismissed, deleted>>

Open(S) ==
    /\ S \intersect deleted = {}
    /\ opened' = opened \union S
    /\ UNCHANGED <<offered, dismissed, deleted>>

Dismiss(i) ==
    /\ i \notin deleted
    /\ opened' = opened \union {i}
    /\ dismissed' = dismissed \union {i}
    /\ UNCHANGED <<offered, deleted>>

Forget(S) ==
    /\ S \subseteq dismissed
    /\ opened' = opened \ S
    /\ dismissed' = dismissed \ S
    /\ UNCHANGED <<offered, deleted>>

Delete(S) ==
    /\ deleted' = deleted \union S
    /\ offered' = offered \ S
    /\ opened' = opened \ S
    /\ dismissed' = dismissed \ S

Next ==
    \/ \E i \in Item : Offer(i) \/ Withdraw(i) \/ Dismiss(i)
    \/ \E S \in SUBSET Item : Open(S) \/ Forget(S) \/ Delete(S)

Spec == Init /\ [][Next]_vars
=============================================================================
