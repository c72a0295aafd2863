--------------------------- MODULE MCNotification ---------------------------
(***************************************************************************)
(* Small instances of the notification service and of its push stream.     *)
(* The service's model says what the rows and the cached count become, the *)
(* stream's what a tab is told: each is checked while the other is in its  *)
(* initial state.                                                          *)
(***************************************************************************)
EXTENDS Notification, Stream, TLC

NotificationVars == <<vars, streamVars>>

NotificationInit == Init /\ StreamInit

NotificationNext ==
    \/ StreamInit /\ Next /\ UNCHANGED streamVars
    \/ Init /\ StreamNext /\ UNCHANGED vars

NotificationSpec == NotificationInit /\ [][NotificationNext]_NotificationVars

\* The configuration takes the requests and the connections from one set.
Symmetry == Permutations(Request) \union Permutations(Note) \union Permutations(User)
=============================================================================
