---------------------------- MODULE MCWebClient ----------------------------
(* Small instances of WebClient and of Tabs for TLC.  The two share no state: *)
(* the states checked are the union of theirs, each with the other one at     *)
(* rest, not the product.                                                     *)
EXTENDS WebClient, Tabs

ClientInit == Init /\ TabsInit

ClientNext ==
    \/ TabsInit /\ Next /\ UNCHANGED tabVars
    \/ Init /\ TabsNext /\ UNCHANGED vars

ClientSpec == ClientInit /\ [][ClientNext]_<<vars, tabVars>> /\ Fairness
=============================================================================
