---------------------------- MODULE MCLoginGuard ---------------------------
(* Small instances of LoginGuard and of Throttler for TLC.  The two share no *)
(* state: the states checked are the union of theirs, each with the other    *)
(* one at rest, not the product.                                             *)
EXTENDS LoginGuard, Throttler, TLC

Symmetry == Permutations(Request) \union Permutations(Captcha)

GateInit == Init /\ ThrottlerInit

GateNext ==
    \/ ThrottlerInit /\ Next /\ UNCHANGED throttleVars
    \/ Init /\ ThrottlerNext /\ UNCHANGED vars

GateSpec == GateInit /\ [][GateNext]_<<vars, throttleVars>>
=============================================================================
