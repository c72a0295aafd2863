-------------------------- MODULE SessionRegister --------------------------
(***************************************************************************)
(* What the session store of one account promises, without saying how.     *)
(*                                                                         *)
(* A session a client has been given carries two rights: to make requests  *)
(* (access) and to be renewed (renew).  At most one session holds each of  *)
(* them, a session gets them at the moment it is handed out or never, and  *)
(* a right that was taken away is never given back.  Session.tla, the      *)
(* commands AuthService and SessionService send to Redis, implements it.   *)
(***************************************************************************)
CONSTANTS
    SessionId,  \* the sessions an account can ever be given
    None        \* nobody holds the right

VARIABLES
    given,      \* the sessions handed out to a client so far
    access,     \* the session whose access token is current
    renew       \* the session whose refresh token is current

vars == <<given, access, renew>>

RegisterTypeOK ==
    /\ given \subseteq SessionId
    /\ access \in given \union {None}
    /\ renew \in given \union {None}

Init ==
    /\ given = {}
    /\ access = None
    /\ renew = None

\* A session is handed out.  It may already have been replaced or revoked,
\* in which case it is born without the right.
Open(s) ==
    /\ s \notin given
    /\ given' = given \union {s}
    /\ access' \in {access, s}
    /\ renew' \in {renew, s}

\* A right is withdrawn: revoked, replaced by a later session, or expired.
Withdraw ==
    /\ access' \in {access, None}
    /\ renew' \in {renew, None}
    /\ UNCHANGED given

Next == Withdraw \/ \E s \in SessionId : Open(s)

Spec == Init /\ [][Next]_vars
=============================================================================
