------------------------------ MODULE Session ------------------------------
(***************************************************************************)
(* The sessions of one account: AuthService, SessionService, JwtStrategy   *)
(* and the parts of UserService and MonitorService that revoke sessions.   *)
(*                                                                         *)
(* Every API instance shares one Redis and one database, and a handler     *)
(* awaits each command, so each Redis command and each database statement  *)
(* is an action of its own and any other request may run in between.       *)
(* Keys carry the user's id: the accounts do not interact and one is       *)
(* enough.  A "session" is what one call of establishSession issues: an    *)
(* access token (its jti) and a refresh token (its hash).                  *)
(***************************************************************************)
EXTENDS Integers, FiniteSets

CONSTANTS
    Request,      \* the requests that can be in flight at once
    SessionId,    \* the sessions that can be issued
    None,         \* an absent key or an unused field
    MaxPassword,  \* bound: no password change starts at this version
    Offered,      \* bound: the operations an instance of the model exercises
    Lossy,        \* may a command fail or an instance stop (503, crash)?
    Resend        \* may ioredis send a write again when its reply was lost?

Authenticated == {"profile", "logout", "changePassword"}
Administrative == {"kick", "resetPassword", "removeUser"}
Operation == {"register", "login", "refresh"} \union Authenticated \union Administrative

ASSUME SessionAssumption ==
    /\ None \notin SessionId
    /\ MaxPassword \in Nat
    /\ Offered \subseteq Operation
    /\ Lossy \in BOOLEAN
    /\ Resend \in BOOLEAN

VARIABLES
    account,      \* the user row: not yet created, present or deleted
    password,     \* the version of the stored password hash
    active,       \* token:active:<user>, the jti of a session
    refresh,      \* auth:refresh:<user>, the refresh hash of a session
    online,       \* does online:user:<user> exist?
    kicked,       \* does kicked:user:<user> exist?
    blacklist,    \* sessions whose access token has a token:blacklist: key
    req,          \* the requests in flight
    delivered,    \* history: sessions whose tokens reached a client
    origin,       \* history: where a session comes from
    ended,        \* history: sessions whose own logout or password change returned
    retired,      \* history: the newest password version whose change returned
    stray         \* history: the online record outlived its session by a known way

row     == <<account, password>>
keys    == <<active, refresh, online, kicked, blacklist>>
history == <<delivered, origin, ended, retired, stray>>
vars    == <<row, keys, req, history>>

NoRequest == "idle"

\* The command a request is waiting for, in the order the handlers issue them.
Revoking == {"delActive", "delRefresh", "delOnline"}
Revoked == {"setKicked", "blacklist", "return"}
Establishing == {"setRefresh", "rotate", "setActive", "setOnline", "respond"}
Checking == {"checkUser", "checkBlacklist", "checkKicked", "checkActive", "refreshOnline"}
Stage == {NoRequest, "create", "find", "unkick", "readPassword", "writePassword",
          "deleteUser"} \union Revoking \union Revoked \union Establishing \union Checking

SessionOrNone == SessionId \union {None}

RequestState == [op : Operation, stage : Stage, tok : SessionOrNone,
                 mint : SessionOrNone, pw : Nat]

Idle == [op |-> "profile", stage |-> NoRequest, tok |-> None, mint |-> None, pw |-> 0]

Origin == [root : SessionOrNone, parent : SessionOrNone, pw : Nat]

-----------------------------------------------------------------------------
(* Moving a request along.                                                  *)

At(r, stage) == req[r].stage = stage

\* Mutant of Fresh: ids that can come back.
FreshReused == {s \in SessionId : \A r \in Request : req[r].mint # s}

\* Ids are random: a new session is one nothing refers to any more.
Fresh == {s \in SessionId \ delivered :
            s \notin {active, refresh} /\ \A r \in Request : req[r].mint # s}

Enter(r, op, tok, mint, stage) ==
    /\ op \in Offered
    /\ At(r, NoRequest)
    /\ req' = [req EXCEPT ![r] =
                [op |-> op, stage |-> stage, tok |-> tok, mint |-> mint, pw |-> 0]]

Goto(r, stage) == req' = [req EXCEPT ![r].stage = stage]

Finish(r) == req' = [req EXCEPT ![r] = Idle]

\* A write took effect.  Either its reply arrives, or the connection drops
\* first and ioredis sends the unanswered commands again from "first".
Written(r, next, first) ==
    \/ Goto(r, next)
    \/ Resend /\ Goto(r, first)

\* A read that lets the request go on or rejects it.
Check(r, stage, ok, next) ==
    /\ At(r, stage)
    /\ IF ok THEN Goto(r, next) ELSE Finish(r)
    /\ UNCHANGED <<row, keys, history>>

-----------------------------------------------------------------------------
Init ==
    /\ account = "none" /\ password = 0
    /\ active = None /\ refresh = None
    /\ online = FALSE /\ kicked = FALSE /\ blacklist = {}
    /\ req = [r \in Request |-> Idle]
    /\ delivered = {} /\ ended = {} /\ retired = 0 /\ stray = FALSE
    /\ origin = [s \in SessionId |-> [root |-> None, parent |-> None, pw |-> 0]]

(* Requests arrive.  A session a request may issue is drawn when it arrives; *)
(* nothing can see it before it is written.                                  *)
BeginRegister(r) ==
    /\ account = "none"
    /\ \E s \in Fresh : Enter(r, "register", None, s, "create")
    /\ UNCHANGED <<row, keys, history>>

BeginLogin(r) ==
    /\ \E s \in Fresh : Enter(r, "login", None, s, "find")
    /\ UNCHANGED <<row, keys, history>>

BeginRefresh(r) ==
    /\ \E t \in delivered, s \in Fresh : Enter(r, "refresh", t, s, "find")
    /\ UNCHANGED <<row, keys, history>>

BeginAuthenticated(r) ==
    /\ \E op \in Authenticated, t \in delivered :
        /\ op = "changePassword" => password < MaxPassword
        /\ Enter(r, op, t, None, "checkUser")
    /\ UNCHANGED <<row, keys, history>>

\* The first command of an administrator's operation.
AdministrativeStart(op) ==
    CASE op = "kick" -> "delActive"
      [] op = "resetPassword" -> "writePassword"
      [] op = "removeUser" -> "deleteUser"

BeginAdministrative(r) ==
    /\ account # "none"
    /\ \E op \in Administrative :
        /\ op = "resetPassword" => password < MaxPassword
        /\ Enter(r, op, None, None, AdministrativeStart(op))
    /\ UNCHANGED <<row, keys, history>>

-----------------------------------------------------------------------------
(* register, login and refreshSession up to establishSession.               *)

\* The row is created once; a second insert breaks the unique e-mail.
CreateUser(r) ==
    /\ At(r, "create")
    /\ \/ /\ account = "none"
          /\ account' = "exists"
          /\ origin' = [origin EXCEPT ![req[r].mint] =
                            [root |-> req[r].mint, parent |-> None, pw |-> password]]
          /\ Goto(r, "setRefresh")
       \/ account # "none" /\ Finish(r) /\ UNCHANGED <<account, origin>>
    /\ UNCHANGED <<password, keys, delivered, ended, retired, stray>>

\* The typed password is compared with the row read here.  The captcha, the
\* lock and the failure counter are LoginGuard's: here a login may just fail.
FindLogin(r) ==
    /\ At(r, "find") /\ req[r].op = "login"
    /\ \/ /\ account = "exists"
          /\ origin' = [origin EXCEPT ![req[r].mint] =
                            [root |-> req[r].mint, parent |-> None, pw |-> password]]
          /\ Goto(r, "unkick")
       \/ Finish(r) /\ UNCHANGED origin
    /\ UNCHANGED <<row, keys, delivered, ended, retired, stray>>

Unkick(r) ==
    /\ At(r, "unkick")
    /\ kicked' = FALSE
    /\ Written(r, "setRefresh", "unkick")
    /\ UNCHANGED <<row, active, refresh, online, blacklist, history>>

FindRefresh(r) ==
    /\ req[r].op = "refresh"
    /\ Check(r, "find", account = "exists", "rotate")

(* establishSession.                                                        *)
SetRefresh(r) ==
    /\ At(r, "setRefresh")
    /\ refresh' = req[r].mint
    /\ Written(r, "setActive", "setRefresh")
    /\ UNCHANGED <<row, active, online, kicked, blacklist, history>>

\* Mutant of Rotate: the stored token is replaced without being compared.
RotateUnchecked(r) ==
    /\ At(r, "rotate")
    /\ refresh' = req[r].mint
    /\ origin' = [origin EXCEPT ![req[r].mint] =
                    [root |-> origin[req[r].tok].root, parent |-> req[r].tok,
                     pw |-> origin[req[r].tok].pw]]
    /\ Written(r, "setActive", "rotate")
    /\ UNCHANGED <<row, active, online, kicked, blacklist, delivered, ended, retired, stray>>

\* compareAndSet: one Lua script.  Sent again after it took effect, it no
\* longer finds the token it expects.
Rotate(r) ==
    /\ At(r, "rotate")
    /\ \/ /\ refresh = req[r].tok
          /\ refresh' = req[r].mint
          /\ origin' = [origin EXCEPT ![req[r].mint] =
                            [root |-> origin[req[r].tok].root, parent |-> req[r].tok,
                             pw |-> origin[req[r].tok].pw]]
          /\ Written(r, "setActive", "rotate")
       \/ refresh # req[r].tok /\ Finish(r) /\ UNCHANGED <<refresh, origin>>
    /\ UNCHANGED <<row, active, online, kicked, blacklist, delivered, ended, retired, stray>>

\* Mutant of SetActive: a renewal keeps the jti of the session it renews.
SetActiveSameJti(r) ==
    /\ At(r, "setActive")
    /\ active' = IF req[r].op = "refresh" THEN req[r].tok ELSE req[r].mint
    /\ Written(r, "setOnline", "setActive")
    /\ UNCHANGED <<row, refresh, online, kicked, blacklist, history>>

SetActive(r) ==
    /\ At(r, "setActive")
    /\ active' = req[r].mint
    /\ Written(r, "setOnline", "setActive")
    /\ UNCHANGED <<row, refresh, online, kicked, blacklist, history>>

SetOnline(r) ==
    /\ At(r, "setOnline")
    /\ online' = TRUE
    /\ stray' = (active = None)
    /\ Written(r, "respond", "setOnline")
    /\ UNCHANGED <<row, active, refresh, kicked, blacklist, delivered, origin, ended, retired>>

Respond(r) ==
    /\ At(r, "respond")
    /\ delivered' = delivered \union {req[r].mint}
    /\ Finish(r)
    /\ UNCHANGED <<row, keys, origin, ended, retired, stray>>

-----------------------------------------------------------------------------
(* JwtStrategy.validate.                                                    *)
CheckUser(r) == Check(r, "checkUser", account = "exists", "checkBlacklist")
CheckBlacklist(r) == Check(r, "checkBlacklist", req[r].tok \notin blacklist, "checkKicked")
CheckKicked(r) == Check(r, "checkKicked", ~kicked, "checkActive")
CheckActive(r) == Check(r, "checkActive", active = req[r].tok, "refreshOnline")

\* Mutant of RefreshOnline: the record is written without the atomic test.
RefreshOnlineUnchecked(r) ==
    /\ At(r, "refreshOnline")
    /\ online' \in {online, TRUE}
    /\ \/ req[r].op = "logout" /\ Written(r, "delActive", "refreshOnline")
       \/ req[r].op = "changePassword" /\ Written(r, "readPassword", "refreshOnline")
       \/ req[r].op = "profile" /\ Finish(r)
    /\ UNCHANGED <<row, active, refresh, kicked, blacklist, history>>

\* Skipped when this instance did it within five minutes; otherwise one Lua
\* script, which writes only while the session is still the active one.
RefreshOnline(r) ==
    /\ At(r, "refreshOnline")
    /\ online' \in {online, online \/ active = req[r].tok}
    /\ \/ req[r].op = "logout" /\ Written(r, "delActive", "refreshOnline")
       \/ req[r].op = "changePassword" /\ Written(r, "readPassword", "refreshOnline")
       \/ req[r].op = "profile" /\ Finish(r)
    /\ UNCHANGED <<row, active, refresh, kicked, blacklist, history>>

(* UserService: changePassword, update with a password, remove.             *)
ReadPassword(r) ==
    \E typedRight \in BOOLEAN :
        Check(r, "readPassword", account = "exists" /\ typedRight, "writePassword")

\* Mutant of WritePassword: the sessions are not revoked, only the token is.
WritePasswordOnly(r) ==
    /\ At(r, "writePassword")
    /\ \/ /\ account = "exists"
          /\ password' = password + 1
          /\ req' = [req EXCEPT ![r] = [@ EXCEPT !.stage = "blacklist", !.pw = password + 1]]
       \/ account # "exists" /\ Finish(r) /\ UNCHANGED password
    /\ UNCHANGED <<account, keys, history>>

WritePassword(r) ==
    /\ At(r, "writePassword")
    /\ \/ /\ account = "exists"
          /\ password' = password + 1
          /\ req' = [req EXCEPT ![r] = [@ EXCEPT !.stage = "delActive", !.pw = password + 1]]
       \/ account # "exists" /\ Finish(r) /\ UNCHANGED password
    /\ UNCHANGED <<account, keys, history>>

\* May be refused (the last administrator) or find the row gone already.
DeleteUser(r) ==
    /\ At(r, "deleteUser")
    /\ \/ account = "exists" /\ account' = "deleted" /\ Goto(r, "delActive")
       \/ Finish(r) /\ UNCHANGED account
    /\ UNCHANGED <<password, keys, history>>

-----------------------------------------------------------------------------
(* revokeUserSessions.  Its two EXISTS reads only choose kickUser's answer. *)
(* Its writes are sent in one tick on one connection: Redis runs them in    *)
(* this order, but not as one.                                              *)
DelActive(r) ==
    /\ At(r, "delActive")
    /\ active' = None
    /\ Written(r, "delRefresh", "delActive")
    /\ UNCHANGED <<row, refresh, online, kicked, blacklist, history>>

\* Mutant of DelRefresh: the refresh token survives the revocation.
DelRefreshForgotten(r) ==
    /\ At(r, "delRefresh")
    /\ Written(r, "delOnline", "delActive")
    /\ UNCHANGED <<row, keys, history>>

DelRefresh(r) ==
    /\ At(r, "delRefresh")
    /\ refresh' = None
    /\ Written(r, "delOnline", "delActive")
    /\ UNCHANGED <<row, active, online, kicked, blacklist, history>>

\* Mutant of AfterRevoke: a token is blacklisted though there may be none.
AfterRevokeNoGuard(op) == "blacklist"

AfterRevoke(op) ==
    CASE op = "kick" -> "setKicked"
      [] op \in {"logout", "changePassword"} -> "blacklist"
      [] OTHER -> "return"

DelOnline(r) ==
    /\ At(r, "delOnline")
    /\ online' = FALSE /\ stray' = FALSE
    /\ Written(r, AfterRevoke(req[r].op), "delActive")
    /\ UNCHANGED <<row, active, refresh, kicked, blacklist, delivered, origin, ended, retired>>

SetKicked(r) ==
    /\ At(r, "setKicked")
    /\ kicked' = TRUE
    /\ Written(r, "return", "delActive")
    /\ UNCHANGED <<row, active, refresh, online, blacklist, history>>

\* Nothing is written when the token has meanwhile expired by itself.
BlacklistToken(r) ==
    /\ At(r, "blacklist")
    /\ blacklist' \in {blacklist, blacklist \union {req[r].tok}}
    /\ Written(r, "return", "blacklist")
    /\ UNCHANGED <<row, active, refresh, online, kicked, history>>

Return(r) ==
    /\ At(r, "return")
    /\ ended' = IF req[r].op \in {"logout", "changePassword"}
                THEN ended \union {req[r].tok} ELSE ended
    /\ retired' = IF req[r].pw > retired THEN req[r].pw ELSE retired
    /\ Finish(r)
    /\ UNCHANGED <<row, keys, delivered, origin, stray>>

\* A strict Redis operation answers 503, a statement fails, or the instance
\* stops: what was written stays written and nothing is rolled back.
Abort(r) ==
    /\ Lossy
    /\ ~At(r, NoRequest)
    /\ stray' = (stray \/ (online /\ req[r].stage \in Revoking))
    /\ Finish(r)
    /\ UNCHANGED <<row, keys, delivered, origin, ended, retired>>

-----------------------------------------------------------------------------
(* Time to live.  A blacklist key may also be cleared by an administrator.  *)
\* Mutant of ActiveExpires: the key is written without a TTL.
ActiveKept == FALSE /\ UNCHANGED vars

ActiveExpires ==
    /\ active # None /\ active' = None
    /\ stray' = (stray \/ online)
    /\ UNCHANGED <<row, refresh, online, kicked, blacklist, req, delivered, origin, ended, retired>>

RefreshExpires ==
    /\ refresh # None /\ refresh' = None
    /\ UNCHANGED <<row, active, online, kicked, blacklist, req, history>>

OnlineExpires ==
    /\ online /\ online' = FALSE /\ stray' = FALSE
    /\ UNCHANGED <<row, active, refresh, kicked, blacklist, req, delivered, origin, ended, retired>>

KickedExpires ==
    /\ kicked /\ kicked' = FALSE
    /\ UNCHANGED <<row, active, refresh, online, blacklist, req, history>>

BlacklistLapses ==
    /\ \E s \in blacklist : blacklist' = blacklist \ {s}
    /\ UNCHANGED <<row, active, refresh, online, kicked, req, history>>

-----------------------------------------------------------------------------
Begin(r) ==
    \/ BeginRegister(r) \/ BeginLogin(r) \/ BeginRefresh(r)
    \/ BeginAuthenticated(r) \/ BeginAdministrative(r)

Step(r) ==
    \/ CreateUser(r) \/ FindLogin(r) \/ Unkick(r) \/ FindRefresh(r)
    \/ SetRefresh(r) \/ Rotate(r) \/ SetActive(r) \/ SetOnline(r) \/ Respond(r)
    \/ CheckUser(r) \/ CheckBlacklist(r) \/ CheckKicked(r) \/ CheckActive(r)
    \/ RefreshOnline(r) \/ ReadPassword(r) \/ WritePassword(r) \/ DeleteUser(r)
    \/ DelActive(r) \/ DelRefresh(r) \/ DelOnline(r) \/ SetKicked(r)
    \/ BlacklistToken(r) \/ Return(r)

Expire == ActiveExpires \/ RefreshExpires \/ OnlineExpires \/ KickedExpires \/ BlacklistLapses

Next ==
    \/ \E r \in Request : Begin(r) \/ Step(r) \/ Abort(r)
    \/ Expire

Spec == Init /\ [][Next]_vars

\* A handler that runs is resumed, and Redis expires keys that have a TTL.
\* No request has to arrive, and nothing has to fail.
Fairness ==
    /\ \A r \in Request : WF_vars(Step(r))
    /\ WF_vars(ActiveExpires) /\ WF_vars(RefreshExpires) /\ WF_vars(OnlineExpires)

FairSpec == Spec /\ Fairness

-----------------------------------------------------------------------------
(* Properties.                                                              *)

TypeOK ==
    /\ account \in {"none", "exists", "deleted"} /\ password \in Nat
    /\ active \in SessionOrNone /\ refresh \in SessionOrNone
    /\ online \in BOOLEAN /\ kicked \in BOOLEAN /\ blacklist \subseteq SessionId
    /\ req \in [Request -> RequestState]
    /\ delivered \subseteq SessionId /\ ended \subseteq SessionId
    /\ origin \in [SessionId -> Origin]
    /\ retired \in Nat /\ stray \in BOOLEAN

\* A refresh token is exchanged at most once: no two sessions were issued in
\* exchange for the same one (rotateRefresh, "prevents concurrent replay").
OneRotation ==
    \A s, t \in SessionId :
        origin[s].parent = origin[t].parent /\ origin[s].parent # None => s = t

\* Once the logout or password change of a session has returned, that session
\* is never the active one again, whatever else was in flight.
LogoutIsFinal == \A s \in ended : active # s

\* ... and no session that descends from the same login can be renewed.
RefreshChainEnds ==
    \A s \in ended : refresh # None => origin[refresh].root # origin[s].root

\* An online record without an active session is only left behind by an
\* expired session, an activation that lost a race or a failed revocation:
\* never by JwtStrategy's refreshOnline, and never by a revocation that ended.
NoGhostOnline ==
    online /\ active = None /\ ~stray => \E r \in Request : req[r].stage \in Revoking

-----------------------------------------------------------------------------
(* Why the safety properties hold: what is true of the requests in flight.  *)

Presenting == Authenticated \union {"refresh"}
Ending == {"logout", "changePassword"}

\* The new session of a request is in no client's hands, and no other
\* request is issuing the same one.
MintsAreNew ==
    \A r \in Request :
        /\ req[r].stage \in {"create", "find", "unkick"} \union Establishing
              => req[r].mint \in SessionId
        /\ req[r].mint # None =>
              /\ req[r].mint \notin delivered
              /\ \A q \in Request \ {r} : req[q].mint # req[r].mint

\* A token that is presented was handed out before.
TokensWereDelivered ==
    \A r \in Request :
        /\ ~At(r, NoRequest) /\ req[r].op \in Presenting => req[r].tok \in delivered
        /\ At(r, "rotate") => req[r].op = "refresh"
        /\ At(r, "blacklist") => req[r].op \in Ending
        /\ At(r, "setKicked") => req[r].op = "kick"

\* A login starts a chain of sessions, a renewal continues one: the chain of
\* a session in a client's hands starts at a session in a client's hands.
ChainsStartDelivered ==
    /\ \A s \in delivered : origin[s].root \in delivered
    /\ \A r \in Request :
        /\ req[r].stage \in {"unkick", "setRefresh"} => origin[req[r].mint].root = req[r].mint
        /\ req[r].stage \in {"setActive", "setOnline", "respond"} =>
              origin[req[r].mint].root \in delivered \union {req[r].mint}

\* While a logout is under way its session is already out of the register.
EndingRemoves ==
    /\ ended \subseteq delivered
    /\ \A r \in Request : req[r].op \in Ending =>
        /\ req[r].stage \in {"delRefresh", "delOnline", "blacklist", "return"}
              => active # req[r].tok
        /\ req[r].stage \in {"delOnline", "blacklist", "return"} /\ refresh # None
              => origin[refresh].root # origin[req[r].tok].root

\* A token that was exchanged is no longer the stored one.
ExchangedIsSpent ==
    \A s \in SessionId : origin[s].parent # None =>
        origin[s].parent \in delivered /\ origin[s].parent # refresh

\* The inductive invariant of the proofs.
SessionInv ==
    /\ TypeOK
    /\ MintsAreNew
    /\ TokensWereDelivered
    /\ ChainsStartDelivered
    /\ EndingRemoves
    /\ ExchangedIsSpent
    /\ OneRotation
    /\ LogoutIsFinal
    /\ RefreshChainEnds
    /\ NoGhostOnline

-----------------------------------------------------------------------------
\* The rights a client holds behave like the register: given at most once,
\* to one session at a time, and never again once taken away.
Register == INSTANCE SessionRegister WITH
    given <- delivered,
    access <- IF active \in delivered THEN active ELSE None,
    renew <- IF refresh \in delivered THEN refresh ELSE None
ImplementsRegister == Register!Spec

\* Once its user is deleted, an account ends up without any session state for
\* good: requests still in flight may write some, but nobody can renew it.
DeletedIsForgotten ==
    account = "deleted" ~> [](active = None /\ refresh = None /\ ~online)

\* revokeUserSessions' comment: a logout or a password change revokes all the
\* sessions of the user.  So afterwards the active session neither continues
\* the one that ended nor was opened with a password replaced since.  A
\* renewal or a login in flight breaks both.
RevocationIsComplete ==
    active # None =>
        /\ \A s \in ended : origin[active].root # origin[s].root
        /\ origin[active].pw >= retired
=============================================================================
