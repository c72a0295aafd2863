--------------------------- MODULE SessionProofs ---------------------------
(***************************************************************************)
(* Theorems about Session, for any number of requests and sessions, with   *)
(* or without failures and resent commands.                                *)
(***************************************************************************)
EXTENDS Session, TLAPS

(* How the helpers move a request.  The proofs below use these facts and    *)
(* never look into the EXCEPT expressions again.                            *)

OthersKept(r) == \A q \in Request \ {r} : req'[q] = req[q]

Moved(r, stage) ==
    /\ req' \in [Request -> RequestState]
    /\ req'[r].stage = stage
    /\ req'[r].op = req[r].op /\ req'[r].tok = req[r].tok
    /\ req'[r].mint = req[r].mint /\ req'[r].pw = req[r].pw
    /\ OthersKept(r)

Released(r) ==
    /\ req' \in [Request -> RequestState]
    /\ req'[r] = Idle
    /\ OthersKept(r)

\* Goto changes one request's stage and nothing else.
LEMMA GotoMoves ==
    ASSUME req \in [Request -> RequestState], NEW r \in Request,
           NEW stage \in Stage, Goto(r, stage)
    PROVE  Moved(r, stage)
BY DEF Goto, Moved, OthersKept, RequestState

\* Finish makes the slot idle and touches no other request.
LEMMA FinishReleases ==
    ASSUME req \in [Request -> RequestState], NEW r \in Request, Finish(r)
    PROVE  Released(r)
BY DEF Finish, Released, OthersKept, RequestState, Idle, Operation, Authenticated,
       Stage, NoRequest, SessionOrNone

\* A write that took effect leaves the request at one of two stages.
LEMMA WrittenMoves ==
    ASSUME req \in [Request -> RequestState], NEW r \in Request,
           NEW next \in Stage, NEW first \in Stage, Written(r, next, first)
    PROVE  Moved(r, next) \/ Moved(r, first)
BY GotoMoves DEF Written

\* WritePassword notes the version it wrote and moves on to revoke.
Renumbered(r, version) ==
    req' = [req EXCEPT ![r] = [@ EXCEPT !.stage = "delActive", !.pw = version]]

\* WritePassword's move: the version is noted, the session fields are kept.
LEMMA RenumberedMoves ==
    ASSUME req \in [Request -> RequestState], NEW r \in Request,
           NEW version \in Nat, Renumbered(r, version)
    PROVE  /\ req' \in [Request -> RequestState]
           /\ req'[r].stage = "delActive" /\ req'[r].op = req[r].op
           /\ req'[r].tok = req[r].tok /\ req'[r].mint = req[r].mint
           /\ OthersKept(r)
<1>1. [req[r] EXCEPT !.stage = "delActive", !.pw = version] \in RequestState
  BY DEF RequestState, Stage, Revoking
<1> QED BY <1>1 DEF Renumbered, OthersKept, RequestState

\* Every helper that moves a request keeps the type of req.
LEMMA EnterTyped ==
    ASSUME req \in [Request -> RequestState], NEW r \in Request,
           NEW op \in Operation, NEW tok \in SessionOrNone,
           NEW mint \in SessionOrNone, NEW stage \in Stage,
           Enter(r, op, tok, mint, stage)
    PROVE  /\ req' \in [Request -> RequestState]
           /\ req'[r] = [op |-> op, stage |-> stage, tok |-> tok, mint |-> mint, pw |-> 0]
           /\ req[r].stage = NoRequest
           /\ OthersKept(r)
BY DEF Enter, At, OthersKept, RequestState

\* A check moves the request to its next stage or releases it.
LEMMA CheckMoves ==
    ASSUME req \in [Request -> RequestState], NEW r \in Request,
           NEW stage, NEW ok, NEW next \in Stage, Check(r, stage, ok, next)
    PROVE  /\ Moved(r, next) \/ Released(r)
           /\ req[r].stage = stage
           /\ UNCHANGED <<row, keys, history>>
BY GotoMoves, FinishReleases DEF Check, At

\* An administrator's operation starts at one of three commands.
LEMMA AdministrativeStarts ==
    ASSUME NEW op \in Administrative
    PROVE  AdministrativeStart(op) \in {"delActive", "writePassword", "deleteUser"}
BY DEF Administrative, AdministrativeStart

\* The names used for stages are stages.
LEMMA StageNames ==
    /\ Revoking \subseteq Stage /\ Revoked \subseteq Stage
    /\ Establishing \subseteq Stage /\ Checking \subseteq Stage
    /\ {NoRequest, "create", "find", "unkick", "readPassword", "writePassword",
        "deleteUser"} \subseteq Stage
    /\ \A op \in Operation : AfterRevoke(op) \in Revoked
BY DEF Stage, Revoking, Revoked, Establishing, Checking, AfterRevoke

-----------------------------------------------------------------------------
(* Types.                                                                   *)

\* A fresh session is a session, and no request or client has it.
LEMMA FreshSession ==
    ASSUME NEW s \in Fresh
    PROVE  /\ s \in SessionId /\ s # None /\ s \notin delivered
           /\ s # active /\ s # refresh
           /\ \A r \in Request : req[r].mint # s
BY SessionAssumption DEF Fresh

\* A request that arrives is typed, and its session is a fresh one.
LEMMA BeginTyped ==
    ASSUME TypeOK, NEW r \in Request, Begin(r)
    PROVE  TypeOK'
<1> USE EnterTyped, StageNames DEF TypeOK, row, keys, history, Operation,
        Authenticated, Administrative, SessionOrNone
<1>1. CASE BeginRegister(r)
  BY <1>1, FreshSession DEF BeginRegister
<1>2. CASE BeginLogin(r)
  BY <1>2, FreshSession DEF BeginLogin
<1>3. CASE BeginRefresh(r)
  BY <1>3, FreshSession DEF BeginRefresh
<1>4. CASE BeginAuthenticated(r)
  BY <1>4 DEF BeginAuthenticated, Checking
<1>5. CASE BeginAdministrative(r)
  <2>1. \A op \in Administrative : op \in Operation /\ AdministrativeStart(op) \in Stage
    BY AdministrativeStarts, StageNames DEF Operation, Revoking
  <2> QED BY <1>5, <2>1 DEF BeginAdministrative
<1> QED BY <1>1, <1>2, <1>3, <1>4, <1>5 DEF Begin

\* Every step of a handler keeps the types.
LEMMA StepTyped ==
    ASSUME TypeOK, MintsAreNew, TokensWereDelivered, NEW r \in Request, Step(r)
    PROVE  TypeOK'
<1>1. req \in [Request -> RequestState] /\ req[r] \in RequestState
  BY DEF TypeOK
<1> USE <1>1, GotoMoves, FinishReleases, WrittenMoves, CheckMoves, StageNames
    DEF TypeOK, row, keys, history, At, Moved, Released
<1>a. CASE CreateUser(r) \/ FindLogin(r)
  <2>1. [root |-> req[r].mint, parent |-> None, pw |-> password] \in Origin
    BY DEF Origin, RequestState, SessionOrNone
  <2>2. CASE CreateUser(r)
    BY <2>1, <2>2 DEF CreateUser, Establishing
  <2>3. CASE FindLogin(r)
    BY <2>1, <2>3 DEF FindLogin
  <2> QED BY <1>a, <2>2, <2>3
<1>b. CASE FindRefresh(r) \/ CheckUser(r) \/ CheckBlacklist(r) \/ CheckKicked(r)
          \/ CheckActive(r) \/ ReadPassword(r)
  BY <1>b DEF FindRefresh, CheckUser, CheckBlacklist, CheckKicked, CheckActive,
          ReadPassword, Establishing, Checking
<1>c. CASE Unkick(r) \/ SetRefresh(r) \/ SetActive(r) \/ SetOnline(r)
  <2>1. req[r].mint \in SessionOrNone
    BY DEF RequestState
  <2>2. CASE Unkick(r)
    BY <2>2 DEF Unkick, Establishing
  <2>3. CASE SetRefresh(r)
    BY <2>1, <2>3 DEF SetRefresh, Establishing
  <2>4. CASE SetActive(r)
    BY <2>1, <2>4 DEF SetActive, Establishing
  <2>5. CASE SetOnline(r)
    BY <2>5 DEF SetOnline, Establishing
  <2> QED BY <1>c, <2>2, <2>3, <2>4, <2>5
<1>d. CASE Rotate(r)
  <2>1. CASE refresh = req[r].tok /\ Written(r, "setActive", "rotate")
    <3>1. req[r].tok \in SessionId /\ req[r].mint \in SessionId
      BY <1>d DEF Rotate, TokensWereDelivered, MintsAreNew, Presenting, NoRequest,
              Establishing
    <3>2. origin[req[r].tok] \in Origin
      BY <3>1
    <3>3. [root |-> origin[req[r].tok].root, parent |-> req[r].tok,
           pw |-> origin[req[r].tok].pw] \in Origin
      BY <3>1, <3>2 DEF Origin, SessionOrNone
    <3>4. origin' \in [SessionId -> Origin]
      BY <1>d, <2>1, <3>1, <3>3 DEF Rotate
    <3> QED BY <1>d, <2>1, <3>1, <3>4 DEF Rotate, Establishing, SessionOrNone
  <2>2. CASE refresh # req[r].tok /\ Finish(r)
    BY <1>d, <2>2 DEF Rotate
  <2> QED BY <1>d, <2>1, <2>2 DEF Rotate
<1>e. CASE Respond(r)
  BY <1>e DEF Respond, MintsAreNew, Establishing
<1>f. CASE RefreshOnline(r)
  <2>1. online' \in BOOLEAN
    BY <1>f DEF RefreshOnline
  <2> QED BY <1>f, <2>1 DEF RefreshOnline, Checking, Revoking
<1>g. CASE WritePassword(r)
  <2>1. CASE account = "exists" /\ password' = password + 1 /\ Renumbered(r, password + 1)
    BY <1>g, <2>1, RenumberedMoves DEF WritePassword
  <2> QED BY <1>g, <2>1 DEF WritePassword, Renumbered
<1>h. CASE DeleteUser(r) \/ DelActive(r) \/ DelRefresh(r)
  BY <1>h DEF DeleteUser, DelActive, DelRefresh, Revoking, SessionOrNone
<1>i. CASE DelOnline(r)
  <2>1. AfterRevoke(req[r].op) \in Stage
    BY DEF RequestState
  <2> QED BY <1>i, <2>1 DEF DelOnline, Revoking
<1>j. CASE SetKicked(r)
  BY <1>j DEF SetKicked, Revoked, Revoking
<1>k. CASE BlacklistToken(r) \/ Return(r)
  <2>1. req[r].op \in Ending => req[r].tok \in SessionId
    BY <1>k DEF BlacklistToken, Return, TokensWereDelivered, Presenting, Ending,
            Authenticated, NoRequest
  <2>2. CASE BlacklistToken(r)
    BY <2>1, <2>2 DEF BlacklistToken, Revoked, TokensWereDelivered
  <2>3. CASE Return(r)
    BY <2>1, <2>3 DEF Return, RequestState, Ending
  <2> QED BY <1>k, <2>2, <2>3
<1> QED BY <1>a, <1>b, <1>c, <1>d, <1>e, <1>f, <1>g, <1>h, <1>i, <1>j, <1>k DEF Step

\* So does one that is cut short,
LEMMA AbortTyped ==
    ASSUME TypeOK, NEW r \in Request, Abort(r)
    PROVE  TypeOK'
BY FinishReleases DEF TypeOK, Abort, Released, row, keys, history

\* and so does the expiry of a key.
LEMMA ExpireTyped ==
    ASSUME TypeOK, Expire
    PROVE  TypeOK'
BY DEF TypeOK, Expire, ActiveExpires, RefreshExpires, OnlineExpires, KickedExpires,
       BlacklistLapses, row, keys, history, SessionOrNone

-----------------------------------------------------------------------------
(* The inductive invariant holds initially.                                 *)

\* Before the first request nothing was issued, delivered or ended.
LEMMA InitInv == Init => SessionInv
<1> SUFFICES ASSUME Init PROVE SessionInv
  OBVIOUS
<1>1. TypeOK
  BY SessionAssumption DEF Init, TypeOK, RequestState, Idle, Operation, Authenticated,
     Stage, NoRequest, SessionOrNone, Origin
<1>2. \A r \in Request : req[r].stage = "idle" /\ req[r].mint = None /\ req[r].op = "profile"
  BY DEF Init, Idle, NoRequest
<1>3. MintsAreNew /\ TokensWereDelivered /\ EndingRemoves
  BY <1>2 DEF Init, MintsAreNew, TokensWereDelivered, EndingRemoves, Establishing, At,
     NoRequest, Ending
<1>4. ChainsStartDelivered
  BY <1>2 DEF Init, ChainsStartDelivered
<1>5. ExchangedIsSpent /\ OneRotation
  BY DEF Init, ExchangedIsSpent, OneRotation
<1>6. LogoutIsFinal /\ RefreshChainEnds /\ NoGhostOnline
  BY DEF Init, LogoutIsFinal, RefreshChainEnds, NoGhostOnline
<1> QED BY <1>1, <1>3, <1>4, <1>5, <1>6 DEF SessionInv

-----------------------------------------------------------------------------
(* Requests: what they issue is new and what they present was handed out.   *)

Issuing == {"create", "find", "unkick"} \union Establishing

\* Moving or releasing a request that hands nothing out keeps the facts
\* about new sessions and presented tokens.
LEMMA MovingKeepsRequests ==
    ASSUME TypeOK, MintsAreNew, TokensWereDelivered, NEW r \in Request, NEW stage \in Stage,
           Moved(r, stage), delivered' = delivered, ~At(r, NoRequest),
           stage \in Issuing => req[r].stage \in Issuing,
           stage = "rotate" => req[r].op = "refresh",
           stage = "blacklist" => req[r].op \in Ending,
           stage = "setKicked" => req[r].op = "kick"
    PROVE  MintsAreNew' /\ TokensWereDelivered'
<1>1. MintsAreNew'
  BY DEF MintsAreNew, Moved, OthersKept, Issuing
<1>2. TokensWereDelivered'
  BY DEF TokensWereDelivered, Moved, OthersKept, At
<1> QED BY <1>1, <1>2

\* A request that ends issues and presents nothing any more.
LEMMA ReleasingKeepsRequests ==
    ASSUME TypeOK, MintsAreNew, TokensWereDelivered, NEW r \in Request,
           Released(r), delivered' = delivered
    PROVE  MintsAreNew' /\ TokensWereDelivered'
<1>1. MintsAreNew'
  BY DEF MintsAreNew, Released, OthersKept, Idle, NoRequest, Establishing
<1>2. TokensWereDelivered'
  BY DEF TokensWereDelivered, Released, OthersKept, At, Idle, NoRequest
<1> QED BY <1>1, <1>2

\* A request that arrives presents a delivered token and issues a fresh session.
LEMMA EnteringKeepsRequests ==
    ASSUME TypeOK, MintsAreNew, TokensWereDelivered, NEW r \in Request,
           NEW op \in Operation, NEW tok \in delivered \union {None},
           NEW mint \in Fresh \union {None}, NEW stage \in Stage,
           Enter(r, op, tok, mint, stage), delivered' = delivered,
           stage \in Issuing => mint \in Fresh,
           op \in Presenting => tok \in delivered,
           stage \notin {"rotate", "blacklist", "setKicked"}
    PROVE  MintsAreNew' /\ TokensWereDelivered'
<1>1. /\ req'[r].op = op /\ req'[r].tok = tok /\ req'[r].mint = mint
      /\ req'[r].stage = stage /\ OthersKept(r)
  <2>1. req \in [Request -> RequestState]
    BY DEF TypeOK
  <2> QED BY <2>1 DEF Enter, OthersKept
<1>2. MintsAreNew'
  BY <1>1, FreshSession DEF MintsAreNew, OthersKept, Issuing
<1>3. TokensWereDelivered'
  BY <1>1 DEF TokensWereDelivered, OthersKept, At
<1> QED BY <1>2, <1>3

\* So every arrival keeps what is known of the requests.
LEMMA BeginKeepsRequests ==
    ASSUME TypeOK, MintsAreNew, TokensWereDelivered, NEW r \in Request, Begin(r)
    PROVE  MintsAreNew' /\ TokensWereDelivered'
<1> USE EnteringKeepsRequests
    DEF row, keys, history, Operation, Authenticated, Administrative, Presenting
<1>1. CASE BeginRegister(r)
  BY <1>1, StageNames DEF BeginRegister
<1>2. CASE BeginLogin(r)
  BY <1>2, StageNames DEF BeginLogin
<1>3. CASE BeginRefresh(r)
  BY <1>3, StageNames DEF BeginRefresh
<1>4. CASE BeginAuthenticated(r)
  <2>1. "checkUser" \in Stage /\ "checkUser" \notin Issuing
    BY StageNames DEF Checking, Issuing, Establishing
  <2> QED BY <1>4, <2>1 DEF BeginAuthenticated
<1>5. CASE BeginAdministrative(r)
  <2>1. \A op \in Administrative :
          AdministrativeStart(op) \in
              Stage \ (Issuing \union {"rotate", "blacklist", "setKicked"})
    BY AdministrativeStarts, StageNames DEF Revoking, Issuing, Establishing
  <2> QED BY <1>5, <2>1 DEF BeginAdministrative
<1> QED BY <1>1, <1>2, <1>3, <1>4, <1>5 DEF Begin

\* Every step of a handler keeps it too.
LEMMA StepKeepsRequests ==
    ASSUME TypeOK, MintsAreNew, TokensWereDelivered, NEW r \in Request, Step(r)
    PROVE  MintsAreNew' /\ TokensWereDelivered'
<1>1. req \in [Request -> RequestState] /\ req[r].op \in Operation
  BY DEF TypeOK, RequestState
<1> USE <1>1, GotoMoves, FinishReleases, WrittenMoves, CheckMoves, StageNames,
        MovingKeepsRequests, ReleasingKeepsRequests
    DEF row, keys, history, At, NoRequest, Issuing
<1>a. CASE CreateUser(r)
  BY <1>a DEF CreateUser, Establishing
<1>b. CASE FindLogin(r)
  BY <1>b DEF FindLogin, Establishing
<1>c. CASE Unkick(r)
  BY <1>c DEF Unkick, Establishing
<1>d. CASE FindRefresh(r)
  BY <1>d DEF FindRefresh, Establishing
<1>e. CASE SetRefresh(r)
  BY <1>e DEF SetRefresh, Establishing
<1>f. CASE Rotate(r)
  BY <1>f DEF Rotate, Establishing, TokensWereDelivered
<1>g. CASE SetActive(r)
  BY <1>g DEF SetActive, Establishing
<1>h. CASE SetOnline(r)
  BY <1>h DEF SetOnline, Establishing
<1>i. CASE Respond(r)
  <2>1. Released(r) /\ delivered' = delivered \union {req[r].mint} /\ req[r].mint \in SessionId
    BY <1>i DEF Respond, MintsAreNew, Establishing
  <2>2. MintsAreNew'
    BY <2>1, SessionAssumption
       DEF MintsAreNew, Released, OthersKept, Idle, Establishing
  <2>3. TokensWereDelivered'
    BY <2>1 DEF TokensWereDelivered, Released, OthersKept, Idle
  <2> QED BY <2>2, <2>3
<1>j. CASE CheckUser(r) \/ CheckBlacklist(r) \/ CheckKicked(r) \/ CheckActive(r)
  BY <1>j DEF CheckUser, CheckBlacklist, CheckKicked, CheckActive, Checking, Establishing
<1>k. CASE RefreshOnline(r)
  BY <1>k DEF RefreshOnline, Checking, Revoking, Establishing
<1>l. CASE ReadPassword(r)
  BY <1>l DEF ReadPassword, Establishing
<1>m. CASE WritePassword(r)
  <2>1. CASE Renumbered(r, password + 1)
    <3>1. Moved(r, "delActive") \/ (MintsAreNew' /\ TokensWereDelivered')
      BY <1>m, <2>1, RenumberedMoves
         DEF WritePassword, TypeOK, MintsAreNew, TokensWereDelivered, OthersKept, Establishing
    <3> QED BY <1>m, <3>1 DEF WritePassword, Revoking, Establishing
  <2> QED BY <1>m, <2>1 DEF WritePassword, Renumbered
<1>n. CASE DeleteUser(r)
  BY <1>n DEF DeleteUser, Revoking, Establishing
<1>o. CASE DelActive(r)
  BY <1>o DEF DelActive, Revoking, Establishing
<1>p. CASE DelRefresh(r)
  BY <1>p DEF DelRefresh, Revoking, Establishing
<1>q. CASE DelOnline(r)
  <2>1. /\ AfterRevoke(req[r].op) \in Stage \ Issuing
        /\ AfterRevoke(req[r].op) # "rotate"
        /\ AfterRevoke(req[r].op) = "blacklist" => req[r].op \in Ending
        /\ AfterRevoke(req[r].op) = "setKicked" => req[r].op = "kick"
    BY DEF Ending, Revoked, Establishing, AfterRevoke
  <2> QED BY <1>q, <2>1 DEF DelOnline, Revoking, Establishing
<1>r. CASE SetKicked(r)
  BY <1>r DEF SetKicked, Revoked, Revoking, Establishing
<1>s. CASE BlacklistToken(r)
  BY <1>s DEF BlacklistToken, Revoked, Establishing, TokensWereDelivered
<1>t. CASE Return(r)
  BY <1>t DEF Return
<1> QED BY <1>a, <1>b, <1>c, <1>d, <1>e, <1>f, <1>g, <1>h, <1>i, <1>j, <1>k, <1>l, <1>m,
           <1>n, <1>o, <1>p, <1>q, <1>r, <1>s, <1>t DEF Step

-----------------------------------------------------------------------------
(* Chains: a renewal continues the chain of a session already handed out.   *)

Rooted == {"unkick", "setRefresh"}
Continuing == {"setActive", "setOnline", "respond"}

\* A move that changes no origin and no delivery keeps the chains.
LEMMA MovingKeepsChains ==
    ASSUME ChainsStartDelivered, NEW r \in Request, NEW stage \in Stage,
           Moved(r, stage), UNCHANGED <<delivered, origin>>,
           stage \in Rooted => req[r].stage \in Rooted,
           stage \in Continuing => req[r].stage \in Rooted \union Continuing
    PROVE  ChainsStartDelivered'
BY DEF ChainsStartDelivered, Moved, OthersKept, Rooted, Continuing

\* The end of a request keeps them,
LEMMA ReleasingKeepsChains ==
    ASSUME ChainsStartDelivered, NEW r \in Request, Released(r), UNCHANGED <<delivered, origin>>
    PROVE  ChainsStartDelivered'
BY DEF ChainsStartDelivered, Released, OthersKept, Idle, NoRequest

\* and so does an arrival.
LEMMA EnteringKeepsChains ==
    ASSUME TypeOK, ChainsStartDelivered, NEW r \in Request, NEW op, NEW tok, NEW mint,
           NEW stage, Enter(r, op, tok, mint, stage), UNCHANGED <<delivered, origin>>,
           stage \notin Rooted \union Continuing
    PROVE  ChainsStartDelivered'
<1>1. req'[r].stage = stage /\ OthersKept(r)
  BY DEF Enter, OthersKept, TypeOK
<1> QED BY <1>1 DEF ChainsStartDelivered, OthersKept, Rooted, Continuing

\* Where a session comes from is written while only its request knows it.
LEMMA BirthKeepsChains ==
    ASSUME TypeOK, MintsAreNew, ChainsStartDelivered, NEW r \in Request, NEW stage \in Stage,
           NEW parent, NEW pw, NEW root, req[r].mint \in SessionId,
           Moved(r, stage), delivered' = delivered,
           origin' = [origin EXCEPT ![req[r].mint] =
                        [root |-> root, parent |-> parent, pw |-> pw]],
           \/ root = req[r].mint
           \/ root \in delivered /\ stage \notin Rooted
    PROVE  ChainsStartDelivered'
<1>1. origin'[req[r].mint].root = root
  BY DEF TypeOK
<1>2. \A s \in SessionId : s # req[r].mint => origin'[s] = origin[s]
  BY DEF TypeOK
<1>3. req[r].mint \notin delivered /\ \A q \in Request \ {r} : req[q].mint # req[r].mint
  BY SessionAssumption DEF MintsAreNew
<1>4. \A s \in delivered' : origin'[s].root \in delivered'
  BY <1>2, <1>3 DEF ChainsStartDelivered, TypeOK
<1>5. ASSUME NEW q \in Request, q # r
      PROVE  /\ req'[q].stage \in Rooted => origin'[req'[q].mint].root = req'[q].mint
             /\ req'[q].stage \in Continuing =>
                   origin'[req'[q].mint].root \in delivered' \union {req'[q].mint}
  <2>1. req'[q] = req[q]
    BY <1>5 DEF Moved, OthersKept
  <2>2. req[q].stage \in Rooted \union Continuing => req[q].mint \in SessionId
    BY DEF MintsAreNew, Rooted, Continuing, Establishing
  <2> QED BY <1>2, <1>3, <1>5, <2>1, <2>2 DEF ChainsStartDelivered, Rooted, Continuing
<1>6. /\ req'[r].stage \in Rooted => origin'[req'[r].mint].root = req'[r].mint
      /\ req'[r].stage \in Continuing =>
            origin'[req'[r].mint].root \in delivered' \union {req'[r].mint}
  BY <1>1 DEF Moved
<1> QED BY <1>4, <1>5, <1>6 DEF ChainsStartDelivered, Rooted, Continuing

\* Every step keeps the chains.
LEMMA NextKeepsChains ==
    ASSUME TypeOK, MintsAreNew, TokensWereDelivered, ChainsStartDelivered, NEW r \in Request,
           Begin(r) \/ Step(r) \/ Abort(r)
    PROVE  ChainsStartDelivered'
<1>1. req \in [Request -> RequestState] /\ req[r].op \in Operation
  BY DEF TypeOK, RequestState
<1>2. CASE Begin(r)
  BY <1>2, EnteringKeepsChains, AdministrativeStarts
     DEF Begin, BeginRegister, BeginLogin, BeginRefresh, BeginAuthenticated,
         BeginAdministrative, Rooted, Continuing, history
<1>3. CASE Abort(r)
  BY <1>1, <1>3, FinishReleases, ReleasingKeepsChains DEF Abort
<1> USE <1>1, GotoMoves, FinishReleases, WrittenMoves, CheckMoves, StageNames,
        MovingKeepsChains, ReleasingKeepsChains
    DEF history, At, Rooted, Continuing
<1>a. CASE CreateUser(r)
  BY <1>a, BirthKeepsChains DEF CreateUser, MintsAreNew, Establishing
<1>b. CASE FindLogin(r)
  BY <1>b, BirthKeepsChains DEF FindLogin, MintsAreNew
<1>c. CASE Unkick(r) \/ SetRefresh(r) \/ SetActive(r)
  BY <1>c DEF Unkick, SetRefresh, SetActive, Establishing
<1>d. CASE FindRefresh(r)
  BY <1>d DEF FindRefresh, Establishing
<1>e. CASE Rotate(r)
  <2>1. CASE refresh = req[r].tok /\ Written(r, "setActive", "rotate")
    <3>1. /\ req[r].tok \in delivered /\ req[r].mint \in SessionId
          /\ origin[req[r].tok].root \in delivered
      BY <1>e DEF Rotate, TokensWereDelivered, MintsAreNew, Presenting, NoRequest,
              Establishing, ChainsStartDelivered
    <3>2. Moved(r, "setActive") \/ Moved(r, "rotate")
      BY <2>1 DEF Establishing
    <3> QED BY <1>e, <2>1, <3>1, <3>2, BirthKeepsChains DEF Rotate, Establishing
  <2>2. CASE refresh # req[r].tok /\ Finish(r)
    BY <1>e, <2>2 DEF Rotate
  <2> QED BY <1>e, <2>1, <2>2 DEF Rotate
<1>f. CASE SetOnline(r)
  BY <1>f DEF SetOnline, Establishing
<1>g. CASE Respond(r)
  <2>1. /\ Released(r) /\ delivered' = delivered \union {req[r].mint} /\ origin' = origin
        /\ origin[req[r].mint].root \in delivered \union {req[r].mint}
    BY <1>g DEF Respond, ChainsStartDelivered
  <2> QED BY <2>1 DEF ChainsStartDelivered, Released, OthersKept, Idle, NoRequest
<1>h. CASE CheckUser(r) \/ CheckBlacklist(r) \/ CheckKicked(r) \/ CheckActive(r)
  BY <1>h DEF CheckUser, CheckBlacklist, CheckKicked, CheckActive, Checking
<1>i. CASE RefreshOnline(r) \/ ReadPassword(r)
  BY <1>i DEF RefreshOnline, ReadPassword, Checking, Revoking
<1>j. CASE WritePassword(r)
  <2>1. CASE Renumbered(r, password + 1)
    <3>1. req'[r].stage = "delActive" /\ OthersKept(r)
      BY <2>1, RenumberedMoves DEF TypeOK
    <3> QED BY <1>j, <3>1 DEF WritePassword, ChainsStartDelivered, OthersKept
  <2> QED BY <1>j, <2>1 DEF WritePassword, Renumbered
<1>k. CASE DeleteUser(r) \/ DelActive(r) \/ DelRefresh(r)
  BY <1>k DEF DeleteUser, DelActive, DelRefresh, Revoking
<1>l. CASE DelOnline(r)
  <2>1. AfterRevoke(req[r].op) \in Stage \ (Rooted \union Continuing)
    BY DEF Revoked
  <2> QED BY <1>l, <2>1 DEF DelOnline, Revoking
<1>m. CASE SetKicked(r) \/ BlacklistToken(r) \/ Return(r)
  BY <1>m DEF SetKicked, BlacklistToken, Return, Revoked, Revoking
<1> QED BY <1>2, <1>3, <1>a, <1>b, <1>c, <1>d, <1>e, <1>f, <1>g, <1>h, <1>i, <1>j, <1>k,
           <1>l, <1>m DEF Step

-----------------------------------------------------------------------------
(* Ended sessions: a logout that returns leaves nothing that could renew.   *)

Ends == EndingRemoves /\ LogoutIsFinal /\ RefreshChainEnds

\* The stages of a revocation after DelActive, and those after DelRefresh.
PastActive == {"delRefresh", "delOnline", "blacklist", "return"}
PastRefresh == {"delOnline", "blacklist", "return"}

\* Where the active and the refresh key may go without bringing back a
\* session that ended or renewing its chain.
ActiveIsNew == active' = active \/ active' \notin delivered
RefreshIsNew ==
    \/ refresh' = None
    \/ refresh' # None /\ origin'[refresh'].root \notin delivered
    \/ refresh # None /\ refresh' # None /\ origin'[refresh'].root = origin[refresh].root

\* A write to active or refresh that brings in no ended session keeps the ends.
LEMMA RegistersKeepEnds ==
    ASSUME TypeOK, TokensWereDelivered, ChainsStartDelivered, Ends, NEW r \in Request,
           ActiveIsNew, RefreshIsNew, ended' = ended, delivered \subseteq delivered',
           \A s \in delivered : origin'[s] = origin[s], OthersKept(r),
           \/ req'[r].op \notin Ending \/ req'[r].stage \notin PastActive
           \/ /\ req'[r].op = req[r].op /\ req'[r].tok = req[r].tok
              /\ req[r].stage \in PastActive
              /\ req'[r].stage \in PastRefresh => req[r].stage \in PastRefresh
    PROVE  Ends'
<1>1. ended' \subseteq delivered' /\ ended \subseteq delivered
  BY DEF Ends, EndingRemoves
<1>2. \A s \in delivered : origin'[s].root = origin[s].root /\ origin[s].root \in delivered
  BY DEF ChainsStartDelivered
<1>3. LogoutIsFinal'
  BY <1>1 DEF Ends, LogoutIsFinal, ActiveIsNew
<1>4. RefreshChainEnds'
  BY <1>1, <1>2 DEF Ends, RefreshChainEnds, RefreshIsNew
<1>5. ASSUME NEW q \in Request, req'[q].op \in Ending, req'[q].stage \in PastActive
      PROVE  /\ active' # req'[q].tok
             /\ req'[q].stage \in PastRefresh /\ refresh' # None
                  => origin'[refresh'].root # origin'[req'[q].tok].root
  <2>1. /\ req'[q].op = req[q].op /\ req'[q].tok = req[q].tok
        /\ req[q].stage \in PastActive
        /\ req'[q].stage \in PastRefresh => req[q].stage \in PastRefresh
    BY <1>5 DEF OthersKept
  <2>2. req[q].tok \in delivered
    BY <1>5, <2>1 DEF TokensWereDelivered, Presenting, Authenticated, Ending, At, NoRequest,
       PastActive
  <2>3. /\ active # req[q].tok
        /\ req[q].stage \in PastRefresh /\ refresh # None
             => origin[refresh].root # origin[req[q].tok].root
    BY <1>5, <2>1 DEF Ends, EndingRemoves, PastActive, PastRefresh
  <2> QED BY <1>2, <2>1, <2>2, <2>3 DEF ActiveIsNew, RefreshIsNew
<1>6. EndingRemoves'
  BY <1>1, <1>5 DEF EndingRemoves, PastActive, PastRefresh
<1> QED BY <1>3, <1>4, <1>6 DEF Ends

\* An arrival writes neither register.
LEMMA BeginKeepsEnds ==
    ASSUME TypeOK, TokensWereDelivered, ChainsStartDelivered, Ends, NEW r \in Request, Begin(r)
    PROVE  Ends'
<1>1. ActiveIsNew /\ RefreshIsNew /\ UNCHANGED <<ended, delivered, origin>>
  BY DEF Begin, BeginRegister, BeginLogin, BeginRefresh, BeginAuthenticated,
         BeginAdministrative, keys, history, ActiveIsNew, RefreshIsNew
<1>2. req'[r].stage \notin PastActive /\ OthersKept(r)
  BY AdministrativeStarts
     DEF TypeOK, Begin, BeginRegister, BeginLogin, BeginRefresh, BeginAuthenticated,
         BeginAdministrative, Enter, PastActive, OthersKept
<1> QED BY <1>1, <1>2, RegistersKeepEnds

\* A step of a handler brings no ended session back into a register.
LEMMA StepKeepsEnds ==
    ASSUME TypeOK, MintsAreNew, TokensWereDelivered, ChainsStartDelivered, Ends,
           NEW r \in Request, Step(r) \/ Abort(r)
    PROVE  Ends'
<1>1. req \in [Request -> RequestState] /\ req[r].op \in Operation
  BY DEF TypeOK, RequestState
<1>2. req[r].stage \in Issuing =>
        /\ req[r].mint \in SessionId /\ req[r].mint # None /\ req[r].mint \notin delivered
  BY SessionAssumption DEF Issuing, MintsAreNew
<1> USE <1>1, GotoMoves, FinishReleases, WrittenMoves, CheckMoves, StageNames
    DEF keys, history, At, Moved, Released, Idle, NoRequest, PastActive, PastRefresh
\* Steps that leave the registers alone.
<1>3. ASSUME UNCHANGED <<active, refresh, history>>
      PROVE  ActiveIsNew /\ RefreshIsNew /\ UNCHANGED <<ended, delivered, origin>>
  BY <1>3 DEF ActiveIsNew, RefreshIsNew
<1>a. CASE CreateUser(r) \/ FindLogin(r)
  <2>1. /\ \A s \in delivered : origin'[s] = origin[s]
        /\ refresh # None /\ refresh # req[r].mint => origin'[refresh] = origin[refresh]
        /\ refresh = req[r].mint /\ origin' # origin => origin'[refresh].root = refresh
    BY <1>a, <1>2 DEF CreateUser, FindLogin, Issuing, TypeOK, SessionOrNone
  <2>2. RefreshIsNew /\ ActiveIsNew
    BY <1>a, <1>2, <2>1 DEF CreateUser, FindLogin, Issuing, RefreshIsNew, ActiveIsNew
  <2>3. CASE CreateUser(r)
    BY <2>1, <2>2, <2>3, RegistersKeepEnds DEF CreateUser, Establishing
  <2>4. CASE FindLogin(r)
    BY <2>1, <2>2, <2>4, RegistersKeepEnds DEF FindLogin
  <2> QED BY <1>a, <2>3, <2>4
<1>b. CASE Unkick(r)
  BY <1>b, <1>3, RegistersKeepEnds DEF Unkick, Establishing
<1>c. CASE FindRefresh(r) \/ CheckUser(r) \/ CheckBlacklist(r) \/ CheckKicked(r)
          \/ CheckActive(r) \/ ReadPassword(r)
  <2>1. UNCHANGED <<active, refresh, history>>
    BY <1>c DEF FindRefresh, CheckUser, CheckBlacklist, CheckKicked, CheckActive,
            ReadPassword, Check
  <2>2. req'[r].stage \notin PastActive /\ OthersKept(r)
    BY <1>c DEF FindRefresh, CheckUser, CheckBlacklist, CheckKicked, CheckActive,
            ReadPassword, Checking, Establishing
  <2> QED BY <1>3, <2>1, <2>2, RegistersKeepEnds
<1>d. CASE SetRefresh(r)
  <2>1. /\ refresh' = req[r].mint /\ origin[req[r].mint].root = req[r].mint
        /\ UNCHANGED <<active, history>>
    BY <1>d DEF SetRefresh, ChainsStartDelivered
  <2>2. RefreshIsNew /\ ActiveIsNew
    BY <1>2, <1>d, <2>1 DEF SetRefresh, Issuing, Establishing, RefreshIsNew, ActiveIsNew
  <2> QED BY <1>d, <2>1, <2>2, RegistersKeepEnds DEF SetRefresh, Establishing
<1>e. CASE Rotate(r)
  <2>1. CASE refresh = req[r].tok /\ Written(r, "setActive", "rotate")
    <3>1. /\ req[r].tok \in delivered /\ refresh # None
          /\ req[r].mint \in SessionId /\ req[r].mint # None /\ req[r].mint \notin delivered
      BY <1>2, <1>e, <2>1, SessionAssumption
         DEF Rotate, TokensWereDelivered, Presenting, Issuing, Establishing, TypeOK
    <3>2. /\ origin'[req[r].mint].root = origin[refresh].root
          /\ \A s \in delivered : origin'[s] = origin[s]
          /\ refresh' = req[r].mint /\ UNCHANGED <<active, delivered, ended>>
      BY <1>e, <2>1, <3>1 DEF Rotate, TypeOK
    <3>3. RefreshIsNew /\ ActiveIsNew
      BY <3>1, <3>2 DEF RefreshIsNew, ActiveIsNew
    <3> QED BY <2>1, <3>2, <3>3, RegistersKeepEnds DEF Establishing
  <2>2. CASE refresh # req[r].tok /\ Finish(r)
    BY <1>3, <1>e, <2>2, RegistersKeepEnds DEF Rotate
  <2> QED BY <1>e, <2>1, <2>2 DEF Rotate
<1>f. CASE SetActive(r)
  <2>1. RefreshIsNew /\ ActiveIsNew
    BY <1>2, <1>f DEF SetActive, Issuing, Establishing, RefreshIsNew, ActiveIsNew
  <2> QED BY <1>f, <2>1, RegistersKeepEnds DEF SetActive, Establishing
<1>g. CASE SetOnline(r)
  <2>1. RefreshIsNew /\ ActiveIsNew
    BY <1>g DEF SetOnline, RefreshIsNew, ActiveIsNew
  <2> QED BY <1>g, <2>1, RegistersKeepEnds DEF SetOnline, Establishing
<1>h. CASE Respond(r)
  <2>1. RefreshIsNew /\ ActiveIsNew
    BY <1>h DEF Respond, RefreshIsNew, ActiveIsNew
  <2> QED BY <1>h, <2>1, RegistersKeepEnds DEF Respond
<1>i. CASE RefreshOnline(r)
  BY <1>3, <1>i, RegistersKeepEnds DEF RefreshOnline, Checking, Revoking
<1>j. CASE WritePassword(r)
  <2>1. CASE Renumbered(r, password + 1)
    <3>1. req'[r].stage = "delActive" /\ OthersKept(r)
      BY <2>1, RenumberedMoves DEF TypeOK
    <3> QED BY <1>3, <1>j, <3>1, RegistersKeepEnds DEF WritePassword
  <2> QED BY <1>3, <1>j, <2>1, RegistersKeepEnds DEF WritePassword, Renumbered
<1>k. CASE DeleteUser(r)
  BY <1>3, <1>k, RegistersKeepEnds DEF DeleteUser, Revoking
<1>l. CASE DelActive(r)
  \* The request itself passes DelActive: its session is not the active one.
  <2>1. active' = None /\ UNCHANGED <<refresh, history>> /\ None \notin delivered
    BY <1>l, SessionAssumption DEF DelActive, TypeOK
  <2>2. /\ req'[r].op = req[r].op /\ req'[r].tok = req[r].tok /\ OthersKept(r)
        /\ req'[r].stage \in {"delActive", "delRefresh"}
    BY <1>l DEF DelActive, Revoking
  <2>3. req[r].op \in Ending => req[r].tok \in delivered
    BY <1>l DEF DelActive, TokensWereDelivered, Presenting, Authenticated, Ending
  <2> QED BY <2>1, <2>2, <2>3, SessionAssumption
          DEF Ends, EndingRemoves, LogoutIsFinal, RefreshChainEnds, OthersKept,
              TokensWereDelivered, Presenting, Authenticated, Ending
<1>m. CASE DelRefresh(r)
  <2>1. refresh' = None /\ UNCHANGED <<active, history>>
    BY <1>m DEF DelRefresh
  <2>2. /\ req'[r].op = req[r].op /\ req'[r].tok = req[r].tok /\ OthersKept(r)
        /\ req'[r].stage \in {"delActive", "delOnline"} /\ req[r].stage = "delRefresh"
    BY <1>m DEF DelRefresh, Revoking
  <2> QED BY <2>1, <2>2
          DEF Ends, EndingRemoves, LogoutIsFinal, RefreshChainEnds, OthersKept
<1>n. CASE DelOnline(r)
  <2>1. AfterRevoke(req[r].op) \in Stage
    OBVIOUS
  <2>2. RefreshIsNew /\ ActiveIsNew
    BY <1>n DEF DelOnline, RefreshIsNew, ActiveIsNew
  <2> QED BY <1>n, <2>1, <2>2, RegistersKeepEnds DEF DelOnline, Revoking
<1>o. CASE SetKicked(r)
  <2>1. req[r].op \notin Ending
    BY <1>o DEF SetKicked, TokensWereDelivered, Ending
  <2> QED BY <1>3, <1>o, <2>1, RegistersKeepEnds DEF SetKicked, Revoked, Revoking
<1>p. CASE BlacklistToken(r)
  BY <1>3, <1>p, RegistersKeepEnds DEF BlacklistToken, Revoked
<1>q. CASE Return(r)
  <2>1. /\ Released(r) /\ UNCHANGED <<active, refresh, delivered, origin>>
        /\ req[r].stage = "return"
        /\ ended' = IF req[r].op \in Ending THEN ended \union {req[r].tok} ELSE ended
    BY <1>q DEF Return, Ending
  <2>2. req[r].op \in Ending =>
          /\ req[r].tok \in delivered /\ active # req[r].tok
          /\ refresh # None => origin[refresh].root # origin[req[r].tok].root
    BY <2>1 DEF TokensWereDelivered, Presenting, Authenticated, Ending, Ends, EndingRemoves
  <2> QED BY <2>1, <2>2
          DEF Ends, EndingRemoves, LogoutIsFinal, RefreshChainEnds, OthersKept
<1>r. CASE Abort(r)
  <2>1. RefreshIsNew /\ ActiveIsNew
    BY <1>r DEF Abort, RefreshIsNew, ActiveIsNew
  <2> QED BY <1>r, <2>1, RegistersKeepEnds DEF Abort
<1> QED BY <1>a, <1>b, <1>c, <1>d, <1>e, <1>f, <1>g, <1>h, <1>i, <1>j, <1>k, <1>l, <1>m,
           <1>n, <1>o, <1>p, <1>q, <1>r DEF Step

-----------------------------------------------------------------------------
(* Rotation: a refresh token that was exchanged is gone from its key.       *)

Exchanges == ExchangedIsSpent /\ OneRotation

\* Writing anything but an already delivered token, and recording no parent,
\* keeps every exchange unique.
LEMMA NewTokenKeepsExchanges ==
    ASSUME TypeOK, Exchanges, delivered \subseteq delivered',
           refresh' = refresh \/ refresh' \notin delivered,
           \A s \in SessionId : origin'[s].parent = origin[s].parent \/ origin'[s].parent = None
    PROVE  Exchanges'
BY DEF Exchanges, ExchangedIsSpent, OneRotation

\* Every step keeps what is known of exchanged tokens.
LEMMA NextKeepsExchanges ==
    ASSUME TypeOK, MintsAreNew, TokensWereDelivered, Exchanges, Next
    PROVE  Exchanges'
<1>1. None \notin delivered
  BY SessionAssumption DEF TypeOK
<1>2. CASE UNCHANGED <<refresh, delivered, origin>>
  BY <1>2 DEF Exchanges, ExchangedIsSpent, OneRotation
<1>3. ASSUME NEW r \in Request, Begin(r)
      PROVE  Exchanges'
  BY <1>2, <1>3 DEF Begin, BeginRegister, BeginLogin, BeginRefresh, BeginAuthenticated,
     BeginAdministrative, keys, history
<1>4. ASSUME NEW r \in Request, Abort(r)
      PROVE  Exchanges'
  BY <1>2, <1>4 DEF Abort, keys
<1>5. ASSUME NEW r \in Request, Step(r)
      PROVE  Exchanges'
  <2>1. CASE CreateUser(r) \/ FindLogin(r)
    <3>1. UNCHANGED <<refresh, delivered>>
      BY <2>1 DEF CreateUser, FindLogin, keys
    <3>2. \A s \in SessionId : origin'[s].parent = origin[s].parent \/ origin'[s].parent = None
      BY <2>1 DEF CreateUser, FindLogin, TypeOK
    <3> QED BY <3>1, <3>2, NewTokenKeepsExchanges
  <2>2. CASE SetRefresh(r)
    <3>1. refresh' = req[r].mint /\ req[r].mint \notin delivered /\ UNCHANGED history
      BY <2>2, SessionAssumption DEF SetRefresh, At, MintsAreNew, Establishing
    <3> QED BY <3>1, NewTokenKeepsExchanges DEF history
  <2>3. CASE Rotate(r) /\ refresh = req[r].tok
    <3>1. /\ req[r].tok \in delivered /\ req[r].tok # None
          /\ req[r].mint \in SessionId /\ req[r].mint \notin delivered
      BY <2>3, <1>1, SessionAssumption
         DEF Rotate, At, TokensWereDelivered, MintsAreNew, Presenting, NoRequest, Establishing
    <3>2. /\ refresh' = req[r].mint /\ delivered' = delivered
          /\ origin'[req[r].mint].parent = req[r].tok
          /\ \A s \in SessionId : s # req[r].mint => origin'[s] = origin[s]
      BY <2>3, <3>1 DEF Rotate, TypeOK
    <3>3. \A s \in SessionId : origin[s].parent # req[r].tok
      BY <2>3, <3>1 DEF Exchanges, ExchangedIsSpent
    <3> QED BY <3>1, <3>2, <3>3 DEF Exchanges, ExchangedIsSpent, OneRotation
  <2>4. CASE Rotate(r) /\ refresh # req[r].tok
    BY <1>2, <2>4 DEF Rotate
  <2>5. CASE Respond(r)
    BY <2>5, NewTokenKeepsExchanges DEF Respond, keys
  <2>6. CASE DelRefresh(r)
    BY <1>1, <2>6, NewTokenKeepsExchanges DEF DelRefresh, history
  <2>7. CASE Unkick(r) \/ SetActive(r) \/ SetOnline(r) \/ RefreshOnline(r) \/ DelActive(r)
             \/ DelOnline(r) \/ SetKicked(r) \/ BlacklistToken(r) \/ Return(r)
    BY <1>2, <2>7 DEF Unkick, SetActive, SetOnline, RefreshOnline, DelActive, DelOnline,
       SetKicked, BlacklistToken, Return, keys, history
  <2>8. CASE FindRefresh(r) \/ CheckUser(r) \/ CheckBlacklist(r) \/ CheckKicked(r)
             \/ CheckActive(r) \/ ReadPassword(r) \/ WritePassword(r) \/ DeleteUser(r)
    BY <1>2, <2>8 DEF FindRefresh, CheckUser, CheckBlacklist, CheckKicked, CheckActive,
       ReadPassword, Check, WritePassword, DeleteUser, keys, history
  <2> QED BY <1>5, <2>1, <2>2, <2>3, <2>4, <2>5, <2>6, <2>7, <2>8 DEF Step
<1>6. CASE Expire
  <2>1. refresh' \in {refresh, None} /\ UNCHANGED <<delivered, origin>>
    BY <1>6 DEF Expire, ActiveExpires, RefreshExpires, OnlineExpires, KickedExpires,
       BlacklistLapses, history
  <2> QED BY <1>1, <2>1, NewTokenKeepsExchanges
<1> QED BY <1>3, <1>4, <1>5, <1>6 DEF Next

-----------------------------------------------------------------------------
(* The online record.                                                       *)

\* A step that leaves the online state alone and does not end a revocation.
LEMMA WitnessKeepsNoGhost ==
    ASSUME NoGhostOnline, NEW r \in Request, OthersKept(r),
           req[r].stage \in Revoking => req'[r].stage \in Revoking,
           UNCHANGED <<online, stray>>,
           active' = active \/ active' # None
    PROVE  NoGhostOnline'
BY DEF NoGhostOnline, OthersKept

\* No step leaves an online record behind unnoticed.
LEMMA NextKeepsNoGhost ==
    ASSUME TypeOK, MintsAreNew, TokensWereDelivered, NoGhostOnline, Next
    PROVE  NoGhostOnline'
<1>1. req \in [Request -> RequestState]
  BY DEF TypeOK
<1> USE <1>1, GotoMoves, FinishReleases, WrittenMoves, CheckMoves, StageNames
    DEF keys, history, At, Moved, Released, Idle, NoRequest
<1>2. ASSUME NEW r \in Request, Begin(r)
      PROVE  NoGhostOnline'
  <2>1. UNCHANGED <<keys, history>> /\ req[r].stage \notin Revoking /\ OthersKept(r)
    BY <1>2 DEF Begin, BeginRegister, BeginLogin, BeginRefresh, BeginAuthenticated,
       BeginAdministrative, Enter, OthersKept, Revoking
  <2> QED BY <2>1, WitnessKeepsNoGhost
<1>3. ASSUME NEW r \in Request, Abort(r)
      PROVE  NoGhostOnline'
  <2>1. /\ UNCHANGED <<active, online>> /\ OthersKept(r)
        /\ stray' = (stray \/ (online /\ req[r].stage \in Revoking))
    BY <1>3 DEF Abort
  <2>2. CASE online /\ req[r].stage \in Revoking
    BY <2>1, <2>2 DEF NoGhostOnline
  <2>3. CASE ~(online /\ req[r].stage \in Revoking)
    BY <2>1, <2>3 DEF NoGhostOnline, OthersKept
  <2> QED BY <2>2, <2>3
<1>4. ASSUME NEW r \in Request, Step(r)
      PROVE  NoGhostOnline'
  <2>a. CASE CreateUser(r)
    BY <2>a, WitnessKeepsNoGhost DEF CreateUser, Revoking, Establishing
  <2>b. CASE FindLogin(r) \/ Unkick(r)
    BY <2>b, WitnessKeepsNoGhost DEF FindLogin, Unkick, Revoking, Establishing
  <2>c. CASE SetRefresh(r)
    BY <2>c, WitnessKeepsNoGhost DEF SetRefresh, Revoking, Establishing
  <2>d. CASE Rotate(r)
    BY <2>d, WitnessKeepsNoGhost DEF Rotate, Revoking, Establishing
  <2>e. CASE SetActive(r)
    <3>1. active' # None
      BY <2>e, SessionAssumption DEF SetActive, MintsAreNew, Establishing
    <3> QED BY <2>e, <3>1, WitnessKeepsNoGhost DEF SetActive, Revoking, Establishing
  <2>f. CASE SetOnline(r)
    BY <2>f DEF SetOnline, NoGhostOnline
  <2>g. CASE Respond(r) \/ Return(r)
    BY <2>g, WitnessKeepsNoGhost DEF Respond, Return, Revoking
  <2>h. CASE FindRefresh(r) \/ CheckUser(r) \/ CheckBlacklist(r) \/ CheckKicked(r)
             \/ CheckActive(r) \/ ReadPassword(r)
    BY <2>h, WitnessKeepsNoGhost DEF FindRefresh, CheckUser, CheckBlacklist, CheckKicked,
       CheckActive, ReadPassword, Checking, Establishing, Revoking
  <2>i. CASE RefreshOnline(r)
    \* The Lua script writes only while the presented session is active.
    <3>1. req[r].tok \in delivered /\ req[r].tok # None
      BY <2>i, SessionAssumption
         DEF RefreshOnline, TokensWereDelivered, Presenting, Authenticated, TypeOK
    <3>2. /\ UNCHANGED <<active, stray>> /\ OthersKept(r) /\ req[r].stage = "refreshOnline"
          /\ online' = online \/ online' = (online \/ active = req[r].tok)
      BY <2>i DEF RefreshOnline, Checking, Revoking
    <3> QED BY <3>1, <3>2 DEF NoGhostOnline, OthersKept, Revoking
  <2>j. CASE WritePassword(r)
    <3>1. CASE Renumbered(r, password + 1)
      <4>1. OthersKept(r)
        BY <3>1, RenumberedMoves DEF TypeOK
      <4> QED BY <2>j, <4>1, WitnessKeepsNoGhost DEF WritePassword, Revoking
    <3> QED BY <2>j, <3>1, WitnessKeepsNoGhost DEF WritePassword, Renumbered, Revoking
  <2>k. CASE DeleteUser(r)
    BY <2>k, WitnessKeepsNoGhost DEF DeleteUser, Revoking
  <2>l. CASE DelActive(r) \/ DelRefresh(r)
    <3>1. req'[r].stage \in Revoking
      BY <2>l DEF DelActive, DelRefresh, Revoking
    <3> QED BY <3>1 DEF NoGhostOnline
  <2>m. CASE DelOnline(r)
    BY <2>m DEF DelOnline, NoGhostOnline
  <2>n. CASE SetKicked(r) \/ BlacklistToken(r)
    BY <2>n, WitnessKeepsNoGhost DEF SetKicked, BlacklistToken, Revoked, Revoking
  <2> QED BY <1>4, <2>a, <2>b, <2>c, <2>d, <2>e, <2>f, <2>g, <2>h, <2>i, <2>j, <2>k, <2>l,
             <2>m, <2>n DEF Step
<1>5. CASE Expire
  BY <1>5 DEF Expire, ActiveExpires, RefreshExpires, OnlineExpires, KickedExpires,
     BlacklistLapses, NoGhostOnline
<1> QED BY <1>2, <1>3, <1>4, <1>5 DEF Next

-----------------------------------------------------------------------------
(* The invariant is inductive.                                              *)

\* Its parts are kept together.
LEMMA StepInv == SessionInv /\ [Next]_vars => SessionInv'
<1> SUFFICES ASSUME SessionInv, [Next]_vars PROVE SessionInv'
  OBVIOUS
<1> USE DEF SessionInv
<1>1. Ends
  BY DEF Ends
<1>2. ASSUME NEW r \in Request, Begin(r)
      PROVE  TypeOK' /\ MintsAreNew' /\ TokensWereDelivered' /\ ChainsStartDelivered' /\ Ends'
  BY <1>1, <1>2, BeginTyped, BeginKeepsRequests, NextKeepsChains, BeginKeepsEnds
<1>3. ASSUME NEW r \in Request, Step(r)
      PROVE  TypeOK' /\ MintsAreNew' /\ TokensWereDelivered' /\ ChainsStartDelivered' /\ Ends'
  BY <1>1, <1>3, StepTyped, StepKeepsRequests, NextKeepsChains, StepKeepsEnds
<1>4. ASSUME NEW r \in Request, Abort(r)
      PROVE  TypeOK' /\ MintsAreNew' /\ TokensWereDelivered' /\ ChainsStartDelivered' /\ Ends'
  <2>1. MintsAreNew' /\ TokensWereDelivered'
    BY <1>4, FinishReleases, ReleasingKeepsRequests DEF Abort, TypeOK
  <2> QED BY <1>1, <1>4, <2>1, AbortTyped, NextKeepsChains, StepKeepsEnds
<1>5. ASSUME Expire
      PROVE  TypeOK' /\ MintsAreNew' /\ TokensWereDelivered' /\ ChainsStartDelivered' /\ Ends'
  <2>1. /\ UNCHANGED <<req, delivered, origin, ended>>
        /\ active' \in {active, None} /\ refresh' \in {refresh, None}
    BY <1>5 DEF Expire, ActiveExpires, RefreshExpires, OnlineExpires, KickedExpires,
       BlacklistLapses, history
  <2>2. MintsAreNew' /\ TokensWereDelivered' /\ ChainsStartDelivered'
    BY <2>1 DEF MintsAreNew, TokensWereDelivered, ChainsStartDelivered, At
  <2>3. None \notin delivered
    BY SessionAssumption DEF TypeOK
  <2>4. LogoutIsFinal' /\ RefreshChainEnds'
    BY <2>1, <2>3 DEF LogoutIsFinal, RefreshChainEnds, EndingRemoves
  <2>5. EndingRemoves'
    <3>1. \A r \in Request : req[r].op \in Ending /\ req[r].stage \in PastActive =>
             req[r].tok # None
      BY <2>3 DEF TokensWereDelivered, Presenting, Authenticated, Ending, At, NoRequest,
         PastActive
    <3> QED BY <2>1, <3>1 DEF EndingRemoves, PastActive
  <2> QED BY <1>5, <2>2, <2>4, <2>5, ExpireTyped DEF Ends
<1>6. CASE Next
  <2>1. TypeOK' /\ MintsAreNew' /\ TokensWereDelivered' /\ ChainsStartDelivered' /\ Ends'
    BY <1>2, <1>3, <1>4, <1>5, <1>6 DEF Next
  <2>2. Exchanges' /\ NoGhostOnline'
    BY <1>6, NextKeepsExchanges, NextKeepsNoGhost DEF Exchanges
  <2> QED BY <2>1, <2>2 DEF Ends, Exchanges
<1>7. CASE UNCHANGED vars
  <2>1. TypeOK' /\ MintsAreNew' /\ TokensWereDelivered' /\ ChainsStartDelivered'
    BY <1>7 DEF vars, row, keys, history, TypeOK, MintsAreNew, TokensWereDelivered,
       ChainsStartDelivered, At
  <2>2. EndingRemoves' /\ LogoutIsFinal' /\ RefreshChainEnds'
    BY <1>7 DEF vars, keys, history, EndingRemoves, LogoutIsFinal, RefreshChainEnds
  <2>3. ExchangedIsSpent' /\ OneRotation' /\ NoGhostOnline'
    BY <1>7 DEF vars, keys, history, ExchangedIsSpent, OneRotation, NoGhostOnline
  <2> QED BY <2>1, <2>2, <2>3
<1> QED BY <1>6, <1>7

-----------------------------------------------------------------------------
(* Theorems.                                                                *)

\* Every state of the session store satisfies the inductive invariant.
THEOREM SessionInvariant == Spec => []SessionInv
<1> QED BY InitInv, StepInv, PTL DEF Spec

\* The keys, the row, the requests and the histories keep their types.
THEOREM TypeCorrect == Spec => []TypeOK
<1>1. SessionInv => TypeOK
  BY DEF SessionInv
<1> QED BY <1>1, SessionInvariant, PTL

\* rotateRefresh: no refresh token is ever exchanged for two sessions.
THEOREM RotatesOnce == Spec => []OneRotation
<1>1. SessionInv => OneRotation
  BY DEF SessionInv
<1> QED BY <1>1, SessionInvariant, PTL

\* revokeUserSessions: after its logout or password change has returned, a
\* session is not active again.
THEOREM LogoutHolds == Spec => []LogoutIsFinal
<1>1. SessionInv => LogoutIsFinal
  BY DEF SessionInv
<1> QED BY <1>1, SessionInvariant, PTL

\* ... and no session of its chain can be renewed any more.
THEOREM ChainsEnd == Spec => []RefreshChainEnds
<1>1. SessionInv => RefreshChainEnds
  BY DEF SessionInv
<1> QED BY <1>1, SessionInvariant, PTL

\* refreshOnline: neither it nor a finished revocation leaves an online
\* record without a session.
THEOREM NoGhosts == Spec => []NoGhostOnline
<1>1. SessionInv => NoGhostOnline
  BY DEF SessionInv
<1> QED BY <1>1, SessionInvariant, PTL

\* The store starts as an empty register.
LEMMA RegisterInit == Init => Register!Init
BY SessionAssumption DEF Init, Register!Init

\* Every command is a step of the register or invisible to it.
LEMMA RegisterStep == SessionInv /\ [Next]_vars => [Register!Next]_Register!vars
<1> SUFFICES ASSUME SessionInv, [Next]_vars PROVE [Register!Next]_Register!vars
  OBVIOUS
<1>1. TypeOK /\ MintsAreNew /\ None \notin delivered
  BY SessionAssumption DEF SessionInv, TypeOK
<1>2. ASSUME delivered' = delivered,
             active' = active \/ active' \notin delivered,
             refresh' = refresh \/ refresh' \notin delivered
      PROVE  [Register!Next]_Register!vars
  BY <1>1, <1>2 DEF Register!Next, Register!Withdraw, Register!vars
<1>3. ASSUME NEW r \in Request, Respond(r)
      PROVE  Register!Next
  <2>1. /\ req[r].mint \in SessionId \ delivered
        /\ delivered' = delivered \union {req[r].mint} /\ UNCHANGED <<active, refresh>>
    BY <1>1, <1>3, SessionAssumption DEF Respond, At, MintsAreNew, Establishing, keys
  <2>2. Register!Open(req[r].mint)
    BY <2>1 DEF Register!Open
  <2> QED BY <2>1, <2>2 DEF Register!Next
<1>4. ASSUME NEW r \in Request, Step(r), ~Respond(r)
      PROVE  [Register!Next]_Register!vars
  <2>1. delivered' = delivered
    BY <1>4 DEF Step, CreateUser, FindLogin, Unkick, FindRefresh, SetRefresh, Rotate, SetActive,
       SetOnline, CheckUser, CheckBlacklist, CheckKicked, CheckActive, RefreshOnline,
       ReadPassword, Check, WritePassword, DeleteUser, DelActive, DelRefresh, DelOnline,
       SetKicked, BlacklistToken, Return, history
  <2>2. CASE SetRefresh(r) \/ Rotate(r) \/ SetActive(r)
    <3>1. req[r].mint \notin delivered
      BY <1>1, <2>2, SessionAssumption
         DEF SetRefresh, Rotate, SetActive, At, MintsAreNew, Establishing
    <3> QED BY <1>2, <2>1, <2>2, <3>1 DEF SetRefresh, Rotate, SetActive
  <2>3. CASE DelActive(r) \/ DelRefresh(r)
    BY <1>1, <1>2, <2>1, <2>3 DEF DelActive, DelRefresh
  <2>4. CASE ~(SetRefresh(r) \/ Rotate(r) \/ SetActive(r) \/ DelActive(r) \/ DelRefresh(r))
    <3>1. UNCHANGED <<active, refresh>>
      BY <1>4, <2>4 DEF Step, CreateUser, FindLogin, Unkick, FindRefresh, SetOnline, CheckUser,
         CheckBlacklist, CheckKicked, CheckActive, RefreshOnline, ReadPassword, Check,
         WritePassword, DeleteUser, DelOnline, SetKicked, BlacklistToken, Return, keys
    <3> QED BY <1>2, <2>1, <3>1
  <2> QED BY <2>2, <2>3, <2>4
<1>5. ASSUME NEW r \in Request, Begin(r) \/ Abort(r)
      PROVE  [Register!Next]_Register!vars
  BY <1>2, <1>5 DEF Begin, BeginRegister, BeginLogin, BeginRefresh, BeginAuthenticated,
     BeginAdministrative, Abort, keys, history
<1>6. CASE Expire
  BY <1>1, <1>2, <1>6 DEF Expire, ActiveExpires, RefreshExpires, OnlineExpires, KickedExpires,
     BlacklistLapses, history
<1>7. CASE UNCHANGED vars
  BY <1>2, <1>7 DEF vars, keys, history
<1> QED BY <1>3, <1>4, <1>5, <1>6, <1>7 DEF Next

\* AuthService and SessionService implement the register: a right that a
\* session handed to a client has lost never comes back.
THEOREM SessionImplementsRegister == Spec => ImplementsRegister
<1> QED BY RegisterInit, RegisterStep, SessionInvariant, PTL
         DEF Spec, ImplementsRegister, Register!Spec
=============================================================================
