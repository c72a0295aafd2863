--------------------------- MODULE WebClientProofs ---------------------------
(***************************************************************************)
(* What WebClient guarantees for any number of tabs, calls and cookie      *)
(* pairs, and Tabs for any pages.                                          *)
(***************************************************************************)
EXTENDS WebClient, Tabs, FiniteSetTheorems, SequenceTheorems, DataInduction, TLAPS

\* One call of one tab changes.
OneCall(t, c, k) ==
    /\ call' \in [Tab -> [Call -> CallState]]
    /\ call'[t][c] = k
    /\ \A u \in Tab, d \in Call : <<u, d>> # <<t, c>> => call'[u][d] = call[u][d]

\* The calls of one tab change.
OneTab(t, f) ==
    /\ call' \in [Tab -> [Call -> CallState]]
    /\ call'[t] = f
    /\ \A u \in Tab : u # t => call'[u] = call[u]

\* A step of one call leaves all others alone.
LEMMA SetCall ==
  ASSUME TypeOK, NEW t \in Tab, NEW c \in Call, NEW k \in CallState,
         call' = [call EXCEPT ![t][c] = k]
  PROVE  OneCall(t, c, k)
BY DEF TypeOK, OneCall

\* A step of one tab leaves the others alone.
LEMMA SetCalls ==
  ASSUME TypeOK, NEW t \in Tab, NEW f \in [Call -> CallState],
         call' = [call EXCEPT ![t] = f]
  PROVE  OneTab(t, f)
BY DEF TypeOK, OneTab

\* The records of the model have their types.
LEMMA TabTypes ==
  ASSUME TypeOK, NEW t \in Tab
  PROVE  /\ NoCall \in CallState
         /\ jar \in Generation /\ issued \in Generation
         /\ refresh[t] \in RefreshState /\ refresh[t].token \in Generation
         /\ presented[t] \in SUBSET Generation
BY WebClientAssumption DEF TypeOK, CallState, RefreshState, NoCall, Kind, Answer, Generation

LEMMA CallTypes ==
  ASSUME TypeOK, NEW t \in Tab, NEW c \in Call
  PROVE  /\ call[t][c] \in CallState
         /\ NoCall \in CallState
         /\ jar \in Generation /\ issued \in Generation
         /\ refresh[t] \in RefreshState /\ refresh[t].token \in Generation
         /\ call[t][c].token \in Generation /\ call[t][c].refused \in Generation
         /\ call[t][c].phase \in {"idle", "sent", "answered", "waiting"}
         /\ call[t][c].kind \in Kind /\ call[t][c].answer \in Answer
         /\ call[t][c].retried \in BOOLEAN
BY WebClientAssumption DEF TypeOK, CallState, RefreshState, NoCall, Kind, Answer, Generation

\* Sets of calls can be counted.
LEMMA Finite ==
  ASSUME NEW S \in SUBSET Call
  PROVE  IsFiniteSet(S) /\ Cardinality(S) \in Nat
BY WebClientAssumption, FS_Subset, FS_CardinalityType

\* done() keeps the types of the bar.
LEMMA BarTypes ==
  ASSUME TypeOK, NEW t \in Tab, NEW n \in Nat, BarDone(t, n)
  PROVE  /\ active' \in [Tab -> Nat]
         /\ bar' \in [Tab -> {"hidden", "shown", "hiding"}]
BY DEF BarDone, TypeOK

LEMMA ExpiredTypes ==
  ASSUME TypeOK, NEW t \in Tab, NEW a \in BOOLEAN, NEW b \in BOOLEAN, SessionExpired(t, a, b)
  PROVE  /\ redirecting' \in [Tab -> BOOLEAN] /\ authed' \in [Tab -> BOOLEAN]
         /\ stored' \in BOOLEAN
         /\ \A u \in Tab : redirecting[u] => redirecting'[u]
         /\ a => redirecting'[t]
BY DEF SessionExpired, SetAuth, TypeOK

-----------------------------------------------------------------------------
(* The types.                                                               *)

LEMMA InitTypes == Init => TypeOK
<1> SUFFICES ASSUME Init PROVE TypeOK
  OBVIOUS
<1>1. NoCall \in CallState /\ NoRefresh \in RefreshState
  BY WebClientAssumption DEF NoCall, CallState, NoRefresh, RefreshState, Kind, Answer, Generation
<1>2. {0, 1} \subseteq Generation
  BY WebClientAssumption DEF Generation
<1> QED BY <1>1, <1>2 DEF Init, TypeOK

LEMMA ServeCallTypes ==
  ASSUME TypeOK, NEW t \in Tab, NEW c \in Call, ServeCall(t, c)
  PROVE  TypeOK' /\ \E answer \in Answer, token \in {call[t][c].token, issued'} :
           /\ OneCall(t, c, [call[t][c] EXCEPT !.phase = "answered", !.answer = answer,
                                               !.token = token])
           /\ call[t][c].phase = "sent"
           /\ \/ token = call[t][c].token /\ issued' = issued
                   /\ (call[t][c].kind = "login" => answer # "ok")
              \/ token = issued' /\ issued' = issued + 1
<1> DEFINE k(answer, token) == [call[t][c] EXCEPT !.phase = "answered", !.answer = answer,
                                                  !.token = token]
<1>1. \A answer \in Answer, token \in Generation : k(answer, token) \in CallState
  BY CallTypes DEF CallState
<1> DEFINE Served(answer, token) ==
        /\ call' = [call EXCEPT ![t][c] = k(answer, token)]
        /\ \/ token = call[t][c].token /\ issued' = issued
                /\ (call[t][c].kind = "login" => answer # "ok")
           \/ token = issued' /\ issued' = issued + 1
<1> DEFINE Typed == session' \in Generation /\ fresh' \in BOOLEAN /\ issued' \in Generation
<1>a. /\ session \in Generation /\ fresh \in BOOLEAN /\ issued \in Generation /\ 0 \in Generation
      /\ call[t][c].kind \in {"data", "login", "logout"}
  BY CallTypes, WebClientAssumption DEF TypeOK, Generation, Kind
<1>b. ASSUME NEW answer \in Answer, NEW token, Answered(t, c, answer, token)
      PROVE  call' = [call EXCEPT ![t][c] = k(answer, token)]
  BY <1>b DEF Answered
<1>c. /\ "ok" \in Answer /\ "refused" \in Answer
  BY DEF Answer
<1>2. Typed /\ \E answer \in Answer, token \in {call[t][c].token, issued'} : Served(answer, token)
  <2> HIDE DEF k
  <2>1. CASE call[t][c].kind = "data"
    <3>1. UNCHANGED server /\ \E answer \in {"ok", "refused"} : Answered(t, c, answer, call[t][c].token)
      BY <2>1 DEF ServeCall
    <3> QED BY <1>a, <1>b, <1>c, <2>1, <3>1 DEF server
  <2>2. CASE call[t][c].kind = "logout"
    <3>1. /\ session' \in {0, session} /\ UNCHANGED <<fresh, issued>>
          /\ \E answer \in {"ok", "refused"} : Answered(t, c, answer, call[t][c].token)
      BY <2>2 DEF ServeCall, server
    <3> QED BY <1>a, <1>b, <1>c, <2>2, <3>1
  <2>3. CASE call[t][c].kind = "login"
    <3>1. \/ Issue /\ Answered(t, c, "ok", issued')
          \/ Answered(t, c, "refused", call[t][c].token) /\ UNCHANGED server
      BY <2>3 DEF ServeCall
    <3>2. CASE Issue /\ Answered(t, c, "ok", issued')
      <4>1. Typed /\ issued' = issued + 1
        BY <1>a, <3>2, WebClientAssumption DEF Issue, Generation
      <4> QED BY <1>b, <1>c, <3>2, <4>1
    <3>3. CASE Answered(t, c, "refused", call[t][c].token) /\ UNCHANGED server
      BY <1>a, <1>b, <1>c, <2>3, <3>3 DEF server
    <3> QED BY <3>1, <3>2, <3>3
  <2> QED BY <1>a, <2>1, <2>2, <2>3
<1>3. session' \in Generation /\ fresh' \in BOOLEAN /\ issued' \in Generation
  BY <1>2
<1>4. PICK answer \in Answer, token \in {call[t][c].token, issued'} :
        /\ call' = [call EXCEPT ![t][c] = k(answer, token)]
        /\ \/ token = call[t][c].token /\ issued' = issued
                /\ (call[t][c].kind = "login" => answer # "ok")
           \/ token = issued' /\ issued' = issued + 1
  BY <1>2
<1>5. k(answer, token) \in CallState
  BY <1>1, <1>3, CallTypes
<1>6. OneCall(t, c, k(answer, token))
  BY <1>4, <1>5, SetCall
<1>7. TypeOK'
  BY <1>3, <1>6 DEF ServeCall, OneCall, TypeOK, browser
<1> QED BY <1>4, <1>6, <1>7 DEF ServeCall

LEMMA StartCallTypes ==
  ASSUME TypeOK, NEW t \in Tab, NEW c \in Call, StartCall(t, c)
  PROVE  TypeOK' /\ \E kind \in Kind :
           OneCall(t, c, [NoCall EXCEPT !.phase = "sent", !.kind = kind, !.token = jar])
<1>1. PICK kind \in Kind :
        call' = [call EXCEPT ![t][c] = [NoCall EXCEPT !.phase = "sent", !.kind = kind, !.token = jar]]
  BY DEF StartCall
<1>2. [NoCall EXCEPT !.phase = "sent", !.kind = kind, !.token = jar] \in CallState
  BY CallTypes DEF CallState
<1>3. OneCall(t, c, [NoCall EXCEPT !.phase = "sent", !.kind = kind, !.token = jar])
  BY <1>1, <1>2, SetCall
<1>4. active' \in [Tab -> Nat] /\ bar' \in [Tab -> {"hidden", "shown", "hiding"}]
  BY DEF StartCall, BarStart, TypeOK
<1> QED BY <1>3, <1>4 DEF StartCall, OneCall, TypeOK, server, browser

\* A call fails, or is refused although its cookies are good.
LEMMA FailedCallTypes ==
  ASSUME TypeOK, NEW t \in Tab, NEW c \in Call, LoseCall(t, c) \/ CannotDecrypt(t, c)
  PROVE  /\ TypeOK'
         /\ call[t][c].phase \in {"sent", "answered"}
         /\ UNCHANGED <<jar, issued, refresh, presented, redirecting, active, bar>>
         /\ \E answer \in {"refused", "failed"} :
              OneCall(t, c, [call[t][c] EXCEPT !.phase = "answered", !.answer = answer,
                                               !.token = call[t][c].token])
<1>1. PICK answer \in {"refused", "failed"} :
        call' = [call EXCEPT ![t][c] = [call[t][c] EXCEPT !.phase = "answered", !.answer = answer,
                                                          !.token = call[t][c].token]]
  BY DEF LoseCall, CannotDecrypt, Answered
<1>2. [call[t][c] EXCEPT !.phase = "answered", !.answer = answer, !.token = call[t][c].token]
        \in CallState
  BY CallTypes DEF CallState, Answer
<1>3. OneCall(t, c, [call[t][c] EXCEPT !.phase = "answered", !.answer = answer,
                                       !.token = call[t][c].token])
  BY <1>1, <1>2, SetCall
<1>4. /\ call[t][c].phase \in {"sent", "answered"}
      /\ crossed' = TRUE
      /\ UNCHANGED <<server, browser, authed, redirecting, refresh, active, bar, presented>>
  BY DEF LoseCall, CannotDecrypt
<1> QED BY <1>3, <1>4 DEF OneCall, TypeOK, server, browser

\* A renewal is answered: refused or lost with the cookies it went out with, or
\* with a new pair, unless it had none.
LEMMA RefreshTypes ==
  ASSUME TypeOK, NEW t \in Tab, ServeRefresh(t) \/ LoseRefresh(t)
  PROVE  /\ TypeOK'
         /\ refresh[t].phase # "none" /\ refresh'[t].phase = "answered"
         /\ \A u \in Tab : u # t => refresh'[u] = refresh[u]
         /\ UNCHANGED <<call, jar, redirecting, active, bar, presented>>
         /\ \/ /\ refresh'[t].token = refresh[t].token /\ refresh'[t].answer # "ok"
               /\ issued' = issued
            \/ /\ refresh'[t].token = issued' /\ issued' = issued + 1
               /\ refresh[t].token # 0 /\ refresh[t].phase = "sent"
<1>1. CASE ServeRefresh(t) /\ Accepted(refresh[t].token) /\ Issue /\ RefreshAnswered(t, "ok", issued')
  <2>1. issued' \in Generation /\ session' \in Generation /\ fresh' \in BOOLEAN /\ issued' = issued + 1
    BY <1>1, TabTypes, WebClientAssumption DEF Issue, Generation
  <2>2. [phase |-> "answered", answer |-> "ok", token |-> issued'] \in RefreshState
    BY <2>1 DEF RefreshState, Answer
  <2>3. /\ refresh' = [refresh EXCEPT ![t] = [phase |-> "answered", answer |-> "ok", token |-> issued']]
        /\ refresh[t].phase = "sent" /\ refresh[t].token # 0
        /\ UNCHANGED <<browser, authed, redirecting, call, active, bar, presented, crossed>>
    BY <1>1 DEF ServeRefresh, RefreshAnswered, Accepted
  <2> QED BY <2>1, <2>2, <2>3 DEF TypeOK, browser
<1>2. CASE \E answer \in {"refused", "failed"} :
             /\ RefreshAnswered(t, answer, refresh[t].token)
             /\ refresh[t].phase # "none"
             /\ UNCHANGED <<server, browser, authed, redirecting, call, active, bar, presented>>
             /\ crossed' \in BOOLEAN
  <2>1. PICK answer \in {"refused", "failed"} :
          refresh' = [refresh EXCEPT ![t] = [phase |-> "answered", answer |-> answer,
                                             token |-> refresh[t].token]]
    BY <1>2 DEF RefreshAnswered
  <2>2. [phase |-> "answered", answer |-> answer, token |-> refresh[t].token] \in RefreshState
    BY CallTypes DEF RefreshState, Answer, TypeOK, Generation
  <2> QED BY <1>2, <2>1, <2>2 DEF TypeOK, server, browser
<1>3. CASE LoseRefresh(t)
  BY <1>2, <1>3 DEF LoseRefresh
<1>4. CASE ServeRefresh(t) /\ ~Accepted(refresh[t].token)
  BY <1>2, <1>4 DEF ServeRefresh, TypeOK
<1> QED BY <1>1, <1>3, <1>4 DEF ServeRefresh

LEMMA AnswerOkTypes ==
  ASSUME TypeOK, NEW t \in Tab, NEW c \in Call, AnswerOk(t, c)
  PROVE  /\ TypeOK' /\ OneCall(t, c, NoCall)
         /\ jar' \in {jar, 0} \/ (LoggingIn(t, c) /\ jar' = call[t][c].token)
<1>1. call' = [call EXCEPT ![t][c] = NoCall] /\ BarDone(t, 1)
  BY DEF AnswerOk
<1>2. OneCall(t, c, NoCall)
  BY <1>1, CallTypes, SetCall
<1>3. active' \in [Tab -> Nat] /\ bar' \in [Tab -> {"hidden", "shown", "hiding"}]
  BY <1>1, BarTypes
<1>4. /\ jar' \in {jar, 0} \/ (LoggingIn(t, c) /\ jar' = call[t][c].token)
      /\ authed' \in [Tab -> BOOLEAN] /\ stored' \in BOOLEAN
  BY CallTypes DEF AnswerOk, SetAuth, LoggingIn, TypeOK, Kind
<1>5. jar' \in Generation
  BY <1>4, CallTypes, WebClientAssumption DEF Generation
<1> QED BY <1>2, <1>3, <1>4, <1>5 DEF AnswerOk, OneCall, TypeOK, server

LEMMA AwaitRenewalTypes ==
  ASSUME TypeOK, NEW t \in Tab, NEW c \in Call, AwaitRenewal(t, c)
  PROVE  /\ TypeOK'
         /\ OneCall(t, c, [call[t][c] EXCEPT !.phase = "waiting", !.refused = call[t][c].token,
                                              !.retried = TRUE])
         /\ \/ refresh[t].phase # "none" /\ UNCHANGED <<refresh, presented>>
            \/ /\ refresh[t].phase = "none"
               /\ refresh' = [refresh EXCEPT ![t] =
                                [phase |-> "sent", token |-> jar, answer |-> "failed"]]
               /\ presented' = [presented EXCEPT ![t] = @ \union {jar}]
<1>1. call' = [call EXCEPT ![t][c] = [call[t][c] EXCEPT !.phase = "waiting",
                                        !.refused = call[t][c].token, !.retried = TRUE]]
  BY DEF AwaitRenewal
<1>2. [call[t][c] EXCEPT !.phase = "waiting", !.refused = call[t][c].token, !.retried = TRUE] \in CallState
  BY CallTypes DEF CallState
<1>3. OneCall(t, c, [call[t][c] EXCEPT !.phase = "waiting", !.refused = call[t][c].token, !.retried = TRUE])
  BY <1>1, <1>2, SetCall
<1>4. \/ refresh[t].phase # "none" /\ UNCHANGED <<refresh, presented, crossed>>
      \/ /\ refresh[t].phase = "none"
         /\ refresh' = [refresh EXCEPT ![t] = [phase |-> "sent", token |-> jar, answer |-> "failed"]]
         /\ presented' = [presented EXCEPT ![t] = @ \union {jar}]
         /\ crossed' \in BOOLEAN
  BY DEF AwaitRenewal, TypeOK
<1>5. [phase |-> "sent", token |-> jar, answer |-> "failed"] \in RefreshState
  BY CallTypes DEF RefreshState, Answer
<1>6. /\ refresh' \in [Tab -> RefreshState] /\ presented' \in [Tab -> SUBSET Generation]
      /\ crossed' \in BOOLEAN
  <2>1. jar \in Generation /\ refresh \in [Tab -> RefreshState] /\ crossed \in BOOLEAN
        /\ presented \in [Tab -> SUBSET Generation]
    BY DEF TypeOK
  <2>2. refresh' \in [Tab -> RefreshState]
    BY <1>4, <1>5, <2>1
  <2>3. presented' \in [Tab -> SUBSET Generation]
    <3>1. presented[t] \union {jar} \in SUBSET Generation
      BY <2>1
    <3> QED BY <1>4, <2>1, <3>1
  <2>4. crossed' \in BOOLEAN
    BY <1>4, <2>1
  <2> QED BY <2>2, <2>3, <2>4
<1> QED BY <1>3, <1>4, <1>6 DEF AwaitRenewal, OneCall, TypeOK, server, browser

LEMMA AnswerErrorTypes ==
  ASSUME TypeOK, NEW t \in Tab, NEW c \in Call, AnswerError(t, c)
  PROVE  /\ TypeOK' /\ OneCall(t, c, NoCall)
         /\ \A u \in Tab : redirecting[u] => redirecting'[u]
<1>1. /\ call' = [call EXCEPT ![t][c] = NoCall]
      /\ BarDone(t, IF call[t][c].retried THEN 2 ELSE 1)
      /\ \E a, b \in BOOLEAN : SessionExpired(t, a, b)
  BY CallTypes DEF AnswerError, TypeOK
<1>2. OneCall(t, c, NoCall)
  BY <1>1, CallTypes, SetCall
<1>3. active' \in [Tab -> Nat] /\ bar' \in [Tab -> {"hidden", "shown", "hiding"}]
  BY <1>1, BarTypes
<1> QED BY <1>1, <1>2, <1>3, ExpiredTypes DEF AnswerError, OneCall, TypeOK, server

LEMMA RenewedTypes ==
  ASSUME TypeOK, NEW t \in Tab, Renewed(t)
  PROVE  /\ TypeOK'
         /\ OneTab(t, [c \in Call |->
                         IF c \in Waiting(t)
                         THEN [call[t][c] EXCEPT !.phase = "sent", !.token = refresh[t].token,
                                                 !.answer = "failed"]
                         ELSE call[t][c]])
         /\ refresh' = [refresh EXCEPT ![t] = NoRefresh]
<1> DEFINE f == [c \in Call |->
                   IF c \in Waiting(t)
                   THEN [call[t][c] EXCEPT !.phase = "sent", !.token = refresh[t].token,
                                           !.answer = "failed"]
                   ELSE call[t][c]]
<1>1. call' = [call EXCEPT ![t] = f] /\ refresh' = [refresh EXCEPT ![t] = NoRefresh]
      /\ jar' = refresh[t].token
  BY DEF Renewed
<1>2. f \in [Call -> CallState]
  <2>1. \A c \in Call : [call[t][c] EXCEPT !.phase = "sent", !.token = refresh[t].token,
                                            !.answer = "failed"] \in CallState
    BY CallTypes DEF CallState, Answer
  <2> QED BY <2>1, CallTypes
<1>3. OneTab(t, f)
  BY <1>1, <1>2, SetCalls
<1>4. NoRefresh \in RefreshState
  BY WebClientAssumption DEF NoRefresh, RefreshState, Answer, Generation
<1>5. refresh' \in [Tab -> RefreshState] /\ jar' \in Generation
  BY <1>1, <1>4, TabTypes DEF TypeOK
<1> QED BY <1>1, <1>3, <1>5 DEF Renewed, OneTab, TypeOK, server

LEMMA RenewedCalls ==
  ASSUME TypeOK, NEW t \in Tab, Renewed(t)
  PROVE  /\ \A u \in Tab : u # t => call'[u] = call[u]
         /\ \A d \in Call : d \notin Waiting(t) => call'[t][d] = call[t][d]
         /\ \A d \in Waiting(t) :
               /\ call'[t][d].phase = "sent" /\ call'[t][d].token = refresh[t].token
               /\ call'[t][d].refused = call[t][d].refused
<1> DEFINE sent(d) == [call[t][d] EXCEPT !.phase = "sent", !.token = refresh[t].token,
                                         !.answer = "failed"]
<1>1. \A d \in Call : call'[t][d] = IF d \in Waiting(t) THEN sent(d) ELSE call[t][d]
  BY RenewedTypes DEF OneTab
<1>2. \A d \in Call : /\ sent(d).phase = "sent" /\ sent(d).token = refresh[t].token
                       /\ sent(d).refused = call[t][d].refused
  BY CallTypes DEF CallState
<1>3. \A u \in Tab : u # t => call'[u] = call[u]
  BY RenewedTypes DEF OneTab
<1>4. Waiting(t) \subseteq Call
  BY DEF Waiting
<1> HIDE DEF sent
<1> QED BY <1>1, <1>2, <1>3, <1>4

LEMMA ServedCalls ==
  ASSUME TypeOK, NEW t \in Tab, NEW c \in Call,
         ServeCall(t, c) \/ LoseCall(t, c) \/ CannotDecrypt(t, c)
  PROVE  /\ call[t][c].phase \in {"sent", "answered"}
         /\ issued' = issued \/ issued' = issued + 1
         /\ \E answer \in Answer, token \in {call[t][c].token, issued + 1} :
              OneCall(t, c, [call[t][c] EXCEPT !.phase = "answered", !.answer = answer,
                                               !.token = token])
<1>1. CASE ServeCall(t, c)
  BY <1>1, ServeCallTypes
<1>2. CASE LoseCall(t, c) \/ CannotDecrypt(t, c)
  <2>1. /\ call[t][c].phase \in {"sent", "answered"} /\ issued' = issued
        /\ \E answer \in {"refused", "failed"} :
             OneCall(t, c, [call[t][c] EXCEPT !.phase = "answered", !.answer = answer,
                                              !.token = call[t][c].token])
    BY <1>2, FailedCallTypes
  <2>2. {"refused", "failed"} \subseteq Answer
    BY DEF Answer
  <2> QED BY <2>1, <2>2
<1> QED BY <1>1, <1>2

LEMMA NotRenewedTypes ==
  ASSUME TypeOK, NEW t \in Tab, NotRenewed(t)
  PROVE  /\ TypeOK'
         /\ OneTab(t, [c \in Call |-> IF c \in Waiting(t) THEN NoCall ELSE call[t][c]])
         /\ refresh' = [refresh EXCEPT ![t] = NoRefresh]
         /\ jar' \in {jar, 0}
         /\ \A u \in Tab : redirecting[u] => redirecting'[u]
         /\ Waiting(t) # {} => redirecting'[t]
<1> DEFINE f == [c \in Call |-> IF c \in Waiting(t) THEN NoCall ELSE call[t][c]]
<1>1. /\ call' = [call EXCEPT ![t] = f] /\ refresh' = [refresh EXCEPT ![t] = NoRefresh]
      /\ jar' \in {jar, 0} /\ BarDone(t, Cardinality(Waiting(t)))
  BY DEF NotRenewed
<1>2. OneTab(t, f)
  BY <1>1, CallTypes, SetCalls
<1>3. NoRefresh \in RefreshState
  BY WebClientAssumption DEF NoRefresh, RefreshState, Answer, Generation
<1>4. refresh' \in [Tab -> RefreshState] /\ jar' \in Generation
  BY <1>1, <1>3, TabTypes, WebClientAssumption DEF TypeOK, Generation
<1>5. active' \in [Tab -> Nat] /\ bar' \in [Tab -> {"hidden", "shown", "hiding"}]
  BY <1>1, BarTypes, Finite DEF Waiting
<1>6. /\ redirecting' \in [Tab -> BOOLEAN] /\ authed' \in [Tab -> BOOLEAN]
      /\ stored' \in BOOLEAN
      /\ \A u \in Tab : redirecting[u] => redirecting'[u]
      /\ Waiting(t) # {} => redirecting'[t]
  BY ExpiredTypes DEF NotRenewed
<1> QED BY <1>1, <1>2, <1>4, <1>5, <1>6 DEF NotRenewed, OneTab, TypeOK, server

LEMMA ReloadTypes ==
  ASSUME TypeOK, NEW t \in Tab, Reload(t)
  PROVE  /\ TypeOK'
         /\ OneTab(t, [c \in Call |-> NoCall])
         /\ refresh' = [refresh EXCEPT ![t] = NoRefresh]
<1>1. OneTab(t, [c \in Call |-> NoCall])
  <2>1. [c \in Call |-> NoCall] \in [Call -> CallState]
    BY TabTypes
  <2> QED BY <2>1, SetCalls DEF Reload
<1>2. NoRefresh \in RefreshState
  BY WebClientAssumption DEF NoRefresh, RefreshState, Answer, Generation
<1> QED BY <1>1, <1>2 DEF Reload, OneTab, TypeOK, server, browser

-----------------------------------------------------------------------------
(* The parts of the invariant, action by action.                            *)

LEMMA InitInv == Init => WebInv
<1> SUFFICES ASSUME Init PROVE WebInv
  OBVIOUS
<1>1. TypeOK
  BY InitTypes
<1>2. /\ jar = 1 /\ issued = 1
      /\ \A t \in Tab : refresh[t] = NoRefresh /\ presented[t] = {}
      /\ \A t \in Tab, c \in Call : call[t][c] = NoCall
  BY DEF Init
<1>3. /\ NoRefresh.phase = "none" /\ NoRefresh.token = 0
      /\ NoCall.phase = "idle" /\ NoCall.token = 0 /\ NoCall.refused = 0
  BY DEF NoRefresh, NoCall
<1> QED
  BY <1>1, <1>2, <1>3
  DEF WebInv, RenewalsAreAwaited, Waiting, TokensWereIssued, PairsAreNew, Delivering, LoggingIn,
      PresentedIsReplaced

\* Steps that leave the calls, the renewals and the jar alone.
LEMMA QuietInv ==
  ASSUME WebInv, TypeOK',
         UNCHANGED <<jar, issued, refresh, call, presented, redirecting>>
  PROVE  WebInv'
BY DEF WebInv, RenewalsAreAwaited, Waiting, TokensWereIssued, PairsAreNew, Delivering, LoggingIn,
       PresentedIsReplaced

LEMMA ExpireInv == ASSUME WebInv, Expire PROVE WebInv'
<1>1. TypeOK'
  BY DEF WebInv, Expire, TypeOK, browser, page
<1> QED BY <1>1, QuietInv DEF Expire, browser, page

LEMMA RevokeInv == ASSUME WebInv, RevokeSession PROVE WebInv'
<1>1. TypeOK'
  BY WebClientAssumption DEF WebInv, RevokeSession, TypeOK, browser, page, Generation
<1> QED BY <1>1, QuietInv DEF RevokeSession, browser, page

LEMMA HideBarInv == ASSUME WebInv, NEW t \in Tab, HideBar(t) PROVE WebInv'
<1>1. TypeOK'
  BY DEF WebInv, HideBar, TypeOK, server, browser
<1> QED BY <1>1, QuietInv DEF HideBar, server, browser

LEMMA StartCallInv == ASSUME WebInv, NEW t \in Tab, NEW c \in Call, StartCall(t, c) PROVE WebInv'
<1> USE DEF server, browser
<1>1. PICK kind \in Kind :
        OneCall(t, c, [NoCall EXCEPT !.phase = "sent", !.kind = kind, !.token = jar])
  BY StartCallTypes DEF WebInv
<1>2. /\ call'[t][c].phase = "sent" /\ call'[t][c].token = jar /\ call'[t][c].refused = 0
      /\ \A u \in Tab, d \in Call : <<u, d>> # <<t, c>> => call'[u][d] = call[u][d]
  BY <1>1 DEF OneCall, NoCall
<1>3. /\ call[t][c].phase = "idle"
      /\ UNCHANGED <<jar, issued, refresh, presented, redirecting>>
  BY DEF StartCall
<1>4. TypeOK /\ TypeOK'
  BY StartCallTypes DEF WebInv
<1>5. RenewalsAreAwaited'
  <2>1. \A u \in Tab, d \in Call :
          /\ call'[u][d].phase = "waiting" <=> call[u][d].phase = "waiting"
          /\ call[u][d].phase = "waiting" => call'[u][d] = call[u][d]
    BY <1>2, <1>3
  <2> QED BY <1>3, <2>1 DEF WebInv, RenewalsAreAwaited, Waiting
<1>6. TokensWereIssued'
  BY <1>2, <1>3, <1>4, TabTypes DEF WebInv, TokensWereIssued, Generation
<1>7. PairsAreNew'
  BY <1>2, <1>3 DEF WebInv, PairsAreNew, Delivering, LoggingIn
<1>8. PresentedIsReplaced'
  BY <1>3 DEF WebInv, PresentedIsReplaced, Delivering
<1> QED BY <1>4, <1>5, <1>6, <1>7, <1>8 DEF WebInv

LEMMA FailedCallInv ==
  ASSUME WebInv, NEW t \in Tab, NEW c \in Call, LoseCall(t, c) \/ CannotDecrypt(t, c)
  PROVE  WebInv'
<1>1. /\ TypeOK /\ TypeOK'
      /\ call[t][c].phase # "waiting"
      /\ UNCHANGED <<jar, issued, refresh, presented, redirecting>>
      /\ \E answer \in {"refused", "failed"} :
           OneCall(t, c, [call[t][c] EXCEPT !.phase = "answered", !.answer = answer,
                                            !.token = call[t][c].token])
  BY FailedCallTypes DEF WebInv
<1>2. /\ call'[t][c].phase = "answered" /\ call'[t][c].answer # "ok"
      /\ call'[t][c].token = call[t][c].token /\ call'[t][c].refused = call[t][c].refused
      /\ \A u \in Tab, d \in Call : <<u, d>> # <<t, c>> => call'[u][d] = call[u][d]
  BY <1>1, CallTypes DEF OneCall, CallState
<1>5. RenewalsAreAwaited'
  <2>1. \A u \in Tab, d \in Call :
          /\ call'[u][d].phase = "waiting" <=> call[u][d].phase = "waiting"
          /\ call[u][d].phase = "waiting" => call'[u][d] = call[u][d]
    BY <1>1, <1>2
  <2> QED BY <1>1, <2>1 DEF WebInv, RenewalsAreAwaited, Waiting
<1>6. TokensWereIssued'
  BY <1>1, <1>2 DEF WebInv, TokensWereIssued
<1>7. PairsAreNew'
  <2>1. \A u \in Tab, d \in Call :
          /\ call'[u][d].token = call[u][d].token /\ call'[u][d].refused = call[u][d].refused
          /\ LoggingIn(u, d)' => LoggingIn(u, d)
    BY <1>2 DEF LoggingIn
  <2> QED BY <1>1, <2>1 DEF WebInv, PairsAreNew, Delivering
<1>8. PresentedIsReplaced'
  BY <1>1 DEF WebInv, PresentedIsReplaced, Delivering
<1> QED BY <1>1, <1>5, <1>6, <1>7, <1>8 DEF WebInv

LEMMA ServeCallInv == ASSUME WebInv, NEW t \in Tab, NEW c \in Call, ServeCall(t, c) PROVE WebInv'
<1> USE DEF browser
<1>1. TypeOK /\ TypeOK'
  BY ServeCallTypes DEF WebInv
<1>2. PICK answer \in Answer, token \in {call[t][c].token, issued'} :
        /\ OneCall(t, c, [call[t][c] EXCEPT !.phase = "answered", !.answer = answer, !.token = token])
        /\ call[t][c].phase = "sent"
        /\ \/ token = call[t][c].token /\ issued' = issued
                /\ (call[t][c].kind = "login" => answer # "ok")
           \/ token = issued' /\ issued' = issued + 1
  BY ServeCallTypes DEF WebInv
<1>3. /\ call'[t][c].phase = "answered" /\ call'[t][c].answer = answer
      /\ call'[t][c].token = token /\ call'[t][c].refused = call[t][c].refused
      /\ call'[t][c].kind = call[t][c].kind
      /\ \A u \in Tab, d \in Call : <<u, d>> # <<t, c>> => call'[u][d] = call[u][d]
  BY <1>1, <1>2, CallTypes DEF OneCall, CallState
<1>4. UNCHANGED <<jar, refresh, presented, redirecting>>
  BY DEF ServeCall
<1>5. RenewalsAreAwaited'
  <2>1. \A u \in Tab, d \in Call :
          /\ call'[u][d].phase = "waiting" <=> call[u][d].phase = "waiting"
          /\ call[u][d].phase = "waiting" => call'[u][d] = call[u][d]
    BY <1>2, <1>3
  <2> QED BY <1>4, <2>1 DEF WebInv, RenewalsAreAwaited, Waiting
<1>a. issued \in Nat /\ issued' \in Nat /\ issued <= issued'
  BY <1>1, <1>2, TabTypes DEF Generation
<1>b. /\ jar \in Nat
      /\ \A u \in Tab : refresh[u].token \in Nat /\ presented[u] \subseteq Nat
      /\ \A u \in Tab, d \in Call : call[u][d].token \in Nat /\ call[u][d].refused \in Nat
  BY <1>1, TabTypes, CallTypes DEF Generation
<1>6. TokensWereIssued'
  BY <1>2, <1>3, <1>4, <1>a, <1>b DEF WebInv, TokensWereIssued
<1>7. PairsAreNew'
  <2>1. CASE token = call[t][c].token /\ issued' = issued /\ (call[t][c].kind = "login" => answer # "ok")
    <3>1. \A u \in Tab, d \in Call :
            /\ call'[u][d].token = call[u][d].token /\ call'[u][d].refused = call[u][d].refused
            /\ LoggingIn(u, d)' => LoggingIn(u, d)
      BY <1>3, <2>1 DEF LoggingIn
    <3> QED BY <1>4, <3>1 DEF WebInv, PairsAreNew, Delivering
  <2>2. CASE token = issued' /\ issued' = issued + 1
    <3>1. /\ token # jar /\ token # 0
          /\ \A u \in Tab : refresh[u].token # token /\ token \notin presented[u]
          /\ \A u \in Tab, d \in Call : call[u][d].token # token /\ call[u][d].refused # token
      BY <2>2, <1>a, <1>b DEF WebInv, TokensWereIssued
    <3>2. \A u \in Tab, d \in Call : LoggingIn(u, d)' => <<u, d>> = <<t, c>> \/ LoggingIn(u, d)
      BY <1>3 DEF LoggingIn
    <3>3. \A u \in Tab, d \in Call : call'[u][d].refused = call[u][d].refused
      BY <1>3
    <3> QED BY <1>3, <1>4, <3>1, <3>2, <3>3 DEF WebInv, PairsAreNew, Delivering
  <2> QED BY <1>2, <2>1, <2>2
<1>8. PresentedIsReplaced'
  BY <1>4 DEF WebInv, PresentedIsReplaced, Delivering
<1> QED BY <1>1, <1>5, <1>6, <1>7, <1>8 DEF WebInv

LEMMA ServeRefreshInv ==
  ASSUME WebInv, NEW t \in Tab, ServeRefresh(t) \/ LoseRefresh(t)
  PROVE  WebInv'
<1>1. /\ TypeOK /\ TypeOK'
      /\ refresh[t].phase # "none" /\ refresh'[t].phase = "answered"
      /\ \A u \in Tab : u # t => refresh'[u] = refresh[u]
      /\ UNCHANGED <<call, jar, redirecting, presented>>
      /\ \/ /\ refresh'[t].token = refresh[t].token /\ refresh'[t].answer # "ok"
            /\ issued' = issued
         \/ /\ refresh'[t].token = issued' /\ issued' = issued + 1
            /\ refresh[t].token # 0 /\ refresh[t].phase = "sent"
  BY RefreshTypes DEF WebInv
<1>5. RenewalsAreAwaited'
  BY <1>1 DEF WebInv, RenewalsAreAwaited, Waiting
<1>a. issued \in Nat /\ issued' \in Nat /\ issued <= issued'
  BY <1>1, TabTypes DEF Generation
<1>b. /\ jar \in Nat
      /\ \A u \in Tab : refresh[u].token \in Nat /\ presented[u] \subseteq Nat
      /\ \A u \in Tab, d \in Call : call[u][d].token \in Nat /\ call[u][d].refused \in Nat
  BY <1>1, TabTypes, CallTypes DEF Generation
<1>6. TokensWereIssued'
  BY <1>1, <1>a, <1>b DEF WebInv, TokensWereIssued
<1>7. PairsAreNew'
  <2>0. \A u \in Tab, d \in Call : LoggingIn(u, d)' <=> LoggingIn(u, d)
    BY <1>1 DEF LoggingIn
  <2>1. CASE refresh'[t].token = refresh[t].token /\ refresh'[t].answer # "ok" /\ issued' = issued
    <3>1. \A u \in Tab : refresh'[u].token = refresh[u].token /\ (Delivering(u)' => Delivering(u))
      BY <1>1, <2>1 DEF Delivering
    <3> QED BY <1>1, <2>0, <3>1 DEF WebInv, PairsAreNew
  <2>2. CASE refresh'[t].token = issued' /\ issued' = issued + 1
    <3>1. /\ issued' # jar /\ issued' # 0
          /\ \A u \in Tab : refresh[u].token # issued' /\ issued' \notin presented[u]
          /\ \A u \in Tab, d \in Call : call[u][d].token # issued' /\ call[u][d].refused # issued'
      BY <2>2, <1>a, <1>b DEF WebInv, TokensWereIssued
    <3>2. \A u \in Tab : Delivering(u)' => u = t \/ Delivering(u)
      BY <1>1 DEF Delivering
    <3> QED BY <1>1, <2>0, <2>2, <3>1, <3>2 DEF WebInv, PairsAreNew
  <2> QED BY <1>1, <2>1, <2>2
<1>8. PresentedIsReplaced'
  BY <1>1 DEF WebInv, PresentedIsReplaced, Delivering
<1> QED BY <1>1, <1>5, <1>6, <1>7, <1>8 DEF WebInv

\* A call is over: it was not waiting, and the jar may have lost its cookies or
\* got those of a login.
LEMMA CallOverInv ==
  ASSUME WebInv, TypeOK', NEW t \in Tab, NEW c \in Call, OneCall(t, c, NoCall),
         call[t][c].phase # "waiting",
         jar' \in {jar, 0} \/ (LoggingIn(t, c) /\ jar' = call[t][c].token),
         UNCHANGED <<issued, refresh, presented>>,
         \A u \in Tab : redirecting[u] => redirecting'[u]
  PROVE  WebInv'
<1>1. /\ call'[t][c].phase = "idle" /\ call'[t][c].token = 0 /\ call'[t][c].refused = 0
      /\ \A u \in Tab, d \in Call : <<u, d>> # <<t, c>> => call'[u][d] = call[u][d]
  BY DEF OneCall, NoCall
<1>2. RenewalsAreAwaited'
  <2>1. \A u \in Tab, d \in Call :
          /\ call'[u][d].phase = "waiting" <=> call[u][d].phase = "waiting"
          /\ call[u][d].phase = "waiting" => call'[u][d] = call[u][d]
    BY <1>1
  <2> QED BY <2>1 DEF WebInv, RenewalsAreAwaited, Waiting
<1>3. issued \in Nat /\ 0 <= issued
  BY TabTypes DEF WebInv, Generation
<1>4. TokensWereIssued'
  <2>1. jar' <= issued
    BY <1>3 DEF WebInv, TokensWereIssued
  <2> QED BY <1>1, <1>3, <2>1 DEF WebInv, TokensWereIssued
<1>5. PairsAreNew'
  <2>1. \A u \in Tab, d \in Call : LoggingIn(u, d)' => LoggingIn(u, d) /\ <<u, d>> # <<t, c>>
    BY <1>1 DEF LoggingIn
  <2>2. \A u \in Tab : Delivering(u)' <=> Delivering(u)
    BY DEF Delivering
  <2>3. ASSUME NEW u \in Tab, Delivering(u)
        PROVE  refresh[u].token \notin {0, jar'}
    BY <2>3 DEF WebInv, PairsAreNew
  <2>4. ASSUME NEW u \in Tab, NEW d \in Call, LoggingIn(u, d), <<u, d>> # <<t, c>>
        PROVE  call[u][d].token \notin {0, jar'}
    BY <2>4 DEF WebInv, PairsAreNew
  <2>5. ASSUME NEW u \in Tab, Delivering(u), NEW v \in Tab
        PROVE  /\ v # u => refresh[v].token # refresh[u].token
               /\ refresh[u].token \notin presented[v]
               /\ \A d \in Call : refresh[u].token \notin {call'[v][d].token, call'[v][d].refused}
    BY <1>1, <2>5 DEF WebInv, PairsAreNew
  <2>6. ASSUME NEW u \in Tab, NEW d \in Call, LoggingIn(u, d), <<u, d>> # <<t, c>>, NEW v \in Tab
        PROVE  /\ refresh[v].token # call[u][d].token
               /\ call[u][d].token \notin presented[v]
               /\ \A e \in Call : <<v, e>> # <<u, d>> => call'[v][e].token # call[u][d].token
    BY <1>1, <2>6 DEF WebInv, PairsAreNew
  <2> QED BY <1>1, <2>1, <2>2, <2>3, <2>4, <2>5, <2>6 DEF PairsAreNew
<1>6. PresentedIsReplaced'
  BY DEF WebInv, PairsAreNew, PresentedIsReplaced, Delivering
<1> QED BY <1>2, <1>4, <1>5, <1>6 DEF WebInv

LEMMA AnswerOkInv == ASSUME WebInv, NEW t \in Tab, NEW c \in Call, AnswerOk(t, c) PROVE WebInv'
BY AnswerOkTypes, CallOverInv DEF WebInv, AnswerOk, server

LEMMA AnswerErrorInv == ASSUME WebInv, NEW t \in Tab, NEW c \in Call, AnswerError(t, c) PROVE WebInv'
BY AnswerErrorTypes, CallOverInv DEF WebInv, AnswerError, server

LEMMA AwaitRenewalInv ==
  ASSUME WebInv, NEW t \in Tab, NEW c \in Call, AwaitRenewal(t, c)
  PROVE  WebInv'
<1>1. /\ TypeOK /\ TypeOK'
      /\ OneCall(t, c, [call[t][c] EXCEPT !.phase = "waiting", !.refused = call[t][c].token,
                                           !.retried = TRUE])
      /\ \/ refresh[t].phase # "none" /\ UNCHANGED <<refresh, presented>>
         \/ /\ refresh[t].phase = "none"
            /\ refresh' = [refresh EXCEPT ![t] = [phase |-> "sent", token |-> jar, answer |-> "failed"]]
            /\ presented' = [presented EXCEPT ![t] = @ \union {jar}]
  BY AwaitRenewalTypes DEF WebInv
<1>2. /\ call'[t][c].phase = "waiting" /\ call'[t][c].retried
      /\ call'[t][c].token = call[t][c].token /\ call'[t][c].refused = call[t][c].token
      /\ call'[t][c].kind = call[t][c].kind
      /\ \A u \in Tab, d \in Call : <<u, d>> # <<t, c>> => call'[u][d] = call[u][d]
  BY <1>1, CallTypes DEF OneCall, CallState
<1>3. UNCHANGED <<jar, issued, redirecting>>
  BY DEF AwaitRenewal, server, browser
<1>4. \/ refresh[t].phase # "none" /\ UNCHANGED <<refresh, presented>>
      \/ /\ refresh'[t].phase = "sent" /\ refresh'[t].token = jar /\ refresh'[t].answer = "failed"
         /\ \A u \in Tab : u # t => refresh'[u] = refresh[u] /\ presented'[u] = presented[u]
         /\ presented'[t] = presented[t] \union {jar}
  BY <1>1 DEF TypeOK
<1>5. RenewalsAreAwaited'
  <2>1. \A u \in Tab : Waiting(u)' = IF u = t THEN Waiting(u) \union {c} ELSE Waiting(u)
    BY <1>2 DEF Waiting
  <2>2. \A u \in Tab : \A d \in Waiting(u)' : call'[u][d].retried
    BY <1>2 DEF WebInv, RenewalsAreAwaited, Waiting
  <2>3. /\ \A u \in Tab : u # t => refresh'[u].phase = refresh[u].phase
        /\ refresh'[t].phase # "none"
    BY <1>4
  <2>4. \A u \in Tab : Waiting(u)' # {} <=> refresh'[u].phase # "none"
    BY <2>1, <2>3 DEF WebInv, RenewalsAreAwaited
  <2> QED BY <2>2, <2>4 DEF RenewalsAreAwaited
<1>6. issued \in Nat /\ jar \in Nat
  BY <1>1, TabTypes DEF Generation
<1>7. TokensWereIssued'
  <2>1. \A u \in Tab : refresh'[u].token <= issued /\ presented'[u] \subseteq 0..issued
    BY <1>4, <1>6 DEF WebInv, TokensWereIssued
  <2> QED BY <1>2, <1>3, <2>1 DEF WebInv, TokensWereIssued
<1>8. PairsAreNew'
  <2>1. \A u \in Tab : Delivering(u)' => Delivering(u) /\ refresh'[u] = refresh[u]
    BY <1>4 DEF Delivering
  <2>2. \A u \in Tab, d \in Call : LoggingIn(u, d)' => LoggingIn(u, d) /\ call'[u][d] = call[u][d]
    BY <1>2 DEF LoggingIn
  <2>3. \A u \in Tab : refresh'[u].token \in {refresh[u].token, jar}
                       /\ presented'[u] \subseteq presented[u] \union {jar}
    BY <1>4
  <2>4. \A u \in Tab, d \in Call :
          /\ call'[u][d].token = call[u][d].token
          /\ call'[u][d].refused \in {call[u][d].refused, call[u][d].token}
    BY <1>2
  <2>5. ASSUME NEW u \in Tab, Delivering(u)'
        PROVE  /\ refresh'[u].token \notin {0, jar'}
               /\ \A v \in Tab :
                    /\ v # u => refresh'[v].token # refresh'[u].token
                    /\ refresh'[u].token \notin presented'[v]
                    /\ \A d \in Call : refresh'[u].token \notin {call'[v][d].token, call'[v][d].refused}
    BY <1>3, <2>1, <2>3, <2>4, <2>5 DEF WebInv, PairsAreNew
  <2>6. ASSUME NEW u \in Tab, NEW d \in Call, LoggingIn(u, d)'
        PROVE  /\ call'[u][d].token \notin {0, jar'}
               /\ \A v \in Tab :
                    /\ refresh'[v].token # call'[u][d].token
                    /\ call'[u][d].token \notin presented'[v]
                    /\ \A e \in Call : <<v, e>> # <<u, d>> => call'[v][e].token # call'[u][d].token
    BY <1>3, <2>2, <2>3, <2>4, <2>6 DEF WebInv, PairsAreNew
  <2> QED BY <2>5, <2>6 DEF PairsAreNew
<1>9. PresentedIsReplaced'
  <2>1. CASE refresh[t].phase # "none" /\ UNCHANGED <<refresh, presented>>
    BY <1>3, <2>1 DEF WebInv, PresentedIsReplaced, Delivering
  <2>2. CASE ~(refresh[t].phase # "none" /\ UNCHANGED <<refresh, presented>>)
    <3>1. /\ refresh[t].phase = "none"
          /\ refresh'[t].phase = "sent" /\ refresh'[t].token = jar
          /\ \A u \in Tab : u # t => refresh'[u] = refresh[u] /\ presented'[u] = presented[u]
          /\ presented'[t] = presented[t] \union {jar}
      BY <1>1, <1>4, <2>2
    <3>2. ~redirecting[t] => 0 \notin presented[t]
      BY <3>1 DEF WebInv, PresentedIsReplaced
    <3> QED BY <1>3, <3>1, <3>2 DEF WebInv, PresentedIsReplaced, Delivering
  <2> QED BY <2>1, <2>2
<1> QED BY <1>1, <1>5, <1>7, <1>8, <1>9 DEF WebInv

LEMMA RenewedInv == ASSUME WebInv, NEW t \in Tab, Renewed(t) PROVE WebInv'
<1>1. /\ TypeOK /\ TypeOK'
      /\ OneTab(t, [c \in Call |->
                      IF c \in Waiting(t)
                      THEN [call[t][c] EXCEPT !.phase = "sent", !.token = refresh[t].token,
                                              !.answer = "failed"]
                      ELSE call[t][c]])
      /\ refresh' = [refresh EXCEPT ![t] = NoRefresh]
  BY RenewedTypes DEF WebInv
<1>2. /\ \A u \in Tab : u # t => refresh'[u] = refresh[u]
      /\ refresh'[t].phase = "none" /\ refresh'[t].token = 0
      /\ jar' = refresh[t].token /\ Delivering(t)
      /\ UNCHANGED <<issued, presented, redirecting>>
  <2>1. refresh \in [Tab -> RefreshState] /\ refresh' = [refresh EXCEPT ![t] = NoRefresh]
    BY <1>1 DEF TypeOK
  <2>2. /\ \A u \in Tab : u # t => refresh'[u] = refresh[u]
        /\ refresh'[t].phase = "none" /\ refresh'[t].token = 0
    BY <2>1 DEF NoRefresh
  <2> QED BY <2>2 DEF Renewed, Delivering, server
<1>3. /\ \A u \in Tab : u # t => call'[u] = call[u]
      /\ \A d \in Call : d \notin Waiting(t) => call'[t][d] = call[t][d]
      /\ \A d \in Waiting(t) : /\ call'[t][d].phase = "sent" /\ call'[t][d].token = refresh[t].token
                              /\ call'[t][d].refused = call[t][d].refused
  BY <1>1, RenewedCalls
<1>4. RenewalsAreAwaited'
  <2>1. Waiting(t)' = {}
    BY <1>3 DEF Waiting
  <2>2. \A u \in Tab : u # t => Waiting(u)' = Waiting(u)
    BY <1>3 DEF Waiting
  <2> QED BY <1>2, <1>3, <2>1, <2>2 DEF WebInv, RenewalsAreAwaited
<1>5. issued \in Nat
  BY TabTypes DEF WebInv, Generation
<1>6. TokensWereIssued'
  <2>1. \A u \in Tab, d \in Call :
          /\ call'[u][d].token \in {call[u][d].token, refresh[t].token}
          /\ call'[u][d].refused = call[u][d].refused
    BY <1>3
  <2> QED BY <1>2, <1>5, <2>1 DEF WebInv, TokensWereIssued
<1>7. PairsAreNew'
  <2>1. \A u \in Tab : Delivering(u)' => u # t /\ Delivering(u)
    BY <1>2 DEF Delivering
  <2>2. \A u \in Tab, d \in Call : LoggingIn(u, d)' => LoggingIn(u, d) /\ call'[u][d] = call[u][d]
    BY <1>3 DEF LoggingIn
  <2>3. \A u \in Tab : refresh'[u].token \in {refresh[u].token, 0}
    BY <1>2
  <2>4. \A u \in Tab, d \in Call :
          /\ call'[u][d].token \in {call[u][d].token, refresh[t].token}
          /\ call'[u][d].refused = call[u][d].refused
    BY <1>3
  <2>5. ASSUME NEW u \in Tab, Delivering(u)'
        PROVE  /\ refresh'[u].token \notin {0, jar'}
               /\ \A v \in Tab :
                    /\ v # u => refresh'[v].token # refresh'[u].token
                    /\ refresh'[u].token \notin presented'[v]
                    /\ \A d \in Call : refresh'[u].token \notin {call'[v][d].token, call'[v][d].refused}
    BY <1>2, <2>1, <2>3, <2>4, <2>5 DEF WebInv, PairsAreNew
  <2>6. ASSUME NEW u \in Tab, NEW d \in Call, LoggingIn(u, d)'
        PROVE  /\ call'[u][d].token \notin {0, jar'}
               /\ \A v \in Tab :
                    /\ refresh'[v].token # call'[u][d].token
                    /\ call'[u][d].token \notin presented'[v]
                    /\ \A e \in Call : <<v, e>> # <<u, d>> => call'[v][e].token # call'[u][d].token
    BY <1>2, <2>2, <2>3, <2>4, <2>6 DEF WebInv, PairsAreNew
  <2> QED BY <2>5, <2>6 DEF PairsAreNew
<1>8. PresentedIsReplaced'
  <2>1. \A u \in Tab : jar' \notin presented'[u]
    BY <1>2 DEF WebInv, PairsAreNew
  <2>2. ~redirecting[t] => 0 \notin presented[t]
    BY <1>2 DEF WebInv, PresentedIsReplaced
  <2> QED BY <1>2, <2>1, <2>2 DEF WebInv, PresentedIsReplaced, Delivering
<1> QED BY <1>1, <1>4, <1>6, <1>7, <1>8 DEF WebInv

\* A tab's renewal is gone, and its waiting calls, or all of them, with it.
LEMMA CallsOverInv ==
  ASSUME WebInv, TypeOK', NEW t \in Tab, NEW over \in SUBSET Call,
         Waiting(t) \subseteq over,
         OneTab(t, [c \in Call |-> IF c \in over THEN NoCall ELSE call[t][c]]),
         refresh' = [refresh EXCEPT ![t] = NoRefresh],
         jar' \in {jar, 0}, issued' = issued,
         \A u \in Tab : u # t => presented'[u] = presented[u],
         \/ presented'[t] = {}
         \/ redirecting'[t] /\ presented'[t] = presented[t],
         \A u \in Tab : u # t /\ redirecting[u] => redirecting'[u]
  PROVE  WebInv'
<1>2. /\ \A u \in Tab : u # t => refresh'[u] = refresh[u]
      /\ refresh'[t].phase = "none" /\ refresh'[t].token = 0
  BY DEF WebInv, TypeOK, NoRefresh
<1>3. /\ \A u \in Tab : u # t => call'[u] = call[u]
      /\ \A d \in Call : d \notin over => call'[t][d] = call[t][d]
      /\ \A d \in over : /\ call'[t][d].phase = "idle" /\ call'[t][d].token = 0
                        /\ call'[t][d].refused = 0
  BY DEF OneTab, NoCall
<1>4. RenewalsAreAwaited'
  <2>1. Waiting(t)' = {}
    BY <1>3 DEF Waiting
  <2>2. \A u \in Tab : u # t => Waiting(u)' = Waiting(u)
    BY <1>3 DEF Waiting
  <2> QED BY <1>2, <1>3, <2>1, <2>2 DEF WebInv, RenewalsAreAwaited
<1>5. issued \in Nat /\ 0 <= issued
  BY TabTypes DEF WebInv, Generation
<1>6. TokensWereIssued'
  <2>1. \A u \in Tab, d \in Call :
          /\ call'[u][d].token \in {call[u][d].token, 0}
          /\ call'[u][d].refused \in {call[u][d].refused, 0}
    BY <1>3
  <2>2. \A u \in Tab : presented'[u] \subseteq presented[u]
    OBVIOUS
  <2> QED BY <1>2, <1>5, <2>1, <2>2 DEF WebInv, TokensWereIssued
<1>7. PairsAreNew'
  <2>1. \A u \in Tab : Delivering(u)' => u # t /\ Delivering(u)
    BY <1>2 DEF Delivering
  <2>2. \A u \in Tab, d \in Call : LoggingIn(u, d)' => LoggingIn(u, d) /\ call'[u][d] = call[u][d]
    BY <1>3 DEF LoggingIn
  <2>3. \A u \in Tab : refresh'[u].token \in {refresh[u].token, 0} /\ presented'[u] \subseteq presented[u]
    BY <1>2
  <2>4. \A u \in Tab, d \in Call :
          /\ call'[u][d].token \in {call[u][d].token, 0}
          /\ call'[u][d].refused \in {call[u][d].refused, 0}
    BY <1>3
  <2>5. ASSUME NEW u \in Tab, Delivering(u)'
        PROVE  /\ refresh'[u].token \notin {0, jar'}
               /\ \A v \in Tab :
                    /\ v # u => refresh'[v].token # refresh'[u].token
                    /\ refresh'[u].token \notin presented'[v]
                    /\ \A d \in Call : refresh'[u].token \notin {call'[v][d].token, call'[v][d].refused}
    BY <1>2, <2>1, <2>3, <2>4, <2>5 DEF WebInv, PairsAreNew
  <2>6. ASSUME NEW u \in Tab, NEW d \in Call, LoggingIn(u, d)'
        PROVE  /\ call'[u][d].token \notin {0, jar'}
               /\ \A v \in Tab :
                    /\ refresh'[v].token # call'[u][d].token
                    /\ call'[u][d].token \notin presented'[v]
                    /\ \A e \in Call : <<v, e>> # <<u, d>> => call'[v][e].token # call'[u][d].token
    BY <2>2, <2>3, <2>4, <2>6 DEF WebInv, PairsAreNew
  <2> QED BY <2>5, <2>6 DEF PairsAreNew
<1>8. PresentedIsReplaced'
  BY <1>2 DEF WebInv, PresentedIsReplaced, Delivering
<1> QED BY <1>4, <1>6, <1>7, <1>8 DEF WebInv

LEMMA NotRenewedInv == ASSUME WebInv, NEW t \in Tab, NotRenewed(t) PROVE WebInv'
<1>1. /\ TypeOK'
      /\ OneTab(t, [c \in Call |-> IF c \in Waiting(t) THEN NoCall ELSE call[t][c]])
      /\ refresh' = [refresh EXCEPT ![t] = NoRefresh]
      /\ jar' \in {jar, 0}
      /\ \A u \in Tab : redirecting[u] => redirecting'[u]
      /\ Waiting(t) # {} => redirecting'[t]
  BY NotRenewedTypes DEF WebInv
<1>2. Waiting(t) # {} /\ UNCHANGED <<issued, presented>>
  BY DEF NotRenewed, server, WebInv, RenewalsAreAwaited
<1>3. Waiting(t) \in SUBSET Call
  BY DEF Waiting
<1> QED BY <1>1, <1>2, <1>3, CallsOverInv

LEMMA ReloadInv == ASSUME WebInv, NEW t \in Tab, Reload(t) PROVE WebInv'
<1>1. TypeOK' /\ OneTab(t, [c \in Call |-> NoCall]) /\ refresh' = [refresh EXCEPT ![t] = NoRefresh]
  BY ReloadTypes DEF WebInv
<1>2. [c \in Call |-> NoCall] = [c \in Call |-> IF c \in Call THEN NoCall ELSE call[t][c]]
  OBVIOUS
<1>3. /\ UNCHANGED <<jar, issued>>
      /\ presented' = [presented EXCEPT ![t] = {}]
      /\ redirecting' = [redirecting EXCEPT ![t] = FALSE]
  BY DEF Reload, server, browser
<1>4. /\ presented'[t] = {} /\ \A u \in Tab : u # t => presented'[u] = presented[u]
      /\ \A u \in Tab : u # t /\ redirecting[u] => redirecting'[u]
  BY <1>3 DEF WebInv, TypeOK
<1>5. OneTab(t, [c \in Call |-> IF c \in Call THEN NoCall ELSE call[t][c]])
  BY <1>1, <1>2
<1>6. Waiting(t) \subseteq Call
  BY DEF Waiting
<1> QED BY <1>1, <1>3, <1>4, <1>5, <1>6, CallsOverInv

-----------------------------------------------------------------------------
(* The theorems.                                                            *)

LEMMA RefreshInv ==
  ASSUME WebInv, NEW t \in Tab, ServeRefresh(t) \/ LoseRefresh(t) PROVE WebInv'
BY ServeRefreshInv

LEMMA StepInv == ASSUME WebInv, [Next]_vars PROVE WebInv'
<1>1. CASE Expire
  BY <1>1, ExpireInv
<1>2. CASE RevokeSession
  BY <1>2, RevokeInv
<1>3. ASSUME NEW t \in Tab,
             \/ ServeRefresh(t) \/ LoseRefresh(t) \/ Renewed(t) \/ NotRenewed(t)
             \/ HideBar(t) \/ Reload(t)
      PROVE  WebInv'
  BY <1>3, RefreshInv, RenewedInv, NotRenewedInv, HideBarInv, ReloadInv
<1>4. ASSUME NEW t \in Tab, NEW c \in Call,
             \/ StartCall(t, c) \/ ServeCall(t, c) \/ LoseCall(t, c) \/ CannotDecrypt(t, c)
             \/ AnswerOk(t, c) \/ AwaitRenewal(t, c) \/ AnswerError(t, c)
      PROVE  WebInv'
  BY <1>4, StartCallInv, ServeCallInv, FailedCallInv, AnswerOkInv, AwaitRenewalInv, AnswerErrorInv
<1>5. CASE UNCHANGED vars
  <2>1. TypeOK'
    BY <1>5 DEF vars, server, browser, page, WebInv, TypeOK
  <2> QED BY <1>5, <2>1, QuietInv DEF vars, server, browser, page
<1> QED BY <1>1, <1>2, <1>3, <1>4, <1>5 DEF Next

\* A renewal is there exactly while refused calls wait for it, and the cookies it
\* or a login brings are in one place until the jar has them.
THEOREM WebInvariant == Spec => []WebInv
<1> QED BY InitInv, StepInv, PTL DEF Spec

\* However many calls of a tab are refused together, and whatever its other tabs
\* do: a page presents a refresh token once.
THEOREM TokensPresentedOnce == Spec => NoTokenReuse
<1>1. ASSUME WebInv, [Next]_vars
      PROVE  [\A t \in Tab :
                refresh'[t] # refresh[t] /\ refresh'[t].phase = "sent" /\ ~redirecting[t]
                  => refresh'[t].token \notin presented[t]]_vars
  <2> SUFFICES ASSUME NEW t \in Tab, ~(UNCHANGED vars), refresh'[t] # refresh[t],
                      refresh'[t].phase = "sent", ~redirecting[t]
               PROVE  refresh'[t].token \notin presented[t]
    OBVIOUS
  <2>1. ASSUME Expire \/ RevokeSession PROVE FALSE
    BY <2>1 DEF Expire, RevokeSession, page
  <2>2. ASSUME NEW u \in Tab, ServeRefresh(u) \/ LoseRefresh(u) PROVE FALSE
    <3>1. refresh'[u].phase = "answered" /\ \A v \in Tab : v # u => refresh'[v] = refresh[v]
      BY <1>1, <2>2, RefreshTypes DEF WebInv
    <3> QED BY <3>1
  <2>3. ASSUME NEW u \in Tab, Renewed(u) \/ NotRenewed(u) \/ Reload(u) PROVE FALSE
    <3>1. refresh' = [refresh EXCEPT ![u] = NoRefresh]
      BY <2>3 DEF Renewed, NotRenewed, Reload
    <3> QED BY <1>1, <3>1 DEF WebInv, TypeOK, NoRefresh
  <2>4. ASSUME NEW u \in Tab, HideBar(u) PROVE FALSE
    BY <2>4 DEF HideBar
  <2>5. ASSUME NEW u \in Tab, NEW c \in Call,
               \/ StartCall(u, c) \/ ServeCall(u, c) \/ LoseCall(u, c) \/ CannotDecrypt(u, c)
               \/ AnswerOk(u, c) \/ AnswerError(u, c)
        PROVE  FALSE
    BY <2>5 DEF StartCall, ServeCall, LoseCall, CannotDecrypt, AnswerOk, AnswerError
  <2>6. ASSUME NEW u \in Tab, NEW c \in Call, AwaitRenewal(u, c)
        PROVE  refresh[t].phase = "none" /\ refresh'[t].token = jar
    <3>1. \/ UNCHANGED refresh
          \/ /\ refresh[u].phase = "none"
             /\ refresh' = [refresh EXCEPT ![u] =
                              [phase |-> "sent", token |-> jar, answer |-> "failed"]]
      BY <1>1, <2>6, AwaitRenewalTypes DEF WebInv
    <3>2. refresh \in [Tab -> RefreshState]
      BY <1>1 DEF WebInv, TypeOK
    <3> QED BY <3>1, <3>2
  <2>7. refresh[t].phase = "none" /\ refresh'[t].token = jar
    <3>1. Next
      BY <1>1
    <3>2. CASE \E u \in Tab, c \in Call : AwaitRenewal(u, c)
      BY <2>6, <3>2
    <3> QED BY <2>1, <2>2, <2>3, <2>4, <2>5, <3>1, <3>2 DEF Next
  <2>8. jar \in presented[t] => refresh[t].phase # "none"
    BY <1>1 DEF WebInv, PresentedIsReplaced
  <2> QED BY <2>7, <2>8
<1> QED BY <1>1, WebInvariant, PTL DEF Spec, NoTokenReuse

\* What a step does to a call that is out, or goes out again.
LEMMA RetriesStep ==
  ASSUME WebInv, TypeOK', RetriesAreRenewed, issued' = issued \/ issued' = issued + 1,
         \A u \in Tab, d \in Call :
           \/ call'[u][d].phase \in {"idle", "waiting"} \/ ~call'[u][d].retried
           \/ /\ call[u][d].phase \in {"sent", "answered"}
              /\ call'[u][d].retried = call[u][d].retried
              /\ call'[u][d].refused = call[u][d].refused
              /\ \/ call'[u][d].token = call[u][d].token
                 \/ call'[u][d].token = issued + 1
           \/ /\ Delivering(u)
              /\ call'[u][d].refused = call[u][d].refused
              /\ call'[u][d].token = refresh[u].token
  PROVE  RetriesAreRenewed'
<1> SUFFICES ASSUME NEW u \in Tab, NEW d \in Call,
                    call'[u][d].phase \in {"sent", "answered"}, call'[u][d].retried
             PROVE  call'[u][d].token # call'[u][d].refused
  BY DEF RetriesAreRenewed
<1>1. CASE /\ call[u][d].phase \in {"sent", "answered"}
           /\ call'[u][d].retried = call[u][d].retried
           /\ call'[u][d].refused = call[u][d].refused
           /\ \/ call'[u][d].token = call[u][d].token
              \/ call'[u][d].token = issued + 1
  <2>1. call[u][d].token # call[u][d].refused
    BY <1>1 DEF RetriesAreRenewed
  <2>2. issued \in Nat /\ call[u][d].refused \in Nat /\ call[u][d].refused <= issued
    BY CallTypes DEF WebInv, TokensWereIssued, Generation
  <2> QED BY <1>1, <2>1, <2>2
<1>2. CASE /\ Delivering(u)
           /\ call'[u][d].refused = call[u][d].refused
           /\ call'[u][d].token = refresh[u].token
  BY <1>2 DEF WebInv, PairsAreNew
<1> QED BY <1>1, <1>2

\* A call that is repeated after a renewal goes out with other cookies than those
\* it was refused with, in any number of tabs.
THEOREM RenewedRetries == Spec => []RetriesAreRenewed
<1>1. Init => RetriesAreRenewed
  BY DEF Init, RetriesAreRenewed, NoCall
<1>2. ASSUME WebInv, WebInv', RetriesAreRenewed, [Next]_vars PROVE RetriesAreRenewed'
  <2> USE <1>2 DEF WebInv
  <2>1. CASE UNCHANGED call
    BY <2>1 DEF RetriesAreRenewed
  <2>2. ASSUME NEW t \in Tab, Renewed(t) PROVE RetriesAreRenewed'
    <3>1. /\ \A u \in Tab : u # t => call'[u] = call[u]
          /\ \A d \in Call : d \notin Waiting(t) => call'[t][d] = call[t][d]
          /\ \A d \in Waiting(t) : /\ call'[t][d].token = refresh[t].token
                                  /\ call'[t][d].refused = call[t][d].refused
      BY <2>2, RenewedCalls
    <3>2. Delivering(t) /\ issued' = issued
      BY <2>2 DEF Renewed, Delivering, server
    <3> QED BY <3>1, <3>2, RetriesStep, CallTypes
  <2>3. ASSUME NEW t \in Tab, NotRenewed(t) PROVE RetriesAreRenewed'
    <3>1. OneTab(t, [c \in Call |-> IF c \in Waiting(t) THEN NoCall ELSE call[t][c]])
      BY <2>3, NotRenewedTypes
    <3> QED BY <3>1 DEF OneTab, NoCall, RetriesAreRenewed
  <2>4. ASSUME NEW t \in Tab, Reload(t) PROVE RetriesAreRenewed'
    <3>1. OneTab(t, [c \in Call |-> NoCall])
      BY <2>4, ReloadTypes
    <3> QED BY <3>1 DEF OneTab, NoCall, RetriesAreRenewed
  <2>5. ASSUME NEW t \in Tab, NEW c \in Call, AnswerOk(t, c) \/ AnswerError(t, c)
        PROVE  RetriesAreRenewed'
    <3>1. OneCall(t, c, NoCall)
      BY <2>5, AnswerOkTypes, AnswerErrorTypes
    <3> QED BY <3>1 DEF OneCall, NoCall, RetriesAreRenewed
  <2>6. ASSUME NEW t \in Tab, NEW c \in Call, StartCall(t, c) PROVE RetriesAreRenewed'
    <3>1. \E kind \in Kind :
            OneCall(t, c, [NoCall EXCEPT !.phase = "sent", !.kind = kind, !.token = jar])
      BY <2>6, StartCallTypes
    <3>2. /\ ~call'[t][c].retried
          /\ \A u \in Tab, d \in Call : <<u, d>> # <<t, c>> => call'[u][d] = call[u][d]
      BY <3>1 DEF OneCall, NoCall
    <3> QED BY <3>2 DEF RetriesAreRenewed
  <2>7. ASSUME NEW t \in Tab, NEW c \in Call, AwaitRenewal(t, c) PROVE RetriesAreRenewed'
    <3>1. OneCall(t, c, [call[t][c] EXCEPT !.phase = "waiting", !.refused = call[t][c].token,
                                            !.retried = TRUE])
      BY <2>7, AwaitRenewalTypes
    <3>2. /\ call'[t][c].phase = "waiting"
          /\ \A u \in Tab, d \in Call : <<u, d>> # <<t, c>> => call'[u][d] = call[u][d]
      BY <3>1, CallTypes DEF OneCall, CallState
    <3> QED BY <3>2 DEF RetriesAreRenewed
  <2>8. ASSUME NEW t \in Tab, NEW c \in Call,
         ServeCall(t, c) \/ LoseCall(t, c) \/ CannotDecrypt(t, c)
        PROVE  RetriesAreRenewed'
    <3>1. /\ call[t][c].phase \in {"sent", "answered"}
          /\ issued' = issued \/ issued' = issued + 1
          /\ \E answer \in Answer, token \in {call[t][c].token, issued + 1} :
               OneCall(t, c, [call[t][c] EXCEPT !.phase = "answered", !.answer = answer,
                                                !.token = token])
      BY <2>8, ServedCalls
    <3>2. /\ call'[t][c].retried = call[t][c].retried
          /\ call'[t][c].refused = call[t][c].refused
          /\ call'[t][c].token = call[t][c].token \/ call'[t][c].token = issued + 1
          /\ \A u \in Tab, d \in Call : <<u, d>> # <<t, c>> => call'[u][d] = call[u][d]
      BY <3>1, CallTypes DEF OneCall, CallState
    <3> QED BY <3>1, <3>2, RetriesStep, CallTypes
  <2>9. CASE Expire \/ RevokeSession \/ UNCHANGED vars
    BY <2>1, <2>9 DEF Expire, RevokeSession, vars, page
  <2>10. ASSUME NEW t \in Tab, ServeRefresh(t) \/ LoseRefresh(t) \/ HideBar(t) PROVE RetriesAreRenewed'
    BY <2>1, <2>10 DEF ServeRefresh, LoseRefresh, HideBar
  <2>11. CASE Next
    BY <2>2, <2>3, <2>4, <2>5, <2>6, <2>7, <2>8, <2>9, <2>10, <2>11 DEF Next
  <2> QED BY <2>9, <2>11
<1> QED BY <1>1, <1>2, WebInvariant, PTL DEF Spec

\* done() called at least n times, of which n for calls that are over.
LEMMA DoneEnds ==
  ASSUME TypeOK, BarEnds, NEW t \in Tab, NEW m \in Nat, NEW over \in SUBSET Outstanding(t),
         BarDone(t, m), Cardinality(over) <= m,
         Outstanding(t)' = Outstanding(t) \ over,
         \A u \in Tab : u # t => Outstanding(u)' = Outstanding(u)
  PROVE  BarEnds'
<1>1. /\ active[t] \in Nat /\ active' \in [Tab -> Nat] /\ bar' \in [Tab -> {"hidden", "shown", "hiding"}]
      /\ active'[t] = IF active[t] > m THEN active[t] - m ELSE 0
      /\ bar'[t] = IF active'[t] = 0 /\ m > 0 THEN "hiding" ELSE bar[t]
      /\ \A u \in Tab : u # t => active'[u] = active[u] /\ bar'[u] = bar[u]
  BY BarTypes DEF BarDone, TypeOK
<1>2. /\ IsFiniteSet(Outstanding(t)) /\ Cardinality(Outstanding(t)) \in Nat
      /\ IsFiniteSet(over) /\ Cardinality(over) \in Nat
  BY Finite, FS_Subset, FS_CardinalityType DEF Outstanding
<1>3. Cardinality(Outstanding(t)') = Cardinality(Outstanding(t)) - Cardinality(over)
                                       /\ Cardinality(Outstanding(t)') \in Nat
  <2>1. Outstanding(t) \cap over = over
    OBVIOUS
  <2>2. Outstanding(t)' \in SUBSET Call
    BY DEF Outstanding
  <2> QED BY <1>2, <2>1, <2>2, Finite, FS_Difference
<1>4. active[t] <= Cardinality(Outstanding(t)) /\ (bar[t] = "shown" <=> active[t] > 0)
  BY DEF BarEnds
<1>5. active'[t] <= Cardinality(Outstanding(t)')
  BY <1>1, <1>2, <1>3, <1>4
<1>6. bar'[t] = "shown" <=> active'[t] > 0
  BY <1>1, <1>4
<1>7. ASSUME NEW u \in Tab, u # t
      PROVE  active'[u] <= Cardinality(Outstanding(u)') /\ (bar'[u] = "shown" <=> active'[u] > 0)
  BY <1>1, <1>7 DEF BarEnds
<1> QED BY <1>5, <1>6, <1>7 DEF BarEnds

\* Steps that end no call and start none.
LEMMA SameOutstanding ==
  ASSUME BarEnds, UNCHANGED <<active, bar>>, \A u \in Tab : Outstanding(u)' = Outstanding(u)
  PROVE  BarEnds'
BY DEF BarEnds

\* One call changes from one phase to another: what is outstanding with it.
LEMMA OneOutstanding ==
  ASSUME TypeOK, NEW t \in Tab, NEW c \in Call, NEW k, OneCall(t, c, k)
  PROVE  /\ \A u \in Tab : u # t => Outstanding(u)' = Outstanding(u)
         /\ Outstanding(t)' = IF k.phase = "idle" THEN Outstanding(t) \ {c}
                                                  ELSE Outstanding(t) \union {c}
BY DEF OneCall, Outstanding

LEMMA BarStep ==
  ASSUME WebInv, BarEnds, NEW t \in Tab, NEW c \in Call,
         \/ StartCall(t, c) \/ ServeCall(t, c) \/ LoseCall(t, c) \/ CannotDecrypt(t, c)
         \/ AnswerOk(t, c) \/ AwaitRenewal(t, c) \/ AnswerError(t, c)
  PROVE  BarEnds'
<1> USE DEF WebInv
<1>1. CASE StartCall(t, c)
  <2>1. PICK kind \in Kind :
          OneCall(t, c, [NoCall EXCEPT !.phase = "sent", !.kind = kind, !.token = jar])
    BY <1>1, StartCallTypes
  <2>2. [NoCall EXCEPT !.phase = "sent", !.kind = kind, !.token = jar].phase = "sent"
    BY DEF NoCall
  <2>3. /\ \A u \in Tab : u # t => Outstanding(u)' = Outstanding(u)
        /\ Outstanding(t)' = Outstanding(t) \union {c}
    BY <2>1, <2>2, OneOutstanding
  <2>4. c \notin Outstanding(t)
    BY <1>1 DEF StartCall, Outstanding
  <2>5. /\ Cardinality(Outstanding(t)) \in Nat
        /\ Cardinality(Outstanding(t)') = Cardinality(Outstanding(t)) + 1
    <3>1. IsFiniteSet(Outstanding(t)) /\ Cardinality(Outstanding(t)) \in Nat
      BY Finite DEF Outstanding
    <3> QED BY <2>3, <2>4, <3>1, FS_AddElement
  <2>6. /\ active'[t] = active[t] + 1 /\ bar'[t] = "shown" /\ active[t] \in Nat
        /\ \A u \in Tab : u # t => active'[u] = active[u] /\ bar'[u] = bar[u]
    BY <1>1 DEF StartCall, BarStart, TypeOK
  <2>7. active'[t] <= Cardinality(Outstanding(t)') /\ (bar'[t] = "shown" <=> active'[t] > 0)
    <3>1. active[t] <= Cardinality(Outstanding(t))
      BY DEF BarEnds
    <3> QED BY <2>5, <2>6, <3>1
  <2>8. ASSUME NEW u \in Tab, u # t
        PROVE  active'[u] <= Cardinality(Outstanding(u)') /\ (bar'[u] = "shown" <=> active'[u] > 0)
    <3>1. Outstanding(u)' = Outstanding(u) /\ active'[u] = active[u] /\ bar'[u] = bar[u]
      BY <2>3, <2>6, <2>8
    <3>2. active[u] <= Cardinality(Outstanding(u)) /\ (bar[u] = "shown" <=> active[u] > 0)
      BY DEF BarEnds
    <3> QED BY <3>1, <3>2
  <2> QED BY <2>7, <2>8 DEF BarEnds
<1>2. CASE ServeCall(t, c) \/ LoseCall(t, c) \/ CannotDecrypt(t, c)
  <2>1. /\ call[t][c].phase # "idle"
        /\ \E answer, token :
             OneCall(t, c, [call[t][c] EXCEPT !.phase = "answered", !.answer = answer, !.token = token])
    BY <1>2, ServedCalls
  <2>2. /\ call'[t][c].phase = "answered"
        /\ \A u \in Tab, d \in Call : <<u, d>> # <<t, c>> => call'[u][d] = call[u][d]
    BY <2>1, CallTypes DEF OneCall, CallState
  <2>3. \A u \in Tab : Outstanding(u)' = Outstanding(u)
    BY <2>1, <2>2 DEF Outstanding
  <2>4. UNCHANGED <<active, bar>>
    BY <1>2 DEF ServeCall, LoseCall, CannotDecrypt
  <2> QED BY <2>3, <2>4, SameOutstanding
<1>3. CASE AwaitRenewal(t, c)
  <2>1. OneCall(t, c, [call[t][c] EXCEPT !.phase = "waiting", !.refused = call[t][c].token,
                                          !.retried = TRUE])
    BY <1>3, AwaitRenewalTypes
  <2>2. /\ call'[t][c].phase = "waiting"
        /\ \A u \in Tab, d \in Call : <<u, d>> # <<t, c>> => call'[u][d] = call[u][d]
    BY <2>1, CallTypes DEF OneCall, CallState
  <2>3. call[t][c].phase # "idle" /\ UNCHANGED <<active, bar>>
    BY <1>3 DEF AwaitRenewal
  <2>4. \A u \in Tab : Outstanding(u)' = Outstanding(u)
    BY <2>2, <2>3 DEF Outstanding
  <2> QED BY <2>3, <2>4, SameOutstanding
<1>4. CASE AnswerOk(t, c) \/ AnswerError(t, c)
  <2>1. OneCall(t, c, NoCall) /\ NoCall.phase = "idle"
    BY <1>4, AnswerOkTypes, AnswerErrorTypes DEF NoCall
  <2>2. /\ \A u \in Tab : u # t => Outstanding(u)' = Outstanding(u)
        /\ Outstanding(t)' = Outstanding(t) \ {c}
    BY <2>1, OneOutstanding
  <2>3. {c} \in SUBSET Outstanding(t)
    BY <1>4 DEF AnswerOk, AnswerError, Outstanding
  <2>4. PICK m \in {1, 2} : BarDone(t, m)
    BY <1>4 DEF AnswerOk, AnswerError
  <2>5. Cardinality({c}) <= m /\ m \in Nat
    BY FS_Singleton
  <2> QED BY <2>2, <2>3, <2>4, <2>5, DoneEnds
<1> QED BY <1>1, <1>2, <1>3, <1>4

\* The progress bar ends with the calls, whatever waits, is repeated or fails.
THEOREM BarFollowsCalls == Spec => []BarEnds
<1>1. Init => BarEnds
  <2> SUFFICES ASSUME Init PROVE BarEnds
    OBVIOUS
  <2>1. \A t \in Tab : active[t] = 0 /\ bar[t] = "hidden" /\ Cardinality(Outstanding(t)) \in Nat
    BY Finite DEF Init, Outstanding
  <2> QED BY <2>1 DEF BarEnds
<1>2. ASSUME WebInv, BarEnds, [Next]_vars PROVE BarEnds'
  <2> USE <1>2 DEF WebInv
  <2>1. CASE UNCHANGED <<call, active, bar>>
    BY <2>1 DEF BarEnds, Outstanding
  <2>2. ASSUME NEW t \in Tab, Renewed(t) PROVE BarEnds'
    <3>1. \A u \in Tab : Outstanding(u)' = Outstanding(u)
      BY <2>2, RenewedCalls DEF Outstanding, Waiting
    <3> QED BY <2>2, <3>1, SameOutstanding DEF Renewed
  <2>3. ASSUME NEW t \in Tab, NotRenewed(t) PROVE BarEnds'
    <3>1. OneTab(t, [c \in Call |-> IF c \in Waiting(t) THEN NoCall ELSE call[t][c]])
      BY <2>3, NotRenewedTypes
    <3>2. /\ \A u \in Tab : u # t => Outstanding(u)' = Outstanding(u)
          /\ Outstanding(t)' = Outstanding(t) \ Waiting(t)
      BY <3>1 DEF OneTab, NoCall, Outstanding
    <3>3. Waiting(t) \in SUBSET Outstanding(t) /\ Waiting(t) \in SUBSET Call
      BY DEF Waiting, Outstanding
    <3>4. BarDone(t, Cardinality(Waiting(t))) /\ Cardinality(Waiting(t)) \in Nat
      BY <2>3, <3>3, Finite DEF NotRenewed
    <3> QED BY <3>2, <3>3, <3>4, DoneEnds
  <2>4. ASSUME NEW t \in Tab, Reload(t) PROVE BarEnds'
    <3>1. /\ active'[t] = 0 /\ bar'[t] = "hidden"
          /\ \A u \in Tab : u # t => active'[u] = active[u] /\ bar'[u] = bar[u] /\ call'[u] = call[u]
      BY <2>4 DEF Reload, TypeOK
    <3>2. Cardinality(Outstanding(t)') \in Nat
      <4>1. Outstanding(t)' \in SUBSET Call
        BY DEF Outstanding
      <4> QED BY <4>1, Finite
    <3>3. \A u \in Tab : u # t => Outstanding(u)' = Outstanding(u)
      BY <3>1 DEF Outstanding
    <3> QED BY <3>1, <3>2, <3>3 DEF BarEnds
  <2>5. ASSUME NEW t \in Tab, HideBar(t) PROVE BarEnds'
    <3>1. /\ bar[t] = "hiding" /\ bar'[t] = "hidden" /\ UNCHANGED <<call, active>>
          /\ \A u \in Tab : u # t => bar'[u] = bar[u]
      BY <2>5 DEF HideBar, TypeOK
    <3>2. \A u \in Tab : Outstanding(u)' = Outstanding(u)
      BY <3>1 DEF Outstanding
    <3> QED BY <3>1, <3>2 DEF BarEnds
  <2>6. CASE Expire \/ RevokeSession \/ UNCHANGED vars
    BY <2>1, <2>6 DEF Expire, RevokeSession, vars, page
  <2>7. ASSUME NEW t \in Tab, ServeRefresh(t) \/ LoseRefresh(t) PROVE BarEnds'
    BY <2>1, <2>7 DEF ServeRefresh, LoseRefresh
  <2>8. CASE Next
    BY <2>2, <2>3, <2>4, <2>5, <2>6, <2>7, <2>8, BarStep DEF Next
  <2> QED BY <2>6, <2>8
<1> QED BY <1>1, <1>2, WebInvariant, PTL DEF Spec

-----------------------------------------------------------------------------
(* A live session is kept.  As long as no answer was lost and none crossed: *)

\* The server does not take these cookies, or takes none.
Void(token, s) == token # s \/ s = 0

\* A refusal shows that the access token has expired or the cookies are void,
\* that of a repeated call the latter.
AnswerTells(k, s, f) ==
    /\ k.phase = "answered" => k.answer # "failed"
    /\ k.phase = "answered" /\ k.answer = "refused" /\ k.kind # "login" => ~f \/ Void(k.token, s)
    /\ k.phase = "answered" /\ k.answer = "refused" /\ k.retried => Void(k.token, s)
    /\ k.phase = "sent" /\ k.retried => f \/ Void(k.token, s)

\* A renewal is under way for the cookies in the jar, and is refused only if
\* they are void; the access token it brings has not expired.
RenewalTells(r, s, f, j) ==
    /\ r.phase = "sent" => j \in {r.token, 0}
    /\ r.phase = "answered" => /\ r.answer # "failed"
                               /\ r.answer = "refused" => j \in {r.token, 0} /\ Void(r.token, s)
                               /\ r.answer = "ok" => f \/ Void(r.token, s)

\* A call that is repeated, and not yet done.
Again(k) == k.retried /\ (k.phase = "sent" \/ (k.phase = "answered" /\ k.answer = "refused"))

OneRenewal ==
    \A t, u \in Tab : t # u /\ refresh[t].phase # "none" => refresh[u].phase = "none"

\* A repeated call has the cookies in the jar: no others are on their way.
RetriesHaveTheJar ==
    \A t \in Tab, c \in Call : Again(call[t][c]) =>
        /\ jar \in {call[t][c].token, 0}
        /\ \A u \in Tab : /\ ~Delivering(u)
                          /\ refresh[u].phase = "sent" => Void(refresh[u].token, session)

InOrder ==
    /\ \A t \in Tab : RenewalTells(refresh[t], session, fresh, jar)
    /\ \A t \in Tab, c \in Call : AnswerTells(call[t][c], session, fresh)
    /\ OneRenewal
    /\ RetriesHaveTheJar

\* A tab waits for one login, and only while it is logged out.
LoginsAreAlone ==
    \A t \in Tab : \A c \in Outstanding(t) : call[t][c].kind = "login" =>
        /\ ~authed[t] /\ ~call[t][c].retried
        /\ \A d \in Outstanding(t) : call[t][d].kind = "login" => d = c

LiveInv == LoginsAreAlone /\ session <= issued /\ (~crossed => InOrder)

\* The session ends or a new pair replaces it.
ServerMoves ==
    \/ session' \in {session, 0} /\ fresh' = fresh /\ issued' = issued
    \/ session' = issued + 1 /\ fresh' = TRUE /\ issued' = issued + 1

\* Whatever ends or replaces a session, what answers and renewals tell stays true.
LEMMA Tells ==
  ASSUME WebInv, WebInv', session <= issued, ServerMoves
  PROVE  /\ \A t \in Tab, c \in Call :
              AnswerTells(call[t][c], session, fresh) => AnswerTells(call[t][c], session', fresh')
         /\ \A t \in Tab, j \in {jar, 0} :
              RenewalTells(refresh[t], session, fresh, jar)
                 => RenewalTells(refresh[t], session', fresh', j)
         /\ \A t \in Tab : Void(refresh[t].token, session) => Void(refresh[t].token, session')
         /\ session' <= issued'
<1>1. /\ session \in Nat /\ issued \in Nat
      /\ \A t \in Tab : refresh[t].token \in Nat /\ refresh[t].token <= issued
      /\ \A t \in Tab, c \in Call : call[t][c].token \in Nat /\ call[t][c].token <= issued
  BY CallTypes, TabTypes DEF WebInv, TokensWereIssued, TypeOK, Generation
<1>2. ASSUME NEW token \in Nat, token <= issued, Void(token, session) PROVE Void(token, session')
  BY <1>1, <1>2 DEF Void, ServerMoves
<1>3. fresh' = fresh \/ (fresh' = TRUE /\ \A token \in Nat : token <= issued => Void(token, session'))
  BY <1>1 DEF Void, ServerMoves
<1>4. session' <= issued'
  BY <1>1 DEF ServerMoves
<1>5. ASSUME NEW t \in Tab, NEW c \in Call, AnswerTells(call[t][c], session, fresh)
      PROVE  AnswerTells(call[t][c], session', fresh')
  BY <1>1, <1>2, <1>3, <1>5 DEF AnswerTells
<1>6. ASSUME NEW t \in Tab, NEW j \in {jar, 0}, RenewalTells(refresh[t], session, fresh, jar)
      PROVE  RenewalTells(refresh[t], session', fresh', j)
  BY <1>1, <1>2, <1>3, <1>6 DEF RenewalTells
<1> QED BY <1>1, <1>2, <1>4, <1>5, <1>6

\* What most steps do: they end or replace calls, end a renewal, or empty the jar.
EndsOrReplaces ==
    /\ ServerMoves
    /\ jar' \in {jar, 0}
    /\ \A u \in Tab : refresh'[u] = refresh[u] \/ refresh'[u].phase = "none"
    /\ ~crossed' => ~crossed
    /\ ~crossed' => \A u \in Tab, d \in Call :
         \/ call'[u][d] = call[u][d]
         \/ /\ AnswerTells(call'[u][d], session', fresh')
            /\ Again(call'[u][d]) => Again(call[u][d]) /\ call'[u][d].token = call[u][d].token

\* Such steps keep the order.
LEMMA EndsOrReplacesLive ==
  ASSUME WebInv, WebInv', LiveInv, LoginsAreAlone', EndsOrReplaces
  PROVE  LiveInv'
<1> USE DEF EndsOrReplaces
<1>1. session' <= issued'
  BY Tells DEF LiveInv
<1>2. SUFFICES ASSUME ~crossed' PROVE InOrder'
  BY <1>1 DEF LiveInv
<1>3. InOrder
  BY <1>2 DEF LiveInv
<1>4. \A t \in Tab : RenewalTells(refresh'[t], session', fresh', jar')
  <2> TAKE t \in Tab
  <2>1. RenewalTells(refresh[t], session', fresh', jar')
    BY <1>3, Tells DEF InOrder, LiveInv
  <2>2. CASE refresh'[t].phase = "none"
    BY <2>2 DEF RenewalTells
  <2> QED BY <2>1, <2>2
<1>5. \A t \in Tab, c \in Call : AnswerTells(call'[t][c], session', fresh')
  <2> TAKE t \in Tab, c \in Call
  <2>1. AnswerTells(call[t][c], session', fresh')
    BY <1>3, Tells DEF InOrder, LiveInv
  <2> QED BY <1>2, <2>1
<1>6. OneRenewal'
  BY <1>3 DEF InOrder, OneRenewal
<1>7. RetriesHaveTheJar'
  <2> SUFFICES ASSUME NEW t \in Tab, NEW c \in Call, Again(call'[t][c]), NEW u \in Tab
               PROVE  /\ jar' \in {call'[t][c].token, 0}
                      /\ ~Delivering(u)'
                      /\ refresh'[u].phase = "sent" => Void(refresh'[u].token, session')
    BY DEF RetriesHaveTheJar
  <2>1. Again(call[t][c]) /\ call'[t][c].token = call[t][c].token
    BY <1>2
  <2>2. /\ jar \in {call[t][c].token, 0} /\ ~Delivering(u)
        /\ refresh[u].phase = "sent" => Void(refresh[u].token, session)
    BY <1>3, <2>1 DEF InOrder, RetriesHaveTheJar
  <2>3. Void(refresh[u].token, session) => Void(refresh[u].token, session')
    BY Tells DEF LiveInv
  <2> QED BY <2>1, <2>2, <2>3 DEF Delivering
<1> QED BY <1>4, <1>5, <1>6, <1>7 DEF InOrder

\* A tab's login is still alone if it is the only one that is new.
LEMMA LoginsKept ==
  ASSUME LoginsAreAlone, TypeOK,
         \A u \in Tab : ~authed[u] /\ Outstanding(u)' # {} => ~authed'[u],
         \A u \in Tab, d \in Call :
            call'[u][d].phase # "idle" =>
              /\ call[u][d].phase # "idle" /\ call'[u][d].kind = call[u][d].kind
              /\ call'[u][d].kind = "login" => call'[u][d].retried = call[u][d].retried
  PROVE  LoginsAreAlone'
<1> SUFFICES ASSUME NEW t \in Tab, NEW c \in Outstanding(t)', call'[t][c].kind = "login"
             PROVE  /\ ~authed'[t] /\ ~call'[t][c].retried
                    /\ \A d \in Outstanding(t)' : call'[t][d].kind = "login" => d = c
  BY DEF LoginsAreAlone
<1>1. c \in Outstanding(t) /\ call[t][c].kind = "login" /\ Outstanding(t)' # {}
  BY DEF Outstanding
<1>2. ~authed[t] /\ ~call[t][c].retried
  BY <1>1 DEF LoginsAreAlone
<1>3. ASSUME NEW d \in Outstanding(t)', call'[t][d].kind = "login" PROVE d = c
  <2>1. d \in Outstanding(t) /\ call[t][d].kind = "login"
    BY <1>3 DEF Outstanding
  <2> QED BY <1>1, <2>1 DEF LoginsAreAlone
<1>4. ~call'[t][c].retried
  BY <1>2 DEF Outstanding
<1> QED BY <1>1, <1>2, <1>3, <1>4

LEMMA LiveInit == Init => LiveInv
<1> SUFFICES ASSUME Init PROVE LiveInv
  OBVIOUS
<1>1. /\ \A t \in Tab : refresh[t].phase = "none"
      /\ \A t \in Tab, c \in Call : call[t][c].phase = "idle"
      /\ session = 1 /\ issued = 1
  BY DEF Init, NoRefresh, NoCall
<1>2. LoginsAreAlone
  BY <1>1 DEF LoginsAreAlone, Outstanding
<1>3. InOrder
  BY <1>1 DEF InOrder, RenewalTells, AnswerTells, OneRenewal, RetriesHaveTheJar, Again
<1> QED BY <1>1, <1>2, <1>3 DEF LiveInv

\* Steps that leave the calls and the renewals alone.
LEMMA QuietLive ==
  ASSUME WebInv, WebInv', LiveInv, ServerMoves,
         UNCHANGED <<jar, authed, refresh, call, crossed>>
  PROVE  LiveInv'
<1>1. LoginsAreAlone'
  BY DEF LiveInv, LoginsAreAlone, Outstanding
<1>2. EndsOrReplaces
  BY DEF EndsOrReplaces
<1> QED BY <1>1, <1>2, EndsOrReplacesLive

\* An access token expires under no repeated call and no renewal's answer.
LEMMA ExpireLive == ASSUME WebInv, WebInv', LiveInv, Expire PROVE LiveInv'
<1>1. /\ UNCHANGED <<session, issued, jar, authed, refresh, call, crossed>> /\ fresh' = FALSE
      /\ \A t \in Tab : refresh[t].phase # "answered"
      /\ \A t \in Tab, c \in Call :
           ~(call[t][c].phase = "sent" /\ call[t][c].retried /\ call[t][c].token = session)
  BY DEF Expire, browser, page
<1>2. LoginsAreAlone' /\ session' <= issued'
  BY <1>1 DEF LiveInv, LoginsAreAlone, Outstanding
<1>3. ASSUME ~crossed' PROVE InOrder'
  <2>1. InOrder
    BY <1>1, <1>3 DEF LiveInv
  <2>2. \A t \in Tab : RenewalTells(refresh'[t], session', fresh', jar')
    BY <1>1, <2>1 DEF InOrder, RenewalTells
  <2>3. \A t \in Tab, c \in Call : AnswerTells(call'[t][c], session', fresh')
    BY <1>1, <2>1 DEF InOrder, AnswerTells, Void
  <2>4. OneRenewal' /\ RetriesHaveTheJar'
    BY <1>1, <2>1 DEF InOrder, OneRenewal, RetriesHaveTheJar, Delivering
  <2> QED BY <2>2, <2>3, <2>4 DEF InOrder
<1> QED BY <1>2, <1>3 DEF LiveInv

LEMMA StartCallLive ==
  ASSUME WebInv, WebInv', LiveInv, NEW t \in Tab, NEW c \in Call, StartCall(t, c)
  PROVE  LiveInv'
<1>1. PICK kind \in Kind :
        /\ authed[t] <=> kind # "login"
        /\ kind = "login" => \A d \in Outstanding(t) : call[t][d].kind # "login"
        /\ call' = [call EXCEPT ![t][c] =
                      [NoCall EXCEPT !.phase = "sent", !.kind = kind, !.token = jar]]
  BY DEF StartCall
<1>2. /\ UNCHANGED <<session, fresh, issued, jar, authed, refresh, crossed>>
      /\ call[t][c].phase = "idle"
  BY DEF StartCall, server, browser
<1>3. /\ call'[t][c].phase = "sent" /\ call'[t][c].kind = kind /\ call'[t][c].retried = FALSE
      /\ \A u \in Tab, d \in Call : <<u, d>> # <<t, c>> => call'[u][d] = call[u][d]
  BY <1>1 DEF WebInv, TypeOK, NoCall
<1>4. LoginsAreAlone'
  <2> SUFFICES ASSUME NEW u \in Tab, NEW d \in Outstanding(u)', call'[u][d].kind = "login",
                      NEW e \in Outstanding(u)'
               PROVE  /\ ~authed[u] /\ ~call'[u][d].retried
                      /\ call'[u][e].kind = "login" => e = d
    BY <1>2 DEF LoginsAreAlone
  <2>1. CASE u # t
    BY <1>3, <2>1 DEF LiveInv, LoginsAreAlone, Outstanding
  <2>2. CASE u = t /\ kind # "login"
    BY <1>3, <2>2 DEF LiveInv, LoginsAreAlone, Outstanding
  <2>3. CASE u = t /\ kind = "login"
    <3>1. \A x \in Outstanding(t)' : call'[t][x].kind = "login" => x = c
      BY <1>1, <1>3, <2>3 DEF Outstanding
    <3> QED BY <1>1, <1>3, <2>3, <3>1
  <2> QED BY <2>1, <2>2, <2>3
<1>5. EndsOrReplaces
  <2>1. ServerMoves
    BY <1>2 DEF ServerMoves
  <2>2. AnswerTells(call'[t][c], session', fresh') /\ ~Again(call'[t][c])
    BY <1>3 DEF AnswerTells, Again
  <2> QED BY <1>2, <1>3, <2>1, <2>2 DEF EndsOrReplaces
<1> QED BY <1>4, <1>5, EndsOrReplacesLive

\* What the server makes of a call.
LEMMA ServedLive ==
  ASSUME WebInv, NEW t \in Tab, NEW c \in Call, ServeCall(t, c)
  PROVE  /\ call[t][c].phase = "sent" /\ ServerMoves
         /\ UNCHANGED <<jar, authed, refresh, crossed>>
         /\ call'[t][c].phase = "answered"
         /\ call'[t][c].kind = call[t][c].kind /\ call'[t][c].retried = call[t][c].retried
         /\ \/ call'[t][c].answer = "ok"
            \/ /\ call'[t][c].answer = "refused" /\ call'[t][c].token = call[t][c].token
               /\ UNCHANGED <<session, fresh>>
               /\ call[t][c].kind # "login" => ~fresh \/ Void(call[t][c].token, session)
         /\ \A u \in Tab, d \in Call : <<u, d>> # <<t, c>> => call'[u][d] = call[u][d]
<1> DEFINE k(answer, token) == [call[t][c] EXCEPT !.phase = "answered", !.answer = answer,
                                                  !.token = token]
<1>1. call[t][c].phase = "sent" /\ UNCHANGED <<jar, authed, refresh, crossed>>
  BY DEF ServeCall, browser
<1>2. call[t][c].kind \in {"data", "login", "logout"}
  BY CallTypes DEF WebInv, Kind
<1>3. \/ ServerMoves /\ \E token \in Generation : Answered(t, c, "ok", token)
      \/ /\ Answered(t, c, "refused", call[t][c].token) /\ UNCHANGED server
         /\ call[t][c].kind # "login" => ~(Accepted(call[t][c].token) /\ fresh)
  <2>0. call[t][c].token \in Generation
    BY CallTypes DEF WebInv
  <2>1. CASE call[t][c].kind = "data"
    BY <2>0, <2>1 DEF ServeCall, server, ServerMoves
  <2>2. CASE call[t][c].kind = "logout"
    BY <2>0, <2>2 DEF ServeCall, server, ServerMoves
  <2>3. CASE call[t][c].kind = "login"
    <3>1. issued \in Generation
      BY DEF WebInv, TypeOK
    <3>2. CASE Issue /\ Answered(t, c, "ok", issued')
      <4>1. issued' \in Generation /\ ServerMoves
        BY <3>1, <3>2, WebClientAssumption DEF Issue, ServerMoves, Generation
      <4> QED BY <3>2, <4>1
    <3> QED BY <2>3, <3>2 DEF ServeCall
  <2> QED BY <1>2, <2>1, <2>2, <2>3
<1>4. ASSUME NEW answer, NEW token, Answered(t, c, answer, token)
      PROVE  /\ call'[t][c] = k(answer, token)
             /\ \A u \in Tab, d \in Call : <<u, d>> # <<t, c>> => call'[u][d] = call[u][d]
  BY <1>4 DEF Answered, WebInv, TypeOK
<1>5. call[t][c] \in CallState
  BY CallTypes DEF WebInv
<1>6. ASSUME NEW answer, NEW token
      PROVE  /\ k(answer, token).phase = "answered" /\ k(answer, token).answer = answer
             /\ k(answer, token).token = token
             /\ k(answer, token).kind = call[t][c].kind /\ k(answer, token).retried = call[t][c].retried
  BY <1>5 DEF CallState
<1> HIDE DEF k
<1>7. CASE ServerMoves /\ \E token \in Generation : Answered(t, c, "ok", token)
  BY <1>1, <1>4, <1>6, <1>7
<1>8. CASE /\ Answered(t, c, "refused", call[t][c].token) /\ UNCHANGED server
           /\ call[t][c].kind # "login" => ~(Accepted(call[t][c].token) /\ fresh)
  <2>1. ServerMoves /\ UNCHANGED <<session, fresh>>
    BY <1>8 DEF server, ServerMoves
  <2>2. call[t][c].kind # "login" => ~fresh \/ Void(call[t][c].token, session)
    BY <1>8 DEF Accepted, Void
  <2> QED BY <1>1, <1>4, <1>6, <1>8, <2>1, <2>2
<1> QED BY <1>3, <1>7, <1>8

LEMMA ServeCallLive ==
  ASSUME WebInv, WebInv', LiveInv, NEW t \in Tab, NEW c \in Call, ServeCall(t, c)
  PROVE  LiveInv'
<1>1. LoginsAreAlone'
  BY ServedLive, LoginsKept DEF LiveInv, WebInv
<1>2. EndsOrReplaces
  <2>1. ASSUME ~crossed
        PROVE  /\ AnswerTells(call'[t][c], session', fresh')
               /\ Again(call'[t][c]) => Again(call[t][c]) /\ call'[t][c].token = call[t][c].token
    <3>1. AnswerTells(call[t][c], session, fresh)
      BY <2>1 DEF LiveInv, InOrder
    <3>2. ~call[t][c].retried \/ call[t][c].kind # "login"
      BY ServedLive DEF LiveInv, LoginsAreAlone, Outstanding
    <3> QED BY <3>1, <3>2, ServedLive DEF AnswerTells, Again
  <2> QED BY <2>1, ServedLive DEF EndsOrReplaces
<1> QED BY <1>1, <1>2, EndsOrReplacesLive

\* A call that is lost, or answered for another reason, ends what is claimed here.
LEMMA FailedCallLive ==
  ASSUME WebInv, WebInv', LiveInv, NEW t \in Tab, NEW c \in Call,
         LoseCall(t, c) \/ CannotDecrypt(t, c)
  PROVE  LiveInv'
<1>1. /\ crossed' = TRUE /\ UNCHANGED <<session, issued, authed>>
  BY DEF LoseCall, CannotDecrypt, server
<1>2. PICK answer \in {"refused", "failed"} :
        OneCall(t, c, [call[t][c] EXCEPT !.phase = "answered", !.answer = answer,
                                         !.token = call[t][c].token])
  BY FailedCallTypes DEF WebInv
<1>0. call[t][c] \in CallState /\ call[t][c].phase \in {"sent", "answered"}
  BY FailedCallTypes, CallTypes DEF WebInv
<1>3. /\ call'[t][c].kind = call[t][c].kind /\ call'[t][c].retried = call[t][c].retried
      /\ \A u \in Tab, d \in Call : <<u, d>> # <<t, c>> => call'[u][d] = call[u][d]
  BY <1>0, <1>2 DEF OneCall, CallState
<1>4. LoginsAreAlone'
  BY <1>0, <1>1, <1>3, LoginsKept DEF LiveInv, WebInv
<1> QED BY <1>1, <1>4 DEF LiveInv

LEMMA LoseRefreshLive ==
  ASSUME WebInv, LiveInv, NEW t \in Tab, LoseRefresh(t) PROVE LiveInv'
BY DEF LoseRefresh, server, LiveInv, LoginsAreAlone, Outstanding

\* No pair is issued for a renewal while a call is repeated.
LEMMA ServeRefreshLive ==
  ASSUME WebInv, WebInv', LiveInv, NEW t \in Tab, ServeRefresh(t)
  PROVE  LiveInv'
<1>1. /\ refresh[t].phase = "sent" /\ refresh'[t].phase = "answered" /\ ServerMoves
      /\ \A u \in Tab : u # t => refresh'[u] = refresh[u]
      /\ UNCHANGED <<call, authed, jar, crossed>>
      /\ \/ refresh'[t].answer = "ok" /\ fresh' /\ ~Void(refresh[t].token, session)
         \/ /\ refresh'[t].answer = "refused" /\ refresh'[t].token = refresh[t].token
            /\ Void(refresh[t].token, session) /\ UNCHANGED <<session, fresh>>
  <2>1. CASE Accepted(refresh[t].token) /\ Issue /\ RefreshAnswered(t, "ok", issued')
    BY <2>1 DEF ServeRefresh, browser, Accepted, Void, Issue, ServerMoves, RefreshAnswered, WebInv, TypeOK
  <2>2. CASE /\ ~Accepted(refresh[t].token)
             /\ RefreshAnswered(t, "refused", refresh[t].token)
             /\ UNCHANGED server
    BY <2>2 DEF ServeRefresh, browser, server, Accepted, Void, ServerMoves, RefreshAnswered, WebInv, TypeOK
  <2> QED BY <2>1, <2>2 DEF ServeRefresh
<1>2. LoginsAreAlone' /\ session' <= issued'
  BY <1>1, Tells DEF LiveInv, LoginsAreAlone, Outstanding
<1>3. ASSUME ~crossed' PROVE InOrder'
  <2>1. InOrder
    BY <1>1, <1>3 DEF LiveInv
  <2>2. \A u \in Tab : RenewalTells(refresh'[u], session', fresh', jar')
    <3> TAKE u \in Tab
    <3>1. CASE u # t
      BY <1>1, <2>1, <3>1, Tells DEF LiveInv, InOrder
    <3>2. CASE u = t
      <4>1. RenewalTells(refresh[t], session, fresh, jar)
        BY <2>1 DEF InOrder
      <4> QED BY <1>1, <3>2, <4>1 DEF RenewalTells
    <3> QED BY <3>1, <3>2
  <2>3. \A u \in Tab, d \in Call : AnswerTells(call'[u][d], session', fresh')
    BY <1>1, <2>1, Tells DEF LiveInv, InOrder
  <2>4. OneRenewal'
    BY <1>1, <2>1 DEF InOrder, OneRenewal
  <2>5. RetriesHaveTheJar'
    <3> SUFFICES ASSUME NEW v \in Tab, NEW c \in Call, Again(call[v][c]), NEW u \in Tab
                 PROVE  /\ jar \in {call[v][c].token, 0}
                        /\ ~Delivering(u)'
                        /\ refresh'[u].phase = "sent" => Void(refresh'[u].token, session')
      BY <1>1 DEF RetriesHaveTheJar
    <3>1. /\ jar \in {call[v][c].token, 0} /\ ~Delivering(u)
          /\ refresh[u].phase = "sent" => Void(refresh[u].token, session)
      BY <2>1 DEF InOrder, RetriesHaveTheJar
    <3>2. Void(refresh[u].token, session) => Void(refresh[u].token, session')
      BY <1>1, Tells DEF LiveInv
    <3> QED BY <1>1, <3>1, <3>2 DEF Delivering
  <2> QED BY <2>2, <2>3, <2>4, <2>5 DEF InOrder
<1> QED BY <1>2, <1>3 DEF LiveInv

\* A call ends, and the jar does not get new cookies.
LEMMA CallOverLive ==
  ASSUME WebInv, WebInv', LiveInv, NEW t \in Tab, NEW c \in Call, OneCall(t, c, NoCall),
         UNCHANGED <<session, fresh, issued, refresh, crossed>>,
         jar' \in {jar, 0}, \A u \in Tab : ~authed[u] => ~authed'[u]
  PROVE  LiveInv'
<1>1. /\ call'[t][c].phase = "idle"
      /\ \A u \in Tab, d \in Call : <<u, d>> # <<t, c>> => call'[u][d] = call[u][d]
  BY DEF OneCall, NoCall
<1>2. LoginsAreAlone'
  BY <1>1, LoginsKept DEF LiveInv, WebInv
<1>3. EndsOrReplaces
  <2>1. AnswerTells(call'[t][c], session', fresh') /\ ~Again(call'[t][c])
    BY <1>1 DEF AnswerTells, Again
  <2> QED BY <1>1, <2>1 DEF EndsOrReplaces, ServerMoves
<1> QED BY <1>2, <1>3, EndsOrReplacesLive

LEMMA AnswerOkLive ==
  ASSUME WebInv, WebInv', LiveInv, NEW t \in Tab, NEW c \in Call, AnswerOk(t, c)
  PROVE  LiveInv'
<1>1. OneCall(t, c, NoCall) /\ UNCHANGED <<session, fresh, issued, refresh>>
  BY AnswerOkTypes DEF WebInv, AnswerOk, server
<1>2. call[t][c].kind \in {"data", "login", "logout"} /\ call[t][c].phase = "answered"
  BY CallTypes DEF WebInv, Kind, AnswerOk
<1>3. CASE call[t][c].kind = "data"
  <2>1. jar' = jar /\ authed' = authed /\ (crossed' <=> crossed)
    BY <1>3 DEF AnswerOk
  <2>2. crossed' = crossed
    BY <2>1 DEF WebInv, TypeOK
  <2> QED BY <1>1, <2>1, <2>2, CallOverLive
<1>4. CASE call[t][c].kind = "logout"
  <2>1. jar' = 0 /\ authed' = [authed EXCEPT ![t] = FALSE] /\ (crossed' <=> crossed)
    BY <1>4 DEF AnswerOk, SetAuth
  <2>2. crossed' = crossed /\ \A u \in Tab : ~authed[u] => ~authed'[u]
    BY <2>1 DEF WebInv, TypeOK
  <2> QED BY <1>1, <2>1, <2>2, CallOverLive
<1>5. CASE call[t][c].kind = "login"
  <2>1. /\ call'[t][c].phase = "idle"
        /\ \A u \in Tab, d \in Call : <<u, d>> # <<t, c>> => call'[u][d] = call[u][d]
    BY <1>1 DEF OneCall, NoCall
  <2>2. authed' = [authed EXCEPT ![t] = TRUE] /\ (~crossed' => ~crossed /\ Alone(t, c))
    BY <1>5 DEF AnswerOk, SetAuth
  <2>3. LoginsAreAlone'
    <3>1. ASSUME NEW u \in Tab, NEW d \in Outstanding(u)', call'[u][d].kind = "login"
          PROVE  /\ ~authed'[u] /\ ~call'[u][d].retried
                 /\ \A e \in Outstanding(u)' : call'[u][e].kind = "login" => e = d
      <4>1. <<u, d>> # <<t, c>> /\ d \in Outstanding(u) /\ call[u][d].kind = "login"
        BY <2>1, <3>1 DEF Outstanding
      <4>2. /\ ~authed[u] /\ ~call[u][d].retried
            /\ \A e \in Outstanding(u) : call[u][e].kind = "login" => e = d
        BY <4>1 DEF LiveInv, LoginsAreAlone
      <4>3. u # t
        <5>1. c \in Outstanding(t)
          BY <1>2 DEF Outstanding
        <5> QED BY <1>5, <4>1, <4>2, <5>1
      <4> QED BY <2>1, <2>2, <4>1, <4>2, <4>3 DEF Outstanding, WebInv, TypeOK
    <3> QED BY <3>1 DEF LoginsAreAlone
  <2>4. ASSUME ~crossed' PROVE InOrder'
    <3>1. \A u \in Tab, d \in Call : call'[u][d].phase = "idle"
      BY <2>1, <2>2, <2>4 DEF Alone, Outstanding
    <3>2. \A u \in Tab : refresh'[u].phase = "none"
      BY <3>1 DEF WebInv, RenewalsAreAwaited, Waiting
    <3> QED BY <3>1, <3>2 DEF InOrder, RenewalTells, AnswerTells, OneRenewal, RetriesHaveTheJar, Again
  <2> QED BY <1>1, <2>3, <2>4 DEF LiveInv
<1> QED BY <1>2, <1>3, <1>4, <1>5

\* The error of a call, or the end of a failed renewal, logs nobody in.
LEMMA ExpiredLogsOut ==
  ASSUME TypeOK, NEW t \in Tab, NEW expired, NEW loggedOut, SessionExpired(t, expired, loggedOut)
  PROVE  \A u \in Tab : ~authed[u] => ~authed'[u]
BY DEF SessionExpired, SetAuth, TypeOK

LEMMA AnswerErrorLive ==
  ASSUME WebInv, WebInv', LiveInv, NEW t \in Tab, NEW c \in Call, AnswerError(t, c)
  PROVE  LiveInv'
<1>1. OneCall(t, c, NoCall)
  BY AnswerErrorTypes DEF WebInv
<1>2. \A u \in Tab : ~authed[u] => ~authed'[u]
  BY ExpiredLogsOut DEF WebInv, AnswerError
<1>3. UNCHANGED <<session, fresh, issued, jar, refresh, crossed>>
  BY DEF AnswerError, server
<1> QED BY <1>1, <1>2, <1>3, CallOverLive

\* A renewal that starts while a call is repeated is for void cookies.
LEMMA AwaitRenewalLive ==
  ASSUME WebInv, WebInv', LiveInv, NEW t \in Tab, NEW c \in Call, AwaitRenewal(t, c)
  PROVE  LiveInv'
<1>0. /\ call[t][c].phase = "answered" /\ call[t][c].answer = "refused"
      /\ call[t][c].kind # "login" /\ ~call[t][c].retried
      /\ UNCHANGED <<session, fresh, issued, jar, authed>>
  BY DEF AwaitRenewal, Renewable, server, browser
<1>1. /\ call'[t][c].phase = "waiting" /\ call'[t][c].kind = call[t][c].kind
      /\ \A u \in Tab, d \in Call : <<u, d>> # <<t, c>> => call'[u][d] = call[u][d]
  <2>1. OneCall(t, c, [call[t][c] EXCEPT !.phase = "waiting", !.refused = call[t][c].token,
                                          !.retried = TRUE])
    BY AwaitRenewalTypes DEF WebInv
  <2>2. call[t][c] \in CallState
    BY CallTypes DEF WebInv
  <2> QED BY <2>1, <2>2 DEF OneCall, CallState
<1>2. LoginsAreAlone'
  BY <1>0, <1>1, LoginsKept DEF LiveInv, WebInv
<1>3. AnswerTells(call'[t][c], session', fresh') /\ ~Again(call'[t][c])
  BY <1>1 DEF AnswerTells, Again
<1>4. CASE refresh[t].phase # "none"
  <2>1. refresh' = refresh /\ crossed' = crossed
    BY <1>4 DEF AwaitRenewal
  <2>2. EndsOrReplaces
    BY <1>0, <1>1, <1>3, <2>1 DEF EndsOrReplaces, ServerMoves
  <2> QED BY <1>2, <2>2, EndsOrReplacesLive
<1>5. CASE refresh[t].phase = "none"
  <2>1. /\ refresh'[t] = [phase |-> "sent", token |-> jar, answer |-> "failed"]
        /\ \A u \in Tab : u # t => refresh'[u] = refresh[u]
        /\ ~crossed' => /\ ~crossed /\ jar = call[t][c].token
                        /\ \A u \in Tab : refresh[u].phase = "none"
    BY <1>5 DEF AwaitRenewal, WebInv, TypeOK
  <2>2. refresh'[t].phase = "sent" /\ refresh'[t].token = jar
    BY <2>1
  <2>3. ASSUME ~crossed' PROVE InOrder'
    <3>1. InOrder
      BY <2>1, <2>3 DEF LiveInv
    <3>2. \A u \in Tab : RenewalTells(refresh'[u], session', fresh', jar')
      BY <1>0, <2>1, <2>2, <3>1 DEF InOrder, RenewalTells
    <3>3. \A u \in Tab, d \in Call : AnswerTells(call'[u][d], session', fresh')
      BY <1>0, <1>1, <1>3, <3>1 DEF InOrder
    <3>4. OneRenewal'
      BY <2>1, <2>3 DEF OneRenewal
    <3>5. RetriesHaveTheJar'
      <4> SUFFICES ASSUME NEW v \in Tab, NEW d \in Call, Again(call'[v][d]), NEW u \in Tab
                   PROVE  /\ jar \in {call'[v][d].token, 0}
                          /\ ~Delivering(u)'
                          /\ refresh'[u].phase = "sent" => Void(refresh'[u].token, session)
        BY <1>0 DEF RetriesHaveTheJar
      <4>1. Again(call[v][d]) /\ call'[v][d] = call[v][d]
        BY <1>1, <1>3
      <4>2. jar \in {call[v][d].token, 0}
        BY <3>1, <4>1 DEF InOrder, RetriesHaveTheJar
      <4>3. Void(jar, session)
        <5>1. ~fresh \/ Void(jar, session)
          BY <1>0, <2>1, <2>3, <3>1 DEF InOrder, AnswerTells
        <5>2. fresh \/ Void(call[v][d].token, session)
          BY <3>1, <4>1 DEF InOrder, AnswerTells, Again
        <5>3. Void(0, session)
          BY DEF Void
        <5> QED BY <4>2, <5>1, <5>2, <5>3
      <4>4. u # t => refresh'[u].phase = "none"
        BY <2>1, <2>3
      <4> QED BY <2>2, <4>1, <4>2, <4>3, <4>4 DEF Delivering
    <3> QED BY <3>2, <3>3, <3>4, <3>5 DEF InOrder
  <2> QED BY <1>0, <1>2, <2>3 DEF LiveInv
<1> QED BY <1>4, <1>5

\* The repeated calls and the jar get the new cookies.
LEMMA RenewedLive ==
  ASSUME WebInv, WebInv', LiveInv, NEW t \in Tab, Renewed(t)
  PROVE  LiveInv'
<1>1. /\ Delivering(t) /\ jar' = refresh[t].token
      /\ UNCHANGED <<session, fresh, issued, authed, crossed>>
      /\ refresh'[t].phase = "none" /\ \A u \in Tab : u # t => refresh'[u] = refresh[u]
  BY DEF Renewed, Delivering, server, WebInv, TypeOK, NoRefresh
<1>2. /\ \A u \in Tab, d \in Call : u # t \/ d \notin Waiting(t) => call'[u][d] = call[u][d]
      /\ \A d \in Waiting(t) : /\ call'[t][d].phase = "sent" /\ call'[t][d].token = refresh[t].token
                              /\ call'[t][d].kind = call[t][d].kind
                              /\ call'[t][d].retried = call[t][d].retried
  <2>1. OneTab(t, [c \in Call |->
                         IF c \in Waiting(t)
                         THEN [call[t][c] EXCEPT !.phase = "sent", !.token = refresh[t].token,
                                                 !.answer = "failed"]
                         ELSE call[t][c]])
    BY RenewedTypes DEF WebInv
  <2>2. ASSUME NEW d \in Waiting(t)
        PROVE  /\ call'[t][d].phase = "sent" /\ call'[t][d].token = refresh[t].token
               /\ call'[t][d].kind = call[t][d].kind
               /\ call'[t][d].retried = call[t][d].retried
    <3>1. d \in Call /\ call[t][d] \in CallState
      BY CallTypes DEF WebInv, Waiting
    <3>2. call'[t][d] = [call[t][d] EXCEPT !.phase = "sent", !.token = refresh[t].token,
                                           !.answer = "failed"]
      BY <2>1, <2>2, <3>1 DEF OneTab
    <3> QED BY <3>1, <3>2 DEF CallState
  <2> QED BY <2>1, <2>2 DEF OneTab
<1>3. LoginsAreAlone'
  <2>1. \A u \in Tab, d \in Call :
            call'[u][d].phase # "idle" =>
              /\ call[u][d].phase # "idle" /\ call'[u][d].kind = call[u][d].kind
              /\ call'[u][d].kind = "login" => call'[u][d].retried = call[u][d].retried
    BY <1>2 DEF Waiting
  <2> QED BY <1>1, <2>1, LoginsKept DEF LiveInv, WebInv
<1>4. ASSUME ~crossed' PROVE InOrder'
  <2>1. InOrder
    BY <1>1, <1>4 DEF LiveInv
  <2>2. \A u \in Tab : refresh'[u].phase = "none"
    BY <1>1, <2>1 DEF InOrder, OneRenewal, Delivering
  <2>3. ASSUME NEW u \in Tab, NEW d \in Call PROVE ~Again(call[u][d])
    BY <1>1, <2>1 DEF InOrder, RetriesHaveTheJar
  <2>4. fresh \/ Void(refresh[t].token, session)
    BY <1>1, <2>1 DEF InOrder, RenewalTells, Delivering
  <2>5. \A u \in Tab, d \in Call : AnswerTells(call'[u][d], session', fresh')
    BY <1>1, <1>2, <2>1, <2>4 DEF InOrder, AnswerTells
  <2>6. RetriesHaveTheJar'
    BY <1>1, <1>2, <2>2, <2>3 DEF RetriesHaveTheJar, Delivering
  <2> QED BY <2>2, <2>5, <2>6 DEF InOrder, RenewalTells, OneRenewal
<1> QED BY <1>1, <1>3, <1>4 DEF LiveInv

LEMMA NotRenewedLive ==
  ASSUME WebInv, WebInv', LiveInv, NEW t \in Tab, NotRenewed(t)
  PROVE  LiveInv'
<1>1. /\ jar' \in {jar, 0} /\ UNCHANGED <<session, fresh, issued, crossed>>
      /\ refresh'[t].phase = "none" /\ \A u \in Tab : u # t => refresh'[u] = refresh[u]
  BY DEF NotRenewed, server, WebInv, TypeOK, NoRefresh
<1>2. \A u \in Tab : ~authed[u] => ~authed'[u]
  BY ExpiredLogsOut DEF WebInv, NotRenewed
<1>3. \A u \in Tab, d \in Call : call'[u][d] = call[u][d] \/ call'[u][d].phase = "idle"
  <2>1. OneTab(t, [c \in Call |-> IF c \in Waiting(t) THEN NoCall ELSE call[t][c]])
    BY NotRenewedTypes DEF WebInv
  <2> QED BY <2>1 DEF OneTab, NoCall
<1>4. LoginsAreAlone'
  BY <1>2, <1>3, LoginsKept DEF LiveInv, WebInv
<1>5. EndsOrReplaces
  BY <1>1, <1>3 DEF EndsOrReplaces, ServerMoves, AnswerTells, Again
<1> QED BY <1>4, <1>5, EndsOrReplacesLive

LEMMA ReloadLive ==
  ASSUME WebInv, WebInv', LiveInv, NEW t \in Tab, Reload(t)
  PROVE  LiveInv'
<1>1. /\ UNCHANGED <<session, fresh, issued, jar, crossed>>
      /\ refresh'[t].phase = "none" /\ \A u \in Tab : u # t => refresh'[u] = refresh[u]
      /\ \A u \in Tab : u # t => authed'[u] = authed[u]
  BY DEF Reload, server, browser, WebInv, TypeOK, NoRefresh
<1>2. \A u \in Tab, d \in Call : IF u = t THEN call'[u][d].phase = "idle" ELSE call'[u][d] = call[u][d]
  <2>1. OneTab(t, [c \in Call |-> NoCall])
    BY ReloadTypes DEF WebInv
  <2> QED BY <2>1 DEF OneTab, NoCall
<1>3. \A u \in Tab : ~authed[u] /\ Outstanding(u)' # {} => ~authed'[u]
  BY <1>1, <1>2 DEF Outstanding
<1>4. LoginsAreAlone'
  BY <1>2, <1>3, LoginsKept DEF LiveInv, WebInv
<1>5. EndsOrReplaces
  BY <1>1, <1>2 DEF EndsOrReplaces, ServerMoves, AnswerTells, Again
<1> QED BY <1>4, <1>5, EndsOrReplacesLive

LEMMA LiveStep == ASSUME WebInv, LiveInv, [Next]_vars PROVE LiveInv'
<1>0. WebInv'
  BY StepInv
<1> USE <1>0
<1>1. CASE Expire
  BY <1>1, ExpireLive
<1>2. CASE RevokeSession
  BY <1>2, QuietLive DEF RevokeSession, browser, page, ServerMoves
<1>3. ASSUME NEW t \in Tab,
             \/ ServeRefresh(t) \/ LoseRefresh(t) \/ Renewed(t) \/ NotRenewed(t)
             \/ Reload(t)
      PROVE  LiveInv'
  BY <1>3, ServeRefreshLive, LoseRefreshLive, RenewedLive, NotRenewedLive, ReloadLive
<1>4. ASSUME NEW t \in Tab, HideBar(t) PROVE LiveInv'
  BY <1>4, QuietLive DEF HideBar, server, browser, ServerMoves
<1>5. ASSUME NEW t \in Tab, NEW c \in Call,
             \/ StartCall(t, c) \/ ServeCall(t, c) \/ LoseCall(t, c) \/ CannotDecrypt(t, c)
             \/ AnswerOk(t, c) \/ AwaitRenewal(t, c) \/ AnswerError(t, c)
      PROVE  LiveInv'
  BY <1>5, StartCallLive, ServeCallLive, FailedCallLive, AnswerOkLive, AwaitRenewalLive, AnswerErrorLive
<1>6. CASE UNCHANGED vars
  BY <1>6, QuietLive DEF vars, server, browser, page, ServerMoves
<1> QED BY <1>1, <1>2, <1>3, <1>4, <1>5, <1>6 DEF Next

\* A tab that is sent to the login page holds void cookies, if no answer was lost
\* and none crossed.
LEMMA OnlyVoidCookies ==
  ASSUME WebInv, LiveInv, Next, ~crossed', NEW t \in Tab, redirecting'[t], ~redirecting[t]
  PROVE  Void(jar, session)
<1> USE DEF WebInv
<1>0. \A s : Void(0, s)
  BY DEF Void
<1>1. ASSUME NEW u \in Tab, Renewed(u) \/ Reload(u) \/ ServeRefresh(u) \/ LoseRefresh(u) \/ HideBar(u)
      PROVE  FALSE
  BY <1>1 DEF Renewed, Reload, ServeRefresh, LoseRefresh, HideBar, TypeOK
<1>2. ASSUME NEW u \in Tab, NEW c \in Call,
             \/ StartCall(u, c) \/ ServeCall(u, c) \/ LoseCall(u, c) \/ CannotDecrypt(u, c)
             \/ AnswerOk(u, c) \/ AwaitRenewal(u, c)
      PROVE  FALSE
  BY <1>2 DEF StartCall, ServeCall, LoseCall, CannotDecrypt, AnswerOk, AwaitRenewal
<1>3. ASSUME Expire \/ RevokeSession PROVE FALSE
  BY <1>3 DEF Expire, RevokeSession, page
<1>4. ASSUME NEW u \in Tab, NotRenewed(u) PROVE Void(jar, session)
  <2>1. /\ refresh[u].phase = "answered" /\ refresh[u].answer # "ok" /\ InOrder
        /\ refresh[u].answer \in Answer
    BY <1>4, TabTypes DEF NotRenewed, LiveInv, TypeOK, RefreshState
  <2>2. Void(refresh[u].token, session) /\ jar \in {refresh[u].token, 0}
    BY <2>1 DEF InOrder, RenewalTells, Answer
  <2> QED BY <1>0, <2>2
<1>5. ASSUME NEW u \in Tab, NEW c \in Call, AnswerError(u, c) PROVE Void(jar, session)
  <2>1. /\ call[u][c].phase = "answered" /\ call[u][c].answer # "ok" /\ ~Renewable(u, call[u][c])
        /\ InOrder /\ call[u][c].answer \in Answer /\ call[u][c].retried \in BOOLEAN
        /\ SessionExpired(u, call[u][c].retried \/ (call[u][c].answer = "refused" /\ authed[u]),
                          call[u][c].kind = "logout")
    BY <1>5, CallTypes DEF AnswerError, LiveInv
  <2>2. call[u][c].answer = "refused"
    BY <2>1 DEF InOrder, AnswerTells, Answer
  <2>3. call[u][c].retried \/ authed[u]
    BY <2>1 DEF SessionExpired, TypeOK
  <2>4. call[u][c].retried
    <3>1. call[u][c].kind = "login" => ~authed[u]
      BY <2>1 DEF LiveInv, LoginsAreAlone, Outstanding
    <3> QED BY <2>1, <2>2, <2>3, <3>1 DEF Renewable
  <2>5. Void(call[u][c].token, session) /\ jar \in {call[u][c].token, 0}
    BY <2>1, <2>2, <2>4 DEF InOrder, AnswerTells, RetriesHaveTheJar, Again
  <2> QED BY <1>0, <2>5
<1> QED BY <1>1, <1>2, <1>3, <1>4, <1>5 DEF Next

\* In any number of tabs, with any number of calls: a tab that holds the cookies
\* of a live session is sent to the login page only after a lost answer, crossed
\* ones, or a password that could not be decrypted.
THEOREM LiveSessionsKept == Spec => LiveSessionKept
<1>1. Spec => []LiveInv
  BY LiveInit, LiveStep, WebInvariant, PTL DEF Spec
<1>2. ASSUME WebInv, LiveInv, [Next]_vars
      PROVE  [\A t \in Tab :
                redirecting'[t] /\ ~redirecting[t] /\ session # 0 /\ fresh /\ jar = session
                  => crossed']_vars
  <2> SUFFICES ASSUME NEW t \in Tab, Next, redirecting'[t], ~redirecting[t], session # 0,
                      jar = session, ~crossed'
               PROVE  FALSE
    BY <1>2
  <2>1. Void(jar, session)
    BY <1>2, OnlyVoidCookies
  <2> QED BY <2>1 DEF Void
<1> QED BY <1>1, <1>2, WebInvariant, PTL DEF Spec, LiveSessionKept

-----------------------------------------------------------------------------
(* The open pages.                                                          *)

\* The tabs of the first n, as the filter leaves them: they are tabs of these
\* pages, each once, and the dashboard's is the leftmost.
FilteredTo(s, n, pages) ==
    /\ s \in Seq(Page)
    /\ ToSet(s) = {tabs[i] : i \in 1 .. n} \intersect pages
    /\ \A i, j \in 1 .. Len(s) : s[i] = s[j] => i = j
    /\ n > 0 => Len(s) > 0 /\ s[1] = Dashboard

\* The recursion of Filtered has a solution.
LEMMA FilterSteps ==
  ASSUME tabs \in Seq(Page), NEW pages
  PROVE  \E f : f = [n \in 0 .. Len(tabs) |->
                       IF n = 0 THEN <<>>
                       ELSE IF tabs[n] \in pages THEN Append(f[n - 1], tabs[n]) ELSE f[n - 1]]
<1> DEFINE D == 0 .. Len(tabs)
           V == Seq(Page)
           base == [n \in D |-> <<>>]
           stop == {0}
           N == Len(tabs)
           next == [n \in D |-> IF n = 0 THEN 0 ELSE n - 1]
           rank == [n \in D |-> n]
           step == [x \in D \X V |-> IF x[1] \in DOMAIN tabs /\ tabs[x[1]] \in pages
                                      THEN Append(x[2], tabs[x[1]]) ELSE x[2]]
<1>1. Len(tabs) \in Nat /\ DOMAIN tabs = 1 .. Len(tabs) /\ \A n \in 1 .. Len(tabs) : tabs[n] \in Page
  BY LenProperties, ElementOfSeq
<1>2. base \in [D -> V] /\ next \in [D -> D] /\ rank \in [D -> Nat]
  BY <1>1
<1>3. step \in [D \X V -> V]
  <2>1. ASSUME NEW x \in D \X V
        PROVE  (IF x[1] \in DOMAIN tabs /\ tabs[x[1]] \in pages
                THEN Append(x[2], tabs[x[1]]) ELSE x[2]) \in V
    BY <1>1, AppendProperties
  <2> QED BY <2>1
<1>4. /\ N \in Nat /\ \A d \in D : rank[d] <= N
      /\ \A d \in D \ stop : rank[next[d]] < rank[d]
  BY <1>1
<1>5. Ranked(D, V, stop, base, next, step, rank, N)
  BY <1>1, <1>2, <1>3, <1>4 DEF Ranked
<1>6. PICK f \in [D -> V] :
         \A d \in D : f[d] = IF d \in stop THEN base[d] ELSE step[<<d, f[next[d]]>>]
  <2>1. PICK f : Solves(f, D, V, stop, base, next, step)
    <3> HIDE DEF D, V, base, stop, N, next, rank, step
    <3> QED BY <1>5, Recursion
  <2> QED BY <2>1 DEF Solves
<1>7. ASSUME NEW d \in D
      PROVE  f[d] = IF d = 0 THEN <<>>
                    ELSE IF tabs[d] \in pages THEN Append(f[d - 1], tabs[d]) ELSE f[d - 1]
  <2>1. CASE d = 0
    BY <1>6, <2>1
  <2>2. CASE d # 0
    <3>1. d \in DOMAIN tabs /\ next[d] = d - 1 /\ d - 1 \in D /\ f[d - 1] \in V
      BY <1>1, <1>6, <2>2
    <3>2. <<d, f[d - 1]>> \in D \X V
      BY <3>1
    <3>3. f[d] = step[<<d, f[d - 1]>>]
      BY <1>6, <2>2, <3>1
    <3> QED BY <2>2, <3>1, <3>2, <3>3
  <2> QED BY <2>1, <2>2
<1>8. f = [n \in D |-> IF n = 0 THEN <<>>
                       ELSE IF tabs[n] \in pages THEN Append(f[n - 1], tabs[n]) ELSE f[n - 1]]
  BY <1>6, <1>7
<1> QED BY <1>8

\* tabs.filter keeps the order and what is in front.
LEMMA FilterKeeps ==
  ASSUME TabsKept, NEW pages, Dashboard \in pages
  PROVE  FilteredTo(Filtered(pages), Len(tabs), pages)
<1> DEFINE Meets(f) == f = [n \in 0 .. Len(tabs) |->
                       IF n = 0 THEN <<>>
                       ELSE IF tabs[n] \in pages THEN Append(f[n - 1], tabs[n]) ELSE f[n - 1]]
           first == CHOOSE f : Meets(f)
<1>1. /\ tabs \in Seq(Page) /\ tabs[1] = Dashboard
      /\ \A i, j \in 1 .. Len(tabs) : tabs[i] = tabs[j] => i = j
      /\ Len(tabs) \in Nat /\ \A n \in 1 .. Len(tabs) : tabs[n] \in Page
  BY LenProperties, ElementOfSeq DEF TabsKept
<1>2. Meets(first)
  <2>1. \E f : Meets(f)
    BY <1>1, FilterSteps
  <2> HIDE DEF Meets
  <2> QED BY <2>1
<1>3. Filtered(pages) = first[Len(tabs)]
  BY DEF Filtered
<1>4. /\ first[0] = <<>>
      /\ \A n \in 1 .. Len(tabs) :
           first[n] = IF tabs[n] \in pages THEN Append(first[n - 1], tabs[n]) ELSE first[n - 1]
  <2>1. ASSUME NEW f, Meets(f)
        PROVE  /\ f[0] = <<>>
               /\ \A n \in 1 .. Len(tabs) :
                    f[n] = IF tabs[n] \in pages THEN Append(f[n - 1], tabs[n]) ELSE f[n - 1]
    <3>1. \A n \in 0 .. Len(tabs) :
             f[n] = IF n = 0 THEN <<>>
                    ELSE IF tabs[n] \in pages THEN Append(f[n - 1], tabs[n]) ELSE f[n - 1]
      BY <2>1
    <3> QED BY <1>1, <3>1
  <2> HIDE DEF first, Meets
  <2> QED BY <1>2, <2>1
<1> DEFINE S == {n \in 0 .. Len(tabs) : FilteredTo(first[n], n, pages)}
<1> HIDE DEF first, Meets
<1>5. 0 \in S
  <2>1. Len(<<>>) = 0 /\ <<>> \in Seq(Page) /\ ToSet(<<>>) = {}
    BY DEF ToSet
  <2>2. {tabs[i] : i \in 1 .. 0} = {}
    OBVIOUS
  <2>3. FilteredTo(<<>>, 0, pages)
    BY <2>1, <2>2 DEF FilteredTo
  <2> QED BY <1>1, <1>4, <2>3
<1>6. ASSUME NEW n \in 0 .. (Len(tabs) - 1), n \in S PROVE n + 1 \in S
  <2> DEFINE s == first[n]
             p == tabs[n + 1]
             new == first[n + 1]
  <2>1. /\ n + 1 \in 1 .. Len(tabs) /\ p \in Page
        /\ new = IF p \in pages THEN Append(s, p) ELSE s
        /\ FilteredTo(s, n, pages)
    BY <1>1, <1>4, <1>6
  <2> HIDE DEF s, p, new
  <2>2. /\ s \in Seq(Page) /\ Len(s) \in Nat /\ DOMAIN s = 1 .. Len(s)
        /\ ToSet(s) = {s[i] : i \in 1 .. Len(s)}
        /\ \A i \in 1 .. Len(s) : s[i] \in {tabs[k] : k \in 1 .. n}
    <3>1. s \in Seq(Page) /\ Len(s) \in Nat /\ DOMAIN s = 1 .. Len(s)
      BY <2>1, LenProperties DEF FilteredTo
    <3>2. ToSet(s) = {s[i] : i \in 1 .. Len(s)}
      BY <3>1 DEF ToSet
    <3> QED BY <2>1, <3>1, <3>2 DEF FilteredTo
  <2>3. {tabs[k] : k \in 1 .. (n + 1)} = {tabs[k] : k \in 1 .. n} \union {p}
    BY <1>1, <1>6 DEF p
  <2>4. \A i \in 1 .. Len(s) : s[i] # p
    <3>1. ASSUME NEW k \in 1 .. n PROVE tabs[k] # tabs[n + 1]
      <4>1. k \in 1 .. Len(tabs) /\ n + 1 \in 1 .. Len(tabs) /\ k # n + 1
        BY <1>1, <1>6
      <4> QED BY <1>1, <4>1
    <3> QED BY <2>2, <3>1 DEF p
  <2>5. CASE p \notin pages
    <3>1. n # 0 /\ new = s
      BY <1>1, <2>1, <2>5 DEF p
    <3>2. FilteredTo(s, n + 1, pages)
      <4>1. {tabs[k] : k \in 1 .. (n + 1)} \intersect pages = {tabs[k] : k \in 1 .. n} \intersect pages
        BY <2>3, <2>5
      <4>2. Len(s) > 0 /\ s[1] = Dashboard
        BY <1>6, <2>1, <3>1 DEF FilteredTo
      <4> QED BY <2>1, <4>1, <4>2 DEF FilteredTo
    <3> QED BY <1>6, <3>1, <3>2 DEF new
  <2>6. CASE p \in pages
    <3>1. /\ new \in Seq(Page) /\ Len(new) = Len(s) + 1
          /\ \A i \in 1 .. Len(s) : new[i] = s[i]
          /\ new[Len(s) + 1] = p /\ DOMAIN new = 1 .. Len(new)
      BY <2>1, <2>2, <2>6, AppendProperties, LenProperties
    <3>2. ToSet(new) = ToSet(s) \union {p}
      <4>1. ToSet(new) = {new[i] : i \in 1 .. Len(new)}
        BY <3>1 DEF ToSet
      <4> QED BY <2>2, <3>1, <4>1
    <3>3. ASSUME NEW i \in 1 .. Len(new), NEW j \in 1 .. Len(new), new[i] = new[j]
          PROVE  i = j
      <4>1. \A k \in 1 .. Len(new) : k = Len(s) + 1 \/ k \in 1 .. Len(s)
        BY <2>2, <3>1
      <4>2. i = Len(s) + 1 <=> j = Len(s) + 1
        BY <2>4, <3>1, <3>3, <4>1
      <4>3. CASE i \in 1 .. Len(s) /\ j \in 1 .. Len(s)
        BY <2>1, <3>1, <3>3, <4>3 DEF FilteredTo
      <4> QED BY <4>1, <4>2, <4>3
    <3>4. Len(new) > 0 /\ new[1] = Dashboard
      <4>1. CASE n = 0
        <5>1. s = <<>> /\ Len(s) = 0
          BY <1>4, <4>1 DEF s
        <5> QED BY <1>1, <3>1, <4>1, <5>1 DEF p
      <4>2. CASE n # 0
        BY <1>6, <2>1, <2>2, <3>1, <4>2 DEF FilteredTo
      <4> QED BY <4>1, <4>2
    <3>5. FilteredTo(new, n + 1, pages)
      BY <2>1, <2>3, <2>6, <3>1, <3>2, <3>3, <3>4 DEF FilteredTo
    <3> QED BY <1>6, <3>5 DEF new
  <2> QED BY <2>5, <2>6
<1>7. Len(tabs) \in S
  <2>1. 0 .. Len(tabs) \subseteq S
    <3> HIDE DEF S
    <3> QED BY <1>1, <1>5, <1>6, BoundedInduction
  <2> QED BY <1>1, <2>1
<1> QED BY <1>3, <1>7

\* What holds in every state: the bar counts the navigation it knows of, and
\* the active tab is the page on display or one that is asked for.
TabsInv ==
    /\ TabsKept
    /\ ActiveIsShown
    /\ navigating => marks > 0

\* The tabs as a set of positions.
LEMMA TabsTypes ==
  ASSUME TabsKept
  PROVE  /\ tabs \in Seq(Page) /\ Len(tabs) \in Nat /\ Len(tabs) > 0
         /\ DOMAIN tabs = 1 .. Len(tabs)
         /\ ToSet(tabs) = {tabs[i] : i \in 1 .. Len(tabs)}
         /\ ToSet(tabs) \subseteq Page /\ Dashboard \in ToSet(tabs) /\ activeTab \in Page
<1>1. tabs \in Seq(Page) /\ Len(tabs) \in Nat /\ DOMAIN tabs = 1 .. Len(tabs)
  BY LenProperties DEF TabsKept
<1>2. ToSet(tabs) = {tabs[i] : i \in 1 .. Len(tabs)}
  BY <1>1 DEF ToSet
<1>3. \A i \in 1 .. Len(tabs) : tabs[i] \in Page
  BY <1>1, ElementOfSeq
<1>4. activeTab \in ToSet(tabs) /\ tabs[1] = Dashboard
  BY DEF TabsKept
<1>5. Len(tabs) > 0
  BY <1>1, <1>2, <1>4
<1> QED BY <1>1, <1>2, <1>3, <1>4, <1>5

\* At finds the one tab of a page.
LEMMA AtFinds ==
  ASSUME TabsKept, NEW p \in ToSet(tabs)
  PROVE  At(p) \in 1 .. Len(tabs) /\ tabs[At(p)] = p
<1>1. \E i \in DOMAIN tabs : tabs[i] = p
  BY TabsTypes
<1> QED BY <1>1, TabsTypes DEF At

\* The tabs are kept if they are filtered and the active one is among them.
LEMMA FilteredKeep ==
  ASSUME TabsKept, NEW pages, Dashboard \in pages, tabs' = Filtered(pages),
         activeTab' \in ToSet(tabs) \intersect pages
  PROVE  /\ tabs' \in Seq(Page) /\ activeTab' \in ToSet(tabs') /\ tabs'[1] = Dashboard
         /\ \A i, j \in DOMAIN tabs' : tabs'[i] = tabs'[j] => i = j
<1>1. FilteredTo(tabs', Len(tabs), pages)
  BY FilterKeeps
<1>2. Len(tabs) > 0 /\ ToSet(tabs') = ToSet(tabs) \intersect pages
  BY <1>1, TabsTypes DEF FilteredTo
<1>3. tabs' \in Seq(Page) /\ DOMAIN tabs' = 1 .. Len(tabs')
  BY <1>1, LenProperties DEF FilteredTo
<1> QED BY <1>1, <1>2, <1>3 DEF FilteredTo

\* A tab is added on the right.
LEMMA AddTabKeeps ==
  ASSUME TabsKept, NEW p \in Page, AddTab(p)
  PROVE  /\ tabs' \in Seq(Page) /\ activeTab' \in ToSet(tabs') /\ tabs'[1] = Dashboard
         /\ \A i, j \in DOMAIN tabs' : tabs'[i] = tabs'[j] => i = j
         /\ activeTab' = p
<1>1. CASE p \in ToSet(tabs)
  BY <1>1 DEF AddTab, TabsKept
<1>2. CASE p \notin ToSet(tabs)
  <2>1. tabs' = Append(tabs, p) /\ activeTab' = p
    BY <1>2 DEF AddTab
  <2>2. /\ tabs' \in Seq(Page) /\ Len(tabs') = Len(tabs) + 1
        /\ \A i \in 1 .. Len(tabs) : tabs'[i] = tabs[i]
        /\ tabs'[Len(tabs) + 1] = p
    BY <2>1, TabsTypes, AppendProperties
  <2>3. DOMAIN tabs' = 1 .. Len(tabs')
    BY <2>2, LenProperties
  <2>4. p \in ToSet(tabs')
    BY <2>2, <2>3, TabsTypes DEF ToSet
  <2>5. \A i \in 1 .. Len(tabs) : tabs[i] # p
    BY <1>2, TabsTypes
  <2>6. \A i, j \in DOMAIN tabs' : tabs'[i] = tabs'[j] => i = j
    BY <2>2, <2>3, <2>5, TabsTypes DEF TabsKept
  <2> QED BY <2>1, <2>2, <2>4, <2>6, TabsTypes DEF TabsKept
<1> QED BY <1>1, <1>2

\* The dashboard alone is a list of tabs as it should be.
LEMMA ResetKeeps ==
  ASSUME tabs' = <<Dashboard>>, activeTab' = Dashboard
  PROVE  /\ tabs' \in Seq(Page) /\ activeTab' \in ToSet(tabs') /\ tabs'[1] = Dashboard
         /\ \A i, j \in DOMAIN tabs' : tabs'[i] = tabs'[j] => i = j
<1>1. /\ <<Dashboard>> \in Seq(Page) /\ DOMAIN <<Dashboard>> = {1}
      /\ <<Dashboard>>[1] = Dashboard
  BY TabsAssumption
<1> QED BY <1>1 DEF ToSet

LEMMA TabsInitInv == TabsInit => TabsInv
<1> SUFFICES ASSUME TabsInit PROVE TabsInv
  OBVIOUS
<1>1. /\ <<Dashboard>> \in Seq(Page) /\ DOMAIN <<Dashboard>> = {1}
      /\ <<Dashboard>>[1] = Dashboard
  BY TabsAssumption
<1>2. Dashboard \in ToSet(<<Dashboard>>)
  BY <1>1 DEF ToSet
<1>3. 0 \in 0 .. MaxMarks
  BY TabsAssumption
<1> QED BY <1>1, <1>2, <1>3, TabsAssumption DEF TabsInit, TabsInv, TabsKept, ActiveIsShown

\* A tab is closed: its left neighbour is asked for if it was the active one.
LEMMA CloseTabInv ==
  ASSUME TabsInv, NEW p \in Page, CloseTab(p)
  PROVE  TabsInv'
<1>1. /\ TabsKept /\ ActiveIsShown /\ (navigating => marks > 0)
      /\ p \in ToSet(tabs) \ {Dashboard} /\ tabs' = Filtered(Page \ {p})
      /\ UNCHANGED <<shown, navigating, marks, returned>>
  BY DEF TabsInv, CloseTab, progress
<1>2. CASE activeTab = p
  <2>1. activeTab' = Neighbour(p) /\ going' = Neighbour(p)
    BY <1>2 DEF CloseTab, Activate
  <2>2. At(p) \in 1 .. Len(tabs) /\ tabs[At(p)] = p /\ At(p) # 1
    BY <1>1, AtFinds, TabsTypes DEF TabsKept
  <2>3. At(p) - 1 \in 1 .. Len(tabs)
    BY <1>1, <2>2, TabsTypes
  <2>4. Neighbour(p) \in ToSet(tabs) /\ Neighbour(p) # p
    BY <1>1, <2>2, <2>3, TabsTypes DEF Neighbour, TabsKept
  <2>5. activeTab' \in ToSet(tabs) \intersect (Page \ {p})
    BY <1>1, <2>1, <2>4, TabsTypes
  <2>6. going' \in Page /\ going' # Away
    BY <1>1, <2>1, <2>4, TabsTypes, TabsAssumption
  <2> QED BY <1>1, <2>5, <2>6, FilteredKeep, TabsAssumption DEF TabsInv, TabsKept, ActiveIsShown
<1>3. CASE activeTab # p
  <2>1. activeTab' = activeTab /\ going' = going
    BY <1>3 DEF CloseTab
  <2>2. activeTab' \in ToSet(tabs) \intersect (Page \ {p})
    BY <1>1, <1>3, <2>1, TabsTypes DEF TabsKept
  <2> QED BY <1>1, <2>1, <2>2, FilteredKeep, TabsAssumption DEF TabsInv, TabsKept, ActiveIsShown
<1> QED BY <1>2, <1>3

\* The menu keeps the active tab and the dashboard's.
LEMMA CloseSomeInv ==
  ASSUME TabsInv, CloseOthers \/ CloseRight
  PROVE  TabsInv'
<1>1. /\ TabsKept /\ ActiveIsShown /\ (navigating => marks > 0)
      /\ UNCHANGED <<activeTab, shown, going, navigating, marks, returned>>
  BY DEF TabsInv, CloseOthers, CloseRight, progress
<1>2. \E pages : Dashboard \in pages /\ activeTab \in pages /\ tabs' = Filtered(pages)
  <2>1. CASE CloseOthers
    BY <2>1 DEF CloseOthers
  <2>2. CASE CloseRight
    <3>1. activeTab \in {tabs[i] : i \in 1 .. At(activeTab)}
      BY <1>1, AtFinds DEF TabsKept
    <3> QED BY <2>2, <3>1 DEF CloseRight
  <2> QED BY <2>1, <2>2
<1>3. PICK pages : Dashboard \in pages /\ activeTab \in pages /\ tabs' = Filtered(pages)
  BY <1>2
<1>4. activeTab' \in ToSet(tabs) \intersect pages
  BY <1>1, <1>3 DEF TabsKept
<1>5. /\ tabs' \in Seq(Page) /\ activeTab' \in ToSet(tabs') /\ tabs'[1] = Dashboard
      /\ \A i, j \in DOMAIN tabs' : tabs'[i] = tabs'[j] => i = j
  BY <1>1, <1>3, <1>4, FilteredKeep
<1> QED BY <1>1, <1>5 DEF TabsInv, TabsKept, ActiveIsShown

\* The page asked for comes on display, and gets its tab.
LEMMA ArriveInv ==
  ASSUME TabsInv, Arrive
  PROVE  TabsInv'
<1>1. /\ TabsKept /\ going \in Page /\ going' = Away /\ shown' = going
      /\ navigating \in BOOLEAN /\ marks \in 0 .. MaxMarks /\ (navigating => marks > 0)
  BY DEF TabsInv, TabsKept, Arrive
<1>2. CASE going = shown
  <2>1. UNCHANGED <<tabs, activeTab, navigating, marks>> /\ returned' = (activeTab # shown)
    BY <1>2 DEF Arrive, progress
  <2> QED BY <1>1, <1>2, <2>1 DEF TabsInv, TabsKept, ActiveIsShown
<1>3. CASE going # shown
  <2>1. AddTab(going) /\ returned' = FALSE /\ navigating' = FALSE /\ marks' \in 0 .. MaxMarks
    BY <1>1, <1>3, TabsAssumption DEF Arrive, RouteChanged
  <2>2. /\ tabs' \in Seq(Page) /\ activeTab' \in ToSet(tabs') /\ tabs'[1] = Dashboard
        /\ \A i, j \in DOMAIN tabs' : tabs'[i] = tabs'[j] => i = j
        /\ activeTab' = going
    BY <1>1, <2>1, AddTabKeeps
  <2> QED BY <1>1, <2>1, <2>2 DEF TabsInv, TabsKept, ActiveIsShown
<1> QED BY <1>2, <1>3

\* Every step keeps the tabs whole.
LEMMA TabsStep ==
  ASSUME TabsInv, [TabsNext]_tabVars
  PROVE  TabsInv'
<1> USE DEF TabsInv, TabsKept, ActiveIsShown
<1>1. ASSUME NEW p \in Page, Click(p) PROVE TabsInv'
  <2>1. /\ navigating' \in BOOLEAN /\ marks' \in 0 .. MaxMarks
        /\ (navigating' => marks' > 0)
    <3>1. marks \in Nat /\ marks <= MaxMarks /\ MaxMarks \in Nat
      BY TabsAssumption
    <3>2. CASE p = shown
      BY <1>1, <3>2 DEF Click, progress
    <3>3. CASE p # shown
      BY <1>1, <3>1, <3>3 DEF Click
    <3> QED BY <3>2, <3>3
  <2>2. going' \in Page /\ going' # Away /\ UNCHANGED <<tabs, activeTab, shown, returned>>
    BY <1>1, TabsAssumption DEF Click
  <2> QED BY <2>1, <2>2
<1>2. ASSUME NEW p \in Page, GoBack(p) PROVE TabsInv'
  BY <1>2, TabsAssumption DEF GoBack, progress
<1>3. ASSUME NEW p \in Page, EnterPages(p) PROVE TabsInv'
  <2>1. /\ tabs' \in Seq(Page) /\ activeTab' \in ToSet(tabs') /\ tabs'[1] = Dashboard
        /\ \A i, j \in DOMAIN tabs' : tabs'[i] = tabs'[j] => i = j
        /\ activeTab' = p
    BY <1>3, AddTabKeeps DEF EnterPages
  <2> QED BY <1>3, <2>1 DEF EnterPages, progress
<1>4. CASE Logout
  <2>1. marks' \in 0 .. MaxMarks /\ navigating' = FALSE
    BY <1>4, TabsAssumption DEF Logout, RouteChanged
  <2> QED BY <1>4, <2>1, ResetKeeps DEF Logout, LeavePages, ResetTabs
<1>5. CASE EndSession
  <2>1. marks' \in 0 .. MaxMarks /\ navigating' = FALSE
    BY <1>5, TabsAssumption DEF EndSession, PageLoaded
  <2> QED BY <1>5, <2>1, ResetKeeps DEF EndSession, LeavePages, ResetTabs
<1>6. CASE LeaveByAddress
  <2>1. /\ navigating' = FALSE /\ marks' \in 0 .. MaxMarks
        /\ shown' = Away /\ going' = Away /\ returned' = FALSE /\ UNCHANGED <<tabs, activeTab>>
    BY <1>6, TabsAssumption DEF LeaveByAddress, LeavePages, PageLoaded
  <2> QED BY <2>1
<1>7. CASE ReloadPage
  <2>1. shown \in Page /\ AddTab(shown) /\ marks' \in 0 .. MaxMarks /\ navigating' = FALSE
    BY <1>7, TabsAssumption DEF ReloadPage, PageLoaded
  <2>2. /\ tabs' \in Seq(Page) /\ activeTab' \in ToSet(tabs') /\ tabs'[1] = Dashboard
        /\ \A i, j \in DOMAIN tabs' : tabs'[i] = tabs'[j] => i = j
        /\ activeTab' = shown
    BY <2>1, AddTabKeeps
  <2> QED BY <1>7, <2>1, <2>2 DEF ReloadPage
<1>8. CASE CloseAll
  <2>1. going' \in Page /\ going' # Away
    BY <1>8, TabsAssumption DEF CloseAll, Activate
  <2> QED BY <1>8, <2>1, ResetKeeps DEF CloseAll, Activate, progress
<1>9. CASE UNCHANGED tabVars
  BY <1>9 DEF tabVars, progress
<1> QED BY <1>1, <1>2, <1>3, <1>4, <1>5, <1>6, <1>7, <1>8, <1>9, CloseTabInv, CloseSomeInv,
           ArriveInv DEF TabsNext

\* For any number of pages, the dashboard's tab is the leftmost, a page has one
\* tab and the active tab is one of them, whatever the menu closes while a page
\* is loading.
THEOREM TabsStayWhole == TabsSpec => []TabsKept
<1>1. TabsInv /\ [TabsNext]_tabVars => TabsInv'
  BY TabsStep
<1>2. TabsInv => TabsKept
  BY DEF TabsInv
<1> QED BY <1>1, <1>2, TabsInitInv, PTL DEF TabsSpec

\* When nothing is loading, the active tab is the page on display, unless the
\* page was asked for again while the router was leaving it.
THEOREM ActiveTabIsShown == TabsSpec => []ActiveIsShown
<1>1. TabsInv /\ [TabsNext]_tabVars => TabsInv'
  BY TabsStep
<1>2. TabsInv => ActiveIsShown
  BY DEF TabsInv
<1> QED BY <1>1, <1>2, TabsInitInv, PTL DEF TabsSpec
=============================================================================
