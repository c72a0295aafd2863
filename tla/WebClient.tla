----------------------------- MODULE WebClient -----------------------------
(***************************************************************************)
(* The web client's API calls in the tabs of one browser: the interceptors *)
(* of api-client.ts, the progress bar's counter and the login state.       *)
(*                                                                         *)
(* A tab runs on one event loop: what an answer triggers up to the next    *)
(* await is one step, and the callers that share a refresh resume together *)
(* when it settles.  The tabs share the cookie jar and local storage.  A   *)
(* "generation" is the pair of cookies one login or renewal issues; what   *)
(* the server does with one is what Session.tla models.                    *)
(***************************************************************************)
EXTENDS Integers, FiniteSets

CONSTANTS
    Tab,            \* the tabs of the browser
    Call,           \* the API calls a tab can have outstanding at once
    MaxGeneration,  \* bound: the cookie pairs the server issues
    Lossy           \* may a call or a renewal fail (5xx, time-out, no network)?

ASSUME WebClientAssumption ==
    /\ IsFiniteSet(Tab) /\ IsFiniteSet(Call)
    /\ MaxGeneration \in Nat \ {0}
    /\ Lossy \in BOOLEAN

VARIABLES
    session,      \* the generation the server accepts, 0 if it accepts none
    fresh,        \* has its access token not expired?
    issued,       \* how many generations the server has issued
    jar,          \* the generation in the cookie jar, 0 if there is none
    stored,       \* isAuthenticated as local storage has it
    authed,       \* isAuthenticated of each tab
    redirecting,  \* isRedirecting of each tab
    refresh,      \* refreshPromise of each tab
    call,         \* the calls of each tab
    active,       \* activeRequests of each tab
    bar,          \* the progress bar of each tab
    presented,    \* history: the generations a page has presented for renewal
    crossed       \* history: an answer was lost, answers crossed, or a password
                  \* could not be decrypted

server == <<session, fresh, issued>>
browser == <<jar, stored>>
page == <<authed, redirecting, refresh, call, active, bar>>
vars == <<server, browser, page, presented, crossed>>

-----------------------------------------------------------------------------
Kind == {"data", "login", "logout"}
Answer == {"ok", "refused", "failed"}
Generation == 0..MaxGeneration

CallState ==
    [phase : {"idle", "sent", "answered", "waiting"}, kind : Kind, token : Generation,
     refused : Generation, retried : BOOLEAN, answer : Answer]

NoCall == [phase |-> "idle", kind |-> "data", token |-> 0, refused |-> 0,
           retried |-> FALSE, answer |-> "failed"]

RefreshState == [phase : {"none", "sent", "answered"}, token : Generation, answer : Answer]

NoRefresh == [phase |-> "none", token |-> 0, answer |-> "failed"]

Outstanding(t) == {c \in Call : call[t][c].phase # "idle"}
Alone(t, c) == \A u \in Tab : \A d \in Outstanding(u) : <<u, d>> = <<t, c>>
Waiting(t) == {c \in Call : call[t][c].phase = "waiting"}

Init ==
    /\ session = 1 /\ fresh = TRUE /\ issued = 1 /\ jar = 1 /\ stored = TRUE
    /\ authed = [t \in Tab |-> TRUE]
    /\ redirecting = [t \in Tab |-> FALSE]
    /\ refresh = [t \in Tab |-> NoRefresh]
    /\ call = [t \in Tab |-> [c \in Call |-> NoCall]]
    /\ active = [t \in Tab |-> 0]
    /\ bar = [t \in Tab |-> "hidden"]
    /\ presented = [t \in Tab |-> {}]
    /\ crossed = FALSE

-----------------------------------------------------------------------------
(* The progress bar.                                                        *)

BarStart(t) ==
    /\ active' = [active EXCEPT ![t] = @ + 1]
    /\ bar' = [bar EXCEPT ![t] = "shown"]

\* Mutant of BarDone: the counter is not held at zero.
BarDoneUncut(t, n) ==
    /\ active' = [active EXCEPT ![t] = @ - n]
    /\ bar' = [bar EXCEPT ![t] = IF active'[t] = 0 /\ n > 0 THEN "hiding" ELSE @]

\* done() called n times in one go; the last request starts the timer that
\* hides the bar.
BarDone(t, n) ==
    /\ active' = [active EXCEPT ![t] = IF @ > n THEN @ - n ELSE 0]
    /\ bar' = [bar EXCEPT ![t] = IF active'[t] = 0 /\ n > 0 THEN "hiding" ELSE @]

HideBar(t) ==
    /\ bar[t] = "hiding"
    /\ bar' = [bar EXCEPT ![t] = "hidden"]
    /\ UNCHANGED <<server, browser, authed, redirecting, refresh, call, active,
                   presented, crossed>>

-----------------------------------------------------------------------------
(* The server.                                                              *)

Accepted(token) == token = session /\ session # 0

\* Issues a new pair; the old one is void.
Issue == /\ issued < MaxGeneration
         /\ issued' = issued + 1 /\ session' = issued' /\ fresh' = TRUE

\* The access token's life (hours) is longer than a call: one that was renewed
\* for a retry does not expire on its way or under the retry.
Expire ==
    /\ session # 0 /\ fresh
    /\ \A t \in Tab : refresh[t].phase # "answered"
    /\ \A t \in Tab, c \in Call :
          ~(call[t][c].phase = "sent" /\ call[t][c].retried /\ call[t][c].token = session)
    /\ fresh' = FALSE
    /\ UNCHANGED <<session, issued, browser, page, presented, crossed>>

\* A kick, a password change elsewhere, or the end of the refresh token's life.
RevokeSession ==
    /\ session # 0
    /\ session' = 0
    /\ UNCHANGED <<fresh, issued, browser, page, presented, crossed>>

Answered(t, c, answer, token) ==
    call' = [call EXCEPT ![t][c] = [@ EXCEPT !.phase = "answered", !.answer = answer,
                                             !.token = token]]

ServeCall(t, c) ==
    LET k == call[t][c] IN
    /\ k.phase = "sent"
    /\ CASE k.kind = "data" ->
              /\ Answered(t, c, IF Accepted(k.token) /\ fresh THEN "ok" ELSE "refused", k.token)
              /\ UNCHANGED server
         [] k.kind = "logout" ->
              IF Accepted(k.token) /\ fresh
              THEN session' = 0 /\ UNCHANGED <<fresh, issued>> /\ Answered(t, c, "ok", k.token)
              ELSE Answered(t, c, "refused", k.token) /\ UNCHANGED server
         [] k.kind = "login" ->
              \/ Issue /\ Answered(t, c, "ok", issued')
              \/ Answered(t, c, "refused", k.token) /\ UNCHANGED server
    /\ UNCHANGED <<browser, authed, redirecting, refresh, active, bar, presented, crossed>>

\* The call or its answer is lost, or the server fails; the cookies of a lost
\* answer are lost with it.
LoseCall(t, c) ==
    /\ Lossy
    /\ \/ call[t][c].phase = "sent"
       \/ call[t][c].phase = "answered" /\ call[t][c].answer # "failed"
    /\ Answered(t, c, "failed", call[t][c].token)
    /\ crossed' = TRUE
    /\ UNCHANGED <<server, browser, authed, redirecting, refresh, active, bar, presented>>

\* A call of a live session that carries a password is refused, with the code
\* of an expired session, when the server cannot decrypt it: the page keeps the
\* server's public key for five minutes.  (Its repetition carries the same
\* password; the model lets the server decrypt that or not.)
CannotDecrypt(t, c) ==
    /\ call[t][c].phase = "sent" /\ call[t][c].kind = "data"
    /\ Accepted(call[t][c].token) /\ fresh
    /\ Answered(t, c, "refused", call[t][c].token)
    /\ crossed' = TRUE
    /\ UNCHANGED <<server, browser, authed, redirecting, refresh, active, bar, presented>>

RefreshAnswered(t, answer, token) ==
    refresh' = [refresh EXCEPT ![t] = [phase |-> "answered", answer |-> answer, token |-> token]]

ServeRefresh(t) ==
    /\ refresh[t].phase = "sent"
    /\ \/ Accepted(refresh[t].token) /\ Issue /\ RefreshAnswered(t, "ok", issued')
       \/ /\ ~Accepted(refresh[t].token)
          /\ RefreshAnswered(t, "refused", refresh[t].token)
          /\ UNCHANGED server
    /\ UNCHANGED <<browser, authed, redirecting, call, active, bar, presented, crossed>>

LoseRefresh(t) ==
    /\ Lossy
    /\ \/ refresh[t].phase = "sent"
       \/ refresh[t].phase = "answered" /\ refresh[t].answer # "failed"
    /\ RefreshAnswered(t, "failed", refresh[t].token)
    /\ crossed' = TRUE
    /\ UNCHANGED <<server, browser, authed, redirecting, call, active, bar, presented>>

-----------------------------------------------------------------------------
(* The tabs.                                                                *)

\* A call goes out with the cookies of that moment: pages call when logged in,
\* the login page when not.
StartCall(t, c) ==
    /\ call[t][c].phase = "idle"
    /\ \E kind \in Kind :
          /\ authed[t] <=> kind # "login"
          /\ kind = "login" => \A d \in Outstanding(t) : call[t][d].kind # "login"
          /\ call' = [call EXCEPT ![t][c] =
                        [NoCall EXCEPT !.phase = "sent", !.kind = kind, !.token = jar]]
    /\ BarStart(t)
    /\ UNCHANGED <<server, browser, authed, redirecting, refresh, presented, crossed>>

SetAuth(t, value) ==
    /\ authed' = [authed EXCEPT ![t] = value]
    /\ stored' = value

\* handleSessionExpired, and clearAuth when a logout is over anyway.
SessionExpired(t, expired, loggedOut) ==
    /\ redirecting' = [redirecting EXCEPT ![t] = @ \/ expired]
    /\ IF loggedOut \/ (expired /\ ~redirecting[t])
       THEN SetAuth(t, FALSE) ELSE UNCHANGED <<authed, stored>>

AnswerOk(t, c) ==
    LET k == call[t][c] IN
    /\ k.phase = "answered" /\ k.answer = "ok"
    /\ call' = [call EXCEPT ![t][c] = NoCall]
    /\ BarDone(t, 1)
    /\ CASE k.kind = "login" -> jar' = k.token /\ SetAuth(t, TRUE)
         [] k.kind = "logout" -> jar' = 0 /\ SetAuth(t, FALSE)
         [] k.kind = "data" ->          \* saving the profile persists the state
              stored' \in {stored, authed[t]} /\ UNCHANGED <<jar, authed>>
    /\ crossed' = (crossed \/ (k.kind = "login" /\ ~Alone(t, c)))
    /\ UNCHANGED <<server, redirecting, refresh, presented>>

Renewable(t, k) ==
    k.answer = "refused" /\ k.kind # "login" /\ authed[t] /\ ~k.retried

\* Mutant of AwaitRenewal: every refused call starts a renewal of its own.
AwaitRenewalEach(t, c) ==
    LET k == call[t][c] IN
    /\ k.phase = "answered" /\ Renewable(t, k)
    /\ call' = [call EXCEPT ![t][c] =
                  [@ EXCEPT !.phase = "waiting", !.refused = k.token, !.retried = TRUE]]
    /\ refresh' = [refresh EXCEPT ![t] = [phase |-> "sent", token |-> jar, answer |-> "failed"]]
    /\ presented' = [presented EXCEPT ![t] = @ \union {jar}]
    /\ crossed' = (crossed \/ jar # k.token \/ \E u \in Tab \ {t} : refresh[u].phase # "none")
    /\ UNCHANGED <<server, browser, authed, redirecting, active, bar>>

\* A refused call waits for the renewal in flight, or starts one.
AwaitRenewal(t, c) ==
    LET k == call[t][c] IN
    /\ k.phase = "answered" /\ Renewable(t, k)
    /\ call' = [call EXCEPT ![t][c] =
                  [@ EXCEPT !.phase = "waiting", !.refused = k.token, !.retried = TRUE]]
    /\ IF refresh[t].phase # "none" THEN UNCHANGED <<refresh, presented, crossed>>
       ELSE /\ refresh' = [refresh EXCEPT ![t] =
                             [phase |-> "sent", token |-> jar, answer |-> "failed"]]
            /\ presented' = [presented EXCEPT ![t] = @ \union {jar}]
            /\ crossed' = (crossed \/ jar # k.token
                             \/ \E u \in Tab \ {t} : refresh[u].phase # "none")
    /\ UNCHANGED <<server, browser, authed, redirecting, active, bar>>

\* A repeated call that fails is counted as done by its own error handler and
\* by the one that repeated it, and whatever failed it ends the session.
AnswerError(t, c) ==
    LET k == call[t][c] IN
    /\ k.phase = "answered" /\ k.answer # "ok" /\ ~Renewable(t, k)
    /\ call' = [call EXCEPT ![t][c] = NoCall]
    /\ BarDone(t, IF k.retried THEN 2 ELSE 1)
    /\ SessionExpired(t, k.retried \/ (k.answer = "refused" /\ authed[t]), k.kind = "logout")
    /\ UNCHANGED <<server, jar, refresh, presented, crossed>>

\* Mutant of Renewed: one of the waiting calls is woken.
RenewedOne(t) ==
    LET g == refresh[t].token IN
    /\ refresh[t].phase = "answered" /\ refresh[t].answer = "ok"
    /\ jar' = g
    /\ refresh' = [refresh EXCEPT ![t] = NoRefresh]
    /\ \E c \in Waiting(t) :
          call' = [call EXCEPT ![t][c] = [@ EXCEPT !.phase = "sent", !.token = g,
                                                   !.answer = "failed"]]
    /\ UNCHANGED <<server, stored, authed, redirecting, active, bar, presented, crossed>>

\* Mutant of Renewed: the calls are repeated with the cookies they had.
RenewedStale(t) ==
    LET g == refresh[t].token IN
    /\ refresh[t].phase = "answered" /\ refresh[t].answer = "ok"
    /\ jar' = g
    /\ refresh' = [refresh EXCEPT ![t] = NoRefresh]
    /\ call' = [call EXCEPT ![t] = [c \in Call |->
                  IF c \in Waiting(t) THEN [@[c] EXCEPT !.phase = "sent", !.answer = "failed"]
                                      ELSE @[c]]]
    /\ UNCHANGED <<server, stored, authed, redirecting, active, bar, presented, crossed>>

\* The waiting calls go out again, with the new cookies.
Renewed(t) ==
    LET g == refresh[t].token IN
    /\ refresh[t].phase = "answered" /\ refresh[t].answer = "ok"
    /\ jar' = g
    /\ refresh' = [refresh EXCEPT ![t] = NoRefresh]
    /\ call' = [call EXCEPT ![t] = [c \in Call |->
                  IF c \in Waiting(t) THEN [@[c] EXCEPT !.phase = "sent", !.token = g,
                                                        !.answer = "failed"]
                                      ELSE @[c]]]
    /\ UNCHANGED <<server, stored, authed, redirecting, active, bar, presented, crossed>>

\* Mutant of NotRenewed: refreshPromise is reset after a success only.
NotRenewedKept(t) ==
    /\ refresh[t].phase = "answered" /\ refresh[t].answer # "ok"
    /\ jar' = IF refresh[t].answer = "refused" THEN 0 ELSE jar
    /\ call' = [call EXCEPT ![t] = [c \in Call |-> IF c \in Waiting(t) THEN NoCall ELSE @[c]]]
    /\ BarDone(t, Cardinality(Waiting(t)))
    /\ SessionExpired(t, Waiting(t) # {}, \E c \in Waiting(t) : call[t][c].kind = "logout")
    /\ UNCHANGED <<server, refresh, presented, crossed>>

\* A refused renewal comes with empty cookies; a lost one leaves them.
NotRenewed(t) ==
    /\ refresh[t].phase = "answered" /\ refresh[t].answer # "ok"
    /\ jar' = IF refresh[t].answer = "refused" THEN 0 ELSE jar
    /\ refresh' = [refresh EXCEPT ![t] = NoRefresh]
    /\ call' = [call EXCEPT ![t] = [c \in Call |-> IF c \in Waiting(t) THEN NoCall ELSE @[c]]]
    /\ BarDone(t, Cardinality(Waiting(t)))
    /\ SessionExpired(t, Waiting(t) # {}, \E c \in Waiting(t) : call[t][c].kind = "logout")
    /\ UNCHANGED <<server, presented, crossed>>

\* The redirect after an expiry, or the user's own: a new page, which knows
\* what local storage knows.  What the server does with calls left behind is
\* RevokeSession at most.
Reload(t) ==
    /\ authed' = [authed EXCEPT ![t] = stored]
    /\ redirecting' = [redirecting EXCEPT ![t] = FALSE]
    /\ refresh' = [refresh EXCEPT ![t] = NoRefresh]
    /\ call' = [call EXCEPT ![t] = [c \in Call |-> NoCall]]
    /\ active' = [active EXCEPT ![t] = 0]
    /\ bar' = [bar EXCEPT ![t] = "hidden"]
    /\ presented' = [presented EXCEPT ![t] = {}]
    /\ UNCHANGED <<server, browser, crossed>>

Next ==
    \/ Expire \/ RevokeSession
    \/ \E t \in Tab :
        \/ ServeRefresh(t) \/ LoseRefresh(t) \/ Renewed(t) \/ NotRenewed(t)
        \/ HideBar(t) \/ Reload(t)
        \/ \E c \in Call :
            \/ StartCall(t, c) \/ ServeCall(t, c) \/ LoseCall(t, c) \/ CannotDecrypt(t, c)
            \/ AnswerOk(t, c) \/ AwaitRenewal(t, c) \/ AnswerError(t, c)

Spec == Init /\ [][Next]_vars

\* An answer or the time-out of ten seconds ends every wait, and the event loop
\* runs what is due.
Fairness ==
    \A t \in Tab :
        /\ WF_vars(ServeRefresh(t) \/ LoseRefresh(t))
        /\ WF_vars(Renewed(t) \/ NotRenewed(t))
        /\ WF_vars(HideBar(t))
        /\ \A c \in Call :
            /\ WF_vars(ServeCall(t, c) \/ LoseCall(t, c) \/ CannotDecrypt(t, c))
            /\ WF_vars(AnswerOk(t, c) \/ AwaitRenewal(t, c) \/ AnswerError(t, c))

FairSpec == Spec /\ Fairness

-----------------------------------------------------------------------------
(* Properties.                                                              *)

TypeOK ==
    /\ session \in Generation /\ fresh \in BOOLEAN /\ issued \in Generation
    /\ jar \in Generation /\ stored \in BOOLEAN
    /\ authed \in [Tab -> BOOLEAN] /\ redirecting \in [Tab -> BOOLEAN]
    /\ refresh \in [Tab -> RefreshState]
    /\ call \in [Tab -> [Call -> CallState]]
    /\ active \in [Tab -> Nat]
    /\ bar \in [Tab -> {"hidden", "shown", "hiding"}]
    /\ presented \in [Tab -> SUBSET Generation]
    /\ crossed \in BOOLEAN

\* refreshPromise is set exactly while some refused call waits for it: no call
\* waits for a renewal that is over, and no renewal is left behind for the next
\* refusal to join.  A call waits for one renewal only.
RenewalsAreAwaited ==
    \A t \in Tab :
        /\ Waiting(t) # {} <=> refresh[t].phase # "none"
        /\ \A c \in Waiting(t) : call[t][c].retried

TokensWereIssued ==
    /\ jar <= issued
    /\ \A t \in Tab :
          /\ refresh[t].token <= issued /\ presented[t] \subseteq 0..issued
          /\ \A c \in Call : call[t][c].token <= issued /\ call[t][c].refused <= issued

\* The renewals, and the logins, whose cookies are on their way.
Delivering(t) == refresh[t].phase = "answered" /\ refresh[t].answer = "ok"
LoggingIn(t, c) ==
    call[t][c].kind = "login" /\ call[t][c].phase = "answered" /\ call[t][c].answer = "ok"

\* Cookies on their way are nowhere else.
PairsAreNew ==
    \A t \in Tab :
        /\ Delivering(t) =>
              /\ refresh[t].token \notin {0, jar}
              /\ \A u \in Tab :
                    /\ u # t => refresh[u].token # refresh[t].token
                    /\ refresh[t].token \notin presented[u]
                    /\ \A d \in Call : refresh[t].token \notin {call[u][d].token, call[u][d].refused}
        /\ \A c \in Call : LoggingIn(t, c) =>
              /\ call[t][c].token \notin {0, jar}
              /\ \A u \in Tab :
                    /\ refresh[u].token # call[t][c].token
                    /\ call[t][c].token \notin presented[u]
                    /\ \A d \in Call : <<u, d>> # <<t, c>> => call[u][d].token # call[t][c].token

\* The jar holds what a page has presented only while its renewal is under
\* way, or when it waits to be replaced.
PresentedIsReplaced ==
    \A t \in Tab : ~redirecting[t] =>
        /\ jar \in presented[t] => refresh[t].phase # "none"
        /\ 0 \in presented[t] => refresh[t].phase # "none" /\ refresh[t].token = 0 /\ ~Delivering(t)

\* The inductive invariant of the proofs: refreshPromise belongs to the calls
\* that wait for it, and new cookies are in one place until the jar has them.
WebInv ==
    /\ TypeOK
    /\ RenewalsAreAwaited
    /\ TokensWereIssued
    /\ PairsAreNew
    /\ PresentedIsReplaced

\* The progress bar never counts more requests than are outstanding, although
\* waiting, repeated and failing calls are counted in different places: it ends
\* when they end, and it is on screen while the count is not zero.  (The router's
\* part of the count is in Tabs.)
BarEnds ==
    \A t \in Tab :
        /\ active[t] <= Cardinality(Outstanding(t))
        /\ bar[t] = "shown" <=> active[t] > 0

\* A call that is repeated after a renewal goes out with other cookies than
\* those it was refused with, whatever the other tabs did to the jar.
RetriesAreRenewed ==
    \A t \in Tab, c \in Call :
        LET k == call[t][c] IN
        k.phase \in {"sent", "answered"} /\ k.retried => k.token # k.refused

\* A page presents a refresh token once: the server takes a second use for a
\* dead session.  (While it waits to be replaced by the login page it may.)
NoTokenReuse ==
    [][\A t \in Tab :
         refresh'[t] # refresh[t] /\ refresh'[t].phase = "sent" /\ ~redirecting[t]
           => refresh'[t].token \notin presented[t]]_vars

\* A tab that holds the cookies of a live session is sent to the login page
\* only after a lost answer, a refusal that arrived after its cookies had been
\* replaced, renewals of two tabs at once, a login beside other calls, or a
\* password that the server could not decrypt.
LiveSessionKept ==
    [][\A t \in Tab :
         redirecting'[t] /\ ~redirecting[t] /\ session # 0 /\ fresh /\ jar = session
           => crossed']_vars

\* Every call ends, the refused ones with the renewal they wait for.
CallsSettle == \A t \in Tab, c \in Call : call[t][c].phase # "idle" ~> call[t][c].phase = "idle"
=============================================================================
