----------------------------- MODULE LoginGuard ----------------------------
(***************************************************************************)
(* What stands between a client and a session in AuthService.login: the    *)
(* one-time captcha, the failure counter and the lock of one e-mail, and   *)
(* the clean-up job that sweeps counters without a time to live.           *)
(*                                                                         *)
(* The keys are captcha:<id>, login:attempts:<email> and                   *)
(* login:lock:<email>.  Each Redis command is an action; the session that  *)
(* a right password opens is Session's.                                    *)
(***************************************************************************)
EXTENDS Integers, FiniteSets

CONSTANTS
    Request,      \* the logins that can be in flight at once
    Captcha,      \* the captchas that can be outstanding at once
    None,         \* a request without a captcha
    MaxAttempts,  \* MAX_LOGIN_ATTEMPTS
    MaxCount,     \* bound: no failure is counted beyond this value
    MaxLost,      \* bound: failures that faults and the clean-up may lose
    Lossy,        \* may a command or statement fail, or an instance stop?
    Resend        \* may ioredis send a write again when its reply was lost?

ASSUME LoginGuardAssumption ==
    /\ IsFiniteSet(Request)
    /\ MaxAttempts \in Nat \ {0, 1}
    /\ MaxCount \in Nat /\ MaxLost \in Nat
    /\ None \notin Captcha
    /\ Lossy \in BOOLEAN /\ Resend \in BOOLEAN

VARIABLES
    known,     \* is the e-mail that of a user?
    captcha,   \* the captchas whose answer is stored
    attempts,  \* the failure counter, 0 when its key is absent
    ttl,       \* does the counter's key have a time to live?
    locked,    \* does the lock exist?
    sweeping,  \* has the clean-up read that the counter has no time to live?
    req,       \* the logins in flight
    admitted,  \* history: how often a captcha let a login through
    wrong,     \* history: passwords found wrong since the guard was reset
    lost       \* history: failures that were not counted, or counted in vain

stored == <<known, captcha, attempts, ttl, locked, sweeping>>
history == <<admitted, wrong, lost>>
vars == <<stored, req, history>>

Stage == {"idle", "captcha", "lock", "compare", "count", "expire", "setLock", "clear"}

RequestState == [stage : Stage, captcha : Captcha \union {None}, guess : BOOLEAN]

Idle == [stage |-> "idle", captcha |-> None, guess |-> FALSE]

At(r, stage) == req[r].stage = stage

Goto(r, stage) == req' = [req EXCEPT ![r].stage = stage]

Finish(r) == req' = [req EXCEPT ![r] = Idle]

Init ==
    /\ known \in BOOLEAN
    /\ captcha = {} /\ attempts = 0 /\ ttl = FALSE /\ locked = FALSE /\ sweeping = FALSE
    /\ req = [r \in Request |-> Idle]
    /\ admitted = [c \in Captcha |-> 0]
    /\ wrong = 0 /\ lost = 0

-----------------------------------------------------------------------------
(* Captchas.  Their ids are random: one that is stored anew is another one. *)

GenerateCaptcha ==
    /\ \E c \in Captcha \ captcha :
        /\ \A r \in Request : req[r].captcha # c
        /\ captcha' = captcha \union {c}
        /\ admitted' = [admitted EXCEPT ![c] = 0]
    /\ UNCHANGED <<known, attempts, ttl, locked, sweeping, req, wrong, lost>>

CaptchaExpires ==
    /\ \E c \in captcha : captcha' = captcha \ {c}
    /\ UNCHANGED <<known, attempts, ttl, locked, sweeping, req, history>>

BeginLogin(r) ==
    /\ At(r, "idle")
    /\ \E c \in Captcha :
        req' = [req EXCEPT ![r] = [stage |-> "captcha", captcha |-> c, guess |-> FALSE]]
    /\ UNCHANGED <<stored, history>>

\* Mutant of VerifyCaptcha: the answer is read, not taken.
VerifyCaptchaKept(r) ==
    /\ At(r, "captcha")
    /\ \/ /\ req[r].captcha \in captcha
          /\ admitted' = [admitted EXCEPT ![req[r].captcha] = @ + 1]
          /\ Goto(r, "lock")
       \/ Finish(r) /\ UNCHANGED admitted
    /\ UNCHANGED <<stored, wrong, lost>>

\* GETDEL, then the comparison.  When its reply is lost the second GETDEL
\* finds nothing and the login is refused like one with a wrong answer.
VerifyCaptcha(r) ==
    /\ At(r, "captcha")
    /\ captcha' = captcha \ {req[r].captcha}
    /\ \/ /\ req[r].captcha \in captcha
          /\ admitted' = [admitted EXCEPT ![req[r].captcha] = @ + 1]
          /\ Goto(r, "lock")
       \/ Finish(r) /\ UNCHANGED admitted
    /\ UNCHANGED <<known, attempts, ttl, locked, sweeping, wrong, lost>>

-----------------------------------------------------------------------------
(* login, from the lock to the answer.                                      *)

CheckLock(r) ==
    /\ At(r, "lock")
    /\ IF locked THEN Finish(r) ELSE Goto(r, "compare")
    /\ UNCHANGED <<stored, history>>

\* An unknown e-mail counts as a failure too, but nothing was guessed.
Compare(r) ==
    /\ At(r, "compare")
    /\ \/ known /\ Goto(r, "clear") /\ UNCHANGED wrong
       \/ /\ known /\ wrong' = wrong + 1
          /\ req' = [req EXCEPT ![r].stage = "count", ![r].guess = TRUE]
       \/ ~known /\ Goto(r, "count") /\ UNCHANGED wrong
    /\ UNCHANGED <<stored, admitted, lost>>

\* Only a wrong password of a user leads to the lock.
AfterCount(r, count) ==
    IF req[r].guess /\ count >= MaxAttempts THEN Goto(r, "setLock") ELSE Finish(r)

\* Mutant of CountFailure: the lock is set one failure too late.
CountFailureLate(r) ==
    /\ At(r, "count") /\ attempts < MaxCount
    /\ attempts' = attempts + 1
    /\ \/ attempts = 0 /\ Goto(r, "expire")
       \/ attempts > 0 /\ AfterCount(r, attempts)
       \/ Resend /\ Goto(r, "count")
    /\ UNCHANGED <<known, captcha, ttl, locked, sweeping, history>>

\* INCR.  The failure is logged first.  Sent again, it counts twice, and the
\* reply that arrives is never the 1 that makes incr set the time to live.
CountFailure(r) ==
    /\ At(r, "count") /\ attempts < MaxCount
    /\ attempts' = attempts + 1
    /\ \/ attempts = 0 /\ Goto(r, "expire")
       \/ attempts > 0 /\ AfterCount(r, attempts + 1)
       \/ Resend /\ Goto(r, "count")
    /\ UNCHANGED <<known, captcha, ttl, locked, sweeping, history>>

\* EXPIRE, which does nothing to an absent key.  The count is still 1.
SetExpiry(r) ==
    /\ At(r, "expire")
    /\ ttl' = (attempts > 0)
    /\ AfterCount(r, 1)
    /\ UNCHANGED <<known, captcha, attempts, locked, sweeping, history>>

SetLock(r) ==
    /\ At(r, "setLock")
    /\ locked' = TRUE
    /\ Finish(r)
    /\ UNCHANGED <<known, captcha, attempts, ttl, sweeping, history>>

\* Mutant of ClearAttempts: the counter is set back instead of deleted.
ClearToZero(r) ==
    /\ At(r, "clear")
    /\ attempts' = 0 /\ wrong' = 0
    /\ Finish(r)
    /\ UNCHANGED <<known, captcha, ttl, locked, sweeping, admitted, lost>>

\* A right password deletes the counter; a lock set meanwhile stays.
ClearAttempts(r) ==
    /\ At(r, "clear")
    /\ attempts' = 0 /\ ttl' = FALSE /\ wrong' = 0
    /\ Finish(r)
    /\ UNCHANGED <<known, captcha, locked, sweeping, admitted, lost>>

\* A statement or a strict command fails (500, 503) or the instance stops.
\* The failure may then be uncounted, or counted without the lock it calls for.
Abort(r) ==
    /\ Lossy
    /\ ~At(r, "idle")
    /\ IF req[r].guess /\ req[r].stage \in {"count", "expire", "setLock"}
       THEN lost < MaxLost /\ lost' = lost + 1
       ELSE UNCHANGED lost
    /\ Finish(r)
    /\ UNCHANGED <<stored, admitted, wrong>>

-----------------------------------------------------------------------------
(* Time, other requests and the clean-up job.                               *)

AttemptsExpire ==
    /\ ttl
    /\ attempts' = 0 /\ ttl' = FALSE /\ wrong' = 0
    /\ UNCHANGED <<known, captcha, locked, sweeping, req, admitted, lost>>

LockExpires ==
    /\ locked /\ locked' = FALSE /\ wrong' = 0
    /\ UNCHANGED <<known, captcha, attempts, ttl, sweeping, req, admitted, lost>>

\* The e-mail becomes, or no longer is, that of a user (register, remove).
Register ==
    /\ known' = ~known
    /\ UNCHANGED <<captcha, attempts, ttl, locked, sweeping, req, history>>

\* handleCacheCleanup reads the TTL of the counter (-1: none) and then deletes
\* the key, whatever became of it in between.  The lock always has a TTL.
SweepRead ==
    /\ ~sweeping /\ attempts > 0 /\ ~ttl
    /\ sweeping' = TRUE
    /\ UNCHANGED <<known, captcha, attempts, ttl, locked, req, history>>

SweepDelete ==
    /\ sweeping /\ sweeping' = FALSE
    /\ lost + attempts <= MaxLost /\ lost' = lost + attempts
    /\ attempts' = 0 /\ ttl' = FALSE
    /\ UNCHANGED <<known, captcha, locked, req, admitted, wrong>>

SweepStops ==
    /\ sweeping /\ sweeping' = FALSE
    /\ UNCHANGED <<known, captcha, attempts, ttl, locked, req, history>>

-----------------------------------------------------------------------------
Login(r) ==
    \/ BeginLogin(r) \/ VerifyCaptcha(r) \/ CheckLock(r) \/ Compare(r)
    \/ CountFailure(r) \/ SetExpiry(r) \/ SetLock(r) \/ ClearAttempts(r) \/ Abort(r)

Next ==
    \/ \E r \in Request : Login(r)
    \/ GenerateCaptcha \/ CaptchaExpires
    \/ AttemptsExpire \/ LockExpires \/ Register
    \/ SweepRead \/ SweepDelete \/ SweepStops

Spec == Init /\ [][Next]_vars

-----------------------------------------------------------------------------
(* Properties.                                                              *)

\* A key that is absent has no time to live.
TypeOK ==
    /\ known \in BOOLEAN /\ locked \in BOOLEAN /\ sweeping \in BOOLEAN /\ ttl \in BOOLEAN
    /\ captcha \subseteq Captcha
    /\ attempts \in 0..MaxCount /\ (ttl => attempts > 0)
    /\ req \in [Request -> RequestState]
    /\ admitted \in [Captcha -> Nat] /\ wrong \in Nat /\ lost \in Nat

\* A captcha lets one login through, however many present it at once.
CaptchaOnce == \A c \in Captcha : admitted[c] <= 1

\* Until the guard is reset (by time or by a right password), wrong passwords
\* are compared MAX_LOGIN_ATTEMPTS times, once more for each other login that
\* passed the lock before it was set, and once more for each failure that a
\* fault or the clean-up lost: nothing else lets a guess through.
GuessesAreBounded == wrong <= MaxAttempts + (Cardinality(Request) - 1) + lost

(* Why: the guesses that the counter and the requests in flight answer for. *)

\* The guesses not counted yet, or counted and about to set the lock.
Owed == {r \in Request : req[r].guess /\ req[r].stage \in {"count", "setLock"}}

\* The logins that passed the lock and did not compare yet.
Passed == {r \in Request : At(r, "compare")}

\* A guess is marked from its comparison to the end of its count.
GuessesAreMarked ==
    \A r \in Request :
        /\ req[r].guess => req[r].stage \in {"count", "expire", "setLock"}
        /\ At(r, "setLock") => req[r].guess

\* While there is no lock, every guess was counted below the limit, is owed
\* or is lost.
CountedBelowLimit ==
    ~locked =>
        wrong <= (IF attempts < MaxAttempts THEN attempts ELSE MaxAttempts - 1)
                    + Cardinality(Owed) + lost

\* Once there is one, only the logins that passed it before can still guess.
LockHolds ==
    locked =>
        wrong + Cardinality(Passed) <= MaxAttempts + (Cardinality(Request) - 1) + lost

\* A captcha whose answer is still stored admitted nobody.
StoredIsUnused == \A c \in captcha : admitted[c] = 0

\* The inductive invariant of the proofs.
GuardInv ==
    /\ TypeOK
    /\ GuessesAreMarked
    /\ CountedBelowLimit
    /\ LockHolds
    /\ StoredIsUnused
    /\ CaptchaOnce
=============================================================================
