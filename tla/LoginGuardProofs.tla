-------------------------- MODULE LoginGuardProofs -------------------------
(* The inductive invariants of LoginGuard and of Throttler and what follows *)
(* from them.                                                               *)
EXTENDS LoginGuard, Throttler, FiniteSetTheorems, DataInduction, TLAPS

-----------------------------------------------------------------------------
(* Counting requests.                                                       *)

\* Two sets of requests that agree on all requests but one.
LEMMA SetsThatDifferInOne ==
    ASSUME NEW S \in SUBSET Request, NEW T \in SUBSET Request, NEW r \in Request,
           \A q \in Request \ {r} : q \in S <=> q \in T
    PROVE  /\ Cardinality(S) \in Nat /\ Cardinality(T) \in Nat
           /\ (r \in S <=> r \in T) => Cardinality(T) = Cardinality(S)
           /\ r \notin S /\ r \in T => Cardinality(T) = Cardinality(S) + 1
           /\ r \in S /\ r \notin T => Cardinality(S) = Cardinality(T) + 1
<1>1. IsFiniteSet(S) /\ IsFiniteSet(T)
  BY LoginGuardAssumption, FS_Subset
<1>2. Cardinality(S) \in Nat /\ Cardinality(T) \in Nat
  BY <1>1, FS_CardinalityType
<1>3. ASSUME r \in S <=> r \in T PROVE Cardinality(T) = Cardinality(S)
  <2>1. S = T
    BY <1>3
  <2> QED BY <2>1
<1>4. ASSUME r \notin S, r \in T PROVE Cardinality(T) = Cardinality(S) + 1
  <2>1. T = S \cup {r}
    BY <1>4
  <2> QED BY <1>1, <1>4, <2>1, FS_AddElement
<1>5. ASSUME r \in S, r \notin T PROVE Cardinality(S) = Cardinality(T) + 1
  <2>1. S = T \cup {r}
    BY <1>5
  <2> QED BY <1>1, <1>5, <2>1, FS_AddElement
<1> QED BY <1>2, <1>3, <1>4, <1>5

\* Requests that are not the same are no more than there are.
LEMMA DisjointSets ==
    ASSUME NEW S \in SUBSET Request, NEW T \in SUBSET Request, S \cap T = {}
    PROVE  /\ Cardinality(S) \in Nat /\ Cardinality(T) \in Nat /\ Cardinality(Request) \in Nat
           /\ Cardinality(S) + Cardinality(T) <= Cardinality(Request)
<1>1. IsFiniteSet(S) /\ IsFiniteSet(T) /\ IsFiniteSet(Request)
  BY LoginGuardAssumption, FS_Subset
<1>2. /\ Cardinality(S) \in Nat /\ Cardinality(T) \in Nat /\ Cardinality(Request) \in Nat
      /\ Cardinality({}) = 0
  BY <1>1, FS_CardinalityType, FS_EmptySet
<1>3. Cardinality(S \cup T) = Cardinality(S) + Cardinality(T) - 0
  BY <1>1, <1>2, FS_Union
<1>4. S \cup T \in SUBSET Request
  OBVIOUS
<1>5. Cardinality(S \cup T) <= Cardinality(Request)
  BY <1>1, <1>4, FS_Subset
<1> QED BY <1>2, <1>3, <1>5

\* What one request's step does to the two sets that are counted.
OthersKept(r) == \A q \in Request \ {r} : req'[q] = req[q]

\* The step moves one request at most into or out of each set.
LEMMA StepsAreCounted ==
    ASSUME NEW r \in Request, OthersKept(r)
    PROVE  /\ Cardinality(Owed) \in Nat /\ Cardinality(Owed') \in Nat
           /\ (r \in Owed <=> r \in Owed') => Cardinality(Owed') = Cardinality(Owed)
           /\ r \notin Owed /\ r \in Owed' => Cardinality(Owed') = Cardinality(Owed) + 1
           /\ r \in Owed /\ r \notin Owed' => Cardinality(Owed) = Cardinality(Owed') + 1
           /\ Cardinality(Passed) \in Nat /\ Cardinality(Passed') \in Nat
           /\ (r \in Passed <=> r \in Passed') => Cardinality(Passed') = Cardinality(Passed)
           /\ r \notin Passed /\ r \in Passed' => Cardinality(Passed') = Cardinality(Passed) + 1
           /\ r \in Passed /\ r \notin Passed' => Cardinality(Passed) = Cardinality(Passed') + 1
<1>1. /\ Owed \in SUBSET Request /\ Owed' \in SUBSET Request
      /\ \A q \in Request \ {r} : q \in Owed <=> q \in Owed'
  BY DEF Owed, OthersKept
<1>2. /\ Passed \in SUBSET Request /\ Passed' \in SUBSET Request
      /\ \A q \in Request \ {r} : q \in Passed <=> q \in Passed'
  BY DEF Passed, OthersKept, At
<1>3. /\ Cardinality(Owed) \in Nat /\ Cardinality(Owed') \in Nat
      /\ (r \in Owed <=> r \in Owed') => Cardinality(Owed') = Cardinality(Owed)
      /\ r \notin Owed /\ r \in Owed' => Cardinality(Owed') = Cardinality(Owed) + 1
      /\ r \in Owed /\ r \notin Owed' => Cardinality(Owed) = Cardinality(Owed') + 1
  BY <1>1, SetsThatDifferInOne
<1>4. /\ Cardinality(Passed) \in Nat /\ Cardinality(Passed') \in Nat
      /\ (r \in Passed <=> r \in Passed') => Cardinality(Passed') = Cardinality(Passed)
      /\ r \notin Passed /\ r \in Passed' => Cardinality(Passed') = Cardinality(Passed) + 1
      /\ r \in Passed /\ r \notin Passed' => Cardinality(Passed) = Cardinality(Passed') + 1
  BY <1>2, SetsThatDifferInOne
<1> QED BY <1>3, <1>4

\* A guess that is owed and a login that may still guess are two requests.
LEMMA OwedAndPassed ==
    /\ Cardinality(Owed) \in Nat /\ Cardinality(Passed) \in Nat
    /\ Cardinality(Request) \in Nat
    /\ Cardinality(Owed) + Cardinality(Passed) <= Cardinality(Request)
<1>1. Owed \in SUBSET Request /\ Passed \in SUBSET Request /\ Owed \cap Passed = {}
  BY DEF Owed, Passed, At
<1> QED BY <1>1, DisjointSets

-----------------------------------------------------------------------------
(* Where a request goes.                                                    *)

\* Request r is now at this stage.
Now(r, stage, guess) ==
    /\ req' \in [Request -> RequestState]
    /\ req'[r].stage = stage /\ req'[r].guess = guess
    /\ OthersKept(r)

\* Goto changes the stage and nothing else.
LEMMA GotoMoves ==
    ASSUME TypeOK, NEW r \in Request, NEW stage \in Stage, Goto(r, stage)
    PROVE  Now(r, stage, req[r].guess)
BY DEF TypeOK, Goto, Now, OthersKept, RequestState

\* Finish gives the slot back.
LEMMA FinishReleases ==
    ASSUME TypeOK, NEW r \in Request, Finish(r)
    PROVE  Now(r, "idle", FALSE)
BY DEF TypeOK, Finish, Now, OthersKept, RequestState, Idle, Stage

\* A count that reaches the limit leads to the lock.
LEMMA CountedMoves ==
    ASSUME TypeOK, NEW r \in Request, NEW count \in Nat, AfterCount(r, count)
    PROVE  \/ req[r].guess /\ count >= MaxAttempts /\ Now(r, "setLock", TRUE)
           \/ ~(req[r].guess /\ count >= MaxAttempts) /\ Now(r, "idle", FALSE)
<1>1. req[r].guess \in BOOLEAN /\ "setLock" \in Stage
  BY DEF TypeOK, RequestState, Stage
<1>2. CASE req[r].guess /\ count >= MaxAttempts
  <2>1. Now(r, "setLock", req[r].guess)
    BY <1>1, <1>2, GotoMoves DEF AfterCount
  <2> QED BY <1>1, <1>2, <2>1
<1>3. CASE ~(req[r].guess /\ count >= MaxAttempts)
  BY <1>3, FinishReleases DEF AfterCount
<1> QED BY <1>2, <1>3

-----------------------------------------------------------------------------
(* What is counted and what is not: CountedBelowLimit and LockHolds.        *)

Accounts == CountedBelowLimit /\ LockHolds

\* The numbers the accounts are made of.
LEMMA Numbers ==
    ASSUME TypeOK
    PROVE  /\ attempts \in Nat /\ wrong \in Nat /\ lost \in Nat /\ locked \in BOOLEAN
           /\ MaxAttempts \in Nat /\ MaxAttempts > 1
           /\ Cardinality(Owed) \in Nat /\ Cardinality(Passed) \in Nat
           /\ Cardinality(Request) \in Nat
           /\ Cardinality(Owed) + Cardinality(Passed) <= Cardinality(Request)
BY OwedAndPassed, LoginGuardAssumption DEF TypeOK

\* A guard that was reset owes nothing to the past.
LEMMA ResetAccounts == TypeOK /\ wrong = 0 => Accounts
BY Numbers DEF Accounts, CountedBelowLimit, LockHolds

\* A login arrives: it neither passed the lock nor guessed.
LEMMA BeginLoginKeeps ==
    ASSUME GuardInv, NEW r \in Request, BeginLogin(r)
    PROVE  GuardInv'
<1>1. TypeOK
  BY DEF GuardInv
<1>2. Now(r, "captcha", FALSE) /\ At(r, "idle") /\ UNCHANGED <<stored, history>>
  BY <1>1 DEF BeginLogin, Now, OthersKept, TypeOK, RequestState, Stage, At
<1>3. TypeOK'
  BY <1>1, <1>2, LoginGuardAssumption DEF TypeOK, Now, At, stored, history, RequestState
<1>4. GuessesAreMarked'
  BY <1>1, <1>2 DEF GuardInv, GuessesAreMarked, Now, OthersKept, At
<1>5. Accounts'
  BY <1>1, <1>2, <1>3, Numbers, StepsAreCounted DEF GuardInv, Accounts, CountedBelowLimit,
     LockHolds, GuessesAreMarked, Owed, Passed, Now, At, stored, history
<1>6. StoredIsUnused' /\ CaptchaOnce'
  BY <1>1, <1>2 DEF GuardInv, StoredIsUnused, CaptchaOnce, TypeOK, RequestState, stored, history
<1> QED BY <1>3, <1>4, <1>5, <1>6 DEF GuardInv, Accounts

\* The answer is taken whatever it was; a login may go on when it was stored.
LEMMA VerifyCaptchaKeeps ==
    ASSUME GuardInv, NEW r \in Request, VerifyCaptcha(r)
    PROVE  GuardInv'
<1>1. TypeOK
  BY DEF GuardInv
<1>2. /\ captcha' = captcha \ {req[r].captcha} /\ At(r, "captcha")
      /\ UNCHANGED <<known, attempts, ttl, locked, sweeping, wrong, lost>>
      /\ \/ Now(r, "idle", FALSE) /\ admitted' = admitted
         \/ /\ Now(r, "lock", req[r].guess) /\ req[r].captcha \in captcha
            /\ admitted' = [admitted EXCEPT ![req[r].captcha] = @ + 1]
  BY <1>1, GotoMoves, FinishReleases DEF VerifyCaptcha, Stage
<1>3. TypeOK'
  BY <1>1, <1>2, LoginGuardAssumption DEF TypeOK, Now, At, stored, history, RequestState
<1>4. GuessesAreMarked'
  BY <1>1, <1>2 DEF GuardInv, GuessesAreMarked, Now, OthersKept, At
<1>5. Accounts'
  BY <1>1, <1>2, <1>3, Numbers, StepsAreCounted DEF GuardInv, Accounts, CountedBelowLimit,
     LockHolds, GuessesAreMarked, Owed, Passed, Now, At, stored, history
<1>6. StoredIsUnused' /\ CaptchaOnce'
  <2>1. CASE admitted' = admitted
    BY <1>2, <2>1 DEF GuardInv, StoredIsUnused, CaptchaOnce
  <2>2. CASE /\ req[r].captcha \in captcha
             /\ admitted' = [admitted EXCEPT ![req[r].captcha] = @ + 1]
    <3>1. admitted[req[r].captcha] = 0 /\ captcha \subseteq Captcha
      BY <1>1, <2>2 DEF GuardInv, StoredIsUnused, TypeOK
    <3>2. \A c \in Captcha :
              admitted'[c] = IF c = req[r].captcha THEN 1 ELSE admitted[c]
      BY <1>1, <2>2, <3>1 DEF TypeOK
    <3> QED BY <1>2, <3>1, <3>2 DEF GuardInv, StoredIsUnused, CaptchaOnce
  <2> QED BY <1>2, <2>1, <2>2
<1> QED BY <1>3, <1>4, <1>5, <1>6 DEF GuardInv, Accounts

\* A login passes only while there is no lock.
LEMMA CheckLockKeeps ==
    ASSUME GuardInv, NEW r \in Request, CheckLock(r)
    PROVE  GuardInv'
<1>1. TypeOK
  BY DEF GuardInv
<1>2. /\ At(r, "lock") /\ UNCHANGED <<stored, history>>
      /\ Now(r, "idle", FALSE) \/ (~locked /\ Now(r, "compare", req[r].guess))
  BY <1>1, GotoMoves, FinishReleases DEF CheckLock, Stage
<1>3. TypeOK'
  BY <1>1, <1>2, LoginGuardAssumption DEF TypeOK, Now, At, stored, history, RequestState
<1>4. GuessesAreMarked'
  BY <1>1, <1>2 DEF GuardInv, GuessesAreMarked, Now, OthersKept, At
<1>5. Accounts'
  BY <1>1, <1>2, <1>3, Numbers, StepsAreCounted DEF GuardInv, Accounts, CountedBelowLimit,
     LockHolds, GuessesAreMarked, Owed, Passed, Now, At, stored, history
<1>6. StoredIsUnused' /\ CaptchaOnce'
  BY <1>1, <1>2 DEF GuardInv, StoredIsUnused, CaptchaOnce, TypeOK, RequestState, stored, history
<1> QED BY <1>3, <1>4, <1>5, <1>6 DEF GuardInv, Accounts

\* A wrong password becomes a guess that is owed.
LEMMA CompareKeeps ==
    ASSUME GuardInv, NEW r \in Request, Compare(r)
    PROVE  GuardInv'
<1>1. TypeOK
  BY DEF GuardInv
<1>2. /\ At(r, "compare") /\ UNCHANGED <<stored, admitted, lost>>
      /\ \/ Now(r, "clear", req[r].guess) /\ wrong' = wrong
         \/ Now(r, "count", TRUE) /\ wrong' = wrong + 1
         \/ Now(r, "count", req[r].guess) /\ wrong' = wrong
  <2>1. "clear" \in Stage /\ "count" \in Stage
    BY DEF Stage
  <2>2. ASSUME At(r, "compare"), wrong' = wrong + 1,
               req' = [req EXCEPT ![r].stage = "count", ![r].guess = TRUE]
        PROVE  Now(r, "count", TRUE)
    BY <1>1, <2>1, <2>2 DEF Now, OthersKept, TypeOK, RequestState
  <2> QED BY <1>1, <2>1, <2>2, GotoMoves DEF Compare
<1>3. TypeOK'
  BY <1>1, <1>2, LoginGuardAssumption DEF TypeOK, Now, At, stored, history, RequestState
<1>4. GuessesAreMarked'
  BY <1>1, <1>2 DEF GuardInv, GuessesAreMarked, Now, OthersKept, At
<1>5. Accounts'
  <2>1. ~req[r].guess
    BY <1>2 DEF GuardInv, GuessesAreMarked, At
  <2>2. r \in Passed /\ r \notin Passed' /\ r \notin Owed
    BY <1>2 DEF Passed, Owed, Now, At
  <2>3. wrong' = wrong \/ (wrong' = wrong + 1 /\ r \in Owed')
    BY <1>2 DEF Owed, Now
  <2>4. /\ Cardinality(Passed) = Cardinality(Passed') + 1
        /\ Cardinality(Owed') >= Cardinality(Owed)
        /\ r \in Owed' => Cardinality(Owed') = Cardinality(Owed) + 1
        /\ Cardinality(Owed') \in Nat /\ Cardinality(Passed') \in Nat
    BY <1>2, <2>2, StepsAreCounted, Numbers, <1>1 DEF Now
  <2> QED BY <1>1, <1>2, <2>3, <2>4, Numbers DEF GuardInv, Accounts, CountedBelowLimit,
       LockHolds, stored
<1>6. StoredIsUnused' /\ CaptchaOnce'
  BY <1>1, <1>2 DEF GuardInv, StoredIsUnused, CaptchaOnce, TypeOK, RequestState, stored, history
<1> QED BY <1>3, <1>4, <1>5, <1>6 DEF GuardInv, Accounts

\* A guess that is owed is counted, or counted again.
LEMMA CountFailureKeeps ==
    ASSUME GuardInv, NEW r \in Request, CountFailure(r)
    PROVE  GuardInv'
<1>1. TypeOK
  BY DEF GuardInv
<1>2. /\ At(r, "count") /\ attempts' = attempts + 1 /\ attempts < MaxCount
      /\ UNCHANGED <<known, captcha, ttl, locked, sweeping, history>>
      /\ \/ attempts = 0 /\ Now(r, "expire", req[r].guess)
         \/ /\ req[r].guess /\ attempts + 1 >= MaxAttempts
            /\ Now(r, "setLock", TRUE)
         \/ /\ ~(req[r].guess /\ attempts + 1 >= MaxAttempts)
            /\ Now(r, "idle", FALSE)
         \/ Now(r, "count", req[r].guess)
  <2>1. "expire" \in Stage /\ "count" \in Stage /\ attempts + 1 \in Nat
    BY <1>1, Numbers DEF Stage
  <2>2. CASE attempts > 0 /\ AfterCount(r, attempts + 1)
    BY <1>1, <2>1, <2>2, CountedMoves DEF CountFailure
  <2> QED BY <1>1, <2>1, <2>2, GotoMoves DEF CountFailure
<1>3. TypeOK'
  BY <1>1, <1>2, LoginGuardAssumption DEF TypeOK, Now, At, stored, history, RequestState
<1>4. GuessesAreMarked'
  BY <1>1, <1>2 DEF GuardInv, GuessesAreMarked, Now, OthersKept, At
<1>5. Accounts'
  <2>1. /\ r \notin Passed /\ r \notin Passed'
        /\ r \in Owed <=> req[r].guess
    BY <1>2 DEF Passed, Owed, Now, At
  <2>2. /\ Cardinality(Passed') = Cardinality(Passed)
        /\ Cardinality(Owed') \in Nat
    BY <1>2, <2>1, StepsAreCounted DEF Now
  <2>3. \/ Cardinality(Owed') = Cardinality(Owed)
        \/ /\ Cardinality(Owed) = Cardinality(Owed') + 1
           /\ attempts + 1 < MaxAttempts
    <3>1. r \in Owed' <=> req'[r].guess /\ req'[r].stage \in {"count", "setLock"}
      BY DEF Owed
    <3>2. (r \in Owed <=> r \in Owed') \/ (r \in Owed /\ r \notin Owed' /\ attempts + 1 < MaxAttempts)
      BY <1>1, <1>2, <2>1, <3>1, Numbers DEF Now
    <3> QED BY <1>2, <3>2, StepsAreCounted DEF Now
  <2> QED BY <1>1, <1>2, <2>2, <2>3, Numbers DEF GuardInv, Accounts, CountedBelowLimit,
       LockHolds, history
<1>6. StoredIsUnused' /\ CaptchaOnce'
  BY <1>1, <1>2 DEF GuardInv, StoredIsUnused, CaptchaOnce, TypeOK, RequestState, stored, history
<1> QED BY <1>3, <1>4, <1>5, <1>6 DEF GuardInv, Accounts

\* The first failure of a count is below the limit.
LEMMA SetExpiryKeeps ==
    ASSUME GuardInv, NEW r \in Request, SetExpiry(r)
    PROVE  GuardInv'
<1>1. TypeOK
  BY DEF GuardInv
<1>2. /\ At(r, "expire") /\ ttl' = (attempts > 0) /\ Now(r, "idle", FALSE)
      /\ UNCHANGED <<known, captcha, attempts, locked, sweeping, history>>
  <2>1. 1 \in Nat /\ ~(1 >= MaxAttempts)
    BY <1>1, Numbers
  <2> QED BY <1>1, <2>1, CountedMoves DEF SetExpiry
<1>3. TypeOK'
  BY <1>1, <1>2, LoginGuardAssumption DEF TypeOK, Now, At, stored, history, RequestState
<1>4. GuessesAreMarked'
  BY <1>1, <1>2 DEF GuardInv, GuessesAreMarked, Now, OthersKept, At
<1>5. Accounts'
  BY <1>1, <1>2, <1>3, Numbers, StepsAreCounted DEF GuardInv, Accounts, CountedBelowLimit,
     LockHolds, GuessesAreMarked, Owed, Passed, Now, At, stored, history
<1>6. StoredIsUnused' /\ CaptchaOnce'
  BY <1>1, <1>2 DEF GuardInv, StoredIsUnused, CaptchaOnce, TypeOK, RequestState, stored, history
<1> QED BY <1>3, <1>4, <1>5, <1>6 DEF GuardInv, Accounts

\* The lock is set when the guesses below the limit are used up.
LEMMA SetLockKeeps ==
    ASSUME GuardInv, NEW r \in Request, SetLock(r)
    PROVE  GuardInv'
<1>1. TypeOK
  BY DEF GuardInv
<1>2. /\ At(r, "setLock") /\ locked' = TRUE /\ Now(r, "idle", FALSE)
      /\ UNCHANGED <<known, captcha, attempts, ttl, sweeping, history>>
  BY <1>1, FinishReleases DEF SetLock
<1>3. TypeOK'
  BY <1>1, <1>2, LoginGuardAssumption DEF TypeOK, Now, At, stored, history, RequestState
<1>4. GuessesAreMarked'
  BY <1>1, <1>2 DEF GuardInv, GuessesAreMarked, Now, OthersKept, At
<1>5. Accounts'
  <2>1. r \notin Passed /\ r \notin Passed'
    BY <1>2 DEF Passed, Now, At
  <2>2. Cardinality(Passed') = Cardinality(Passed)
    BY <1>2, <2>1, StepsAreCounted DEF Now
  <2>3. wrong + Cardinality(Passed) <= MaxAttempts + (Cardinality(Request) - 1) + lost
    BY <1>1, Numbers DEF GuardInv, CountedBelowLimit, LockHolds
  <2>4. locked' = TRUE /\ wrong' = wrong /\ lost' = lost
    BY <1>2 DEF history
  <2> QED BY <2>2, <2>3, <2>4 DEF Accounts, CountedBelowLimit, LockHolds
<1>6. StoredIsUnused' /\ CaptchaOnce'
  BY <1>1, <1>2 DEF GuardInv, StoredIsUnused, CaptchaOnce, TypeOK, RequestState, stored, history
<1> QED BY <1>3, <1>4, <1>5, <1>6 DEF GuardInv, Accounts

\* A right password resets the guard.
LEMMA ClearAttemptsKeeps ==
    ASSUME GuardInv, NEW r \in Request, ClearAttempts(r)
    PROVE  GuardInv'
<1>1. TypeOK
  BY DEF GuardInv
<1>2. /\ At(r, "clear") /\ attempts' = 0 /\ ttl' = FALSE /\ wrong' = 0 /\ Now(r, "idle", FALSE)
      /\ UNCHANGED <<known, captcha, locked, sweeping, admitted, lost>>
  BY <1>1, FinishReleases DEF ClearAttempts
<1>3. TypeOK'
  <2>1. attempts' \in 0..MaxCount /\ wrong' \in Nat
    BY <1>2, LoginGuardAssumption
  <2>2. ttl' \in BOOLEAN /\ (ttl' => attempts' > 0)
    BY <1>2
  <2>3. req' \in [Request -> RequestState]
    BY <1>2 DEF Now
  <2> QED BY <1>1, <1>2, <2>1, <2>2, <2>3 DEF TypeOK
<1>4. GuessesAreMarked'
  BY <1>1, <1>2 DEF GuardInv, GuessesAreMarked, Now, OthersKept, At
<1>5. Accounts'
  BY <1>1, <1>2, <1>3, Numbers, StepsAreCounted DEF Accounts, CountedBelowLimit, LockHolds,
     Owed, Passed, Now, At
<1>6. StoredIsUnused' /\ CaptchaOnce'
  BY <1>1, <1>2 DEF GuardInv, StoredIsUnused, CaptchaOnce, TypeOK, RequestState, stored, history
<1> QED BY <1>3, <1>4, <1>5, <1>6 DEF GuardInv, Accounts

\* A guess that is still owed when its login is cut short is lost.
LEMMA AbortKeeps ==
    ASSUME GuardInv, NEW r \in Request, Abort(r)
    PROVE  GuardInv'
<1>1. TypeOK
  BY DEF GuardInv
<1>2. /\ Now(r, "idle", FALSE) /\ UNCHANGED <<stored, admitted, wrong>>
      /\ \/ lost' = lost + 1
         \/ /\ lost' = lost
            /\ ~(req[r].guess /\ req[r].stage \in {"count", "expire", "setLock"})
  BY <1>1, FinishReleases DEF Abort
<1>3. TypeOK'
  BY <1>1, <1>2, LoginGuardAssumption DEF TypeOK, Now, At, stored, history, RequestState
<1>4. GuessesAreMarked'
  BY <1>1, <1>2 DEF GuardInv, GuessesAreMarked, Now, OthersKept, At
<1>5. Accounts'
  <2>1. r \notin Owed' /\ r \notin Passed'
    BY <1>2 DEF Owed, Passed, Now, At
  <2>2. /\ Cardinality(Passed') <= Cardinality(Passed)
        /\ Cardinality(Owed') \in Nat /\ Cardinality(Passed') \in Nat
        /\ r \in Owed => Cardinality(Owed) = Cardinality(Owed') + 1
        /\ r \notin Owed => Cardinality(Owed) = Cardinality(Owed')
    BY <1>1, <1>2, <2>1, StepsAreCounted, Numbers DEF Now
  <2>3. lost' = lost + 1 \/ (lost' = lost /\ r \notin Owed)
    BY <1>2 DEF Owed
  <2> QED BY <1>1, <1>2, <2>2, <2>3, Numbers DEF GuardInv, Accounts, CountedBelowLimit,
       LockHolds, stored
<1>6. StoredIsUnused' /\ CaptchaOnce'
  BY <1>1, <1>2 DEF GuardInv, StoredIsUnused, CaptchaOnce, TypeOK, RequestState, stored, history
<1> QED BY <1>3, <1>4, <1>5, <1>6 DEF GuardInv, Accounts

-----------------------------------------------------------------------------
(* Steps that are not a login's.                                            *)

\* A step that moves no login and no number keeps the accounts.
LEMMA AccountsKept ==
    ASSUME Accounts, UNCHANGED <<req, attempts, locked, wrong, lost>>
    PROVE  Accounts'
<1>1. Owed' = Owed /\ Passed' = Passed
  BY DEF Owed, Passed, At
<1> QED BY <1>1 DEF Accounts, CountedBelowLimit, LockHolds

\* Captchas, users and the clean-up's reads move none.
LEMMA QuietKeeps ==
    ASSUME GuardInv,
           \/ GenerateCaptcha \/ CaptchaExpires \/ Register \/ SweepRead \/ SweepStops
           \/ UNCHANGED vars
    PROVE  GuardInv'
<1>1. TypeOK /\ Accounts
  BY DEF GuardInv, Accounts
<1>2. /\ UNCHANGED <<req, attempts, ttl, locked, wrong, lost>>
      /\ \/ UNCHANGED <<captcha, admitted>>
         \/ GenerateCaptcha
         \/ captcha' \subseteq captcha /\ UNCHANGED admitted
  BY DEF GenerateCaptcha, CaptchaExpires, Register, SweepRead, SweepStops, vars, stored,
     history
<1>3. TypeOK'
  <2>1. captcha' \subseteq Captcha /\ admitted' \in [Captcha -> Nat]
    BY <1>1, <1>2 DEF TypeOK, GenerateCaptcha
  <2>2. known' \in BOOLEAN /\ sweeping' \in BOOLEAN
    BY <1>1 DEF TypeOK, GenerateCaptcha, CaptchaExpires, Register, SweepRead, SweepStops,
       vars, stored
  <2> QED BY <1>1, <1>2, <2>1, <2>2 DEF TypeOK
<1>4. GuessesAreMarked'
  BY <1>2 DEF GuardInv, GuessesAreMarked, At
<1>5. Accounts'
  BY <1>1, <1>2, AccountsKept
<1>6. StoredIsUnused' /\ CaptchaOnce'
  BY <1>1, <1>2 DEF GuardInv, StoredIsUnused, CaptchaOnce, TypeOK, GenerateCaptcha
<1> QED BY <1>3, <1>4, <1>5, <1>6 DEF GuardInv, Accounts

\* When the counter or the lock expires the guard is reset.
LEMMA ExpiryKeeps ==
    ASSUME GuardInv, AttemptsExpire \/ LockExpires
    PROVE  GuardInv'
<1>1. TypeOK
  BY DEF GuardInv
<1>2. /\ wrong' = 0
      /\ \/ attempts' = 0 /\ ttl' = FALSE /\ locked' = locked
         \/ attempts' = attempts /\ ttl' = ttl /\ locked' = FALSE
      /\ UNCHANGED <<known, captcha, sweeping, req, admitted, lost>>
  BY DEF AttemptsExpire, LockExpires
<1>3. TypeOK'
  <2>1. 0 \in 0..MaxCount
    BY LoginGuardAssumption
  <2>2. CASE attempts' = 0 /\ ttl' = FALSE /\ locked' = locked
    BY <1>1, <1>2, <2>1, <2>2 DEF TypeOK
  <2>3. CASE attempts' = attempts /\ ttl' = ttl /\ locked' = FALSE
    BY <1>1, <1>2, <2>3 DEF TypeOK
  <2> QED BY <1>2, <2>2, <2>3
<1>4. GuessesAreMarked'
  BY <1>2 DEF GuardInv, GuessesAreMarked, At
<1>5. Accounts'
  <2>1. Owed' = Owed /\ Passed' = Passed
    BY <1>2 DEF Owed, Passed, At
  <2>2. attempts' \in Nat /\ lost' \in Nat
    BY <1>3 DEF TypeOK
  <2> QED BY <1>1, <1>2, <2>1, <2>2, Numbers DEF Accounts, CountedBelowLimit, LockHolds
<1>6. StoredIsUnused' /\ CaptchaOnce'
  BY <1>2 DEF GuardInv, StoredIsUnused, CaptchaOnce
<1> QED BY <1>3, <1>4, <1>5, <1>6 DEF GuardInv, Accounts

\* The clean-up turns counted failures into lost ones.
LEMMA SweepDeleteKeeps ==
    ASSUME GuardInv, SweepDelete
    PROVE  GuardInv'
<1>1. TypeOK
  BY DEF GuardInv
<1>2. /\ attempts' = 0 /\ ttl' = FALSE /\ sweeping' = FALSE /\ lost' = lost + attempts
      /\ UNCHANGED <<known, captcha, locked, req, admitted, wrong>>
  BY DEF SweepDelete
<1>3. TypeOK'
  <2>1. attempts' \in 0..MaxCount /\ lost' \in Nat
    BY <1>1, <1>2, Numbers, LoginGuardAssumption
  <2> QED BY <1>1, <1>2, <2>1 DEF TypeOK
<1>4. GuessesAreMarked'
  BY <1>2 DEF GuardInv, GuessesAreMarked, At
<1>5. Accounts'
  <2>1. Owed' = Owed /\ Passed' = Passed
    BY <1>2 DEF Owed, Passed, At
  <2> QED BY <1>1, <1>2, <2>1, Numbers DEF GuardInv, Accounts, CountedBelowLimit, LockHolds
<1>6. StoredIsUnused' /\ CaptchaOnce'
  BY <1>2 DEF GuardInv, StoredIsUnused, CaptchaOnce
<1> QED BY <1>3, <1>4, <1>5, <1>6 DEF GuardInv, Accounts

-----------------------------------------------------------------------------
\* Nothing was guessed at the start.
LEMMA InitInv == Init => GuardInv
<1> SUFFICES ASSUME Init PROVE GuardInv
  OBVIOUS
<1>1. TypeOK
  <2>1. 0 \in 0..MaxCount /\ 0 \in Nat
    BY LoginGuardAssumption
  <2>2. Idle \in RequestState
    BY DEF RequestState, Idle, Stage
  <2>3. ttl = FALSE /\ locked = FALSE /\ sweeping = FALSE /\ known \in BOOLEAN
    BY DEF Init
  <2>4. ttl \in BOOLEAN /\ locked \in BOOLEAN /\ sweeping \in BOOLEAN /\ (ttl => attempts > 0)
    BY <2>3
  <2> QED BY <2>1, <2>2, <2>3, <2>4 DEF Init, TypeOK
<1>2. GuessesAreMarked /\ StoredIsUnused /\ CaptchaOnce
  BY DEF Init, GuessesAreMarked, StoredIsUnused, CaptchaOnce, Idle, At
<1>3. Accounts
  BY <1>1, ResetAccounts DEF Init
<1> QED BY <1>1, <1>2, <1>3 DEF GuardInv, Accounts

\* Every step keeps the invariant.
LEMMA NextInv == GuardInv /\ [Next]_vars => GuardInv'
<1> SUFFICES ASSUME GuardInv, [Next]_vars PROVE GuardInv'
  OBVIOUS
<1>1. ASSUME NEW r \in Request, Login(r) PROVE GuardInv'
  BY <1>1, BeginLoginKeeps, VerifyCaptchaKeeps, CheckLockKeeps, CompareKeeps,
     CountFailureKeeps, SetExpiryKeeps, SetLockKeeps, ClearAttemptsKeeps, AbortKeeps
     DEF Login
<1> QED BY <1>1, QuietKeeps, ExpiryKeeps, SweepDeleteKeeps DEF Next

-----------------------------------------------------------------------------
(* The theorems.                                                            *)

\* The accounting of guesses and captchas holds in every reachable state, for
\* any number of concurrent logins and any limit of at least two.
THEOREM GuardInvariant == Spec => []GuardInv
BY InitInv, NextInv, PTL DEF Spec

\* A captcha lets one login through (verifyCaptcha takes the answer with GETDEL).
THEOREM CaptchasAreSpent == Spec => []CaptchaOnce
<1>1. GuardInv => CaptchaOnce
  BY DEF GuardInv
<1> QED BY <1>1, GuardInvariant, PTL

\* Between two resets of the guard, MAX_LOGIN_ATTEMPTS wrong passwords are
\* compared, plus one for each other concurrent login and each lost failure.
THEOREM GuessesBounded == Spec => []GuessesAreBounded
<1>1. ASSUME GuardInv PROVE GuessesAreBounded
  <2>1. TypeOK
    BY <1>1 DEF GuardInv
  <2> QED BY <1>1, <2>1, Numbers DEF GuardInv, CountedBelowLimit, LockHolds, GuessesAreBounded
<1> QED BY <1>1, GuardInvariant, PTL

-----------------------------------------------------------------------------
(* The rate limit.                                                          *)

Counts == [Past -> Nat]

-----------------------------------------------------------------------------
(* Sums.                                                                    *)

\* Within is a sum.
LEMMA WithinIsASum ==
  ASSUME NEW count \in Counts
  PROVE  /\ Within(count) \in [0..Ttl -> Nat]
         /\ Within(count)[0] = 0
         /\ \A n \in 0 .. (Ttl - 1) : Within(count)[n + 1] = Within(count)[n] + count[n]
<1> USE ThrottlerAssumption
<1> DEFINE D == 0..Ttl
           stop == {0}
           base == [n \in D |-> 0]
           next == [n \in D |-> IF n = 0 THEN 0 ELSE n - 1]
           step == [p \in D \X Nat |-> IF p[1] = 0 THEN 0 ELSE p[2] + count[p[1] - 1]]
           rank == [n \in D |-> n]
           G(f, n) == IF n = 0 THEN 0 ELSE f[n - 1] + count[n - 1]
<1>1. Ranked(D, Nat, stop, base, next, step, rank, Ttl)
  <2>1. \A n \in D : n # 0 => n - 1 \in Past
    BY DEF Past
  <2>2. \A p \in D \X Nat : step[p] \in Nat
    BY <2>1 DEF Counts
  <2>3. step \in [D \X Nat -> Nat]
    BY <2>2
  <2>4. base \in [D -> Nat] /\ next \in [D -> D] /\ rank \in [D -> 0 .. Ttl] /\ Ttl \in Nat
    OBVIOUS
  <2>5. \A n \in D \ stop : rank[next[n]] < rank[n]
    OBVIOUS
  <2> HIDE DEF D, stop, base, next, step, rank
  <2> QED BY <2>3, <2>4, <2>5 DEF Ranked
<1>2. PICK f : Solves(f, D, Nat, stop, base, next, step)
  <2> HIDE DEF D, stop, base, next, step, rank
  <2> QED BY <1>1, Recursion
<1>3. f \in [D -> Nat] /\ \A n \in D : f[n] = G(f, n)
  <2>1. f \in [D -> Nat] /\ \A n \in D : f[n] = IF n \in stop THEN base[n] ELSE step[<<n, f[next[n]]>>]
    BY <1>2 DEF Solves
  <2>2. ASSUME NEW n \in D PROVE f[n] = G(f, n)
    <3>1. CASE n = 0
      BY <2>1, <3>1
    <3>2. CASE n # 0
      <4>1. n \notin stop /\ next[n] = n - 1 /\ n - 1 \in D
        BY <3>2
      <4>2. f[n] = step[<<n, f[n - 1]>>] /\ <<n, f[n - 1]>> \in D \X Nat
        BY <2>1, <4>1
      <4> QED BY <4>2, <3>2
    <3> QED BY <3>1, <3>2
  <2> QED BY <2>1, <2>2
<1>4. f = [n \in D |-> G(f, n)]
  BY <1>3
<1>5. \E g : g = [n \in D |-> G(g, n)]
  BY <1>4
<1> DEFINE w == CHOOSE g : g = [n \in D |-> G(g, n)]
<1>6. w = [n \in D |-> G(w, n)]
  BY <1>5
<1>7. Within(count) = w
  BY DEF Within
<1>8. \A n \in 0 .. Ttl : Within(count)[n] = G(Within(count), n)
  <2> HIDE DEF w
  <2> QED BY <1>6, <1>7
<1>9. DOMAIN Within(count) = 0..Ttl /\ Within(count) = [n \in 0 .. Ttl |-> Within(count)[n]]
  <2> HIDE DEF w
  <2> QED BY <1>6, <1>7
<1>10. /\ Within(count)[0] = 0
       /\ \A n \in 0 .. (Ttl - 1) : Within(count)[n + 1] = Within(count)[n] + count[n]
  BY <1>8
<1> DEFINE S == {n \in Nat : Within(count)[n] \in Nat}
<1>11. 0 \in S
  BY <1>10
<1>12. ASSUME NEW n \in 0 .. (Ttl - 1), n \in S PROVE n + 1 \in S
  <2>1. count[n] \in Nat
    BY DEF Counts, Past
  <2> QED BY <1>10, <1>12, <2>1
<1>13. 0 .. Ttl \subseteq S
  <2> HIDE DEF S
  <2> QED BY <1>11, <1>12, BoundedInduction
<1> QED BY <1>9, <1>10, <1>13

\* A longer time sees no fewer requests.
LEMMA MoreInALongerTime ==
  ASSUME NEW count \in Counts, NEW m \in 0..Ttl, NEW n \in 0..Ttl, m <= n
  PROVE  Within(count)[m] <= Within(count)[n]
<1> USE ThrottlerAssumption
<1> DEFINE S == {k \in Nat : m <= k => Within(count)[m] <= Within(count)[k]}
<1>1. 0 \in S
  BY WithinIsASum
<1>2. ASSUME NEW k \in 0 .. (Ttl - 1), k \in S PROVE k + 1 \in S
  <2>1. Within(count)[k + 1] = Within(count)[k] + count[k] /\ count[k] \in Nat
    BY WithinIsASum DEF Counts, Past
  <2>2. Within(count)[k] \in Nat /\ Within(count)[m] \in Nat /\ Within(count)[k + 1] \in Nat
    BY WithinIsASum
  <2> QED BY <1>2, <2>1, <2>2
<1>3. 0 .. Ttl \subseteq S
  <2> HIDE DEF S
  <2> QED BY <1>1, <1>2, BoundedInduction
<1> QED BY <1>3

\* One more request now is one more in every time that is not empty.
LEMMA OneMore ==
  ASSUME NEW count \in Counts
  PROVE  /\ [count EXCEPT ![0] = @ + 1] \in Counts
         /\ Within([count EXCEPT ![0] = @ + 1])[0] = 0
         /\ \A n \in 1..Ttl : Within([count EXCEPT ![0] = @ + 1])[n] = Within(count)[n] + 1
<1> USE ThrottlerAssumption
<1> DEFINE more == [count EXCEPT ![0] = @ + 1]
<1>1. more \in Counts /\ more[0] = count[0] + 1 /\ \A n \in Past : n # 0 => more[n] = count[n]
  BY DEF Counts, Past
<1> HIDE DEF more
<1> DEFINE S == {n \in Nat : n # 0 => Within(more)[n] = Within(count)[n] + 1}
<1>2. 0 \in S
  OBVIOUS
<1>3. ASSUME NEW n \in 0 .. (Ttl - 1), n \in S PROVE n + 1 \in S
  <2>0. n \in 0..Ttl /\ n \in Past
    BY DEF Past
  <2>1. /\ Within(more)[n + 1] = Within(more)[n] + more[n]
        /\ Within(count)[n + 1] = Within(count)[n] + count[n]
        /\ Within(count)[n] \in Nat /\ Within(more)[n] \in Nat
        /\ Within(count)[0] = 0 /\ Within(more)[0] = 0
    BY <2>0, WithinIsASum, <1>1
  <2>4. count[n] \in Nat
    BY <2>0 DEF Counts
  <2>2. CASE n = 0
    BY <2>1, <2>2, <2>4, <1>1
  <2>3. CASE n # 0
    BY <2>0, <2>1, <2>3, <2>4, <1>1, <1>3
  <2> QED BY <2>2, <2>3
<1>4. 0 .. Ttl \subseteq S
  <2> HIDE DEF S
  <2> QED BY <1>2, <1>3, BoundedInduction
<1>5. Within(more)[0] = 0
  BY <1>1, WithinIsASum
<1>6. \A n \in 1..Ttl : Within(more)[n] = Within(count)[n] + 1
  BY <1>4
<1> QED BY <1>1, <1>5, <1>6 DEF more

\* After a tick the last n + 1 ticks are what the last n were.
LEMMA OneTickLater ==
  ASSUME NEW count \in Counts
  PROVE  /\ Later(count) \in Counts /\ Later(count)[0] = 0
         /\ \A n \in 0 .. (Ttl - 1) : Within(Later(count))[n + 1] = Within(count)[n]
<1> USE ThrottlerAssumption
<1> DEFINE later == Later(count)
<1>1. \A k \in Past : k # 0 => k - 1 \in Past
  BY DEF Past
<1>2. later \in Counts /\ later[0] = 0 /\ \A n \in Past : n # 0 => later[n] = count[n - 1]
  BY <1>1 DEF Counts, Past, Later
<1> HIDE DEF later
<1> DEFINE S == {n \in Nat : n < Ttl => Within(later)[n + 1] = Within(count)[n]}
<1>3. 0 \in S
  <2>1. Within(later)[0 + 1] = Within(later)[0] + later[0]
    BY WithinIsASum, <1>2
  <2> QED BY <2>1, WithinIsASum, <1>2
<1>4. ASSUME NEW n \in 0 .. (Ttl - 1), n \in S PROVE n + 1 \in S
  <2>1. SUFFICES ASSUME n + 1 < Ttl PROVE Within(later)[(n + 1) + 1] = Within(count)[n + 1]
    OBVIOUS
  <2>2. /\ Within(later)[(n + 1) + 1] = Within(later)[n + 1] + later[n + 1]
        /\ Within(count)[n + 1] = Within(count)[n] + count[n]
    BY WithinIsASum, <1>2, <2>1
  <2>3. later[n + 1] = count[n]
    <3>1. n + 1 \in Past /\ (n + 1) - 1 = n
      BY <2>1 DEF Past
    <3> QED BY <3>1, <1>2
  <2> QED BY <2>2, <2>3, <1>4
<1>5. 0 .. Ttl \subseteq S
  <2> HIDE DEF S
  <2> QED BY <1>3, <1>4, BoundedInduction
<1>6. \A n \in 0 .. (Ttl - 1) : Within(later)[n + 1] = Within(count)[n]
  BY <1>5
<1> QED BY <1>2, <1>6 DEF later

-----------------------------------------------------------------------------
(* The invariant.                                                           *)

Allowed(n) == Within(allowed)[n]
InVain(n) == Within(vain)[n]
Lesser(m, n) == IF m <= n THEN m ELSE n

\* Without a counter nothing was allowed in this tick, and less than the limit
\* before.  A counter has seen what was allowed since it started, one of it or
\* more in its first tick; before it started less than the limit was allowed.
Counter ==
    IF counterTtl = 0
    THEN hits = 0 /\ allowed[0] = 0 /\ Allowed(Ttl) <= Limit - 1
    ELSE /\ hits >= 1
         /\ Allowed(Ttl - counterTtl + 1) <= Lesser(hits, Limit)
         /\ Allowed(Ttl - counterTtl) <= Lesser(hits, Limit) - 1
         /\ Allowed(Ttl) - Allowed(Ttl - counterTtl + 1) <= Limit - 1
         /\ Lesser(hits, Limit) <= Allowed(Ttl - counterTtl + 1) + InVain(Ttl - counterTtl + 1)

\* A counter above the limit is outlived by the block.
ThrottlerInv ==
    /\ ThrottlerTypeOK
    /\ Counter
    /\ hits > Limit => blockTtl >= counterTtl

LEMMA ThrottlerInitInv == ThrottlerInit => ThrottlerInv
<1> USE ThrottlerAssumption
<1> SUFFICES ASSUME ThrottlerInit PROVE ThrottlerInv
  OBVIOUS
<1>1. allowed \in Counts /\ allowed = NoRequests /\ vain \in Counts
  BY DEF ThrottlerInit, NoRequests, Counts, Past
<1> DEFINE S == {n \in Nat : Within(allowed)[n] = 0}
<1>2. 0 \in S
  BY <1>1, WithinIsASum
<1>3. ASSUME NEW n \in 0 .. (Ttl - 1), n \in S PROVE n + 1 \in S
  <2>1. Within(allowed)[n + 1] = Within(allowed)[n] + allowed[n] /\ n \in Past
    BY <1>1, WithinIsASum DEF Past
  <2> QED BY <1>1, <1>3, <2>1 DEF NoRequests
<1>4. 0 .. Ttl \subseteq S
  <2> HIDE DEF S
  <2> QED BY <1>2, <1>3, BoundedInduction
<1>5. Allowed(Ttl) = 0 /\ allowed[0] = 0
  BY <1>1, <1>4 DEF Allowed, NoRequests, Past
<1> QED BY <1>1, <1>5 DEF ThrottlerInit, ThrottlerInv, ThrottlerTypeOK, Counter, Counts

\* A hit that is not blocked is allowed or counted in vain.
AllowedOrInVain ==
    IF blockTtl' = 0
    THEN \/ vain' = vain /\ \A n \in 1..Ttl : Within(allowed')[n] = Allowed(n) + 1
         \/ allowed' = allowed /\ \A n \in 1..Ttl : Within(vain')[n] = InVain(n) + 1
    ELSE UNCHANGED <<allowed, vain>>

\* What a hit does to the counter and the block.
LEMMA HitInv ==
  ASSUME ThrottlerInv, Hit, allowed' \in Counts, vain' \in Counts,
         Within(allowed')[0] = 0, allowed'[0] >= allowed[0],
         AllowedOrInVain
  PROVE  ThrottlerInv'
<1> USE ThrottlerAssumption DEF AllowedOrInVain
<1>1. ThrottlerTypeOK /\ allowed \in Counts /\ vain \in Counts
  BY DEF ThrottlerInv, ThrottlerTypeOK, Counts
<1>2. ThrottlerTypeOK'
  BY <1>1 DEF ThrottlerTypeOK, Hit, Counted, Blocks, Counts
<1>3. \A n \in 0..Ttl : /\ Within(allowed)[n] \in Nat /\ Within(vain)[n] \in Nat
                         /\ Within(allowed')[n] \in Nat /\ Within(vain')[n] \in Nat
  BY <1>1, WithinIsASum
<1>4. Within(allowed)[0] = 0 /\ Within(vain)[0] = 0 /\ Within(vain')[0] = 0
  BY <1>1, WithinIsASum
<1>5. CASE blockTtl > 0
  <2>1. UNCHANGED <<hits, counterTtl, blockTtl, allowed, vain>>
    BY <1>1, <1>5 DEF Hit, Counted, ThrottlerTypeOK
  <2> QED BY <2>1, <1>2 DEF ThrottlerInv, Counter, Allowed, InVain
<1>6. CASE blockTtl = 0 /\ counterTtl = 0
  <2>1. hits = 0 /\ hits' = 1 /\ counterTtl' = Ttl /\ blockTtl' = 0
    BY <1>1, <1>6 DEF Hit, Counted, ThrottlerTypeOK, ThrottlerInv, Counter, Blocks
  <2>2. Within(allowed)[1] = 0 /\ Allowed(Ttl) <= Limit - 1 /\ 1 \in 1..Ttl /\ Ttl \in 1..Ttl
    <3>1. Within(allowed)[0 + 1] = Within(allowed)[0] + allowed[0] /\ allowed[0] = 0
      BY <1>1, <1>6, WithinIsASum DEF ThrottlerInv, Counter
    <3> QED BY <1>4, <1>6, <3>1 DEF ThrottlerInv, Counter
  <2>3. CASE vain' = vain /\ \A n \in 1..Ttl : Within(allowed')[n] = Allowed(n) + 1
    <3>1. /\ Within(allowed')[1] = 1 /\ Within(allowed')[Ttl] <= Limit
          /\ Within(vain')[1] \in Nat /\ Within(allowed')[Ttl] \in Nat
      BY <2>2, <2>3, <1>3 DEF Allowed
    <3> QED BY <2>1, <3>1, <1>2, <1>3 DEF ThrottlerInv, Counter, Allowed, InVain, Lesser
  <2>4. CASE allowed' = allowed /\ \A n \in 1..Ttl : Within(vain')[n] = InVain(n) + 1
    <3>1. /\ Within(allowed')[1] = 0 /\ Within(allowed')[Ttl] <= Limit - 1
          /\ Within(vain')[1] >= 1 /\ Within(vain')[1] \in Nat /\ Within(allowed')[Ttl] \in Nat
      BY <2>2, <2>4, <1>3 DEF Allowed, InVain
    <3> QED BY <2>1, <3>1, <1>2, <1>3 DEF ThrottlerInv, Counter, Allowed, InVain, Lesser
  <2> QED BY <2>1, <2>3, <2>4
<1>7. CASE blockTtl = 0 /\ counterTtl > 0
  <2> DEFINE k == Ttl - counterTtl
  <2>1. /\ counterTtl \in 1..Ttl /\ counterTtl' = counterTtl /\ hits' = hits + 1 /\ hits \in Nat
        /\ blockTtl' = IF hits + 1 > Limit THEN BlockDuration ELSE 0
    BY <1>1, <1>7 DEF Hit, Counted, ThrottlerTypeOK, Blocks
  <2>2. /\ hits >= 1 /\ hits <= Limit
        /\ Within(allowed)[k + 1] <= hits
        /\ Within(allowed)[k] <= hits - 1
        /\ Within(allowed)[Ttl] - Within(allowed)[k + 1] <= Limit - 1
        /\ hits <= Within(allowed)[k + 1] + Within(vain)[k + 1]
    BY <2>1, <1>1, <1>7 DEF ThrottlerInv, Counter, Allowed, InVain, Lesser, ThrottlerTypeOK
  <2>3. k \in 0..Ttl /\ k + 1 \in 1..Ttl /\ k + 1 \in 0..Ttl /\ Ttl \in 1..Ttl /\ k' = k
    BY <2>1
  <2>4. /\ Within(allowed)[k] \in Nat /\ Within(allowed)[k + 1] \in Nat /\ Within(allowed)[Ttl] \in Nat
        /\ Within(allowed')[k] \in Nat /\ Within(allowed')[k + 1] \in Nat /\ Within(allowed')[Ttl] \in Nat
        /\ Within(vain)[k + 1] \in Nat /\ Within(vain')[k + 1] \in Nat
    BY <1>3, <2>3
  <2> DEFINE Goal == /\ Within(allowed')[k + 1] <= Lesser(hits + 1, Limit)
                     /\ Within(allowed')[k] <= Lesser(hits + 1, Limit) - 1
                     /\ Within(allowed')[Ttl] - Within(allowed')[k + 1] <= Limit - 1
                     /\ Lesser(hits + 1, Limit) <= Within(allowed')[k + 1] + Within(vain')[k + 1]
                     /\ hits + 1 > Limit => blockTtl' >= counterTtl
  <2>5. SUFFICES Goal
    <3> HIDE DEF k
    <3>1. (Ttl - counterTtl)' = k
      BY <2>1 DEF k
    <3>2. Counter'
      <4>1. hits' >= 1 /\ counterTtl' # 0 /\ Ttl - counterTtl' = k
        BY <2>1, <2>2 DEF k
      <4> QED BY <2>1, <4>1 DEF Counter, Allowed, InVain
    <3> QED BY <1>2, <2>1, <3>2 DEF ThrottlerInv
  <2>6. CASE hits + 1 > Limit
    <3>1. blockTtl' = BlockDuration /\ hits = Limit /\ BlockDuration # 0 /\ BlockDuration >= counterTtl
      BY <2>1, <2>2, <2>6
    <3>2. allowed' = allowed /\ vain' = vain
      BY <3>1
    <3> HIDE DEF k
    <3> QED BY <2>2, <2>4, <3>1, <3>2 DEF Lesser
  <2>7. CASE ~(hits + 1 > Limit)
    <3>1. blockTtl' = 0 /\ Lesser(hits + 1, Limit) = hits + 1
      BY <2>1, <2>2, <2>7 DEF Lesser
    <3>2. CASE vain' = vain /\ \A n \in 1..Ttl : Within(allowed')[n] = Allowed(n) + 1
      <4>1. /\ Within(allowed')[k + 1] = Within(allowed)[k + 1] + 1
            /\ Within(allowed')[Ttl] = Within(allowed)[Ttl] + 1
        BY <2>3, <3>2 DEF Allowed
      <4>2. Within(allowed')[k] <= hits
        <5>1. CASE k = 0
          <6> HIDE DEF k
          <6> QED BY <5>1, <2>1
        <5>2. CASE k # 0
          <6>1. k \in 1..Ttl
            BY <5>2, <2>3
          <6>2. Within(allowed')[k] = Within(allowed)[k] + 1
            BY <6>1, <3>2 DEF Allowed
          <6> HIDE DEF k
          <6> QED BY <6>2, <2>2, <2>4, <2>1
        <5> QED BY <5>1, <5>2
      <4> HIDE DEF k
      <4> QED BY <2>1, <2>2, <2>4, <2>7, <3>1, <3>2, <4>1, <4>2
    <3>3. CASE allowed' = allowed /\ \A n \in 1..Ttl : Within(vain')[n] = InVain(n) + 1
      <4>1. Within(vain')[k + 1] = Within(vain)[k + 1] + 1
        BY <2>3, <3>3 DEF InVain
      <4> HIDE DEF k
      <4> QED BY <2>1, <2>2, <2>4, <2>7, <3>1, <3>3, <4>1
    <3> QED BY <3>1, <3>2, <3>3
  <2> QED BY <2>6, <2>7
<1> QED BY <1>1, <1>5, <1>6, <1>7 DEF ThrottlerTypeOK

\* A request that is let through is counted in this tick, one that is blocked is not.
LEMMA IncrementInv == ASSUME ThrottlerInv, Increment PROVE ThrottlerInv'
<1> USE ThrottlerAssumption
<1>1. allowed \in Counts /\ vain \in Counts /\ 0 \in Past /\ blockTtl \in Nat /\ blockTtl' \in Nat
  BY DEF ThrottlerInv, ThrottlerTypeOK, Counts, Past, Increment, Hit
<1>2. /\ Within(allowed)[0] = 0 /\ allowed[0] \in Nat
      /\ [allowed EXCEPT ![0] = allowed[0]] = allowed
  BY <1>1, WithinIsASum DEF Counts
<1>3. CASE blockTtl' = 0
  <2>1. allowed' = [allowed EXCEPT ![0] = @ + 1] /\ vain' = vain
    BY <1>1, <1>3 DEF Increment, Counts
  <2>2. /\ allowed' \in Counts /\ Within(allowed')[0] = 0
        /\ \A n \in 1..Ttl : Within(allowed')[n] = Allowed(n) + 1
    BY <1>1, <2>1, OneMore DEF Allowed
  <2>3. allowed'[0] >= allowed[0]
    BY <1>1, <1>2, <2>1 DEF Counts
  <2>4. AllowedOrInVain /\ allowed'[0] >= allowed[0] /\ Within(allowed')[0] = 0
    BY <1>1, <1>3, <2>1, <2>2, <2>3 DEF AllowedOrInVain
  <2> QED BY <1>1, <2>1, <2>2, <2>4, HitInv DEF Increment
<1>4. CASE blockTtl' # 0
  <2>1. allowed' = allowed /\ vain' = vain
    BY <1>1, <1>2, <1>4 DEF Increment, Counts
  <2>2. AllowedOrInVain /\ allowed'[0] >= allowed[0] /\ Within(allowed')[0] = 0
    BY <1>1, <1>2, <1>4, <2>1 DEF AllowedOrInVain
  <2> QED BY <1>1, <2>1, <2>2, HitInv DEF Increment
<1> QED BY <1>3, <1>4

\* One counted in vain leaves what was let through as it is.
LEMMA LoseCountInv == ASSUME ThrottlerInv, LoseCount PROVE ThrottlerInv'
<1> USE ThrottlerAssumption
<1>1. allowed \in Counts /\ vain \in Counts /\ 0 \in Past /\ blockTtl \in Nat /\ blockTtl' \in Nat
  BY DEF ThrottlerInv, ThrottlerTypeOK, Counts, Past, LoseCount, Hit
<1>2. /\ Within(allowed)[0] = 0 /\ allowed[0] \in Nat
      /\ [vain EXCEPT ![0] = vain[0]] = vain
  BY <1>1, WithinIsASum DEF Counts
<1>3. CASE blockTtl' = 0
  <2>1. vain' = [vain EXCEPT ![0] = @ + 1] /\ allowed' = allowed
    BY <1>1, <1>3 DEF LoseCount, Counts
  <2>2. /\ vain' \in Counts
        /\ \A n \in 1..Ttl : Within(vain')[n] = InVain(n) + 1
    BY <1>1, <2>1, OneMore DEF InVain
  <2>3. AllowedOrInVain /\ allowed'[0] >= allowed[0] /\ Within(allowed')[0] = 0
    <3>1. allowed' = allowed
      BY <2>1
    <3>2. AllowedOrInVain
      BY <1>3, <2>2, <3>1 DEF AllowedOrInVain
    <3> QED BY <1>2, <3>1, <3>2
  <2> QED BY <1>1, <2>1, <2>2, <2>3, HitInv DEF LoseCount
<1>4. CASE blockTtl' # 0
  <2>1. allowed' = allowed /\ vain' = vain
    BY <1>1, <1>2, <1>4 DEF LoseCount, Counts
  <2>2. AllowedOrInVain /\ allowed'[0] >= allowed[0] /\ Within(allowed')[0] = 0
    BY <1>1, <1>2, <1>4, <2>1 DEF AllowedOrInVain
  <2> QED BY <1>1, <2>1, <2>2, HitInv DEF LoseCount
<1> QED BY <1>3, <1>4

\* A tick later the counter has one tick less to live, or none.
LEMMA TickInv == ASSUME ThrottlerInv, Tick PROVE ThrottlerInv'
<1> USE ThrottlerAssumption
<1>1. /\ allowed \in Counts /\ vain \in Counts /\ counterTtl \in 0..Ttl /\ hits \in Nat
      /\ blockTtl \in 0..BlockDuration
  BY DEF ThrottlerInv, ThrottlerTypeOK, Counts
<1>2. /\ allowed' \in Counts /\ vain' \in Counts /\ allowed'[0] = 0
      /\ \A n \in 0 .. (Ttl - 1) : /\ Within(allowed')[n + 1] = Within(allowed)[n]
                                   /\ Within(vain')[n + 1] = Within(vain)[n]
  BY <1>1, OneTickLater DEF Tick
<1>3. ThrottlerTypeOK'
  BY <1>1, <1>2 DEF ThrottlerTypeOK, Tick, Counts
<1>4. /\ Within(allowed')[Ttl] = Within(allowed)[Ttl - 1]
      /\ Within(allowed)[Ttl - 1] <= Within(allowed)[Ttl]
      /\ Within(allowed)[Ttl - 1] \in Nat /\ Within(allowed)[Ttl] \in Nat
  <2>1. Ttl - 1 \in 0 .. (Ttl - 1) /\ (Ttl - 1) + 1 = Ttl /\ Ttl - 1 \in 0..Ttl /\ Ttl \in 0..Ttl
    OBVIOUS
  <2> QED BY <2>1, <1>1, <1>2, WithinIsASum, MoreInALongerTime
<1>5. CASE counterTtl = 0
  <2>1. hits' = 0 /\ counterTtl' = 0 /\ Allowed(Ttl) <= Limit - 1
    BY <1>5 DEF Tick, ThrottlerInv, Counter
  <2> QED BY <2>1, <1>2, <1>3, <1>4 DEF ThrottlerInv, Counter, Allowed
<1>6. CASE counterTtl = 1
  <2>1. hits' = 0 /\ counterTtl' = 0 /\ Allowed(Ttl - 1) <= Limit - 1
    BY <1>1, <1>4, <1>6 DEF Tick, ThrottlerInv, Counter, Lesser, Allowed
  <2> QED BY <2>1, <1>2, <1>3, <1>4 DEF ThrottlerInv, Counter, Allowed
<1>7. CASE counterTtl > 1
  <2> DEFINE k == Ttl - counterTtl
  <2>1. counterTtl' = counterTtl - 1 /\ hits' = hits /\ Ttl - counterTtl' = k + 1
    BY <1>1, <1>7 DEF Tick
  <2>2. k \in 0 .. (Ttl - 1) /\ k + 1 \in 0 .. (Ttl - 1) /\ k + 1 \in 0..Ttl
    BY <1>1, <1>7
  <2>3. /\ Within(allowed')[k + 1] = Within(allowed)[k]
        /\ Within(allowed')[(k + 1) + 1] = Within(allowed)[k + 1]
        /\ Within(vain')[(k + 1) + 1] = Within(vain)[k + 1]
        /\ Within(allowed)[k + 1] \in Nat
    <3> HIDE DEF k
    <3> QED BY <1>1, <1>2, <2>2, WithinIsASum
  <2>4. hits > Limit => blockTtl' >= counterTtl'
    BY <1>1, <1>7, <2>1 DEF Tick, ThrottlerInv
  <2> HIDE DEF k
  <2>5. /\ hits >= 1
        /\ Within(allowed)[k + 1] <= Lesser(hits, Limit)
        /\ Within(allowed)[k] <= Lesser(hits, Limit) - 1
        /\ Within(allowed)[Ttl] - Within(allowed)[k + 1] <= Limit - 1
        /\ Lesser(hits, Limit) <= Within(allowed)[k + 1] + Within(vain)[k + 1]
    BY <1>7 DEF ThrottlerInv, Counter, Allowed, InVain, k
  <2>6. counterTtl' # 0
    BY <1>1, <1>7, <2>1
  <2>7. Within(allowed)[Ttl - 1] - Within(allowed)[k + 1] <= Limit - 1
    BY <1>4, <2>3, <2>5
  <2>8. Counter'
    BY <2>1, <2>3, <2>5, <2>6, <2>7, <1>4 DEF Counter, Allowed, InVain
  <2> QED BY <1>3, <2>1, <2>4, <2>8 DEF ThrottlerInv
<1> QED BY <1>1, <1>5, <1>6, <1>7

LEMMA ThrottlerStepInv ==
  ASSUME ThrottlerInv, [ThrottlerNext]_throttleVars PROVE ThrottlerInv'
<1>1. CASE UNCHANGED throttleVars
  BY <1>1 DEF throttleVars, ThrottlerInv, ThrottlerTypeOK, Counter, Allowed, InVain
<1> QED BY <1>1, IncrementInv, LoseCountInv, TickInv DEF ThrottlerNext

LEMMA ThrottlerInvariant == ThrottlerSpec => []ThrottlerInv
BY ThrottlerInitInv, ThrottlerStepInv, PTL DEF ThrottlerSpec

\* What was let through before the counter started and since, together.
LEMMA BoundFromInv == ThrottlerInv => RateIsBounded
<1> USE ThrottlerAssumption
<1> SUFFICES ASSUME ThrottlerInv PROVE RateIsBounded
  OBVIOUS
<1>1. allowed \in Counts /\ counterTtl \in 0..Ttl /\ hits \in Nat
  BY DEF ThrottlerInv, ThrottlerTypeOK, Counts
<1>2. Within(allowed)[Ttl] \in Nat
  BY <1>1, WithinIsASum
<1>3. CASE counterTtl = 0
  BY <1>2, <1>3 DEF ThrottlerInv, Counter, Allowed, RateIsBounded, Recent
<1>4. CASE counterTtl # 0
  <2> DEFINE k == Ttl - counterTtl + 1
  <2>1. k \in 0..Ttl
    BY <1>1, <1>4
  <2>2. Within(allowed)[k] \in Nat
    <3> HIDE DEF k
    <3> QED BY <1>1, <2>1, WithinIsASum
  <2>3. Within(allowed)[k] <= Lesser(hits, Limit) /\ Within(allowed)[Ttl] - Within(allowed)[k] <= Limit - 1
    BY <1>4 DEF ThrottlerInv, Counter, Allowed
  <2> HIDE DEF k
  <2>4. Within(allowed)[Ttl] < 2 * Limit
    BY <1>1, <1>2, <2>2, <2>3 DEF Lesser
  <2> QED BY <2>4 DEF ThrottlerInv, RateIsBounded, Recent
<1> QED BY <1>3, <1>4

\* No Ttl ticks see twice the limit (ThrottlerModule, RedisThrottlerStorage).
THEOREM RateStaysBounded == ThrottlerSpec => []RateIsBounded
<1> QED BY ThrottlerInvariant, BoundFromInv, PTL

\* A block starts only when the counter, which has seen nothing but what was
\* allowed or counted in vain in the last Ttl ticks, was at the limit.
THEOREM BlocksAreEarned == ThrottlerSpec => BlockIsEarned
<1> USE ThrottlerAssumption
<1> DEFINE Earned == blockTtl = 0 /\ blockTtl' > 0 => Recent(allowed) + Recent(vain) >= Limit
<1>1. ASSUME ThrottlerInv, [ThrottlerNext]_throttleVars PROVE [Earned]_throttleVars
  <2>1. SUFFICES ASSUME blockTtl = 0, blockTtl' > 0
                 PROVE  Recent(allowed) + Recent(vain) >= Limit
    OBVIOUS
  <2>2. /\ allowed \in Counts /\ vain \in Counts /\ counterTtl \in 0..Ttl /\ hits \in Nat
    BY <1>1 DEF ThrottlerInv, ThrottlerTypeOK, Counts
  <2>3. Hit
    BY <1>1, <2>1 DEF ThrottlerNext, Increment, LoseCount, Tick, throttleVars
  <2>4. hits' = hits + 1 /\ hits + 1 > Limit
    BY <2>1, <2>2, <2>3 DEF Hit, Counted, Blocks
  <2>5. counterTtl # 0
    BY <1>1, <2>2, <2>4 DEF ThrottlerInv, Counter
  <2> DEFINE k == Ttl - counterTtl + 1
  <2>6. Limit <= Within(allowed)[k] + Within(vain)[k]
    BY <1>1, <2>2, <2>4, <2>5 DEF ThrottlerInv, Counter, Allowed, InVain, Lesser
  <2>7. k \in 0..Ttl /\ Ttl \in 0..Ttl /\ k <= Ttl
    BY <2>2, <2>5
  <2> HIDE DEF k
  <2>8. Within(allowed)[k] <= Within(allowed)[Ttl] /\ Within(vain)[k] <= Within(vain)[Ttl]
    BY <2>2, <2>7, MoreInALongerTime
  <2>9. /\ Within(allowed)[k] \in Nat /\ Within(vain)[k] \in Nat
        /\ Within(allowed)[Ttl] \in Nat /\ Within(vain)[Ttl] \in Nat
    BY <2>2, <2>7, WithinIsASum
  <2> QED BY <2>6, <2>8, <2>9 DEF Recent
<1> QED BY <1>1, ThrottlerInvariant, PTL DEF ThrottlerSpec, BlockIsEarned
=============================================================================
