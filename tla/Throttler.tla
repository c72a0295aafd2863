------------------------------ MODULE Throttler ------------------------------
(***************************************************************************)
(* The rate limit of one client on one route: the script of                *)
(* RedisThrottlerStorage and the two keys it keeps.                        *)
(*                                                                         *)
(* The script is one step.  Its answer may be lost: the request then fails *)
(* although it is counted, and ioredis may have the script run once more.  *)
(* Time passes in ticks, and a key lives for a number of them.             *)
(***************************************************************************)
EXTENDS Naturals

CONSTANTS
    Limit,          \* the requests allowed during one life of the counter
    Ttl,            \* the life of the counter
    BlockDuration,  \* the life of the block
    MaxLate         \* bound: the requests counted in vain in one tick

\* The guard blocks for as long as it counts unless it is told otherwise.
ASSUME ThrottlerAssumption ==
    /\ Limit \in Nat \ {0} /\ Ttl \in Nat \ {0}
    /\ BlockDuration \in Nat /\ BlockDuration >= Ttl
    /\ MaxLate \in Nat

VARIABLES
    hits,        \* the counter
    counterTtl,  \* the ticks it still lives, 0 if it is not there
    blockTtl,    \* the ticks the block still lives, 0 if there is none
    allowed,     \* history: the requests let through so many ticks ago
    vain         \* history: the requests counted in vain so many ticks ago

throttleVars == <<hits, counterTtl, blockTtl, allowed, vain>>

-----------------------------------------------------------------------------
Past == 0 .. (Ttl - 1)
NoRequests == [k \in Past |-> 0]

\* The requests of the last n ticks, and of the last Ttl.
Within(count) ==
    LET sum[n \in 0..Ttl] == IF n = 0 THEN 0 ELSE sum[n - 1] + count[n - 1]
    IN  sum

Recent(count) == Within(count)[Ttl]

ThrottlerInit ==
    /\ hits = 0 /\ counterTtl = 0 /\ blockTtl = 0
    /\ allowed = NoRequests /\ vain = NoRequests

\* Mutant of Blocks: the comparison is off by one.
BlocksLate(n) == n > Limit + 1

Blocks(n) == n > Limit

\* Mutant of Counted: a client that is blocked is counted on.
CountedAlways ==
    /\ hits' = hits + 1
    /\ counterTtl' = IF counterTtl = 0 THEN Ttl ELSE counterTtl

\* A hit that is not blocked is counted, the first one for Ttl.
Counted ==
    IF blockTtl > 0 THEN UNCHANGED <<hits, counterTtl>>
    ELSE /\ hits' = hits + 1
         /\ counterTtl' = IF counterTtl = 0 THEN Ttl ELSE counterTtl

Hit ==
    /\ Counted
    /\ blockTtl' = IF blockTtl = 0 /\ Blocks(hits') THEN BlockDuration ELSE blockTtl

Increment ==
    /\ Hit
    /\ allowed' = [allowed EXCEPT ![0] = IF blockTtl' = 0 THEN @ + 1 ELSE @]
    /\ UNCHANGED vain

LoseCount ==
    /\ Hit
    /\ vain[0] < MaxLate
    /\ vain' = [vain EXCEPT ![0] = IF blockTtl' = 0 THEN @ + 1 ELSE @]
    /\ UNCHANGED allowed

Later(count) == [k \in Past |-> IF k = 0 THEN 0 ELSE count[k - 1]]

Tick ==
    /\ counterTtl' = IF counterTtl > 0 THEN counterTtl - 1 ELSE 0
    /\ hits' = IF counterTtl' > 0 THEN hits ELSE 0
    /\ blockTtl' = IF blockTtl > 0 THEN blockTtl - 1 ELSE 0
    /\ allowed' = Later(allowed) /\ vain' = Later(vain)

ThrottlerNext == Increment \/ LoseCount \/ Tick

ThrottlerSpec == ThrottlerInit /\ [][ThrottlerNext]_throttleVars

-----------------------------------------------------------------------------
(* Properties.                                                              *)

ThrottlerTypeOK ==
    /\ hits \in Nat /\ counterTtl \in 0..Ttl /\ blockTtl \in 0..BlockDuration
    /\ allowed \in [Past -> Nat] /\ vain \in [Past -> Nat]

\* Although the window starts with a request and not on the clock, no Ttl ticks
\* see twice the limit.
RateIsBounded == ThrottlerTypeOK /\ Recent(allowed) < 2 * Limit

\* A client is blocked for requests that were let through or counted in vain
\* in the last Ttl ticks: not for those made while it was blocked, nor once
\* more for those it was blocked for before.
BlockIsEarned ==
    [][blockTtl = 0 /\ blockTtl' > 0 => Recent(allowed) + Recent(vain) >= Limit]_throttleVars
=============================================================================
