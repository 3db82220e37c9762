-------------------------------- MODULE Quota --------------------------------
(***************************************************************************)
(* The daily token quota of one tenant: QuotaCounter (ratelimit/quota.go)  *)
(* as the middleware and the two handlers use it (gateway/gateway.go).     *)
(* The middleware checks the counter of the current UTC day, the provider  *)
(* answers much later, and only then handleComplete adds the tokens to the *)
(* counter of what is by then the current day; handleStream adds nothing.  *)
(*                                                                         *)
(* Proc is what bounds concurrency: each process serves one request after  *)
(* another.  Time passes in hours; a day has DayLen of them.               *)
(***************************************************************************)
EXTENDS Integers, FiniteSets

CONSTANTS
    Proc,       \* requests of the tenant that can be served at the same time
    Kinds,      \* the endpoints the tenant uses
    Limit,      \* cfg.DailyTokenQuota
    MaxTokens,  \* tokens one completion can cost
    DayLen,     \* hours in a day
    MaxDay,     \* bound: the last day
    MaxFaults,  \* bound: Redis errors, lost replies and cancelled contexts
    MaxUsed     \* bound: tokens consumed in all

ASSUME QuotaAssumption ==
    /\ IsFiniteSet(Proc)
    /\ Kinds \subseteq {"complete", "stream"}
    /\ Limit \in Int
    /\ MaxTokens \in Nat \ {0}
    /\ DayLen \in Nat \ {0}
    /\ MaxDay \in Nat /\ MaxFaults \in Nat /\ MaxUsed \in Nat

VARIABLES
    day, hour,  \* the UTC time
    total,      \* per day: the value of the day's counter, 0 without a key
    ttl,        \* per day: hours until its key expires, 0 without a TTL
    st,         \* per process: where the request is
    kind,       \* per process: the endpoint
    need,       \* per process: the tokens to add
    dayKey,     \* per process: the day whose key Add is using
    faults,     \* faults so far
    excess,     \* admissions without a check and additions made twice
    used        \* tokens the tenant has consumed

time   == <<day, hour>>
redis  == <<total, ttl>>
vars   == <<time, redis, st, kind, need, dayKey, faults, excess, used>>

Days == 0..MaxDay

Stages == {"idle", "denied", "running", "answered", "adding", "created"}

Init ==
    /\ day = 0
    /\ hour = 0
    /\ total = [d \in Days |-> 0]
    /\ ttl = [d \in Days |-> 0]
    /\ st = [p \in Proc |-> "idle"]
    /\ kind = [p \in Proc |-> "complete"]
    /\ need = [p \in Proc |-> 1]
    /\ dayKey = [p \in Proc |-> 0]
    /\ faults = 0
    /\ excess = 0
    /\ used = 0

-----------------------------------------------------------------------------

\* Mutant: a tenant exactly at its limit passes.
UnderOrAtLimit(v) == v = 0 \/ v <= Limit

\* Check's answer for a counter value; without a key any limit is kept.
UnderLimit(v) == v = 0 \/ v < Limit

\* Mutant: the TTL of a week.
WeekTTL == 7 * DayLen

\* Mutant: an hour less than a day.
ShortTTL == DayLen - 1

\* The 25 hours.
KeyTTL == DayLen + 1

\* Mutant: the first addition is recognised by the counter reading 1.
IsOne(newVal, n) == newVal = 1

\* newVal == n
FirstUse(newVal, n) == newVal = n

Go(p, s) == st' = [st EXCEPT ![p] = s]

Fault ==
    /\ faults < MaxFaults
    /\ faults' = faults + 1

\* The middleware lets the request through.
CheckPasses(p, k) ==
    /\ st[p] \in {"idle", "denied"}
    /\ UnderLimit(total[day])
    /\ Go(p, "running")
    /\ kind' = [kind EXCEPT ![p] = k]
    /\ UNCHANGED <<time, redis, need, dayKey, faults, excess, used>>

\* 429 daily_quota_exceeded
CheckDenies(p) ==
    /\ st[p] = "idle"
    /\ ~UnderLimit(total[day])
    /\ Go(p, "denied")
    /\ UNCHANGED <<time, redis, kind, need, dayKey, faults, excess, used>>

\* A Redis error: fail open.
CheckErrs(p, k) ==
    /\ st[p] \in {"idle", "denied"}
    /\ Fault
    /\ excess' = excess + 1
    /\ Go(p, "running")
    /\ kind' = [kind EXCEPT ![p] = k]
    /\ UNCHANGED <<time, redis, need, dayKey, used>>

\* A guardrail or the policy blocks the request, or the provider fails.
Rejected(p) ==
    /\ st[p] = "running"
    /\ Go(p, "idle")
    /\ UNCHANGED <<time, redis, kind, need, dayKey, faults, excess, used>>

\* The provider consumes n tokens for the request.
Consume(n) ==
    /\ used + n <= MaxUsed
    /\ used' = used + n

\* handleComplete has sent the response and comes to account for it.
Answered(p, n) ==
    /\ st[p] = "running"
    /\ kind[p] = "complete"
    /\ Consume(n)
    /\ need' = [need EXCEPT ![p] = n]
    /\ Go(p, "answered")
    /\ UNCHANGED <<time, redis, kind, dayKey, faults, excess>>

\* handleStream has sent its response and returns.
Streamed(p, n) ==
    /\ st[p] = "running"
    /\ kind[p] = "stream"
    /\ Consume(n)
    /\ Go(p, "idle")
    /\ UNCHANGED <<time, redis, kind, need, dayKey, faults, excess>>

-----------------------------------------------------------------------------
(* QuotaCounter.Add.                                                       *)

\* dailyKey
AddStarts(p) ==
    /\ st[p] = "answered"
    /\ dayKey' = [dayKey EXCEPT ![p] = day]
    /\ Go(p, "adding")
    /\ UNCHANGED <<time, redis, kind, need, faults, excess, used>>

\* INCRBY, executed once or, when its reply is lost and the client sends it
\* again, twice; Add sees the last reply.
Increment(p, times) ==
    LET newVal == total[dayKey[p]] + times * need[p]
    IN  /\ st[p] = "adding"
        /\ total' = [total EXCEPT ![dayKey[p]] = newVal]
        /\ Go(p, IF FirstUse(newVal, need[p]) THEN "created" ELSE "idle")

IncrBy(p) ==
    /\ Increment(p, 1)
    /\ UNCHANGED <<time, ttl, kind, need, dayKey, faults, excess, used>>

IncrByTwice(p) ==
    /\ Increment(p, 2)
    /\ Fault
    /\ excess' = excess + 1
    /\ UNCHANGED <<time, ttl, kind, need, dayKey, used>>

\* The error is logged and the tokens are not counted.
IncrByErrs(p) ==
    /\ st[p] = "adding"
    /\ Fault
    /\ Go(p, "idle")
    /\ UNCHANGED <<time, redis, kind, need, dayKey, excess, used>>

\* EXPIRE; on a key that is gone it does nothing.
Expire(p) ==
    /\ st[p] = "created"
    /\ ttl' = [ttl EXCEPT ![dayKey[p]] = IF total[dayKey[p]] > 0 THEN KeyTTL ELSE 0]
    /\ Go(p, "idle")
    /\ UNCHANGED <<time, total, kind, need, dayKey, faults, excess, used>>

\* Its error is dropped: Redis fails, the request's context ends, or the
\* gateway stops between the two commands.
ExpireErrs(p) ==
    /\ st[p] = "created"
    /\ Fault
    /\ Go(p, "idle")
    /\ UNCHANGED <<time, redis, kind, need, dayKey, excess, used>>

-----------------------------------------------------------------------------

\* An hour passes, and keys whose time is up are gone.
Hour ==
    /\ IF hour + 1 < DayLen
       THEN hour' = hour + 1 /\ UNCHANGED day
       ELSE hour' = 0 /\ day < MaxDay /\ day' = day + 1
    /\ ttl' = [d \in Days |-> IF ttl[d] > 0 THEN ttl[d] - 1 ELSE 0]
    /\ total' = [d \in Days |-> IF ttl[d] = 1 THEN 0 ELSE total[d]]
    /\ UNCHANGED <<st, kind, need, dayKey, faults, excess, used>>

Next ==
    \/ \E p \in Proc, k \in Kinds : CheckPasses(p, k)
    \/ \E p \in Proc : CheckDenies(p)
    \/ \E p \in Proc, k \in Kinds : CheckErrs(p, k)
    \/ \E p \in Proc : Rejected(p)
    \/ \E p \in Proc, n \in 1..MaxTokens : Answered(p, n)
    \/ \E p \in Proc, n \in 1..MaxTokens : Streamed(p, n)
    \/ \E p \in Proc : AddStarts(p)
    \/ \E p \in Proc : IncrBy(p)
    \/ \E p \in Proc : IncrByTwice(p)
    \/ \E p \in Proc : IncrByErrs(p)
    \/ \E p \in Proc : Expire(p)
    \/ \E p \in Proc : ExpireErrs(p)
    \/ Hour

Spec == Init /\ [][Next]_vars

-----------------------------------------------------------------------------

\* Types of the counters and of the requests' state.
TypeOK ==
    /\ day \in Days
    /\ hour \in 0..(DayLen - 1)
    /\ total \in [Days -> Nat]
    /\ ttl \in [Days -> 0..(DayLen + 1)]
    /\ st \in [Proc -> Stages]
    /\ kind \in [Proc -> {"complete", "stream"}]
    /\ need \in [Proc -> 1..MaxTokens]
    /\ dayKey \in [Proc -> Days]
    /\ faults \in 0..MaxFaults
    /\ excess \in 0..faults
    /\ used \in Nat

\* How far the check can let a counter run over: the highest value that still
\* passes, plus one completion for each request in flight, plus one for each
\* admission without a check and each addition made twice.
QuotaBound ==
    \A d \in Days :
        total[d] <= (IF Limit > 1 THEN Limit - 1 ELSE 0)
                        + MaxTokens * (Cardinality(Proc) + excess)

\* The counter of a day outlives the day: no expiry hands a tenant a second quota
\* (quota.go: a key of 25 hours, a new key at midnight).
CounterOutlivesDay == [][\A d \in Days : total'[d] < total[d] => d < day']_vars

\* quota.go: Add "sets a 25-hour TTL on first use so the key auto-expires": a key
\* without a TTL is one whose creator is about to set it.
KeyAlwaysHasTTL ==
    \A d \in Days :
        total[d] > 0 /\ ttl[d] = 0 => \E p \in Proc : st[p] = "created" /\ dayKey[p] = d

\* Of the requests that add to a new key at the same time one sets its TTL: as
\* long as no command fails, no key is left without one.
KeyHasTTL == faults = 0 => KeyAlwaysHasTTL
=============================================================================
