----------------------------- MODULE RateLimiter -----------------------------
(***************************************************************************)
(* Limiter.Allow (internal/ratelimit/limiter.go) for one tenant, called by *)
(* the middleware of several gateways at once (gateway.go).  A call reads  *)
(* its gateway's clock and then runs a Lua script in Redis, which is       *)
(* atomic; between the two, and before the answer arrives, anything can    *)
(* happen.  The Redis client sends a command again when no answer comes,   *)
(* with the same arguments, and the copy it gave up on may still execute.  *)
(*                                                                         *)
(* Time is Redis's clock, in ticks.  A gateway's clock is ahead of it by   *)
(* at most Skew, and a script executes at most MaxDelay after its call     *)
(* read the clock.                                                         *)
(***************************************************************************)
EXTENDS Integers, FiniteSets, Functions

CONSTANTS
    Req,        \* the requests of the tenant
    Limit,      \* cfg.RateLimitPerMinute
    Window,     \* the window, one minute
    Slack,      \* what the TTL adds to the window, one second
    Grain,      \* ticks that tostring(now) cannot tell apart
    Skew,       \* how far a gateway's clock runs ahead of Redis's
    MaxDelay,   \* from reading the clock to the last execution, retries included;
                \* a retry may follow a read timeout that is longer than Slack
    MaxTries,   \* sendings of one command by the Redis client
    MaxClock    \* bound on the clock

ASSUME LimiterAssumption ==
    /\ Limit \in Int
    /\ Window \in Nat \ {0}
    /\ Grain \in Nat \ {0}
    /\ Slack \in Nat /\ Skew \in Nat /\ MaxDelay \in Nat /\ MaxClock \in Nat
    /\ MaxTries \in Nat \ {0}

VARIABLES
    clock,      \* Redis's clock
    zset,       \* the sorted set of the tenant's key: member -> score
    expireAt,   \* when the key expires
    st,         \* per request: "idle", "waiting", "allowed", "denied", "failopen"
    now,        \* per request: the clock it read
    born,       \* per request: when it read it
    tries,      \* per request: times the command was sent
    pending,    \* per request: copies of the command still to be executed
    admitted,   \* per request: some execution of its script added its entry
    remaining   \* per request: what Allow returned

request == <<now, born, tries>>
vars == <<clock, zset, expireAt, st, request, pending, admitted, remaining>>

Empty == [m \in {} |-> 0]

Init ==
    /\ clock = 0
    /\ zset = Empty
    /\ expireAt = 0
    /\ st = [r \in Req |-> "idle"]
    /\ now = [r \in Req |-> 0]
    /\ born = [r \in Req |-> 0]
    /\ tries = [r \in Req |-> 0]
    /\ pending = [r \in Req |-> 0]
    /\ admitted = [r \in Req |-> FALSE]
    /\ remaining = [r \in Req |-> 0]

-----------------------------------------------------------------------------
(* The Lua script.                                                         *)

\* Lua prints a number with 14 significant digits: the nanoseconds of today's
\* clock are rounded to a hundred microseconds.
Member(t) == (t + Grain \div 2) \div Grain

\* The sorted set as Redis shows it: an expired key is gone.
Live == IF clock >= expireAt THEN Empty ELSE zset

\* ZREMRANGEBYSCORE key -inf bound
Purge(z, bound) == Restrict(z, {m \in DOMAIN z : z[m] > bound})

\* ZADD key score m
ZAdd(z, m, score) == [k \in DOMAIN z \cup {m} |-> IF k = m THEN score ELSE z[k]]

\* Mutant: the count is compared after, not before, the entry is added.
FullLater(z) == Cardinality(DOMAIN z) > Limit

\* count >= limit
Full(z) == Cardinality(DOMAIN z) >= Limit

\* Mutant: the second that the TTL adds to the window is missing.
TTLWithoutSlack == Window

\* ttlSecs
TTL == Window + Slack

\* Mutant: remaining is computed as if the count did not include this request.
LeftUncounted(z) == Limit - Cardinality(DOMAIN z) - 1

\* remaining, from the ZCARD the script returns
Left(z) == Limit - Cardinality(DOMAIN z)

-----------------------------------------------------------------------------
(* Allow.                                                                  *)

Call(r) ==
    /\ st[r] = "idle"
    /\ st' = [st EXCEPT ![r] = "waiting"]
    /\ \E t \in clock..(clock + Skew) : now' = [now EXCEPT ![r] = t]
    /\ born' = [born EXCEPT ![r] = clock]
    /\ tries' = [tries EXCEPT ![r] = 1]
    /\ pending' = [pending EXCEPT ![r] = 1]
    /\ UNCHANGED <<clock, zset, expireAt, admitted, remaining>>

\* One copy of r's script executes.
Execute(r) ==
    /\ pending[r] > 0
    /\ pending' = [pending EXCEPT ![r] = @ - 1]
    /\ UNCHANGED <<clock, request>>

\* The answer reaches a caller that still waits, or nobody.
Answer(r, verdict, left) ==
    \/ /\ st[r] = "waiting"
       /\ st' = [st EXCEPT ![r] = verdict]
       /\ remaining' = [remaining EXCEPT ![r] = left]
    \/ UNCHANGED <<st, remaining>>

ScriptDenies(r) ==
    LET z == Purge(Live, now[r] - Window)
    IN  /\ Execute(r)
        /\ Full(z)
        /\ zset' = z
        /\ expireAt' = IF DOMAIN z = {} THEN 0 ELSE expireAt
        /\ Answer(r, "denied", 0)
        /\ UNCHANGED admitted

ScriptAdmits(r) ==
    LET z == Purge(Live, now[r] - Window)
        y == ZAdd(z, Member(now[r]), now[r])
    IN  /\ Execute(r)
        /\ ~Full(z)
        /\ zset' = y
        /\ expireAt' = clock + TTL
        /\ admitted' = [admitted EXCEPT ![r] = TRUE]
        /\ Answer(r, "allowed", Left(y))

\* No answer in time, or a broken connection, after which there is nothing to wait
\* for: the client sends the command again or gives up, and then the middleware lets
\* the request through.
Timeout(r) ==
    /\ st[r] = "waiting"
    /\ IF tries[r] < MaxTries
       THEN /\ tries' = [tries EXCEPT ![r] = @ + 1]
            /\ pending' = [pending EXCEPT ![r] = @ + 1]
            /\ UNCHANGED st
       ELSE /\ st' = [st EXCEPT ![r] = "failopen"]
            /\ UNCHANGED <<tries, pending>>
    /\ UNCHANGED <<clock, zset, expireAt, now, born, admitted, remaining>>

\* The command, or the connection that carried it, is lost.
Lose(r) ==
    /\ pending[r] > 0
    /\ pending' = [pending EXCEPT ![r] = @ - 1]
    /\ UNCHANGED <<clock, zset, expireAt, st, request, admitted, remaining>>

Tick ==
    /\ clock < MaxClock
    /\ \A r \in Req : pending[r] > 0 \/ st[r] = "waiting" => clock < born[r] + MaxDelay
    /\ clock' = clock + 1
    /\ UNCHANGED <<zset, expireAt, st, request, pending, admitted, remaining>>

Next ==
    \/ \E r \in Req : Call(r)
    \/ \E r \in Req : ScriptDenies(r)
    \/ \E r \in Req : ScriptAdmits(r)
    \/ \E r \in Req : Timeout(r)
    \/ \E r \in Req : Lose(r)
    \/ Tick

Spec == Init /\ [][Next]_vars

-----------------------------------------------------------------------------

\* Types; in particular X-RateLimit-Remaining is never negative, whatever copies
\* of a command execute (limiter.go: remaining := l.limit - result).
TypeOK ==
    /\ clock \in 0..MaxClock
    /\ DOMAIN zset \subseteq Nat
    /\ \A m \in DOMAIN zset : zset[m] \in Nat
    /\ expireAt \in Nat
    /\ st \in [Req -> {"idle", "waiting", "allowed", "denied", "failopen"}]
    /\ now \in [Req -> Nat]
    /\ born \in [Req -> Nat]
    /\ tries \in [Req -> 0..MaxTries]
    /\ pending \in [Req -> 0..MaxTries]
    /\ admitted \in [Req -> BOOLEAN]
    /\ remaining \in [Req -> Nat]

\* The window for which the limit is exact: Window, less what late scripts, fast
\* clocks and rounded members blur.
SharpWindow == Window - MaxDelay - Skew - (Grain - 1)

\* The requests admitted with a clock reading in a window of that length.
AdmittedIn(t) == {r \in Req : admitted[r] /\ now[r] > t /\ now[r] <= t + SharpWindow}

\* In no window are entries of more than Limit different members admitted: not by
\* concurrent calls, calls that execute out of order, fast clocks, retries that
\* execute twice, or the expiry of the key.
MembersWithinLimit ==
    \A r \in Req :
        Cardinality({Member(now[s]) : s \in AdmittedIn(now[r] - 1)})
            <= (IF Limit > 0 THEN Limit ELSE 0)

\* What the second that limiter.go adds to the TTL is worth: an expired key hides an
\* entry that a script still has to count only if more than that second, less the
\* skew of the clocks, went by since the script's call read the clock.  A script that
\* the client sends again after its read timeout can be that late; one that executes
\* at once is not.
ExpiryHidesOnlyFromLate ==
    \A r \in Req : \A m \in DOMAIN zset :
        /\ pending[r] > 0
        /\ clock >= expireAt
        /\ zset[m] > now[r] - Window
        => clock - born[r] > Slack - Skew

\* limiter.go: "member = timestamp string for uniqueness": no window admits more
\* than Limit requests.
RequestsWithinLimit ==
    \A r \in Req :
        Cardinality(AdmittedIn(now[r] - 1)) <= (IF Limit > 0 THEN Limit ELSE 0)
=============================================================================
