------------------------------- MODULE Gateway -------------------------------
(***************************************************************************)
(* The path of requests through the gateway: the middleware, the two       *)
(* handlers and the metrics (gateway/gateway.go), Authenticate             *)
(* (auth/auth.go), and the server around them with its write timeout and   *)
(* its graceful shutdown (cmd/gateway/main.go).  What the limiter, the     *)
(* quota, the window and the watcher do inside is left to RateLimiter,     *)
(* Quota, Stream and PolicyWatcher; here they only answer.                 *)
(*                                                                         *)
(* Time passes in ticks of ten seconds, and only while every request in    *)
(* flight waits for the provider: the other steps are quick.               *)
(***************************************************************************)
EXTENDS Integers, FiniteSets

CONSTANTS
    Reqs,               \* requests
    Inputs,             \* what they can be: [path, key, body, risk]; a probe is for
                        \* /healthz or /metrics, other paths have no handler
    WriteTimeout,       \* http.Server.WriteTimeout
    ProviderTimeout,    \* the timeout of the adapter's http.Client
    DrainTimeout        \* the deadline given to Shutdown

ASSUME GatewayAssumption ==
    /\ IsFiniteSet(Reqs)
    /\ Inputs \subseteq [path : {"complete", "stream", "probe", "other"}, key : {"known", "unknown"},
                         body : {"ok", "bad", "large", "chunked"}, risk : {"pass", "tag", "block"}]
    /\ WriteTimeout \in Nat \ {0} /\ ProviderTimeout \in Nat \ {0} /\ DrainTimeout \in Nat \ {0}

VARIABLES
    in,             \* per request: what it is
    at,             \* per request: where it is
    status,         \* per request: rw.status, 0 before there is one
    age,            \* per request: time since it was read
    wait,           \* per request: time spent in the provider call
    judged,         \* per request: the policy's verdict
    charged,        \* per request: its tokens were added to the quota
    gone,           \* per request: the client hung up
    answered,       \* per request: the whole response went out in time
    rules,          \* what the active policy says
    server,         \* up, draining, down or failed
    drain,          \* time since the signal
    requestsTotal, rateLimitHits, guardrailBlocks, policyEvaluations \* metrics

perReq  == <<in, at, status, age, wait, judged, charged, gone, answered>>
metrics == <<requestsTotal, rateLimitHits, guardrailBlocks, policyEvaluations>>
life    == <<server, drain>>
vars    == <<perReq, rules, life, metrics>>

Statuses == {200, 400, 401, 403, 404, 405, 413, 429, 502, 504}
Over     == {"end", "killed"}
InFlight == {r \in Reqs : at[r] \notin Over \cup {"none"}}

Init ==
    /\ in \in [Reqs -> Inputs]
    /\ at = [r \in Reqs |-> "none"]
    /\ status = [r \in Reqs |-> 0]
    /\ age = [r \in Reqs |-> 0]
    /\ wait = [r \in Reqs |-> 0]
    /\ judged = [r \in Reqs |-> "no"]
    /\ charged = [r \in Reqs |-> FALSE]
    /\ gone = [r \in Reqs |-> FALSE]
    /\ answered = [r \in Reqs |-> FALSE]
    /\ rules \in {"allow", "block"}
    /\ server = "up"
    /\ drain = 0
    /\ requestsTotal = [s \in Statuses |-> 0]
    /\ rateLimitHits = [k \in {"rate", "quota"} |-> 0]
    /\ guardrailBlocks = [k \in {"input", "output"} |-> 0]
    /\ policyEvaluations = [k \in {"block", "tag", "log", "pass"} |-> 0]

-----------------------------------------------------------------------------

\* The request moves on.
Go(r, stage) == at' = [at EXCEPT ![r] = stage]

\* Inc of a counter with a label.
Inc(metric, label) == [metric EXCEPT ![label] = @ + 1]

\* Mutant: the deadline is that of the slowest provider.
InTimeForProvider(r) == ~gone[r] /\ age[r] <= ProviderTimeout

\* Whether what the server flushes when a handler returns still reaches the
\* client.
InTime(r) == ~gone[r] /\ age[r] < WriteTimeout

\* net/http reads a request.
Arrive(r) ==
    /\ server = "up"
    /\ at[r] = "none"
    /\ Go(r, "auth")
    /\ UNCHANGED <<in, status, age, wait, judged, charged, gone, answered, rules, life, metrics>>

\* A response of the middleware itself: the request ends there.
Refuse(r, s) ==
    /\ status' = [status EXCEPT ![r] = s]
    /\ answered' = [answered EXCEPT ![r] = InTime(r)]
    /\ Go(r, "end")
    /\ UNCHANGED <<in, age, wait, judged, charged, gone, rules, life>>

Advance(r, from, to) ==
    /\ at[r] = from
    /\ Go(r, to)
    /\ UNCHANGED <<in, status, age, wait, judged, charged, gone, answered, rules, life, metrics>>

\* /healthz and /metrics need no key, pass no gate and are not counted.
Exempt(r) == in[r].path = "probe"

Exempted(r) == Exempt(r) /\ Advance(r, "auth", "handler")

\* Authenticate
Known(r) == in[r].key = "known"

AuthFails(r) ==
    /\ at[r] = "auth"
    /\ ~Exempt(r) /\ ~Known(r)
    /\ Refuse(r, 401)
    /\ UNCHANGED metrics

Authenticated(r) == ~Exempt(r) /\ Known(r) /\ Advance(r, "auth", "limit")

RateLimited(r) ==
    /\ at[r] = "limit"
    /\ rateLimitHits' = Inc(rateLimitHits, "rate")
    /\ Refuse(r, 429)
    /\ UNCHANGED <<requestsTotal, guardrailBlocks, policyEvaluations>>

\* The limiter allows the request, fails, or is not configured.
LimiterPasses(r) == Advance(r, "limit", "quota")

QuotaExceeded(r) ==
    /\ at[r] = "quota"
    /\ rateLimitHits' = Inc(rateLimitHits, "quota")
    /\ Refuse(r, 429)
    /\ UNCHANGED <<requestsTotal, guardrailBlocks, policyEvaluations>>

QuotaPasses(r) == Advance(r, "quota", "handler")

-----------------------------------------------------------------------------
(* The handlers.                                                           *)

\* A handler writes a status and a body and returns.
Respond(r, s) ==
    /\ status' = [status EXCEPT ![r] = s]
    /\ Go(r, "log")
    /\ UNCHANGED <<in, age, wait, charged, gone, answered, rules, life>>

\* handleHealth and the metrics handler answer whatever is asked.
HandleProbe(r) ==
    /\ at[r] = "handler"
    /\ Exempt(r)
    /\ Respond(r, 200)
    /\ UNCHANGED <<judged, metrics>>

\* The mux has no handler for the path; it has passed the gates all the same.
NotFound(r) ==
    /\ at[r] = "handler"
    /\ in[r].path = "other"
    /\ Respond(r, 404)
    /\ UNCHANGED <<judged, metrics>>

\* The statuses with which a handler can turn away what it read: the wrong
\* method, a declared length over the limit, and a body that does not decode, is
\* cut off at the limit, or has no prompt.
Malformed(r, s) ==
    /\ at[r] = "handler"
    /\ \/ s = 405 /\ in[r].body = "bad"
       \/ s = 413 /\ in[r].body = "large"
       \/ s = 400 /\ in[r].body \in {"bad", "chunked"}
    /\ Respond(r, s)
    /\ UNCHANGED <<judged, metrics>>

CompleteRejects(r, s) == in[r].path = "complete" /\ Malformed(r, s)

StreamRejects(r, s) == in[r].path = "stream" /\ Malformed(r, s)

\* Where a request with a readable body is scanned; of a body that is too long
\* but does not say so, the first JSON value may be within the limit.
ToScan(r) ==
    /\ at[r] = "handler"
    /\ in[r].path \in {"complete", "stream"}
    /\ in[r].body \in {"ok", "chunked"}

\* VerdictBlock
ScanBlocks(r) ==
    /\ ToScan(r)
    /\ in[r].risk = "block"
    /\ guardrailBlocks' = Inc(guardrailBlocks, "input")
    /\ Respond(r, 403)
    /\ UNCHANGED <<judged, requestsTotal, rateLimitHits, policyEvaluations>>

CompleteScanBlocks(r) == in[r].path = "complete" /\ ScanBlocks(r)

\* Mutant: the stream handler forgets the counter.
StreamScanUncounted(r) ==
    /\ in[r].path = "stream"
    /\ ToScan(r)
    /\ in[r].risk = "block"
    /\ Respond(r, 403)
    /\ UNCHANGED <<judged, metrics>>

StreamScanBlocks(r) == in[r].path = "stream" /\ ScanBlocks(r)

\* Mutant: a scan that only tags.
TagsOnly(r) == ToScan(r)

\* VerdictPass or VerdictTag
ScanPasses(r) == ToScan(r) /\ in[r].risk # "block"

Scanned(r) == ScanPasses(r) /\ Advance(r, "handler", "policy")

\* evalPolicy answers BLOCK.
PolicyBlocks(r) ==
    /\ at[r] = "policy"
    /\ rules = "block"
    /\ judged' = [judged EXCEPT ![r] = "block"]
    /\ policyEvaluations' = Inc(policyEvaluations, "block")
    /\ Respond(r, 403)
    /\ UNCHANGED <<requestsTotal, rateLimitHits, guardrailBlocks>>

CompletePolicyBlocks(r) == in[r].path = "complete" /\ PolicyBlocks(r)

StreamPolicyBlocks(r) == in[r].path = "stream" /\ PolicyBlocks(r)

\* No rule matches, or one that does not block; the provider is called, by
\* handleStream after it has sent a 200.
PolicyPasses(r) ==
    /\ at[r] = "policy"
    /\ rules = "allow"
    /\ judged' = [judged EXCEPT ![r] = "pass"]
    /\ status' = [status EXCEPT ![r] = IF in[r].path = "stream" THEN 200 ELSE 0]
    /\ Go(r, "provider")
    /\ UNCHANGED <<in, age, wait, charged, gone, answered, rules, life, metrics>>

\* Generate returns a completion.
ProviderAnswers(r) ==
    /\ at[r] = "provider" /\ in[r].path = "complete"
    /\ status' = [status EXCEPT ![r] = 200]
    /\ Go(r, "account")
    /\ UNCHANGED <<in, age, wait, judged, charged, gone, answered, rules, life, metrics>>

\* Mutant: the error takes the way of an internal one.
ProviderFailsAsInternal(r) ==
    /\ at[r] = "provider" /\ in[r].path = "complete"
    /\ Respond(r, 500)
    /\ UNCHANGED <<judged, metrics>>

\* Generate returns an error: the provider's, or that the client is gone.
ProviderFails(r) ==
    /\ at[r] = "provider" /\ in[r].path = "complete"
    /\ Respond(r, 502)
    /\ UNCHANGED <<judged, metrics>>

ProviderTimesOut(r) ==
    /\ at[r] = "provider" /\ in[r].path = "complete"
    /\ wait[r] >= ProviderTimeout
    /\ Respond(r, 504)
    /\ UNCHANGED <<judged, metrics>>

\* quota.Add, with the request's context.
Account(r) ==
    /\ at[r] = "account"
    /\ charged' \in {charged} \cup IF gone[r] THEN {} ELSE {[charged EXCEPT ![r] = TRUE]}
    /\ Go(r, "log")
    /\ UNCHANGED <<in, status, age, wait, judged, gone, answered, rules, life, metrics>>

\* StreamTo returns and the rest of the window is sent, an abort reported by
\* the counter or not (see Stream).
StreamEnds(r, aborts) ==
    /\ at[r] = "provider" /\ in[r].path = "stream"
    /\ guardrailBlocks' = IF aborts THEN Inc(guardrailBlocks, "output") ELSE guardrailBlocks
    /\ Go(r, "log")
    /\ UNCHANGED <<in, status, age, wait, judged, charged, gone, answered, rules, life,
                   requestsTotal, rateLimitHits, policyEvaluations>>

\* The label of the request's metrics.
StatusLabel(r) == status[r]

\* The middleware after the handler.
Completed(r) ==
    /\ at[r] = "log"
    /\ requestsTotal' = IF Exempt(r) THEN requestsTotal ELSE Inc(requestsTotal, StatusLabel(r))
    /\ answered' = [answered EXCEPT ![r] = InTime(r)]
    /\ Go(r, "end")
    /\ UNCHANGED <<in, status, age, wait, judged, charged, gone, rules, life,
                   rateLimitHits, guardrailBlocks, policyEvaluations>>

-----------------------------------------------------------------------------
(* The environment and the server.                                         *)

ClientLeaves(r) ==
    /\ r \in InFlight /\ ~gone[r]
    /\ gone' = [gone EXCEPT ![r] = TRUE]
    /\ UNCHANGED <<in, at, status, age, wait, judged, charged, answered, rules, life, metrics>>

\* A reload swaps the bundle.
PolicySwaps ==
    /\ server \in {"up", "draining"}
    /\ rules' \in {"allow", "block"} \ {rules}
    /\ UNCHANGED <<perReq, life, metrics>>

\* Mutant: the adapter's client has no timeout.
WaitsForever(r) == TRUE

\* The http.Client gives up.
MayWait(r) == wait[r] < ProviderTimeout

\* The context given to Shutdown has expired.
DrainOver == drain >= DrainTimeout

\* A clock is followed until just after it passes its limit.
Later(t, limit) == IF t <= limit THEN t + 1 ELSE t

Tick ==
    /\ \A r \in InFlight : at[r] = "provider" /\ MayWait(r)
    /\ InFlight # {} \/ server = "draining"
    /\ ~(server = "draining" /\ DrainOver)
    /\ server \in {"up", "draining"}
    /\ age' = [r \in Reqs |-> IF r \in InFlight THEN Later(age[r], WriteTimeout) ELSE age[r]]
    /\ wait' = [r \in Reqs |-> IF r \in InFlight THEN Later(wait[r], ProviderTimeout) ELSE wait[r]]
    /\ drain' = IF server = "draining" THEN Later(drain, DrainTimeout) ELSE drain
    /\ UNCHANGED <<in, at, status, judged, charged, gone, answered, rules, server, metrics>>

\* SIGINT or SIGTERM: the listener closes, Shutdown waits.
Signal ==
    /\ server = "up"
    /\ server' = "draining"
    /\ UNCHANGED <<perReq, rules, drain, metrics>>

\* Mutant: main returns without waiting.
NoDrain == TRUE

\* Shutdown returns: nobody is left, or the context expired.
ShutdownReturns == InFlight = {} \/ DrainOver

\* main returns after Shutdown, and what is still running dies with it.
Exit(s) ==
    /\ server' = s
    /\ at' = [r \in Reqs |-> IF r \in InFlight THEN "killed" ELSE at[r]]
    /\ UNCHANGED <<in, status, age, wait, judged, charged, gone, answered, rules, drain, metrics>>

Stopped == server = "draining" /\ ShutdownReturns /\ Exit("down")

\* ListenAndServe fails: os.Exit(1).
Fatal == server = "up" /\ Exit("failed")

Middleware(r) ==
    \/ Exempted(r) \/ AuthFails(r) \/ Authenticated(r)
    \/ RateLimited(r) \/ LimiterPasses(r)
    \/ QuotaExceeded(r) \/ QuotaPasses(r)
    \/ Completed(r)

HandleComplete(r) ==
    \/ \E s \in {400, 405, 413} : CompleteRejects(r, s)
    \/ CompleteScanBlocks(r) \/ CompletePolicyBlocks(r)
    \/ ProviderAnswers(r) \/ ProviderFails(r) \/ ProviderTimesOut(r)
    \/ Account(r)

HandleStream(r) ==
    \/ \E s \in {400, 405, 413} : StreamRejects(r, s)
    \/ StreamScanBlocks(r) \/ StreamPolicyBlocks(r)
    \/ \E aborts \in BOOLEAN : StreamEnds(r, aborts)

Serve(r) ==
    \/ Middleware(r)
    \/ HandleProbe(r)
    \/ NotFound(r)
    \/ HandleComplete(r)
    \/ HandleStream(r)
    \/ Scanned(r)
    \/ PolicyPasses(r)

Next ==
    \/ \E r \in Reqs : Arrive(r) \/ Serve(r) \/ ClientLeaves(r)
    \/ PolicySwaps
    \/ Tick
    \/ Signal
    \/ Stopped
    \/ Fatal

Spec == Init /\ [][Next]_vars

\* Handlers run, time passes, adapters whose client has timed out return, and
\* Shutdown returns.  The provider is not assumed to answer.
FairSpec ==
    /\ Spec
    /\ \A r \in Reqs : WF_vars(Serve(r) /\ (at[r] = "provider" => ~MayWait(r)))
    /\ WF_vars(Tick)
    /\ WF_vars(Stopped)

-----------------------------------------------------------------------------

\* Types of the requests' state, of the server and of the metrics; in particular the
\* statuses are those that the handlers, the middleware and the mux answer with.
TypeOK ==
    /\ in \in [Reqs -> Inputs]
    /\ at \in [Reqs -> {"none", "auth", "limit", "quota", "handler", "policy", "provider",
                        "account", "log", "end", "killed"}]
    /\ status \in [Reqs -> Statuses \cup {0}]
    /\ age \in [Reqs -> 0..(WriteTimeout + 1)]
    /\ wait \in [Reqs -> 0..(ProviderTimeout + 1)]
    /\ judged \in [Reqs -> {"no", "block", "pass"}]
    /\ charged \in [Reqs -> BOOLEAN]
    /\ gone \in [Reqs -> BOOLEAN]
    /\ answered \in [Reqs -> BOOLEAN]
    /\ rules \in {"allow", "block"}
    /\ server \in {"up", "draining", "down", "failed"}
    /\ drain \in 0..(DrainTimeout + 1)
    /\ requestsTotal \in [Statuses -> Nat]
    /\ rateLimitHits \in [{"rate", "quota"} -> Nat]
    /\ guardrailBlocks \in [{"input", "output"} -> Nat]
    /\ policyEvaluations \in [{"block", "tag", "log", "pass"} -> Nat]

\* The requests with status s that are over or not.
With(s) == {r \in Reqs : status[r] = s}

\* Those that are over, without the probes.
Ended(s) == {r \in With(s) : at[r] = "end" /\ ~Exempt(r)}

\* The provider was called for the request.
Called(r) ==
    \/ at[r] \in {"provider", "account"}
    \/ judged[r] = "pass"
    \/ charged[r]
    \/ status[r] \in {200, 502, 504} /\ ~Exempt(r)

\* Neither handler calls the provider, or charges for it, unless the key is known, the
\* path one of the two endpoints, the body acceptable, the scan did not block and the
\* policy that was active when it was asked did not either (README: blocked "before
\* hitting the LLM provider").
GuardsBeforeProvider ==
    \A r \in Reqs : Called(r) =>
        /\ in[r].key = "known" /\ in[r].path \in {"complete", "stream"}
        /\ in[r].body \notin {"bad", "large"} /\ in[r].risk # "block" /\ judged[r] = "pass"

\* The counters tell the same story from every side, whichever handlers ran at the
\* same time and whatever cut them short: each 403 is a scanner's or a policy's
\* block, each 429 a limiter's hit, and a handler's response is counted once, under
\* the status it was sent with, unless it answers a probe.
AuditAgrees ==
    /\ guardrailBlocks["input"] + policyEvaluations["block"] = Cardinality(With(403))
    /\ rateLimitHits["rate"] + rateLimitHits["quota"] = Cardinality(With(429))
    /\ \A s \in Statuses \ {401, 429} : requestsTotal[s] = Cardinality(Ended(s))

\* A graceful shutdown cuts off no request that was not given the whole drain: every
\* request that dies when main returns had waited for its provider at least as long
\* as the deadline of Shutdown, wherever it was when the signal came.
KilledAfterFullDrain ==
    server = "down" => \A r \in Reqs : at[r] = "killed" => wait[r] >= DrainTimeout

\* A handler's 504 is written after the server's write deadline: with a client timeout
\* no shorter than WriteTimeout no client ever receives provider_timeout, and only
\* the counter shows it.
TimeoutNeverReceived ==
    ProviderTimeout >= WriteTimeout =>
        \A r \in Reqs : status[r] = 504 => ~answered[r]

\* Every request that arrives is over sooner or later, although the provider may
\* never answer.
RequestsEnd == \A r \in Reqs : at[r] = "auth" ~> at[r] \in Over
=============================================================================
