# LLM Guardrail Gateway: TLA+ specifications and proofs

The gateway is an HTTP proxy in Go between tenants and an LLM provider.  It
authenticates requests, limits them, scans prompts, evaluates a hot-reloaded
policy, calls the provider, and on the streaming endpoint scans the response
in a sliding window while it is forwarded.  This directory holds models of
those parts, the TLC runs that check them on small instances, and TLAPS proofs
about all of them.  `PROJECT.json` maps every definition to the lines it models.

## Inventory

| Component | State | Operations | Talks to |
|---|---|---|---|
| Output scanner and window (`streaming/window.go`) | the bytes received and not yet forwarded | `Write`, `Flush`, `DrainSafe` | driven by `windowWriter`, writes to the client |
| Stream handler (`handleStream`, `windowWriter` in `gateway/gateway.go`) | abort latch, first-chunk time, response | headers, `StreamTo`, drain, error events | adapters call `windowWriter.Write` back |
| Provider adapters (`provider/mock.go`, `openai_compat.go`) | none | `Generate`, `StreamTo` | upstream HTTP server |
| Rate limiter (`ratelimit/limiter.go`) | a sorted set with a TTL per tenant, in Redis | `Allow` (one Lua script) | middleware of any number of gateways |
| Daily quota (`ratelimit/quota.go`) | a counter with a TTL per tenant and day, in Redis | `Check`, `Add`, `Total` | middleware checks, `handleComplete` adds |
| Policy watcher (`policy/watcher.go`) | active bundle, watch, done channel | `NewWatcher`, `watch`, `reload`, `Close` | the file, fsnotify, the cache, `evalPolicy` |
| Policy cache (`cache/policy.go`) | texts by tenant and hash, in Redis | `Set`, `Get`, `LatestVersion` | only `Set` is called |
| Middleware, handlers, metrics (`gateway/gateway.go`, `metrics/metrics.go`) | counters; per request a status | gates in order, two handlers | everything above |
| Server (`cmd/gateway/main.go`) | running, draining, stopped | serve, signal, `Shutdown` | handlers |
| Input scanner (`guardrails/input/scanner.go`) | a result slot per detector while it runs | `Scan` starts five goroutines and waits for them | handlers use its verdict and score |
| Policy DSL (`policy/dsl`) | position in text and tokens, the tree | `Parse`, `Compile`, `Evaluate` | watcher, `evalPolicy` |

What is hard in it: unsafe text cut anywhere by chunks and framing; adapters
that treat a write error differently; clients and upstreams that break off;
scripts that execute late, twice, out of order or never; a quota that is
checked long before it is charged; a file that is read while it is written;
reloads in the middle of traffic; rules that hide each other; a score that five
goroutines contribute to; three timeouts (server, provider, drain) that
race each other.  The list, line by line, is `hazards` in `PROJECT.json`.

## Modules

`OutScanner` defines `stripSSE` and `containsUnsafe`.  Bytes are abstract.  A
framing token is a short sequence of bytes, so that a buffer can begin inside
one; a pattern is a literal text with or without `\b` anchors, which is enough
for a scanner that is not monotone (a longer buffer may be clean again).

`Stream` is one `/v1/stream` request after its guards.  `up` is what the
provider sends, `pos` how much the adapter has offered, `got` how much the window
has taken, `buf` is `Window.buf`, `out` the bytes the `ResponseWriter` accepted
and `wire` how many have left net/http's buffer.  There is an action for each way
through `windowWriter.Write` and `Flush` (`WriteRefused`, `WriteAborts`,
`WriteHeld`, `WriteForwards`, `WriteFails`), and for each end of `handleStream`
(`AfterError`, `AfterAbort`, `DrainAborts`, `DrainForwards`, `DrainFails`).  The mock
adapter copies with `io.Copy`: chunks end anywhere and a write error ends the
call.  The OpenAI adapter writes whole frames and ignores write errors.  `up` is the
text it re-emits: deltas that it skips because they are empty or do not decode
(`openai_compat.go:188`) are not part of it, so that their loss, of which the client
is told nothing, is outside `CompleteIffNoEvent`.

`RateLimiter` is `Allow` for one tenant.  The Lua script is atomic, but a call
reads its clock before and gets its answer after, and the Redis client resends.
`Member` models what `tostring` does to a timestamp of nanoseconds.  `Slack` is the
second that the code adds to the TTL.  A script that the client sends again after its
read timeout is two seconds late or more (`redisclient/client.go:23`), so `MaxDelay` may
exceed `Slack`.

`Quota` is the counter of one tenant over days, with the requests between
`Check` and `Add`, and `Add` in its two commands.  Errors, resent commands and
cancelled contexts are counted in `faults`; those that let a counter run
further over are also counted in `excess`.

`PolicyWatcher` is the watcher, the file with an operator who saves in place (two
steps), by rename or deletes it, inotify's merged events, the cache, and
`evalPolicy` as it is seen by requests.  `missed` records why the last change
raised no event; it is an observation, no action depends on it.

`Gateway` follows requests through the middleware, the two handlers and the
counters, with the server's write deadline and its shutdown.  What limiter,
quota, window and watcher do inside is left to their modules; here each gives any
answer it can give.  A request goes to one of the endpoints, to a path that is exempt
from authentication and counters (`/healthz`, `/metrics`) or to one the mux does not
know, which passes the gates before its 404.  The redirect with which the mux cleans a
path is left out.  Time passes in ticks of ten seconds while requests wait for the
provider.

`PolicyText` takes the bytes that `load` read, which may be only the beginning of
what the author wrote, to a syntax tree.  `Lex` has an action for each branch of
the lexer's switch.  Each function of the parser is the set of moves it makes,
from a place in the grammar by a token type to the next place; the functions nest
in one fixed way, so the place stands for the call stack.  `Grown` is the tree
after a move.  The parser returns at the brace that closes the policy, but the lexer
has then read the whole file: what follows must be made of tokens, and a text names the
places behind its policy where a cut leaves something that is none (`spoilt`).

`PolicyRules` is `Compile` and `Evaluate` as operators.  A condition is the sequence
of its atoms, each with the word that joins it, which determines the tree that
`parseCondition` nests to the left.  `Floats` stands for `strconv.ParseFloat` and
has words for numbers, for NaN, and none for what it refuses.

`InputScan` is `Scan`: the loop that adds to the `WaitGroup` and starts a goroutine,
the detectors in any order, and the wait.  A prompt is the numbers the detectors
work with.  The arithmetic is exact in integers; only where the exact composite
lies half way between two hundredths may the result of `round2` be either
neighbour, as the error of the float64 additions decides it.

`Guardrails` composes the three: the load at the start of the gateway, then one
request through scan, quota reading and `evalPolicy`.  It is the part of `Gateway`
that is a nondeterministic answer there, and it justifies that `PolicyWatcher` lets
a text cut short never compile (`LoadsAsWritten`).

`Relay` and `PolicyRegister` are abstract specifications, of what a stream promises
its client and of what hot reloading promises requests.  `Stream` and
`PolicyWatcher` instantiate them and are checked, and proved, to implement them.  In `Relay` a
stream is open, cut or closed; the mapping takes `aborted` to cut and the end of
the handler to closed, `got` to what was taken and `out` to what was given.
`PolicyRegister` keeps the number of saves and the one in force, which are
`file.num` and `bundle.num`.

`MCStream`, `MCRateLimiter`, `MCQuota`, `MCPolicyWatcher`, `MCGateway` and
`MCGuardrails` give the constants their values.  The theorems are in `StreamProofs`,
`QuotaProofs`, `RateLimiterProofs`, `PolicyWatcherProofs`, `GatewayProofs`,
`GuardrailsProofs` and `DecisionProofs`; `InputScanProofs` has the lemmas about the
scanner that `GuardrailsProofs` composes, and `DecisionProofs` goes on from there.
Definitions that begin with "Mutant:" in their comment are deliberate faults;
each shows that a property notices a plausible mistake in the code.

## Runs that pass

| Run | Configuration | Shows |
|---|---|---|
| `stream` | `MCStream.cfg` | conservation of bytes, lookahead, fitting unsafe spans held back, silence after an abort, truncation visible to the client, TTFT once, termination; the handler implements `Relay` |
| `limiter` | `RateLimiterRetry.cfg` | the limit on members, and from which scripts an expired key hides entries, with retries, skewed clocks, scripts out of order and colliding members |
| `quota` | `QuotaFaults.cfg` | overrun bound, a TTL on every key when nothing fails, no early expiry |
| `policy` | `PolicyReload.cfg` | a compiled policy is always served, convergence, no rollback, only the policy in force is published, in-place saves to a watched file come into force; the watcher implements `PolicyRegister` |
| `gateway` | `GatewayPipeline.cfg` | gates before the provider, counters that agree, no request cut off before the whole drain, the fate of a 504, every request ends |
| `guardrails` | `Guardrails.cfg` | a text cut anywhere loads as it was written or not at all, decisions are those of the written rules, the score counts every detector, one signal alone never blocks, the gateway comes up and answers |

The limiter's bound is stated for `SharpWindow`, the window less the delay of
scripts, the clock skew and the rounding of members: within the full minute the
code does not keep it, because each script purges by its caller's clock.  The bound
does not rest on the slack of the TTL: a script that is so late that the key expired
over an entry it would count is also so late that the entry is outside the sharp
window.  `ExpiryHidesOnlyFromLate` says how late that is.  With the code's constants a
script executed at once sees every entry, as long as the clocks agree within a second,
and one that is sent again after a read timeout may not.

`KilledAfterFullDrain` follows a request that dies with the process back to the
signal: it was in flight then, wherever it stood, and has waited for its provider through
the whole drain.  It is about graceful shutdowns only; `os.Exit` on a failed listener waits for nobody.

`TimeoutNeverReceived` states a consequence of the constants in `main.go` and
the adapters: the provider's timeout is no shorter than the server's write
deadline, so `provider_timeout` of `handleComplete` is counted and never read.

## Runs that find a divergence

Each checks one sentence of a comment or of the repository's README and ends with
a counterexample; the quotations are under `findings`.

| Run | Sentence about | What happens |
|---|---|---|
| `stream_abort_reported` | the event after an abort | with the mock adapter there is none, and no counter |
| `stream_delivered_clean` | nothing unsafe leaves | a match longer than the window does |
| `stream_ttft_sent` | TTFT is when the chunk was sent | it is still buffered: no `Flush` through `responseWriter` |
| `limiter_requests` | unique members | timestamps print alike |
| `quota_ttl` | the key always expires | not after a failed `EXPIRE` or a repeated `INCRBY` |
| `policy_atomic_save` | atomic saves are caught | the watch stays on the old file |

Smaller divergences that the models contain and that need no run to be seen:

- after an abort the OpenAI adapter reads the response to its end, because it drops
  what `fmt.Fprintf` returns (`WriteErrorSeen`), although `gateway.go:626` says "so
  the provider call returns";
- `handleStream` sends 200 before it calls the provider (`SendHeaders`), although
  its comment promises an error status for an immediate failure;
- the quota is not the maximum a tenant may consume (`QuotaBound` says by how much
  it overruns), and tokens of streams are never added (`Streamed`);
- a change of the policy file between the initial load and the start of the watch
  is missed (`InitialLoad`, `AddWatch`);
- a policy applies to the tenant it names (`EvalPolicy`), although `dev.policy`
  says to all, and the repository's README (`README.md:140`) has a request with the key
  of `acme` blocked by it;
- `request.model` is "model name sent by client" in `dev.policy` and `compiler.go`; the
  handlers pass a fixed name (`RequestModel`), so that the rule against unapproved
  models in `dev.policy` never applies;
- in `dev.policy` the rule "Block when the tenant has consumed more than 100 000 tokens
  today" comes after a TAG rule and does not apply to what that rule tags, as the
  first match decides (`Evaluate`); TAG, LOG and REDACT have no effect in the handlers
  (`Judge`);
- the grammar in the comments of `lexer.go` and `parser.go` wants commas between the
  members of a list, at least one member, and a number after `>`; the parser takes
  lists without commas, with a last comma or empty, a string that reads as a number,
  and any tokens after the policy (`parseAtom`, `parseValue`, `RulesEnd`);
- a single boundary marker scores 0.08 (`boundarySignal`), below the tag threshold that
  `guardrail_suite_test.go:141` says such prompts reliably reach;
- `LatestVersion`, which nothing calls, returns the first of an unordered list, although
  its comment says the most recent (`cache/policy.go:124`); with it, `Get` is left out of
  the model;
- 401 and 429 are not in `RequestsTotal` (`AuthFails`, `RateLimited`,
  `QuotaExceeded`), nor evaluations that do not block in
  `PolicyEvaluationsTotal` (`PolicyPasses`);
- a body that is too long without saying so is a 400 and not a 413 (`Malformed`).

## Bounds

- `stream`: window of 4 bytes and responses of up to 14.  A frame alone is
  4 to 6 bytes, so two frames always overflow the window, and patterns fall inside
  a frame, across frames, at the drain, at a word boundary that the next token
  undoes, and beyond the window.  `NetBuf` is 3 so that buffering both hides and
  releases bytes.
- `limiter`: limit 1 and three requests, so that more than the limit compete in a
  window.  Members are two ticks wide and a window of 7 leaves a sharp window of 3, in
  which two members fit: with less, the limit could not be exceeded at all.  The clock
  runs to 8, past the first expiry of the key.  A slack of 1, a skew of 1 and a delay
  of up to 2 keep the order of the code's constants: a script that is sent again is
  later than the slack, and in this run such scripts do miss entries that they should
  count.
- `quota`: two requests at a time, limit 2, completions of one or two tokens,
  days of two hours, two days, two faults: overrun, midnight between check and
  addition, and both commands failing all occur.  `MaxUsed` ends the run.
- `policy`: three saves and one restart; four texts, of which one is broken and
  one is another tenant's.
- `gateway`: two requests, as both share every counter, of eleven kinds.  The timeouts are the
  code's, in tens of seconds: 30, 30 and 10.
- `guardrails`: keywords are one or two letters long, as the lexer treats longer words
  no differently.  The four good texts have rules that hide each other, three atoms
  with AND and OR, both forms of list, quoted and commented braces, NaN, and after the
  policy a second one, or a string, an operator and a number that cuts leave unfinished
  and a character that starts no token; each of the fourteen others has one defect.  All are cut
  after every character.  The prompts put the composite on 0.60 and 0.18, on 0.59 and
  0.17, and on ties.  Requests share nothing but the bundle, so one is enough.

Deadlock is not checked, because all these systems may rightly come to a rest:
the bounded number of requests has been served, or the process has stopped.

## Fairness

- `Stream`: weak fairness of the handler.  It runs by itself, and the timeout of
  the adapters' `http.Client` ends every wait.
- `PolicyWatcher` (`FairSpec`): goroutines run, the kernel delivers its events, an
  operator finishes a save.  The operator need not save and nothing need restart.
- `Gateway` (`FairSpec`): handlers run, time passes, an adapter whose client timed
  out returns, `Shutdown` returns.  The provider need not answer.
- `Guardrails`: `New` and the handler run by themselves, goroutines included.  No client
  need send anything.

## Proofs

`StreamProofs` proves for every window size, set of responses, set of patterns and
adapter: the types, `Conservation`, `Lookahead`, `FittingSpansHeld`,
`NothingAfterAbort` and `CompleteIffNoEvent`, from `StreamAssumption` and
`FramingAssumption`.  None of the invariants is inductive alone.  The inductive
invariant says that the client's bytes are a prefix of the response and the buffer
the tail of what was received (`OutIsPrefix`, `BufIsTail`), that before the end the
two meet and the buffer holds a full window or everything (`BufHoldsRest`), how
the flags of the handler depend on each other (`Flags`), and that no unsafe
content that fits has been received in full by a stream that runs on
(`ReceivedIsClean`).  The last is the heart: a chunk that completes such content
completes it in a buffer that still holds its beginning, because the buffer had a
full window before the chunk came, so the scan sees all of it (`ScanCovers`).  The
proofs never look inside `containsUnsafe`; they hold for any scanner.

The same invariant gives `TTFTOnce`, with one more conjunct that ties the number of
observations to the first-chunk time and to what the client has (`TTFTCounts`), and
the step simulation of `Relay` (`StreamImplementsRelay`): every action of the handler
is an action of `Relay` or leaves its variables alone.  The theorem is about
`RelaySafe`; that a relay is eventually closed is a matter of fairness, and stays
with the run.

`QuotaProofs` proves the types and `QuotaBound` for every number of concurrent
requests, limit, cost and number of faults, from `QuotaAssumption`.  The bound is
not inductive, since it does not say what requests in flight will still add.
`Reserved` does: the counter plus `MaxTokens` for each request that can still
add to it stays within the bound.  A check that passes leaves room for all of
`Proc`; one that errs is paid for by `excess`; an addition spends what was
reserved.  `AddsToPast` and `FutureIsUnused` carry this over midnight.
`KeyHasTTL` and `CounterOutlivesDay` follow from a second layer: a request that
created a key created it on a day that has begun (`CreatedInPast`), and a TTL that
was set on today's key, 25 hours when it was set, reaches past midnight
(`TTLPastDay`).

`RateLimiterProofs` proves the types, `MembersWithinLimit` and `ExpiryHidesOnlyFromLate`
for any requests, limit, window, rounding, skew, delay and number of retries, from
`LimiterAssumption`.  What a script counts is what is in the sorted set; the heart of
the invariant is therefore `Present`, that an admitted request has its member in the
set until its reading of the clock lies so far back that no script still under way
could count it (`Horizon`).  `ClocksRead` and `InTime` bound the readings by clock,
skew and delay, `Scores` ties a member to the reading it was written with, and
`WindowsWithin` says it for windows that begin anywhere, which the property needs
only for some.  `ExpiryHidesOnlyFromLate` has no hypothesis on the slack: every member
was written by a script that set the TTL when it ran, no earlier than the member's
reading less the skew, so the key outlives the window of any script that is not later
than the slack allows.

`PolicyWatcherProofs` proves the types, `ServesCompiled`, `Converged`,
`NoRollback`, `PublishesActive` and that the watcher implements `PolicyRegister`, for any texts, ways of
saving, numbers of saves and restarts, from `PolicyAssumption`, whatever the hashes of
the texts are.  The invariant: there is a bundle exactly while there is a
watcher, and it was compiled from a save (`BundleIffWatcher`, `BundleOfFile`);
reloads run one at a time (`OneReload`), so none brings an older save than the
bundle's (`ReloadsForward`); without a waiting event the file has been read since
it changed (`Fresh`); and the last request saw the bundle or an older one
(`SeenIsPast`).  `PublishesActive` comes from `OneReload`: between the swap and the
publication no other reload can swap.

`GatewayProofs` proves the types, `GuardsBeforeProvider`, `AuditAgrees`,
`KilledAfterFullDrain` and `TimeoutNeverReceived` for any finite set of requests and any
timeouts, from `GatewayAssumption`.  The invariant says for each request what is known
of it where it stands (`Placed`), from what happened to it (`Marked`) and from the two
clocks that run for it (`Aged`), that requests die only with the process
(`KilledByExit`), and that during the drain every request in flight has waited for its
provider as long as the drain has lasted (`DrainWaited`).  `AuditAgrees` compares counters with numbers of requests; it is
kept because the step that gives a request its status, or ends it, counts it in the
same step, and no other step moves a request into or out of the sets compared.

`InputScanProofs` proves about each step of `Scan` that the counter of the `WaitGroup`
is the number of detectors that are running, that a slot is empty or has its own
detector's score of this prompt, and that a result, once there, is the rounded
weighted mean.  That no signal blocks alone is then arithmetic on the weights: no
weight reaches the threshold, and the two detectors that match no pattern do not
reach it together.  The lemmas hold for every prompt whose findings are natural
numbers (`PromptAssumption`).

`GuardrailsProofs` carries them through the composition (`ScoreCountsAll`,
`OneSignalNeverBlocks`) and proves the types of lexer and parser for all texts:
every branch of `Lex` goes on within the text (`PastIn`, `UpToIn`: the search for the
end of a word finds one at the latest at the end of the text, since `NoChar` is no
letter, digit or space), and the parser never runs past its tokens, because the last
one is EOF and no move takes it (`MovesInside`, `ParseKeeps`).  `GuardrailsAnswer`
says what decides a request: the guardrail exactly on a blocking verdict, and the
policy exactly if it is the tenant's own and `Evaluate` says BLOCK of the score and
the total of this request.  Between reading the total and the answer nothing that the
decision depends on changes (`HandlerUnmoved`).

`DecisionProofs` follows a policy from the author's text to the decision, for texts,
conditions and policies of any length, from `TextAssumption` and `RulesAssumption`
(which says, as `parseAction` does, that one word stands for each action and one of
them for BLOCK).

- `LoadsWholeTokens` is about the file that is read while it is being saved.  The
  invariant `CutInv` gives every token its place in the author's text: the places follow
  each other with nothing but space and comments between, and every token is the one
  that stands there in the whole text, except that the last may touch the end of what
  was read and be the beginning of something longer (`LexReads`).  Such a token is a
  word or a number, never a symbol; only a closing brace ends the policy (`BraceEnds`); so
  the cut token is never among those a loaded policy was made of.
- `ParsedTreeWhole`: `TreeInv` says of each place in the grammar what the rule and the
  atom under construction have so far, and that all before them are whole.
- `ConditionIsRead`: the nested closures decide as `Satisfied` says.  `ConditionHolds` is a
  recursive function; instead of an induction, the proof exhibits what it has to be
  (`Reads`, the reader's view of the first atoms), shows that this solves the recursive
  equation (`NestedSolvable`) and that two solutions agree, since the least place where
  they differed would have none before it (`NestedUnique`, `LeastIn`).
- `GuardrailsReadsRules` puts this together with `GuardrailsAnswer`: the answer is what a
  reader takes from the bundle's rules, with nothing assumed of the text.
- `GuardrailsDecision`: `DecisionAsWritten` follows from `LoadsAsWritten`.  `MeansInv`
  carries what the author meant from the step that compiles the tree to the answer.  The
  hypothesis is needed because `Texts` gives the meaning of a text independently of the
  parser; the run checks it.

Only model-checked:

- the liveness properties `Termination`, `SavesTakeEffect`, `RequestsEnd` and
  `ServesAndAnswers`, and the fairness conjunct of `RelaySpec`, as the prover does
  not treat fairness;
- `LoadsAsWritten`.  What a text means is given with the text (`Texts`), so that only an
  instance says how the two are related.  What is proved of every text is that a load
  takes its tokens from the whole of it (`LoadsWholeTokens`) and makes a whole tree of
  them (`ParsedTreeWhole`); that this tree is the one the author meant is checked.

## Not modelled

Configuration, logger, Redis connection and provider factory run once or write
only.  Formatting and JSON are left out, except where a conversion changes a
result: the removal of SSE framing, the printing of timestamps, the case of words and
the parsing of numbers in policies, and the rounding of scores.  Duration
histograms are left out.  The regular expressions of the input scanner
and its entropy sum are inputs of the model.  Redis, fsnotify, net/http and the operator are modelled from how the
code uses them and marked external in the map.

## Plan

1. Done: `OutScanner`, `Stream` and its proofs; `RateLimiter`; `Quota` and its
   proofs; `PolicyWatcher`; `Gateway`; `PolicyText`, `PolicyRules`, `InputScan` and
   `Guardrails`; `Relay` and `PolicyRegister`.
2. Done: theorems for every invariant and action property of the runs except
   `LoadsAsWritten`, from which `DecisionAsWritten` is proved, and for the safety of both
   refinements.
3. A lower bound on the daily counter (what hung-up clients leave uncounted), which
   needs a history variable in `Quota`.
