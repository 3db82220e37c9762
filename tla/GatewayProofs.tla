---------------------------- MODULE GatewayProofs ----------------------------
(***************************************************************************)
(* Proofs about the path of requests through the gateway, for every number *)
(* of requests at the same time, every mix of inputs and every choice of   *)
(* the timeouts: no unguarded call of the provider, metrics that agree,    *)
(* the drain, and the fate of provider_timeout.                            *)
(***************************************************************************)
EXTENDS Gateway, FiniteSetTheorems, TLAPS

\* Before the policy has been asked nothing is decided.
Early == {"none", "auth", "limit", "quota", "handler", "policy"}

\* The request may be shown to the provider.
Cleared(r) ==
    /\ in[r].key = "known" /\ in[r].path \in {"complete", "stream"}
    /\ in[r].body \notin {"bad", "large"} /\ in[r].risk # "block"

\* What is known of a request where it is.
Placed(r) ==
    /\ at[r] \in Early => status[r] = 0 /\ judged[r] = "no" /\ charged[r] = FALSE
    /\ at[r] \in {"limit", "quota"} => in[r].key = "known"
    /\ at[r] = "handler" => in[r].key = "known" \/ Exempt(r)
    /\ at[r] = "policy" => Cleared(r)
    /\ at[r] \in {"provider", "account"} => judged[r] = "pass"
    /\ at[r] = "provider" => status[r] = IF in[r].path = "stream" THEN 200 ELSE 0
    /\ at[r] = "account" => status[r] = 200
    /\ at[r] = "log" => status[r] \in Statuses \ {401, 429}

\* What is known of a request from what happened to it.
Marked(r) ==
    /\ judged[r] = "pass" => Cleared(r)
    /\ charged[r] = TRUE => judged[r] = "pass"
    /\ status[r] \in {200, 502, 504} => judged[r] = "pass" \/ Exempt(r)
    /\ answered[r] = TRUE => at[r] = "end"

\* The write deadline and the provider's timeout run from the same moment, the first
\* until just after it has passed.
Aged(r) ==
    /\ age[r] = wait[r] \/ age[r] > WriteTimeout
    /\ ProviderTimeout >= WriteTimeout /\ status[r] = 504 =>
           age[r] >= WriteTimeout /\ answered[r] = FALSE

ReqInv(r) == Placed(r) /\ Marked(r) /\ Aged(r)

\* Requests die only with the process.
KilledByExit == \A r \in Reqs : at[r] = "killed" => server \in {"down", "failed"}

\* The drain begins with the signal, and who is still there has waited through it.
DrainWaited ==
    /\ server = "up" => drain = 0
    /\ server = "draining" => \A r \in InFlight : wait[r] >= drain

IndInv ==
    /\ TypeOK
    /\ \A r \in Reqs : ReqInv(r)
    /\ KilledByExit
    /\ DrainWaited
    /\ KilledAfterFullDrain
    /\ AuditAgrees

-----------------------------------------------------------------------------
(* Types.                                                                  *)

\* Inc keeps a counter vector's type, whatever the label.
LEMMA IncType ==
    ASSUME NEW L, NEW m \in [L -> Nat], NEW l
    PROVE  Inc(m, l) \in [L -> Nat]
<1>1. \A x \in L : Inc(m, l)[x] = IF x = l THEN m[x] + 1 ELSE m[x]
  BY DEF Inc
<1>2. Inc(m, l) = [x \in L |-> IF x = l THEN m[x] + 1 ELSE m[x]]
  BY <1>1 DEF Inc
<1> QED
  BY <1>2

\* The steps of one request keep the types.
LEMMA TypeServe ==
    ASSUME TypeOK, NEW r \in Reqs, Serve(r) \/ Arrive(r) \/ ClientLeaves(r)
    PROVE  TypeOK'
<1> USE DEF Go
<1>1. CASE Arrive(r)
  BY <1>1 DEF Arrive, TypeOK, life, metrics
<1>2. CASE ClientLeaves(r)
  BY <1>2 DEF ClientLeaves, TypeOK, life, metrics
<1>3. ASSUME NEW from, NEW to \in {"limit", "quota", "handler", "policy"}, Advance(r, from, to) PROVE TypeOK'
  BY <1>3 DEF Advance, TypeOK, life, metrics
<1>4. ASSUME NEW s \in {401, 429}, Refuse(r, s),
             UNCHANGED <<requestsTotal, guardrailBlocks, policyEvaluations>>,
             rateLimitHits' \in [{"rate", "quota"} -> Nat]
      PROVE  TypeOK'
  <2>1. answered' \in [Reqs -> BOOLEAN]
    BY <1>4 DEF Refuse, TypeOK, InTime
  <2>2. status' \in [Reqs -> Statuses \cup {0}]
    BY <1>4 DEF Refuse, TypeOK, Statuses
  <2> QED
    BY <1>4, <2>1, <2>2 DEF Refuse, TypeOK, life
<1>5. ASSUME NEW s \in {200, 400, 403, 404, 405, 413, 502, 504}, Respond(r, s),
             UNCHANGED <<requestsTotal, rateLimitHits>>,
             judged' \in [Reqs -> {"no", "block", "pass"}],
             guardrailBlocks' \in [{"input", "output"} -> Nat],
             policyEvaluations' \in [{"block", "tag", "log", "pass"} -> Nat]
      PROVE  TypeOK'
  <2>1. status' \in [Reqs -> Statuses \cup {0}]
    BY <1>5 DEF Respond, TypeOK, Statuses
  <2> QED
    BY <1>5, <2>1 DEF Respond, TypeOK, life
<1>6. CASE AuthFails(r)
  BY <1>4, <1>6 DEF AuthFails, TypeOK, metrics
<1>7. CASE Exempted(r) \/ Authenticated(r) \/ LimiterPasses(r) \/ QuotaPasses(r) \/ Scanned(r)
  BY <1>3, <1>7 DEF Exempted, Authenticated, LimiterPasses, QuotaPasses, Scanned
<1>8. CASE RateLimited(r)
  BY <1>4, <1>8, IncType DEF RateLimited, TypeOK
<1>9. CASE QuotaExceeded(r)
  BY <1>4, <1>9, IncType DEF QuotaExceeded, TypeOK
<1>10. ASSUME NEW s \in {400, 405, 413}, Malformed(r, s) PROVE TypeOK'
  BY <1>5, <1>10 DEF Malformed, TypeOK, metrics
<1>11. CASE ScanBlocks(r)
  BY <1>5, <1>11, IncType DEF ScanBlocks, TypeOK
<1>12. CASE PolicyBlocks(r)
  BY <1>5, <1>12, IncType DEF PolicyBlocks, TypeOK
<1>13. CASE PolicyPasses(r)
  <2>1. status' \in [Reqs -> Statuses \cup {0}]
    BY <1>13 DEF PolicyPasses, TypeOK, Statuses
  <2> QED
    BY <1>13, <2>1 DEF PolicyPasses, TypeOK, life, metrics
<1>14. CASE ProviderAnswers(r)
  <2>1. status' \in [Reqs -> Statuses \cup {0}]
    BY <1>14 DEF ProviderAnswers, TypeOK, Statuses
  <2> QED
    BY <1>14, <2>1 DEF ProviderAnswers, TypeOK, life, metrics
<1>15. CASE ProviderFails(r) \/ ProviderTimesOut(r)
  BY <1>5, <1>15 DEF ProviderFails, ProviderTimesOut, TypeOK, metrics
<1>16. CASE Account(r)
  <2>1. charged' \in [Reqs -> BOOLEAN]
    BY <1>16 DEF Account, TypeOK
  <2> QED
    BY <1>16, <2>1 DEF Account, TypeOK, life, metrics
<1>17. ASSUME NEW b \in BOOLEAN, StreamEnds(r, b) PROVE TypeOK'
  <2>1. guardrailBlocks' \in [{"input", "output"} -> Nat]
    BY <1>17, IncType DEF StreamEnds, TypeOK
  <2> QED
    BY <1>17, <2>1 DEF StreamEnds, TypeOK, life
<1>18. CASE Completed(r)
  <2>1. answered' \in [Reqs -> BOOLEAN]
    BY <1>18 DEF Completed, TypeOK, InTime
  <2>2. requestsTotal' \in [Statuses -> Nat]
    BY <1>18, IncType DEF Completed, TypeOK
  <2> QED
    BY <1>18, <2>1, <2>2 DEF Completed, TypeOK, life
<1>19. CASE HandleProbe(r) \/ NotFound(r)
  BY <1>5, <1>19 DEF HandleProbe, NotFound, TypeOK, metrics
<1> QED
  BY <1>1, <1>2, <1>6, <1>7, <1>8, <1>9, <1>10, <1>11, <1>12, <1>13, <1>14, <1>15, <1>16, <1>17, <1>18, <1>19
  DEF Serve, Middleware, HandleComplete, HandleStream, CompleteRejects, StreamRejects, CompleteScanBlocks,
      StreamScanBlocks, CompletePolicyBlocks, StreamPolicyBlocks

\* Every step keeps the types.
LEMMA TypeStep == TypeOK /\ [Next]_vars => TypeOK'
<1> SUFFICES ASSUME TypeOK, [Next]_vars PROVE TypeOK'
  OBVIOUS
<1> USE GatewayAssumption
<1>1. ASSUME NEW r \in Reqs, Arrive(r) \/ Serve(r) \/ ClientLeaves(r) PROVE TypeOK'
  BY <1>1, TypeServe
<1>2. CASE PolicySwaps
  BY <1>2 DEF PolicySwaps, TypeOK, perReq, life, metrics
<1>3. CASE Tick
  <2>1. age' \in [Reqs -> 0..(WriteTimeout + 1)]
    BY <1>3 DEF Tick, TypeOK, Later
  <2>2. wait' \in [Reqs -> 0..(ProviderTimeout + 1)]
    BY <1>3 DEF Tick, TypeOK, Later
  <2>3. drain' \in 0..(DrainTimeout + 1)
    BY <1>3 DEF Tick, TypeOK, Later
  <2> QED
    BY <1>3, <2>1, <2>2, <2>3 DEF Tick, TypeOK, metrics
<1>4. CASE Signal
  BY <1>4 DEF Signal, TypeOK, perReq, metrics
<1>5. ASSUME NEW s \in {"down", "failed"}, Exit(s) PROVE TypeOK'
  BY <1>5 DEF Exit, TypeOK, metrics
<1>6. CASE UNCHANGED vars
  BY <1>6 DEF vars, TypeOK, perReq, life, metrics
<1> QED
  BY <1>1, <1>2, <1>3, <1>4, <1>5, <1>6 DEF Next, Stopped, Fatal

-----------------------------------------------------------------------------
(* One request.                                                            *)

\* A step leaves request r alone.
Same(r) ==
    /\ in'[r] = in[r] /\ at'[r] = at[r] /\ status'[r] = status[r]
    /\ age'[r] = age[r] /\ wait'[r] = wait[r]
    /\ judged'[r] = judged[r] /\ charged'[r] = charged[r] /\ answered'[r] = answered[r]

\* A request that is left alone keeps its invariant.
LEMMA SameKeeps ==
    ASSUME NEW r \in Reqs, ReqInv(r), Same(r)
    PROVE  ReqInv(r)'
  BY DEF Same, ReqInv, Placed, Marked, Aged, Cleared, Exempt

\* The middleware and the handler move a request on.
LEMMA AdvanceKeeps ==
    ASSUME TypeOK, NEW r \in Reqs, ReqInv(r), NEW from \in Early, NEW to \in Early, Advance(r, from, to),
           to \in {"limit", "quota"} => in[r].key = "known",
           to = "handler" => in[r].key = "known" \/ Exempt(r),
           to = "policy" => Cleared(r)
    PROVE  ReqInv(r)' /\ \A q \in Reqs \ {r} : Same(q)
<1>1. \A q \in Reqs \ {r} : Same(q)
  BY DEF Advance, Go, Same, TypeOK
<1>2. UNCHANGED <<in, status, age, wait, judged, charged, answered>> /\ at'[r] = to /\ at[r] = from
  BY DEF Advance, Go, TypeOK
<1>3. Placed(r)' /\ Marked(r)' /\ Aged(r)'
  BY <1>2 DEF ReqInv, Placed, Marked, Aged, Cleared, Exempt, Early
<1> QED
  BY <1>1, <1>3 DEF ReqInv

\* The middleware refuses a request.
LEMMA RefuseKeeps ==
    ASSUME TypeOK, NEW r \in Reqs, ReqInv(r), at[r] \in Early, NEW s \in {401, 429}, Refuse(r, s)
    PROVE  ReqInv(r)' /\ \A q \in Reqs \ {r} : Same(q)
<1>1. \A q \in Reqs \ {r} : Same(q)
  BY DEF Refuse, Go, Same, TypeOK
<1>2. /\ UNCHANGED <<in, age, wait, judged, charged>>
      /\ at'[r] = "end" /\ status'[r] = s
  BY DEF Refuse, Go, TypeOK
<1>3. Placed(r)' /\ Marked(r)' /\ Aged(r)'
  BY <1>2 DEF ReqInv, Placed, Marked, Aged, Cleared, Exempt, Early
<1> QED
  BY <1>1, <1>3 DEF ReqInv

\* A handler responds with an error and returns.
LEMMA RespondKeeps ==
    ASSUME TypeOK, NEW r \in Reqs, ReqInv(r), at[r] # "end",
           NEW s \in {200, 400, 403, 404, 405, 413, 502, 504}, Respond(r, s),
           \A q \in Reqs \ {r} : judged'[q] = judged[q],
           judged'[r] \in {judged[r], "block"},
           judged'[r] = "block" => at[r] = "policy" /\ s = 403,
           s \in {200, 502, 504} => judged'[r] = "pass" \/ Exempt(r),
           s = 504 /\ ProviderTimeout >= WriteTimeout => age[r] >= WriteTimeout
    PROVE  ReqInv(r)' /\ \A q \in Reqs \ {r} : Same(q)
<1>1. \A q \in Reqs \ {r} : Same(q)
  BY DEF Respond, Go, Same, TypeOK
<1>2. /\ UNCHANGED <<in, age, wait, charged, answered>>
      /\ at'[r] = "log" /\ status'[r] = s
  BY DEF Respond, Go, TypeOK
<1>3. answered[r] = FALSE
  BY DEF TypeOK, ReqInv, Marked
<1>4. judged'[r] = "block" => charged[r] = FALSE
  BY DEF ReqInv, Placed, Early
<1>5. Placed(r)'
  BY <1>2 DEF Placed, Statuses, Early
<1>6. Marked(r)'
  BY <1>2, <1>3, <1>4 DEF ReqInv, Marked, Cleared, Exempt
<1>7. Aged(r)'
  BY <1>2, <1>3 DEF ReqInv, Aged
<1> QED
  BY <1>1, <1>5, <1>6, <1>7 DEF ReqInv

\* Every step of a request keeps its own invariant and leaves the others alone.
LEMMA ServeKeeps ==
    ASSUME TypeOK, NEW r \in Reqs, ReqInv(r), Serve(r) \/ Arrive(r) \/ ClientLeaves(r)
    PROVE  ReqInv(r)' /\ \A q \in Reqs \ {r} : Same(q)
<1> DEFINE Goal == ReqInv(r)' /\ \A q \in Reqs \ {r} : Same(q)
<1>1. CASE Arrive(r)
  <2>1. Advance(r, "none", "auth")
    BY <1>1 DEF Arrive, Advance
  <2> QED
    BY <2>1, AdvanceKeeps DEF Early
<1>2. CASE ClientLeaves(r)
  <2>1. UNCHANGED <<in, at, status, age, wait, judged, charged, answered>>
    BY <1>2 DEF ClientLeaves
  <2> QED
    BY <2>1, SameKeeps DEF Same
<1>3. CASE AuthFails(r)
  BY <1>3, RefuseKeeps DEF AuthFails, Early
<1>4. CASE Authenticated(r)
  BY <1>4, AdvanceKeeps DEF Authenticated, Known, Early
<1>20. CASE Exempted(r)
  BY <1>20, AdvanceKeeps DEF Exempted, Early
<1>21. CASE HandleProbe(r) \/ NotFound(r)
  <2>1. judged[r] = "no" /\ judged' = judged /\ at[r] # "end"
    BY <1>21 DEF HandleProbe, NotFound, ReqInv, Placed, Early
  <2> QED
    BY <1>21, <2>1, RespondKeeps DEF HandleProbe, NotFound
<1>5. CASE RateLimited(r)
  BY <1>5, RefuseKeeps DEF RateLimited, Early
<1>6. CASE LimiterPasses(r)
  <2>1. in[r].key = "known"
    BY <1>6 DEF LimiterPasses, Advance, ReqInv, Placed
  <2> QED
    BY <1>6, <2>1, AdvanceKeeps DEF LimiterPasses, Early
<1>7. CASE QuotaExceeded(r)
  BY <1>7, RefuseKeeps DEF QuotaExceeded, Early
<1>8. CASE QuotaPasses(r)
  <2>1. in[r].key = "known"
    BY <1>8 DEF QuotaPasses, Advance, ReqInv, Placed
  <2> QED
    BY <1>8, <2>1, AdvanceKeeps DEF QuotaPasses, Early
<1>9. CASE Scanned(r)
  <2>1. Cleared(r)
    BY <1>9 DEF Scanned, ScanPasses, ToScan, ReqInv, Placed, Cleared, Exempt
  <2> QED
    BY <1>9, <2>1, AdvanceKeeps DEF Scanned, Early
<1>10. ASSUME NEW s \in {400, 405, 413}, Malformed(r, s) PROVE Goal
  <2>1. judged[r] = "no" /\ judged' = judged
    BY <1>10 DEF Malformed, ReqInv, Placed, Early
  <2> QED
    BY <1>10, <2>1, RespondKeeps DEF Malformed
<1>11. CASE ScanBlocks(r)
  <2>1. judged[r] = "no" /\ judged' = judged
    BY <1>11 DEF ScanBlocks, ToScan, ReqInv, Placed, Early
  <2> QED
    BY <1>11, <2>1, RespondKeeps DEF ScanBlocks, ToScan
<1>12. CASE PolicyBlocks(r)
  <2>1. (\A q \in Reqs \ {r} : judged'[q] = judged[q]) /\ judged'[r] = "block"
    BY <1>12 DEF PolicyBlocks, TypeOK
  <2> QED
    BY <1>12, <2>1, RespondKeeps DEF PolicyBlocks
<1>13. CASE ProviderFails(r)
  <2>1. judged[r] = "pass" /\ judged' = judged
    BY <1>13 DEF ProviderFails, ReqInv, Placed
  <2> QED
    BY <1>13, <2>1, RespondKeeps DEF ProviderFails
<1>14. CASE ProviderTimesOut(r)
  <2>1. judged[r] = "pass" /\ judged' = judged
    BY <1>14 DEF ProviderTimesOut, ReqInv, Placed
  <2>2. ProviderTimeout >= WriteTimeout => age[r] >= WriteTimeout
    BY <1>14, GatewayAssumption DEF ProviderTimesOut, ReqInv, Aged, TypeOK
  <2> QED
    BY <1>14, <2>1, <2>2, RespondKeeps DEF ProviderTimesOut
<1>15. CASE PolicyPasses(r)
  <2>1. \A q \in Reqs \ {r} : Same(q)
    BY <1>15 DEF PolicyPasses, Go, Same, TypeOK
  <2>2. /\ UNCHANGED <<in, age, wait, charged, answered>>
        /\ at'[r] = "provider" /\ judged'[r] = "pass"
        /\ status'[r] = IF in[r].path = "stream" THEN 200 ELSE 0
    BY <1>15 DEF PolicyPasses, Go, TypeOK
  <2>3. Cleared(r) /\ at[r] = "policy"
    BY <1>15 DEF PolicyPasses, ReqInv, Placed
  <2>4. Placed(r)' /\ Marked(r)' /\ Aged(r)'
    BY <2>2, <2>3 DEF ReqInv, Placed, Marked, Aged, Cleared, Exempt, Early
  <2> QED
    BY <2>1, <2>4 DEF ReqInv
<1>16. CASE ProviderAnswers(r)
  <2>1. \A q \in Reqs \ {r} : Same(q)
    BY <1>16 DEF ProviderAnswers, Go, Same, TypeOK
  <2>2. /\ UNCHANGED <<in, age, wait, judged, charged, answered>>
        /\ at[r] = "provider" /\ at'[r] = "account" /\ status'[r] = 200
    BY <1>16 DEF ProviderAnswers, Go, TypeOK
  <2>3. Placed(r)' /\ Marked(r)' /\ Aged(r)'
    BY <2>2 DEF ReqInv, Placed, Marked, Aged, Cleared, Exempt, Early
  <2> QED
    BY <2>1, <2>3 DEF ReqInv
<1>17. CASE Account(r)
  <2>1. \A q \in Reqs \ {r} : Same(q)
    BY <1>17 DEF Account, Go, Same, TypeOK
  <2>2. /\ UNCHANGED <<in, status, age, wait, judged, answered>>
        /\ at[r] = "account" /\ at'[r] = "log"
    BY <1>17 DEF Account, Go, TypeOK
  <2>3. judged[r] = "pass" /\ status[r] = 200 /\ answered[r] # TRUE
    BY <2>2 DEF ReqInv, Placed, Marked
  <2>4. Placed(r)' /\ Marked(r)' /\ Aged(r)'
    BY <2>2, <2>3 DEF ReqInv, Placed, Marked, Aged, Cleared, Exempt, Early, Statuses
  <2> QED
    BY <2>1, <2>4 DEF ReqInv
<1>18. ASSUME NEW aborts \in BOOLEAN, StreamEnds(r, aborts) PROVE Goal
  <2>1. \A q \in Reqs \ {r} : Same(q)
    BY <1>18 DEF StreamEnds, Go, Same, TypeOK
  <2>2. /\ UNCHANGED <<in, status, age, wait, judged, charged, answered>>
        /\ at[r] = "provider" /\ at'[r] = "log" /\ in[r].path = "stream"
    BY <1>18 DEF StreamEnds, Go, TypeOK
  <2>3. Placed(r)' /\ Marked(r)' /\ Aged(r)'
    BY <2>2 DEF ReqInv, Placed, Marked, Aged, Cleared, Exempt, Early, Statuses
  <2> QED
    BY <2>1, <2>3 DEF ReqInv
<1>19. CASE Completed(r)
  <2>1. \A q \in Reqs \ {r} : Same(q)
    BY <1>19 DEF Completed, Go, Same, TypeOK
  <2>2. /\ UNCHANGED <<in, status, age, wait, judged, charged>>
        /\ at[r] = "log" /\ at'[r] = "end" /\ answered'[r] = InTime(r)
    BY <1>19 DEF Completed, Go, TypeOK
  <2>3. age[r] >= WriteTimeout => answered'[r] = FALSE
    <3>1. age[r] >= WriteTimeout => ~(age[r] < WriteTimeout)
      BY GatewayAssumption DEF TypeOK
    <3> QED
      BY <2>2, <3>1, Zenon DEF InTime
  <2>4. Placed(r)' /\ Marked(r)' /\ Aged(r)'
    BY <2>2, <2>3 DEF ReqInv, Placed, Marked, Aged, Cleared, Exempt, Early
  <2> QED
    BY <2>1, <2>4 DEF ReqInv
<1> QED
  BY <1>1, <1>2, <1>3, <1>4, <1>5, <1>6, <1>7, <1>8, <1>9, <1>10, <1>11, <1>12, <1>13, <1>14, <1>15, <1>16,
     <1>17, <1>18, <1>19, <1>20, <1>21
  DEF Serve, Middleware, HandleComplete, HandleStream, CompleteRejects, StreamRejects, CompleteScanBlocks,
      StreamScanBlocks, CompletePolicyBlocks, StreamPolicyBlocks

\* Every step keeps the invariant of every request.
LEMMA RequestsStep == TypeOK /\ (\A r \in Reqs : ReqInv(r)) /\ [Next]_vars => (\A r \in Reqs : ReqInv(r))'
<1> SUFFICES ASSUME TypeOK, \A r \in Reqs : ReqInv(r), [Next]_vars, NEW r \in Reqs
             PROVE  ReqInv(r)'
  OBVIOUS
<1>1. ASSUME NEW q \in Reqs, Arrive(q) \/ Serve(q) \/ ClientLeaves(q) PROVE ReqInv(r)'
  BY <1>1, ServeKeeps, SameKeeps
<1>2. CASE PolicySwaps \/ Signal \/ UNCHANGED vars
  <2>1. Same(r)
    BY <1>2 DEF PolicySwaps, Signal, vars, perReq, Same
  <2> QED
    BY <2>1, SameKeeps
<1>3. CASE Tick
  <2>1. UNCHANGED <<in, at, status, judged, charged, answered>>
    BY <1>3 DEF Tick
  <2>2. CASE r \in InFlight
    <3>1. /\ age'[r] = Later(age[r], WriteTimeout) /\ wait'[r] = Later(wait[r], ProviderTimeout)
          /\ wait[r] < ProviderTimeout
      BY <1>3, <2>2 DEF Tick, MayWait
    <3>2. age[r] \in Nat /\ wait[r] \in Nat
      BY DEF TypeOK
    <3>3. Aged(r)'
      BY <2>1, <3>1, <3>2, GatewayAssumption DEF ReqInv, Aged, Later
    <3> QED
      BY <2>1, <3>3 DEF ReqInv, Placed, Marked, Cleared, Exempt
  <2>3. CASE r \notin InFlight
    <3>1. Same(r)
      BY <1>3, <2>1, <2>3 DEF Tick, Same
    <3> QED
      BY <3>1, SameKeeps
  <2> QED
    BY <2>2, <2>3
<1>4. ASSUME NEW s, Exit(s) PROVE ReqInv(r)'
  <2>1. UNCHANGED <<in, status, age, wait, judged, charged, answered>>
    BY <1>4 DEF Exit
  <2>2. at'[r] = at[r] \/ (at[r] # "end" /\ at'[r] = "killed")
    BY <1>4 DEF Exit, InFlight, Over, TypeOK
  <2> QED
    BY <2>1, <2>2 DEF ReqInv, Placed, Marked, Aged, Cleared, Exempt, Early
<1> QED
  BY <1>1, <1>2, <1>3, <1>4 DEF Next, Stopped, Fatal

-----------------------------------------------------------------------------
(* The metrics.                                                            *)

\* The requests with a status are finitely many.
LEMMA WithFinite ==
    ASSUME NEW s
    PROVE  /\ IsFiniteSet(With(s)) /\ Cardinality(With(s)) \in Nat
           /\ IsFiniteSet(Ended(s)) /\ Cardinality(Ended(s)) \in Nat
<1>1. IsFiniteSet(Reqs)
  BY GatewayAssumption
<1>2. With(s) \subseteq Reqs /\ Ended(s) \subseteq Reqs
  BY DEF With, Ended
<1> QED
  BY <1>1, <1>2, FS_Subset, FS_CardinalityType

\* Inc counts one under its label and nothing elsewhere.
LEMMA IncCounts ==
    ASSUME NEW L, NEW m \in [L -> Nat], NEW l \in L
    PROVE  /\ Inc(m, l)[l] = m[l] + 1
           /\ \A k \in L \ {l} : Inc(m, l)[k] = m[k]
  BY DEF Inc

\* A step that changes no status, ends no request and counts no block.
LEMMA AuditSame ==
    ASSUME AuditAgrees,
           \A r \in Reqs : /\ in'[r] = in[r] /\ status'[r] = status[r]
                           /\ at'[r] = "end" <=> at[r] = "end",
           guardrailBlocks'["input"] = guardrailBlocks["input"],
           UNCHANGED <<requestsTotal, rateLimitHits, policyEvaluations>>
    PROVE  AuditAgrees'
<1>1. \A s : With(s)' = With(s) /\ Ended(s)' = Ended(s)
  BY DEF With, Ended, Exempt
<1> QED
  BY <1>1 DEF AuditAgrees

\* A request gets its status: it is counted under no other, before or after.
LEMMA StatusSet ==
    ASSUME TypeOK, NEW r \in Reqs, status[r] = 0, NEW s \in Statuses, status'[r] = s,
           \A q \in Reqs \ {r} : Same(q)
    PROVE  /\ With(s)' = With(s) \cup {r} /\ r \notin With(s)
           /\ Cardinality(With(s)') = Cardinality(With(s)) + 1
           /\ \A t \in Statuses \ {s} : With(t)' = With(t) /\ Ended(t)' = Ended(t)
           /\ at'[r] # "end" => Ended(s)' = Ended(s)
<1>1. 0 \notin Statuses
  BY DEF Statuses
<1>2. With(s)' = With(s) \cup {r} /\ r \notin With(s)
  BY <1>1 DEF With, Same
<1>3. Cardinality(With(s) \cup {r}) = Cardinality(With(s)) + 1
  BY <1>2, WithFinite, FS_AddElement
<1>4. \A t \in Statuses \ {s} : With(t)' = With(t) /\ Ended(t)' = Ended(t)
  BY <1>1 DEF With, Ended, Exempt, Same
<1>5. at'[r] # "end" => Ended(s)' = Ended(s)
  BY <1>1 DEF With, Ended, Exempt, Same
<1> QED
  BY <1>2, <1>3, <1>4, <1>5

\* The middleware refuses a request: a 429 is a hit.
LEMMA AuditRefuse ==
    ASSUME TypeOK, AuditAgrees, NEW r \in Reqs, ReqInv(r), at[r] \in Early,
           NEW s \in {401, 429}, Refuse(r, s),
           UNCHANGED <<requestsTotal, guardrailBlocks, policyEvaluations>>,
           rateLimitHits'["rate"] + rateLimitHits'["quota"]
               = rateLimitHits["rate"] + rateLimitHits["quota"] + (IF s = 429 THEN 1 ELSE 0)
    PROVE  AuditAgrees'
<1>1. status[r] = 0 /\ s \in Statuses /\ 403 \in Statuses /\ 429 \in Statuses
  BY DEF ReqInv, Placed, Statuses
<1>2. status'[r] = s /\ \A q \in Reqs \ {r} : Same(q)
  <2>1. status'[r] = s
    BY DEF Refuse, TypeOK
  <2> QED
    BY <2>1, RefuseKeeps
<1>3. With(403)' = With(403) /\ \A t \in Statuses \ {401, 429} : Ended(t)' = Ended(t)
  BY <1>1, <1>2, StatusSet
<1>4. Cardinality(With(429)') = Cardinality(With(429)) + (IF s = 429 THEN 1 ELSE 0)
  BY <1>1, <1>2, StatusSet, WithFinite
<1> QED
  BY <1>3, <1>4 DEF AuditAgrees

\* A handler gives a request its status: a 403 is a block of the scanner or the policy.
LEMMA AuditStatus ==
    ASSUME TypeOK, AuditAgrees, NEW r \in Reqs, status[r] = 0,
           NEW s \in Statuses \ {401, 429}, status'[r] = s, at'[r] # "end",
           \A q \in Reqs \ {r} : Same(q),
           UNCHANGED <<requestsTotal, rateLimitHits>>,
           guardrailBlocks'["input"] + policyEvaluations'["block"]
               = guardrailBlocks["input"] + policyEvaluations["block"] + (IF s = 403 THEN 1 ELSE 0)
    PROVE  AuditAgrees'
<1>1. 403 \in Statuses /\ 429 \in Statuses
  BY DEF Statuses
<1>2. With(429)' = With(429) /\ \A t \in Statuses : Ended(t)' = Ended(t)
  BY <1>1, StatusSet
<1>3. Cardinality(With(403)') = Cardinality(With(403)) + (IF s = 403 THEN 1 ELSE 0)
  BY <1>1, StatusSet, WithFinite
<1> QED
  BY <1>2, <1>3 DEF AuditAgrees

\* A response is counted when the middleware is done with it.
LEMMA AuditCompleted ==
    ASSUME TypeOK, AuditAgrees, NEW r \in Reqs, ReqInv(r), Completed(r)
    PROVE  AuditAgrees'
<1>1. at[r] = "log" /\ status[r] \in Statuses \ {401, 429}
  BY DEF Completed, ReqInv, Placed
<1> PICK s \in Statuses \ {401, 429} : s = status[r]
  BY <1>1
<1>2. UNCHANGED <<in, status, rateLimitHits, guardrailBlocks, policyEvaluations>>
  BY DEF Completed
<1>3. at'[r] = "end" /\ \A q \in Reqs \ {r} : at'[q] = at[q]
  BY DEF Completed, Go, TypeOK
<1>4. \A t : With(t)' = With(t)
  BY <1>2 DEF With
<1>5. CASE Exempt(r)
  <2>1. requestsTotal' = requestsTotal
    BY <1>5 DEF Completed
  <2>2. \A t : Ended(t)' = Ended(t)
    BY <1>2, <1>3, <1>5 DEF With, Ended, Exempt
  <2> QED
    BY <1>2, <1>4, <2>1, <2>2 DEF AuditAgrees
<1>6. CASE ~Exempt(r)
  <2>1. Ended(s)' = Ended(s) \cup {r} /\ r \notin Ended(s)
    BY <1>1, <1>2, <1>3, <1>6 DEF With, Ended, Exempt
  <2>2. Cardinality(Ended(s)') = Cardinality(Ended(s)) + 1
    <3>1. Cardinality(Ended(s) \cup {r}) = Cardinality(Ended(s)) + 1
      BY <2>1, WithFinite, FS_AddElement
    <3> QED
      BY <2>1, <3>1
  <2>3. \A t \in Statuses \ {s} : Ended(t)' = Ended(t)
    BY <1>1, <1>2, <1>3 DEF With, Ended, Exempt
  <2>4. /\ requestsTotal'[s] = requestsTotal[s] + 1
        /\ \A t \in Statuses \ {s} : requestsTotal'[t] = requestsTotal[t]
    <3>1. requestsTotal \in [Statuses -> Nat] /\ requestsTotal' = Inc(requestsTotal, s)
      BY <1>6 DEF Completed, StatusLabel, TypeOK
    <3> QED
      BY <1>1, <3>1 DEF Inc
  <2>5. \A t \in Statuses \ {401, 429} : requestsTotal'[t] = Cardinality(Ended(t)')
    <3> SUFFICES ASSUME NEW t \in Statuses \ {401, 429}
                 PROVE  requestsTotal'[t] = Cardinality(Ended(t)')
      OBVIOUS
    <3>1. requestsTotal[t] = Cardinality(Ended(t))
      BY DEF AuditAgrees
    <3>2. CASE t = s
      BY <2>2, <2>4, <3>1, <3>2
    <3>3. CASE t # s
      BY <2>3, <2>4, <3>1, <3>3
    <3> QED
      BY <3>2, <3>3
  <2> QED
    BY <1>2, <1>4, <2>5 DEF AuditAgrees
<1> QED
  BY <1>5, <1>6

\* Every step keeps the metrics in agreement.
LEMMA AuditStep == IndInv /\ [Next]_vars => AuditAgrees'
<1> SUFFICES ASSUME IndInv, [Next]_vars PROVE AuditAgrees'
  OBVIOUS
<1>0. TypeOK /\ AuditAgrees
  BY DEF IndInv
<1>1. ASSUME NEW r \in Reqs, Serve(r) \/ Arrive(r) \/ ClientLeaves(r) PROVE AuditAgrees'
  <2>0. ReqInv(r) /\ (\A q \in Reqs \ {r} : Same(q))
    BY <1>0, <1>1, ServeKeeps DEF IndInv
  <2>1. ASSUME in' = in, status'[r] = status[r], at[r] # "end", at'[r] # "end",
               guardrailBlocks'["input"] = guardrailBlocks["input"],
               UNCHANGED <<requestsTotal, rateLimitHits, policyEvaluations>>
        PROVE  AuditAgrees'
    <3>1. \A q \in Reqs : /\ in'[q] = in[q] /\ status'[q] = status[q]
                          /\ at'[q] = "end" <=> at[q] = "end"
      BY <2>0, <2>1 DEF Same
    <3> QED
      BY <1>0, <2>1, <3>1, AuditSame
  <2>2. ASSUME NEW from, NEW to \in Early, Advance(r, from, to), from # "end" PROVE AuditAgrees'
    <3>1. at[r] # "end" /\ at'[r] # "end"
      BY <1>0, <2>2 DEF Advance, Go, TypeOK, Early
    <3> QED
      BY <2>1, <2>2, <3>1 DEF Advance, metrics
  <2>3. ASSUME NEW s \in {200, 400, 404, 405, 413, 502, 504}, Respond(r, s), status[r] = 0, UNCHANGED metrics
        PROVE  AuditAgrees'
    <3>1. status'[r] = s /\ at'[r] # "end" /\ s \in Statuses \ {401, 429} /\ s # 403
      BY <1>0, <2>3 DEF Respond, Go, TypeOK, Statuses
    <3>2. guardrailBlocks'["input"] + policyEvaluations'["block"]
              = guardrailBlocks["input"] + policyEvaluations["block"] + 0
      BY <1>0, <2>3 DEF metrics, TypeOK
    <3> QED
      BY <1>0, <2>0, <2>3, <3>1, <3>2, AuditStatus DEF metrics
  <2>4. ASSUME Respond(r, 403), at[r] \in Early, UNCHANGED <<requestsTotal, rateLimitHits>>,
               \/ guardrailBlocks' = Inc(guardrailBlocks, "input") /\ UNCHANGED policyEvaluations
               \/ policyEvaluations' = Inc(policyEvaluations, "block") /\ UNCHANGED guardrailBlocks
        PROVE  AuditAgrees'
    <3>1. status'[r] = 403 /\ at'[r] # "end" /\ 403 \in Statuses \ {401, 429} /\ status[r] = 0
      BY <1>0, <2>0, <2>4 DEF Respond, Go, TypeOK, Statuses, ReqInv, Placed
    <3>2. guardrailBlocks'["input"] + policyEvaluations'["block"]
              = guardrailBlocks["input"] + policyEvaluations["block"] + 1
      BY <1>0, <2>4 DEF TypeOK, Inc
    <3> QED
      BY <1>0, <2>0, <2>4, <3>1, <3>2, AuditStatus
  <2>5. CASE Arrive(r)
    BY <2>2, <2>5 DEF Arrive, Advance, Early
  <2>6. CASE ClientLeaves(r)
    <3>1. \A q \in Reqs : /\ in'[q] = in[q] /\ status'[q] = status[q]
                          /\ at'[q] = "end" <=> at[q] = "end"
      BY <2>6 DEF ClientLeaves
    <3> QED
      BY <1>0, <2>6, <3>1, AuditSame DEF ClientLeaves, metrics
  <2>7. CASE Exempted(r) \/ Authenticated(r) \/ LimiterPasses(r) \/ QuotaPasses(r) \/ Scanned(r)
    BY <2>2, <2>7 DEF Exempted, Authenticated, LimiterPasses, QuotaPasses, Scanned, Early
  <2>8. CASE AuthFails(r)
    <3>1. rateLimitHits'["rate"] + rateLimitHits'["quota"]
              = rateLimitHits["rate"] + rateLimitHits["quota"] + 0
      BY <1>0, <2>8 DEF AuthFails, metrics, TypeOK
    <3> QED
      BY <1>0, <2>0, <2>8, <3>1, AuditRefuse DEF AuthFails, metrics, Early
  <2>9. CASE RateLimited(r)
    <3>1. rateLimitHits'["rate"] + rateLimitHits'["quota"]
              = rateLimitHits["rate"] + rateLimitHits["quota"] + 1
      BY <1>0, <2>9 DEF RateLimited, Inc, TypeOK
    <3> QED
      BY <1>0, <2>0, <2>9, <3>1, AuditRefuse DEF RateLimited, Early
  <2>10. CASE QuotaExceeded(r)
    <3>1. rateLimitHits'["rate"] + rateLimitHits'["quota"]
              = rateLimitHits["rate"] + rateLimitHits["quota"] + 1
      BY <1>0, <2>10 DEF QuotaExceeded, Inc, TypeOK
    <3> QED
      BY <1>0, <2>0, <2>10, <3>1, AuditRefuse DEF QuotaExceeded, Early
  <2>11. ASSUME NEW s \in {400, 405, 413}, Malformed(r, s) PROVE AuditAgrees'
    <3>1. status[r] = 0
      BY <2>0, <2>11 DEF Malformed, ReqInv, Placed, Early
    <3> QED
      BY <2>3, <2>11, <3>1 DEF Malformed
  <2>12. CASE ScanBlocks(r)
    BY <2>4, <2>12 DEF ScanBlocks, ToScan, Early
  <2>13. CASE PolicyBlocks(r)
    BY <2>4, <2>13 DEF PolicyBlocks, Early
  <2>14. CASE PolicyPasses(r)
    <3>1. status[r] = 0 /\ at[r] # "end" /\ at'[r] # "end"
      BY <1>0, <2>0, <2>14 DEF PolicyPasses, Go, TypeOK, ReqInv, Placed, Early
    <3>2. CASE in[r].path = "stream"
      <4>1. status'[r] = 200 /\ 200 \in Statuses \ {401, 429}
        BY <1>0, <2>14, <3>2 DEF PolicyPasses, TypeOK, Statuses
      <4>2. guardrailBlocks'["input"] + policyEvaluations'["block"]
                = guardrailBlocks["input"] + policyEvaluations["block"] + 0
        BY <1>0, <2>14 DEF PolicyPasses, metrics, TypeOK
      <4> QED
        BY <1>0, <2>0, <2>14, <3>1, <4>1, <4>2, AuditStatus DEF PolicyPasses, metrics
    <3>3. CASE in[r].path # "stream"
      <4>1. status'[r] = status[r]
        BY <1>0, <2>14, <3>1, <3>3 DEF PolicyPasses, TypeOK
      <4> QED
        BY <2>1, <2>14, <3>1, <4>1 DEF PolicyPasses, metrics
    <3> QED
      BY <3>2, <3>3
  <2>15. CASE ProviderAnswers(r)
    <3>1. status[r] = 0
      BY <2>0, <2>15 DEF ProviderAnswers, ReqInv, Placed
    <3>2. status'[r] = 200 /\ at'[r] # "end" /\ 200 \in Statuses \ {401, 429}
      BY <1>0, <2>15 DEF ProviderAnswers, Go, TypeOK, Statuses
    <3>3. guardrailBlocks'["input"] + policyEvaluations'["block"]
              = guardrailBlocks["input"] + policyEvaluations["block"] + 0
      BY <1>0, <2>15 DEF ProviderAnswers, metrics, TypeOK
    <3> QED
      BY <1>0, <2>0, <2>15, <3>1, <3>2, <3>3, AuditStatus DEF ProviderAnswers, metrics
  <2>16. CASE ProviderFails(r) \/ ProviderTimesOut(r)
    <3>1. status[r] = 0
      BY <2>0, <2>16 DEF ProviderFails, ProviderTimesOut, ReqInv, Placed
    <3> QED
      BY <2>3, <2>16, <3>1 DEF ProviderFails, ProviderTimesOut
  <2>17. CASE Account(r)
    <3>1. status'[r] = status[r] /\ at[r] # "end" /\ at'[r] # "end"
      BY <1>0, <2>17 DEF Account, Go, TypeOK
    <3> QED
      BY <2>1, <2>17, <3>1 DEF Account, metrics
  <2>18. ASSUME NEW aborts \in BOOLEAN, StreamEnds(r, aborts) PROVE AuditAgrees'
    <3>1. status'[r] = status[r] /\ at[r] # "end" /\ at'[r] # "end"
      BY <1>0, <2>18 DEF StreamEnds, Go, TypeOK
    <3>2. guardrailBlocks'["input"] = guardrailBlocks["input"]
      BY <1>0, <2>18 DEF StreamEnds, Inc, TypeOK
    <3> QED
      BY <2>1, <2>18, <3>1, <3>2 DEF StreamEnds
  <2>19. CASE Completed(r)
    BY <1>0, <2>0, <2>19, AuditCompleted
  <2>20. CASE HandleProbe(r) \/ NotFound(r)
    <3>1. status[r] = 0
      BY <2>0, <2>20 DEF HandleProbe, NotFound, ReqInv, Placed, Early
    <3> QED
      BY <2>3, <2>20, <3>1 DEF HandleProbe, NotFound
  <2> QED
    BY <1>1, <2>5, <2>6, <2>7, <2>8, <2>9, <2>10, <2>11, <2>12, <2>13, <2>14, <2>15, <2>16, <2>17, <2>18, <2>19,
       <2>20
    DEF Serve, Middleware, HandleComplete, HandleStream, CompleteRejects, StreamRejects, CompleteScanBlocks,
        StreamScanBlocks, CompletePolicyBlocks, StreamPolicyBlocks
<1>2. CASE PolicySwaps \/ Tick \/ Signal \/ UNCHANGED vars
  <2>1. UNCHANGED <<in, status, at, metrics>>
    BY <1>2 DEF PolicySwaps, Tick, Signal, vars, perReq
  <2> QED
    BY <1>0, <2>1, AuditSame DEF metrics
<1>3. ASSUME NEW s, Exit(s) PROVE AuditAgrees'
  <2>1. \A q \in Reqs : /\ in'[q] = in[q] /\ status'[q] = status[q]
                        /\ at'[q] = "end" <=> at[q] = "end"
    BY <1>0, <1>3 DEF Exit, InFlight, Over, TypeOK
  <2> QED
    BY <1>0, <1>3, <2>1, AuditSame DEF Exit, metrics
<1> QED
  BY <1>1, <1>2, <1>3 DEF Next, Stopped, Fatal

-----------------------------------------------------------------------------
(* The shutdown.                                                           *)

\* A step of a request kills nobody and touches neither the server, its clock nor the
\* waits; only an arrival, while the server is up, puts a request in flight.
LEMMA ServeHarmless ==
    ASSUME TypeOK, NEW r \in Reqs, Serve(r) \/ Arrive(r) \/ ClientLeaves(r)
    PROVE  /\ UNCHANGED <<server, drain, wait>>
           /\ \A q \in Reqs : at'[q] = "killed" => at[q] = "killed"
           /\ server # "up" => InFlight' \subseteq InFlight
<1> USE DEF Go, life, TypeOK
<1>0. /\ UNCHANGED <<server, drain, wait>>
      /\ \A q \in Reqs \ {r} : at'[q] = at[q]
      /\ at'[r] = "killed" => at[r] = "killed"
      /\ server = "up" \/ at[r] \notin Over \cup {"none"}
  <2>1. CASE Arrive(r) \/ ClientLeaves(r)
    BY <2>1 DEF Arrive, ClientLeaves, InFlight
  <2>2. CASE Middleware(r) \/ Scanned(r) \/ PolicyPasses(r) \/ HandleProbe(r) \/ NotFound(r)
    BY <2>2 DEF Middleware, Exempted, AuthFails, Authenticated, RateLimited, LimiterPasses,
                QuotaExceeded, QuotaPasses, Completed, Refuse, Advance, Scanned, PolicyPasses,
                HandleProbe, NotFound, Respond, Over
  <2>3. CASE HandleComplete(r)
    BY <2>3 DEF HandleComplete, CompleteRejects, Malformed, CompleteScanBlocks, ScanBlocks, ToScan,
                CompletePolicyBlocks, PolicyBlocks, ProviderAnswers, ProviderFails,
                ProviderTimesOut, Account, Respond, Over
  <2>4. CASE HandleStream(r)
    BY <2>4 DEF HandleStream, StreamRejects, Malformed, StreamScanBlocks, ScanBlocks, ToScan,
                StreamPolicyBlocks, PolicyBlocks, StreamEnds, Respond, Over
  <2> QED
    BY <2>1, <2>2, <2>3, <2>4 DEF Serve
<1> QED
  BY <1>0 DEF InFlight

\* Every step keeps what is known of the shutdown.
LEMMA ShutdownStep ==
    IndInv /\ [Next]_vars => KilledByExit' /\ DrainWaited' /\ KilledAfterFullDrain'
<1> DEFINE Goal == KilledByExit' /\ DrainWaited' /\ KilledAfterFullDrain'
<1> SUFFICES ASSUME IndInv, [Next]_vars PROVE Goal
  OBVIOUS
<1> USE GatewayAssumption DEF IndInv
<1>0. drain \in Nat /\ \A r \in Reqs : wait[r] \in Nat
  BY DEF TypeOK
<1>1. ASSUME UNCHANGED <<server, drain, wait>>,
             \A q \in Reqs : at'[q] = "killed" => at[q] = "killed",
             server # "up" => InFlight' \subseteq InFlight
      PROVE  Goal
  BY <1>1 DEF KilledByExit, DrainWaited, KilledAfterFullDrain
<1>2. ASSUME NEW r \in Reqs, Serve(r) \/ Arrive(r) \/ ClientLeaves(r) PROVE Goal
  BY <1>1, <1>2, ServeHarmless
<1>3. CASE PolicySwaps \/ UNCHANGED vars
  <2>1. UNCHANGED <<server, drain, wait, at>>
    BY <1>3 DEF PolicySwaps, vars, perReq, life
  <2> QED
    BY <1>1, <2>1 DEF InFlight
<1>4. CASE Tick
  <2>1. UNCHANGED <<at, server>> /\ server \in {"up", "draining"} /\ InFlight' = InFlight
    BY <1>4 DEF Tick, InFlight
  <2>2. server = "up" => drain' = drain
    BY <1>4 DEF Tick
  <2>3. ASSUME server = "draining", NEW r \in InFlight PROVE wait'[r] >= drain'
    <3>1. r \in Reqs /\ wait[r] < ProviderTimeout /\ wait'[r] = Later(wait[r], ProviderTimeout)
      BY <1>4, <2>3 DEF Tick, MayWait, InFlight
    <3>2. wait'[r] = wait[r] + 1
      BY <1>0, <3>1 DEF Later
    <3>3. drain' = drain + 1 \/ drain' = drain
      BY <1>4, <2>3 DEF Tick, Later
    <3>4. wait[r] >= drain
      BY <2>3 DEF DrainWaited
    <3> QED
      BY <1>0, <3>1, <3>2, <3>3, <3>4
  <2>4. DrainWaited'
    BY <2>1, <2>2, <2>3 DEF DrainWaited
  <2> QED
    BY <2>1, <2>4 DEF KilledByExit, KilledAfterFullDrain
<1>5. CASE Signal
  <2>1. server = "up" /\ server' = "draining" /\ UNCHANGED <<at, drain, wait>>
    BY <1>5 DEF Signal, perReq
  <2>2. \A r \in InFlight' : r \in Reqs
    BY DEF InFlight
  <2> QED
    BY <1>0, <2>1, <2>2 DEF KilledByExit, DrainWaited, KilledAfterFullDrain
<1>6. CASE Stopped
  <2>1. server = "draining" /\ server' = "down" /\ UNCHANGED <<drain, wait>>
    BY <1>6 DEF Stopped, Exit
  <2>2. ASSUME NEW q \in Reqs, at'[q] = "killed" PROVE wait[q] >= DrainTimeout
    <3>1. q \in InFlight
      BY <1>6, <2>1, <2>2 DEF Stopped, Exit, KilledByExit, TypeOK
    <3>2. drain >= DrainTimeout
      BY <1>6, <3>1 DEF Stopped, ShutdownReturns, DrainOver
    <3>3. wait[q] >= drain
      BY <2>1, <3>1 DEF DrainWaited
    <3> QED
      BY <1>0, <3>2, <3>3
  <2> QED
    BY <2>1, <2>2 DEF KilledByExit, DrainWaited, KilledAfterFullDrain
<1>7. CASE Fatal
  BY <1>7 DEF Fatal, Exit, KilledByExit, DrainWaited, KilledAfterFullDrain
<1> QED
  BY <1>2, <1>3, <1>4, <1>5, <1>6, <1>7 DEF Next

-----------------------------------------------------------------------------

\* The initial states satisfy the invariant.
LEMMA IndInvInit == Init => IndInv
<1> SUFFICES ASSUME Init PROVE IndInv
  OBVIOUS
<1> USE GatewayAssumption
<1>1. TypeOK
  <2>1. charged \in [Reqs -> BOOLEAN] /\ gone \in [Reqs -> BOOLEAN] /\ answered \in [Reqs -> BOOLEAN]
    BY DEF Init
  <2> QED
    BY <2>1 DEF Init, TypeOK
<1>2. \A r \in Reqs : ReqInv(r)
  BY DEF Init, ReqInv, Placed, Marked, Aged, Early
<1>3. KilledByExit /\ DrainWaited /\ KilledAfterFullDrain
  BY DEF Init, KilledByExit, DrainWaited, KilledAfterFullDrain
<1>4. AuditAgrees
  <2>1. \A s \in Statuses : With(s) = {} /\ Ended(s) = {}
    BY DEF Init, With, Ended, Statuses
  <2>2. 403 \in Statuses /\ 429 \in Statuses
    BY DEF Statuses
  <2>3. Cardinality({}) = 0
    BY FS_EmptySet
  <2>4. \A s \in Statuses : Cardinality(With(s)) = 0 /\ Cardinality(Ended(s)) = 0
    BY <2>1, <2>3
  <2> QED
    BY <2>2, <2>4 DEF Init, AuditAgrees
<1> QED
  BY <1>1, <1>2, <1>3, <1>4 DEF IndInv

\* The invariant is inductive.
THEOREM GatewayInvariant == Spec => []IndInv
<1>1. IndInv /\ [Next]_vars => IndInv'
  BY TypeStep, RequestsStep, ShutdownStep, AuditStep DEF IndInv
<1> QED
  BY <1>1, IndInvInit, PTL DEF Spec

\* The types hold for any number of requests and any timeouts.
THEOREM GatewayTypeCorrect == Spec => []TypeOK
<1>1. IndInv => TypeOK
  BY DEF IndInv
<1> QED
  BY <1>1, GatewayInvariant, PTL

\* However many requests are served at the same time and whenever the policy is
\* swapped, the provider sees, and the quota pays for, only what passed every guard
\* (withMiddleware, handleComplete, handleStream).
THEOREM GatewayGuardsFirst == Spec => []GuardsBeforeProvider
<1>1. IndInv => GuardsBeforeProvider
  BY DEF IndInv, ReqInv, Placed, Marked, Cleared, Exempt, GuardsBeforeProvider, Called
<1> QED
  BY <1>1, GatewayInvariant, PTL

\* Statuses and counters agree in every reachable state (the metrics of gateway.go).
THEOREM GatewayAudit == Spec => []AuditAgrees
<1>1. IndInv => AuditAgrees
  BY DEF IndInv
<1> QED
  BY <1>1, GatewayInvariant, PTL

\* Whoever dies with a graceful shutdown had the whole drain: nobody enters after the
\* signal, and nobody's wait is shorter than the drain (cmd/gateway/main.go).
THEOREM GatewayDrain == Spec => []KilledAfterFullDrain
<1>1. IndInv => KilledAfterFullDrain
  BY DEF IndInv
<1> QED
  BY <1>1, GatewayInvariant, PTL

\* With the timeouts the repository ships no client ever receives provider_timeout
\* from /v1/complete (handleComplete, WriteTimeout in cmd/gateway/main.go).
THEOREM GatewayTimeoutUnseen == Spec => []TimeoutNeverReceived
<1>1. IndInv => TimeoutNeverReceived
  BY DEF IndInv, ReqInv, Aged, TimeoutNeverReceived
<1> QED
  BY <1>1, GatewayInvariant, PTL
=============================================================================
