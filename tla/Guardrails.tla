----------------------------- MODULE Guardrails ------------------------------
(***************************************************************************)
(* What stands between an authenticated prompt and the provider: the       *)
(* gateway loads its policy when it starts (gateway.New, NewWatcher and    *)
(* load), then a handler scans the prompt and judges it by the rules       *)
(* (handleComplete, handleStream and evalPolicy of gateway/gateway.go).    *)
(* PolicyText and InputScan are the parts; PolicyWatcher has the later     *)
(* reloads, which replace the bundle as a whole.                           *)
(***************************************************************************)
EXTENDS PolicyText, PolicyRules, InputScan

CONSTANTS
    Tenants,        \* tenants that send requests
    Totals,         \* what quota.Total may leave in dailyTokens
    RequestModel,   \* the model name the handlers pass to evalPolicy
    None            \* no bundle, no tenant

\* Without Redis, or when Redis fails, dailyTokens stays 0.
ASSUME GuardrailsAssumption == 0 \in Totals /\ Totals \subseteq Nat

VARIABLES
    bundle,         \* the compiled policy
    tenant,         \* the tenant whose request it is
    dailyTokens,    \* what evalPolicy read, -1 before
    reply           \* what the handler did with the request

requestVars == <<tenant, dailyTokens, reply>>
vars == <<textVars, scanVars, bundle, requestVars>>

Init ==
    /\ TextInit
    /\ ScanInit
    /\ bundle = None
    /\ tenant = None
    /\ dailyTokens = -1
    /\ reply = "none"

-----------------------------------------------------------------------------
(* load                                                                    *)

ParseStep == ParseText /\ UNCHANGED <<scanVars, bundle, requestVars>>

CompileStep ==
    /\ at = "parsed"
    /\ IF Compiles(node)
       THEN at' = "loaded" /\ bundle' = Compiled(node)
       ELSE at' = "error" /\ UNCHANGED bundle
    /\ UNCHANGED <<lexVars, p, node, scanVars, requestVars>>

\* New returns, without a policy if load failed; what load held is gone.
Serve ==
    /\ at \in {"loaded", "error"}
    /\ at' = "serving"
    /\ src' = << >> /\ toks' = << >> /\ pos' = 1 /\ p' = 1
    /\ node' = NewPolicy
    /\ UNCHANGED <<text, scanVars, bundle, requestVars>>

-----------------------------------------------------------------------------
(* One request.                                                            *)

Request(t, q) ==
    /\ at = "serving"
    /\ CallScan(q)
    /\ tenant' = t
    /\ UNCHANGED <<textVars, bundle, dailyTokens, reply>>

ScanStep == Scan /\ UNCHANGED <<textVars, bundle, requestVars>>

Answer(r) ==
    /\ reply = "none"
    /\ reply' = r
    /\ UNCHANGED <<textVars, scanVars, bundle, tenant>>

GuardrailBlocks ==
    /\ verdict = "block"
    /\ Answer("guardrail_block")
    /\ UNCHANGED dailyTokens

\* s.policy is nil.
NoPolicy ==
    /\ verdict \in {"pass", "tag"}
    /\ bundle = None
    /\ Answer("forward")
    /\ UNCHANGED dailyTokens

\* evalPolicy reads the quota before it asks for the bundle.
ReadTotal(n) ==
    /\ verdict \in {"pass", "tag"}
    /\ bundle # None
    /\ dailyTokens = -1
    /\ dailyTokens' = n
    /\ UNCHANGED <<textVars, scanVars, bundle, tenant, reply>>

evalCtx == [InputRiskScore |-> score, RequestModel |-> RequestModel,
            TenantDailyTokens |-> 100 * dailyTokens]

OwnBundle == bundle.tenant = tenant

\* Only BLOCK stops a request.
Judge ==
    /\ dailyTokens >= 0
    /\ Answer(IF OwnBundle /\ Evaluate(bundle.rules, evalCtx) = "BLOCK"
              THEN "policy_block" ELSE "forward")
    /\ UNCHANGED dailyTokens

-----------------------------------------------------------------------------

Load == ParseStep \/ CompileStep \/ Serve

Handle ==
    \/ ScanStep
    \/ GuardrailBlocks
    \/ NoPolicy
    \/ \E n \in Totals : ReadTotal(n)
    \/ Judge

Next == Load \/ Handle \/ \E t \in Tenants, q \in Prompts : Request(t, q)

\* New and the handler run by themselves; nothing makes a client send a request.
Spec == Init /\ [][Next]_vars /\ WF_vars(Load) /\ WF_vars(Handle)

-----------------------------------------------------------------------------

\* Types of the parser's, the scanner's and the handler's state.
TypeOK ==
    /\ TextTypeOK
    /\ ScanTypeOK
    /\ bundle # None => at \in {"loaded", "serving"}
    /\ tenant \in Tenants \cup {None}
    /\ dailyTokens \in Totals \cup {-1}
    /\ reply \in {"none", "guardrail_block", "policy_block", "forward"}

\* A file read while it is being saved never loads as a smaller policy: what load
\* read either holds the policy to its closing brace and loads exactly as it was
\* written, or is an error.  Comments, quoted braces and missing commas make no
\* difference.  What follows the policy is never taken for a part of it, but it must
\* be made of tokens: Lex reads the whole file first (Lex, Parse, Compile).
LoadsAsWritten ==
    LET Spoilt == Len(src) \in text.spoilt
    IN  /\ at = "loaded" => Whole /\ ~Spoilt /\ node = text.means
        /\ at = "error" => ~Whole \/ Spoilt \/ text.means = Malformed

\* How a reader takes a condition: from left to right, every OR offers a new start,
\* and all that is joined by AND after the start must hold.
Satisfied(cond, ctx) ==
    \E k \in DOMAIN cond :
        /\ k = 1 \/ cond[k].join = "OR"
        /\ \A j \in k..Len(cond) : j = k \/ cond[j].join = "AND" => AtomHolds(cond[j], ctx)

BlockRule(r) == Fold(r.action) = CHOOSE w \in DOMAIN Actions : Actions[w] = "BLOCK"

\* A request the scanner let pass is blocked exactly when a BLOCK rule its tenant wrote
\* applies and no rule of another action written before it does; in particular never
\* by a policy that did not load or is another tenant's (evalPolicy, Evaluate).
DecisionAsWritten ==
    LET rules == text.means.rules
        Applies(k) == Satisfied(rules[k].cond, evalCtx)
    IN  /\ reply = "guardrail_block" <=> reply # "none" /\ verdict = "block"
        /\ reply \in {"policy_block", "forward"} =>
              (reply = "policy_block" <=>
                  /\ bundle # None /\ text.means.tenant = tenant
                  /\ \E k \in DOMAIN rules :
                        /\ Applies(k) /\ BlockRule(rules[k])
                        /\ \A j \in 1..(k - 1) : Applies(j) => BlockRule(rules[j]))

\* The gateway always comes up, whatever the policy file holds, and answers the
\* request: the lexer and the parser consume a token at every turn, and every
\* detector is waited for and reports.
ServesAndAnswers ==
    /\ <>(at = "serving")
    /\ prompt # NoPrompt ~> reply # "none"
=============================================================================
