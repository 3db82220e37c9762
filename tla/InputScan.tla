------------------------------ MODULE InputScan ------------------------------
(***************************************************************************)
(* The input guardrail: Scanner.Scan of guardrails/input/scanner.go, with  *)
(* its five detectors as goroutines that Scan starts and waits for.        *)
(*                                                                         *)
(* A prompt is what the detectors find in it: the matches of each pattern, *)
(* its words, and its entropy in tenths of a bit per character.  Scores    *)
(* are integers in units of 1/One(prompt), which makes every one of them   *)
(* exact; the composite is in hundredths.  float64 agrees with the exact   *)
(* sum except where that lies half way between two hundredths: there the   *)
(* error of the additions decides which of them round2 returns.            *)
(***************************************************************************)
EXTENDS Integers, FiniteSetsExt

CONSTANTS
    Prompts,    \* [keyword, structural, verbs, words, boundary, entropy, short]
    NoPrompt    \* there is no request yet

ASSUME PromptAssumption ==
    /\ NoPrompt \notin Prompts
    /\ \A q \in Prompts :
           {q.keyword, q.structural, q.verbs, q.words, q.boundary, q.entropy} \subseteq Nat

VARIABLES
    prompt,     \* the prompt of the request
    started,    \* detectors whose goroutine Scan has started
    wg,         \* the WaitGroup's counter
    results,    \* per detector: its score, or -1
    score,      \* the composite, or -1 before Scan returns
    verdict     \* ScanResult.Verdict

scanVars == <<prompt, started, wg, results, score, verdict>>

signals == <<"keyword", "structural", "repetition", "boundary", "entropy">>
Detectors == {signals[k] : k \in DOMAIN signals}

BlockThreshold == 60
TagThreshold == 18

\* In hundredths; they add up to one.
weights == [keyword |-> 30, structural |-> 30, repetition |-> 20, boundary |-> 15, entropy |-> 5]

ScanInit ==
    /\ prompt = NoPrompt
    /\ started = {}
    /\ wg = 0
    /\ results = [d \in Detectors |-> -1]
    /\ score = -1
    /\ verdict = "none"

-----------------------------------------------------------------------------
(* The detectors.                                                          *)

\* The score 1.0: a common denominator of the scores of q.
One(q) == 300 * (IF q.words = 0 THEN 1 ELSE q.words)

AtMostOne(q, s) == IF s > One(q) THEN One(q) ELSE s

keywordSignal(q) == AtMostOne(q, (60 * q.keyword * One(q)) \div 100)
structuralSignal(q) == AtMostOne(q, (65 * q.structural * One(q)) \div 100)
boundarySignal(q) == AtMostOne(q, (50 * q.boundary * One(q)) \div 100)

\* A density of one half, or of one in twenty, is full score.
repetitionSignal(q) ==
    IF q.words = 0 THEN 0
    ELSE IF 2 * q.verbs >= q.words THEN One(q)
    ELSE AtMostOne(q, (20 * q.verbs * One(q)) \div q.words)

entropySignal(q) ==
    IF q.short \/ q.entropy <= 50 THEN 0 ELSE AtMostOne(q, ((q.entropy - 50) * One(q)) \div 15)

Signal(q) ==
    [keyword |-> keywordSignal(q), structural |-> structuralSignal(q),
     repetition |-> repetitionSignal(q), boundary |-> boundarySignal(q),
     entropy |-> entropySignal(q)]

-----------------------------------------------------------------------------
(* Scan                                                                    *)

\* A handler calls Scan.
CallScan(q) ==
    /\ prompt = NoPrompt
    /\ prompt' = q
    /\ UNCHANGED <<started, wg, results, score, verdict>>

\* One turn of the loop over signals: wg.Add, and the go statement.
StartDetector(d) ==
    /\ prompt # NoPrompt
    /\ d \notin started
    /\ \A k \in DOMAIN signals : signals[k] = d => \A j \in 1..(k - 1) : signals[j] \in started
    /\ started' = started \cup {d}
    /\ wg' = wg + 1
    /\ UNCHANGED <<prompt, results, score, verdict>>

\* Mutant: Done is called only by a detector that found something.
DoneUnlessZero(s) == IF s = 0 THEN 0 ELSE 1

\* Deferred: Done is called however the detector returns.
Done(s) == 1

Detect(d) ==
    /\ d \in started /\ results[d] = -1
    /\ results' = [results EXCEPT ![d] = Signal(prompt)[d]]
    /\ wg' = wg - Done(Signal(prompt)[d])
    /\ UNCHANGED <<prompt, started, score, verdict>>

\* round2 of n/m hundredths.
Round2(n, m) ==
    LET down == (2 * n + m - 1) \div (2 * m)
        up   == (2 * n + m) \div (2 * m)
    IN  down..up

\* Mutant: the strongest signal decides.
StrongestSignal(rs) == 100 * Max({rs[d] : d \in Detectors})

\* The weighted mean.
Composite(rs) ==
    weights.keyword * rs["keyword"] + weights.structural * rs["structural"]
        + weights.repetition * rs["repetition"] + weights.boundary * rs["boundary"]
        + weights.entropy * rs["entropy"]

Verdict(s) ==
    IF s >= BlockThreshold THEN "block" ELSE IF s >= TagThreshold THEN "tag" ELSE "pass"

\* Mutant: one Done is enough.
WaitedForOne == wg < 5

\* wg.Wait
Waited == wg = 0

\* The wait is over, and Scan returns.
Join ==
    /\ started = Detectors
    /\ Waited
    /\ score = -1
    /\ score' \in Round2(Composite(results), One(prompt))
    /\ verdict' = Verdict(score')
    /\ UNCHANGED <<prompt, started, wg, results>>

Scan == Join \/ \E d \in Detectors : StartDetector(d) \/ Detect(d)

-----------------------------------------------------------------------------

ScanTypeOK ==
    /\ prompt \in Prompts \cup {NoPrompt}
    /\ started \subseteq Detectors
    /\ wg \in 0..5
    /\ prompt # NoPrompt => results \in [Detectors -> -1..One(prompt)]
    /\ score \in -1..100
    /\ verdict \in {"none", "pass", "tag", "block"}

\* In whatever order the detectors run, Scan returns only when each of them has
\* written its own slot for this prompt, and the composite is their weighted mean to
\* the nearest hundredth: the WaitGroup is the only thing that orders them.
ScoreCountsAll ==
    score >= 0 =>
        /\ results = Signal(prompt)
        /\ 2 * Composite(Signal(prompt)) \in
               ((2 * score - 1) * One(prompt))..((2 * score + 1) * One(prompt))

\* scanner.go: entropy "should never trigger a block on its own".  No detector does:
\* behind a block there are two that found something, and one of them is a pattern.
OneSignalNeverBlocks ==
    verdict = "block" =>
        /\ Quantify(Detectors, LAMBDA d : results[d] > 0) >= 2
        /\ \E d \in {"keyword", "structural", "boundary"} : results[d] > 0
=============================================================================
