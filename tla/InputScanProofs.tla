--------------------------- MODULE InputScanProofs ---------------------------
(***************************************************************************)
(* What Scanner.Scan guarantees for every prompt and every schedule of its *)
(* detectors, as lemmas about its steps: the composition with the policy   *)
(* and the handlers turns them into theorems.                              *)
(***************************************************************************)
EXTENDS InputScan, FiniteSetTheorems, TLAPS

-----------------------------------------------------------------------------
(* The scores as numbers.                                                  *)

\* A quotient between two numbers of hundredths.
LEMMA Quotient ==
    ASSUME NEW x \in Nat, NEW m \in Nat \ {0}, NEW k \in Nat
    PROVE  /\ x \div m \in Nat
           /\ k <= x \div m => k * m <= x
           /\ x \div m <= k => x < (k + 1) * m
<1>1. x \div m \in Nat /\ (x \div m) * m <= x /\ x < (x \div m) * m + m
  OBVIOUS
<1>2. ASSUME NEW a \in Nat, NEW b \in Nat, a <= b PROVE a * m <= b * m
  BY <1>2
<1>3. k <= x \div m => k * m <= (x \div m) * m
  BY <1>1, <1>2
<1>4. x \div m <= k => (x \div m) * m <= k * m
  BY <1>1, <1>2
<1>5. (k + 1) * m = k * m + m /\ k * m \in Nat /\ (x \div m) * m \in Nat
  BY <1>1
<1> QED
  BY <1>1, <1>3, <1>4, <1>5

\* The detectors are five.
LEMMA FiveDetectors == Detectors = {"keyword", "structural", "repetition", "boundary", "entropy"}
<1>1. DOMAIN signals = 1..5
  BY DEF signals
<1>2. /\ signals[1] = "keyword" /\ signals[2] = "structural" /\ signals[3] = "repetition"
      /\ signals[4] = "boundary" /\ signals[5] = "entropy"
  BY DEF signals
<1>3. 1..5 = {1, 2, 3, 4, 5}
  OBVIOUS
<1> QED
  BY <1>1, <1>2, <1>3 DEF Detectors

\* The score 1.0 is a positive number.
LEMMA OnePositive == \A q \in Prompts : One(q) \in Nat /\ One(q) > 0
  BY PromptAssumption DEF One

\* Every detector's score lies between 0 and 1.
LEMMA SignalRange ==
    ASSUME NEW q \in Prompts
    PROVE  Signal(q) \in [Detectors -> 0..One(q)]
<1> DEFINE o == One(q)
<1>1. /\ o \in Nat /\ o > 0
      /\ q.keyword \in Nat /\ q.structural \in Nat /\ q.verbs \in Nat /\ q.words \in Nat
      /\ q.boundary \in Nat /\ q.entropy \in Nat
  BY OnePositive, PromptAssumption
<1> HIDE DEF o
<1>2. \A s \in Nat : AtMostOne(q, s) \in 0..o
  BY <1>1 DEF AtMostOne, o
<1>3. \A c, n \in Nat : \A d \in Nat \ {0} : (c * n * o) \div d \in Nat
  <2> SUFFICES ASSUME NEW c \in Nat, NEW n \in Nat, NEW d \in Nat \ {0}
               PROVE  (c * n * o) \div d \in Nat
    OBVIOUS
  <2>1. c * n * o \in Nat
    BY <1>1
  <2> QED
    BY <2>1, Quotient
<1>4. keywordSignal(q) \in 0..o
  BY <1>1, <1>2, <1>3 DEF keywordSignal, o
<1>5. structuralSignal(q) \in 0..o
  BY <1>1, <1>2, <1>3 DEF structuralSignal, o
<1>6. boundarySignal(q) \in 0..o
  BY <1>1, <1>2, <1>3 DEF boundarySignal, o
<1>7. repetitionSignal(q) \in 0..o
  <2>1. 0 \in 0..o /\ o \in 0..o
    BY <1>1
  <2>2. q.words # 0 => AtMostOne(q, (20 * q.verbs * o) \div q.words) \in 0..o
    BY <1>1, <1>2, <1>3
  <2> QED
    BY <2>1, <2>2 DEF repetitionSignal, o
<1>8. entropySignal(q) \in 0..o
  <2>1. 0 \in 0..o
    BY <1>1
  <2>2. ~(q.entropy <= 50) => AtMostOne(q, ((q.entropy - 50) * o) \div 15) \in 0..o
    <3>1. SUFFICES ASSUME ~(q.entropy <= 50)
                   PROVE  AtMostOne(q, ((q.entropy - 50) * o) \div 15) \in 0..o
      OBVIOUS
    <3>2. q.entropy - 50 \in Nat
      BY <1>1, <3>1
    <3>3. (q.entropy - 50) * o \in Nat
      BY <1>1, <3>2
    <3>4. ((q.entropy - 50) * o) \div 15 \in Nat
      BY <3>3, Quotient
    <3> QED
      BY <1>2, <3>4
  <2> QED
    BY <2>1, <2>2 DEF entropySignal, o
<1> QED
  BY <1>4, <1>5, <1>6, <1>7, <1>8, FiveDetectors DEF Signal, o

\* What the weighted mean of scores can be, and what it says about them.
LEMMA CompositeRange ==
    ASSUME NEW o \in Nat, NEW rs \in [Detectors -> 0..o]
    PROVE  /\ Composite(rs) \in 0..(100 * o)
           /\ 30 * o < Composite(rs) =>
                 \E d, e \in Detectors : d # e /\ rs[d] > 0 /\ rs[e] > 0
           /\ 25 * o < Composite(rs) =>
                 \E d \in {"keyword", "structural", "boundary"} : rs[d] > 0
<1>1. /\ rs["keyword"] \in 0..o /\ rs["structural"] \in 0..o /\ rs["repetition"] \in 0..o
      /\ rs["boundary"] \in 0..o /\ rs["entropy"] \in 0..o
  BY FiveDetectors
<1>2. Composite(rs) = 30 * rs["keyword"] + 30 * rs["structural"] + 20 * rs["repetition"]
                         + 15 * rs["boundary"] + 5 * rs["entropy"]
  BY DEF Composite, weights
<1>3. Composite(rs) \in 0..(100 * o)
  BY <1>1, <1>2
<1>4. ASSUME \A d, e \in Detectors : d = e \/ ~(rs[d] > 0) \/ ~(rs[e] > 0)
      PROVE  ~(30 * o < Composite(rs))
  <2>1. \A d, e \in Detectors : d = e \/ rs[d] = 0 \/ rs[e] = 0
    BY <1>4
  <2>2. PICK d \in Detectors : \A e \in Detectors : e = d \/ rs[e] = 0
    BY <2>1, FiveDetectors
  <2>3. Composite(rs) <= 30 * rs[d]
    <3>1. CASE d = "keyword"
      BY <1>1, <1>2, <2>2, <3>1, FiveDetectors
    <3>2. CASE d = "structural"
      BY <1>1, <1>2, <2>2, <3>2, FiveDetectors
    <3>3. CASE d \in {"repetition", "boundary", "entropy"}
      <4>1. rs["keyword"] = 0 /\ rs["structural"] = 0
        BY <2>2, <3>3, FiveDetectors
      <4>2. CASE d = "repetition"
        BY <1>1, <1>2, <2>2, <4>1, <4>2, FiveDetectors
      <4>3. CASE d = "boundary"
        BY <1>1, <1>2, <2>2, <4>1, <4>3, FiveDetectors
      <4>4. CASE d = "entropy"
        BY <1>1, <1>2, <2>2, <4>1, <4>4, FiveDetectors
      <4> QED
        BY <3>3, <4>2, <4>3, <4>4
    <3> QED
      BY <3>1, <3>2, <3>3, FiveDetectors
  <2> QED
    BY <1>3, <2>3
<1>5. ASSUME \A d \in {"keyword", "structural", "boundary"} : ~(rs[d] > 0)
      PROVE  ~(25 * o < Composite(rs))
  BY <1>1, <1>2, <1>5
<1> QED
  BY <1>3, <1>4, <1>5

\* round2 returns a number of hundredths that is nearest.
LEMMA RoundNearest ==
    ASSUME NEW o \in Nat, o > 0, NEW c \in 0..(100 * o), NEW s \in Round2(c, o)
    PROVE  /\ s \in 0..100
           /\ 2 * c \in ((2 * s - 1) * o)..((2 * s + 1) * o)
<1> DEFINE m == 2 * o
           down == (2 * c + o - 1) \div m
           up == (2 * c + o) \div m
<1>1. m \in Nat \ {0} /\ c \in Nat /\ 2 * c + o - 1 \in Nat /\ 2 * c + o \in Nat
  OBVIOUS
<1>2. down \in Nat /\ up \in Nat
  BY <1>1, Quotient
<1>3. s \in Int /\ down <= s /\ s <= up
  BY <1>2 DEF Round2
<1>4. s \in Nat
  BY <1>2, <1>3
<1>5. s * m <= 2 * c + o
  BY <1>1, <1>3, <1>4, Quotient
<1>6. 2 * c + o - 1 < (s + 1) * m
  BY <1>1, <1>3, <1>4, Quotient
<1>7. /\ s * o \in Nat /\ s * m = 2 * (s * o) /\ (s + 1) * m = 2 * (s * o) + 2 * o
      /\ (2 * s - 1) * o = 2 * (s * o) - o /\ (2 * s + 1) * o = 2 * (s * o) + o
  BY <1>4
<1>8. 2 * c \in ((2 * s - 1) * o)..((2 * s + 1) * o)
  BY <1>5, <1>6, <1>7
<1>9. s <= 100
  <2>1. SUFFICES ASSUME s >= 101 PROVE FALSE
    BY <1>4
  <2>2. 101 * o <= s * o
    BY <1>4, <2>1
  <2> QED
    BY <1>5, <1>7, <2>2
<1> QED
  BY <1>4, <1>8, <1>9

-----------------------------------------------------------------------------
(* The detectors as goroutines.                                            *)

\* Detectors that Scan waits for.
Running == {d \in started : results[d] = -1}

\* A slot is empty until its detector, once started, writes its score of the prompt.
SlotsOwn ==
    \A d \in Detectors :
        results[d] = -1 \/ (d \in started /\ results[d] = Signal(prompt)[d])

\* What Scan returned is what the five scores of the prompt amount to.
Returned ==
    IF score = -1
    THEN verdict = "none"
    ELSE /\ prompt # NoPrompt
         /\ results = Signal(prompt)
         /\ score \in Round2(Composite(Signal(prompt)), One(prompt))
         /\ verdict = Verdict(score)

ScanInv ==
    /\ prompt \in Prompts \cup {NoPrompt}
    /\ started \subseteq Detectors
    /\ prompt = NoPrompt => started = {}
    /\ results \in [Detectors -> Int]
    /\ wg = Cardinality(Running)
    /\ SlotsOwn
    /\ Returned

\* A set grows by one element at most.
LEMMA OneMore ==
    ASSUME NEW S, NEW x, IsFiniteSet(S)
    PROVE  /\ IsFiniteSet(S \cup {x})
           /\ Cardinality(S) \in Nat /\ Cardinality(S \cup {x}) \in Nat
           /\ Cardinality(S \cup {x}) <= Cardinality(S) + 1
<1>1. Cardinality(S) \in Nat
  BY FS_CardinalityType
<1>2. /\ IsFiniteSet(S \cup {x})
      /\ Cardinality(S \cup {x}) = Cardinality(S) \/ Cardinality(S \cup {x}) = Cardinality(S) + 1
  BY FS_AddElement
<1> QED
  BY <1>1, <1>2

\* The detectors can be counted.
LEMMA DetectorsFinite ==
    IsFiniteSet(Detectors) /\ Cardinality(Detectors) \in Nat /\ Cardinality(Detectors) <= 5
<1> DEFINE A == {"keyword"}
           B == A \cup {"structural"}
           C == B \cup {"repetition"}
           D == C \cup {"boundary"}
           E == D \cup {"entropy"}
<1>1. IsFiniteSet(A) /\ Cardinality(A) = 1
  BY FS_Singleton
<1>2. Detectors = E
  BY FiveDetectors
<1> HIDE DEF A
<1>3. /\ IsFiniteSet(B) /\ Cardinality(A) \in Nat /\ Cardinality(B) \in Nat
      /\ Cardinality(B) <= Cardinality(A) + 1
  BY <1>1, OneMore, Zenon
<1> HIDE DEF B
<1>4. /\ IsFiniteSet(C) /\ Cardinality(B) \in Nat /\ Cardinality(C) \in Nat
      /\ Cardinality(C) <= Cardinality(B) + 1
  BY <1>3, OneMore, Zenon
<1> HIDE DEF C
<1>5. /\ IsFiniteSet(D) /\ Cardinality(C) \in Nat /\ Cardinality(D) \in Nat
      /\ Cardinality(D) <= Cardinality(C) + 1
  BY <1>4, OneMore, Zenon
<1> HIDE DEF D
<1>6. /\ IsFiniteSet(E) /\ Cardinality(D) \in Nat /\ Cardinality(E) \in Nat
      /\ Cardinality(E) <= Cardinality(D) + 1
  BY <1>5, OneMore, Zenon
<1> HIDE DEF E
<1>7. Cardinality(E) <= 5
  BY <1>1, <1>3, <1>4, <1>5, <1>6
<1> QED
  BY <1>2, <1>6, <1>7

\* There are five goroutines at most.
LEMMA AtMostFive ==
    ASSUME started \subseteq Detectors
    PROVE  IsFiniteSet(Running) /\ Cardinality(Running) \in 0..5
<1>1. Running \subseteq Detectors
  BY DEF Running
<1>2. IsFiniteSet(Running) /\ Cardinality(Running) <= Cardinality(Detectors)
  BY <1>1, DetectorsFinite, FS_Subset
<1>3. Cardinality(Running) \in Nat
  BY <1>2, FS_CardinalityType
<1> QED
  BY <1>2, <1>3, DetectorsFinite

\* Before the request nothing runs.
LEMMA ScanStarts == ScanInit => ScanInv
<1> SUFFICES ASSUME ScanInit PROVE ScanInv
  OBVIOUS
<1>1. Running = {}
  BY DEF ScanInit, Running
<1>2. Cardinality(Running) = 0
  BY <1>1, FS_EmptySet
<1>3. SlotsOwn /\ Returned
  BY DEF ScanInit, SlotsOwn, Returned
<1> QED
  BY <1>2, <1>3 DEF ScanInit, ScanInv

\* A handler calls Scan.
LEMMA CallScanKeeps ==
    ASSUME ScanInv, NEW q \in Prompts, CallScan(q)
    PROVE  ScanInv'
<1>1. /\ prompt = NoPrompt /\ prompt' = q /\ started' = started /\ wg' = wg
      /\ results' = results /\ score' = score /\ verdict' = verdict /\ started = {}
  BY DEF CallScan, ScanInv
<1>2. \A d \in Detectors : results[d] = -1
  BY <1>1 DEF ScanInv, SlotsOwn
<1>3. SlotsOwn'
  BY <1>1, <1>2 DEF SlotsOwn
<1>4. score = -1
  BY <1>1 DEF ScanInv, Returned
<1>5. Returned'
  BY <1>1, <1>4 DEF ScanInv, Returned
<1>6. Running' = Running
  BY <1>1 DEF Running
<1> QED
  BY <1>1, <1>3, <1>5, <1>6 DEF ScanInv

\* wg.Add comes with the goroutine.
LEMMA StartKeeps ==
    ASSUME ScanInv, NEW d \in Detectors, StartDetector(d)
    PROVE  ScanInv'
<1>1. /\ prompt # NoPrompt /\ d \notin started /\ started' = started \cup {d} /\ wg' = wg + 1
      /\ prompt' = prompt /\ results' = results /\ score' = score /\ verdict' = verdict
  BY DEF StartDetector
<1>2. results[d] = -1
  BY <1>1 DEF ScanInv, SlotsOwn
<1>3. Running' = Running \cup {d} /\ d \notin Running
  BY <1>1, <1>2 DEF Running
<1>4. IsFiniteSet(Running)
  BY AtMostFive DEF ScanInv
<1>5. Cardinality(Running \cup {d}) = Cardinality(Running) + 1
  BY <1>3, <1>4, FS_AddElement
<1>6. SlotsOwn'
  BY <1>1 DEF ScanInv, SlotsOwn
<1>7. Returned'
  BY <1>1 DEF ScanInv, Returned
<1> QED
  BY <1>1, <1>3, <1>5, <1>6, <1>7 DEF ScanInv

\* A detector writes its slot and is done, whatever it found.
LEMMA DetectKeeps ==
    ASSUME ScanInv, NEW d \in Detectors, Detect(d)
    PROVE  ScanInv'
<1>1. /\ d \in started /\ results[d] = -1 /\ wg' = wg - 1
      /\ results' = [results EXCEPT ![d] = Signal(prompt)[d]]
      /\ prompt' = prompt /\ started' = started /\ score' = score /\ verdict' = verdict
  BY DEF Detect, Done
<1>2. prompt \in Prompts
  BY <1>1 DEF ScanInv
<1>3. Signal(prompt) \in [Detectors -> 0..One(prompt)] /\ One(prompt) \in Nat
  BY <1>2, SignalRange, OnePositive
<1>4. Signal(prompt)[d] \in Nat
  BY <1>3
<1>5. Running' = Running \ {d} /\ d \in Running
  BY <1>1, <1>4 DEF Running, ScanInv
<1>6. IsFiniteSet(Running) /\ Cardinality(Running) \in 0..5
  BY AtMostFive DEF ScanInv
<1>7. Cardinality(Running \ {d}) = Cardinality(Running) - 1
  BY <1>5, <1>6, FS_RemoveElement
<1>8. results' \in [Detectors -> Int]
  BY <1>1, <1>4 DEF ScanInv
<1>9. SlotsOwn'
  BY <1>1 DEF ScanInv, SlotsOwn
<1>10. score = -1
  BY <1>1, <1>4 DEF ScanInv, Returned
<1>11. Returned'
  BY <1>1, <1>10 DEF ScanInv, Returned
<1> QED
  BY <1>1, <1>5, <1>7, <1>8, <1>9, <1>11 DEF ScanInv

\* The wait ends when every slot is written.
LEMMA JoinKeeps ==
    ASSUME ScanInv, Join
    PROVE  ScanInv'
<1>1. /\ started = Detectors /\ wg = 0 /\ prompt' = prompt /\ started' = started
      /\ wg' = wg /\ results' = results
      /\ score' \in Round2(Composite(results), One(prompt)) /\ verdict' = Verdict(score')
  BY DEF Join, Waited
<1>2. prompt \in Prompts /\ prompt # NoPrompt
  BY <1>1, FiveDetectors, PromptAssumption DEF ScanInv
<1>3. Running = {}
  <2>1. IsFiniteSet(Running) /\ Cardinality(Running) = 0
    BY <1>1, AtMostFive DEF ScanInv
  <2> QED
    BY <2>1, FS_EmptySet
<1>4. \A d \in Detectors : results[d] = Signal(prompt)[d]
  BY <1>1, <1>3 DEF ScanInv, SlotsOwn, Running
<1>5. /\ Signal(prompt) \in [Detectors -> 0..One(prompt)]
      /\ One(prompt) \in Nat /\ One(prompt) > 0
  BY <1>2, SignalRange, OnePositive
<1>6. results = Signal(prompt)
  BY <1>4, <1>5 DEF ScanInv
<1>7. Composite(results) \in 0..(100 * One(prompt))
  BY <1>5, <1>6, CompositeRange
<1>8. score' \in 0..100
  BY <1>1, <1>5, <1>7, RoundNearest
<1>9. score' # -1
  BY <1>8
<1>10. Returned'
  BY <1>1, <1>2, <1>6, <1>9 DEF Returned
<1>11. SlotsOwn'
  BY <1>1 DEF ScanInv, SlotsOwn
<1>12. Running' = Running
  BY <1>1 DEF Running
<1> QED
  BY <1>1, <1>10, <1>11, <1>12 DEF ScanInv

\* Every step of Scan keeps the invariant.
LEMMA ScanKeeps == ScanInv /\ Scan => ScanInv'
  BY StartKeeps, DetectKeeps, JoinKeeps DEF Scan

\* Steps of others keep it.
LEMMA ScanUnchanged == ScanInv /\ UNCHANGED scanVars => ScanInv'
<1> SUFFICES ASSUME ScanInv, UNCHANGED scanVars PROVE ScanInv'
  OBVIOUS
<1>1. /\ prompt' = prompt /\ started' = started /\ wg' = wg
      /\ results' = results /\ score' = score /\ verdict' = verdict
  BY DEF scanVars
<1>2. Running' = Running /\ SlotsOwn' /\ Returned'
  BY <1>1 DEF Running, ScanInv, SlotsOwn, Returned
<1> QED
  BY <1>1, <1>2 DEF ScanInv

-----------------------------------------------------------------------------
(* What follows from the invariant.                                        *)

\* The numbers behind a score that Scan has returned.
LEMMA ReturnedScore ==
    ASSUME ScanInv, score # -1
    PROVE  /\ prompt \in Prompts /\ results = Signal(prompt)
           /\ results \in [Detectors -> 0..One(prompt)]
           /\ One(prompt) \in Nat /\ One(prompt) > 0
           /\ Composite(results) \in Nat
           /\ score \in 0..100
           /\ 2 * Composite(results) \in ((2 * score - 1) * One(prompt))..((2 * score + 1) * One(prompt))
           /\ verdict = Verdict(score)
<1>1. /\ prompt \in Prompts /\ results = Signal(prompt) /\ verdict = Verdict(score)
      /\ score \in Round2(Composite(results), One(prompt))
  BY DEF ScanInv, Returned
<1>2. results \in [Detectors -> 0..One(prompt)] /\ One(prompt) \in Nat /\ One(prompt) > 0
  BY <1>1, SignalRange, OnePositive
<1>3. Composite(results) \in 0..(100 * One(prompt))
  BY <1>2, CompositeRange
<1>4. Composite(results) \in Nat
  BY <1>3
<1> QED
  BY <1>1, <1>2, <1>3, <1>4, RoundNearest

\* The types of the scanner's state.
LEMMA ScanTyped == ScanInv => ScanTypeOK
<1> SUFFICES ASSUME ScanInv PROVE ScanTypeOK
  OBVIOUS
<1>1. wg \in 0..5
  BY AtMostFive DEF ScanInv
<1>2. prompt # NoPrompt => results \in [Detectors -> -1..One(prompt)]
  <2> SUFFICES ASSUME prompt # NoPrompt, NEW d \in Detectors
               PROVE  results[d] \in -1..One(prompt)
    BY DEF ScanInv
  <2>1. Signal(prompt) \in [Detectors -> 0..One(prompt)] /\ One(prompt) \in Nat
    BY SignalRange, OnePositive DEF ScanInv
  <2>2. results[d] = -1 \/ results[d] \in 0..One(prompt)
    BY <2>1 DEF ScanInv, SlotsOwn
  <2> QED
    BY <2>1, <2>2
<1>3. score \in -1..100 /\ verdict \in {"none", "pass", "tag", "block"}
  <2>1. CASE score = -1
    BY <2>1 DEF ScanInv, Returned
  <2>2. CASE score # -1
    BY <2>2, ReturnedScore DEF Verdict
  <2> QED
    BY <2>1, <2>2
<1> QED
  BY <1>1, <1>2, <1>3 DEF ScanInv, ScanTypeOK

\* The composite is the weighted mean of all five scores.
LEMMA ScanCounts == ScanInv => ScoreCountsAll
<1> SUFFICES ASSUME ScanInv, score >= 0
             PROVE  /\ results = Signal(prompt)
                    /\ 2 * Composite(Signal(prompt)) \in
                           ((2 * score - 1) * One(prompt))..((2 * score + 1) * One(prompt))
  BY DEF ScoreCountsAll
<1>1. score # -1
  OBVIOUS
<1> QED
  BY <1>1, ReturnedScore

\* Behind a block there are two detectors, and a pattern.
LEMMA ScanBlocks == ScanInv => OneSignalNeverBlocks
<1> SUFFICES ASSUME ScanInv, verdict = "block"
             PROVE  /\ Quantify(Detectors, LAMBDA d : results[d] > 0) >= 2
                    /\ \E d \in {"keyword", "structural", "boundary"} : results[d] > 0
  BY DEF OneSignalNeverBlocks
<1>1. score # -1
  BY DEF ScanInv, Returned
<1> DEFINE o == One(prompt)
           c == Composite(results)
<1>2. /\ o \in Nat /\ o > 0 /\ c \in Nat /\ results \in [Detectors -> 0..o]
      /\ score \in 0..100 /\ verdict = Verdict(score)
      /\ 2 * c >= (2 * score - 1) * o
  BY <1>1, ReturnedScore
<1>3. score >= 60
  BY <1>2 DEF Verdict, BlockThreshold, TagThreshold
<1> HIDE DEF o, c
<1>4. 2 * c >= 119 * o
  <2>1. 2 * score - 1 \in Nat /\ 2 * score - 1 >= 119
    BY <1>2, <1>3
  <2>2. (2 * score - 1) * o >= 119 * o
    BY <1>2, <2>1
  <2>3. (2 * score - 1) * o \in Nat
    BY <1>2, <2>1
  <2> QED
    BY <1>2, <2>2, <2>3
<1>5. 30 * o < c /\ 25 * o < c
  BY <1>2, <1>4
<1>6. PICK d \in Detectors, e \in Detectors : d # e /\ results[d] > 0 /\ results[e] > 0
  BY <1>2, <1>5, CompositeRange DEF c
<1>7. \E a \in {"keyword", "structural", "boundary"} : results[a] > 0
  BY <1>2, <1>5, CompositeRange DEF c
<1> DEFINE F == {a \in Detectors : results[a] > 0}
<1>8. Cardinality(F) >= 2
  <2>1. {d, e} \subseteq F
    BY <1>6
  <2>2. IsFiniteSet({d}) /\ Cardinality({d}) = 1
    BY FS_Singleton
  <2>3. Cardinality({d} \cup {e}) = 2
    BY <1>6, <2>2, FS_AddElement
  <2>4. {d, e} = {d} \cup {e}
    OBVIOUS
  <2>5. IsFiniteSet(F)
    BY DetectorsFinite, FS_Subset
  <2>6. Cardinality({d, e}) <= Cardinality(F)
    BY <2>1, <2>5, FS_Subset
  <2>7. Cardinality(F) \in Nat
    BY <2>5, FS_CardinalityType
  <2> QED
    BY <2>3, <2>4, <2>6, <2>7
<1>9. Quantify(Detectors, LAMBDA a : results[a] > 0) = Cardinality(F)
  BY DEF Quantify
<1> QED
  BY <1>7, <1>8, <1>9

=============================================================================
