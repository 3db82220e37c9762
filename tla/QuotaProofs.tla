----------------------------- MODULE QuotaProofs -----------------------------
(***************************************************************************)
(* Proofs about the daily quota: the types, how far a day's counter can    *)
(* run over the limit, and when it expires, for every number of concurrent *)
(* requests, every limit, every cost of a completion, every length of a    *)
(* day and any number of faults.                                           *)
(***************************************************************************)
EXTENDS Quota, FiniteSetTheorems, TLAPS

\* The highest counter that the check still lets pass.
Base == IF Limit > 1 THEN Limit - 1 ELSE 0

\* The requests that can still add to the counter of day d.
InFlight(d) ==
    {p \in Proc : \/ st[p] \in {"running", "answered"} /\ day <= d
                  \/ st[p] = "adding" /\ dayKey[p] = d}

\* A request adds to the counter of a day that has begun.
AddsToPast == \A p \in Proc : st[p] = "adding" => dayKey[p] <= day

FutureIsUnused == \A d \in Days : day < d => total[d] = 0

\* The counter, together with what the requests in flight may still add.
Reserved ==
    \A d \in Days :
        total[d] + MaxTokens * Cardinality(InFlight(d))
            <= Base + MaxTokens * (Cardinality(Proc) + excess)

IndInv == TypeOK /\ AddsToPast /\ FutureIsUnused /\ Reserved

-----------------------------------------------------------------------------

\* The requests in flight are finitely many, at most all.
LEMMA InFlightFinite ==
    ASSUME NEW d, TypeOK
    PROVE  /\ IsFiniteSet(Proc) /\ Cardinality(Proc) \in Nat
           /\ IsFiniteSet(InFlight(d)) /\ Cardinality(InFlight(d)) \in Nat
           /\ Cardinality(InFlight(d)) <= Cardinality(Proc)
<1>1. IsFiniteSet(Proc)
  BY QuotaAssumption
<1>2. InFlight(d) \subseteq Proc
  BY DEF InFlight
<1> QED
  BY <1>1, <1>2, FS_Subset, FS_CardinalityType

\* Multiplication by the cost of a completion is monotone and distributes.
LEMMA Times ==
    ASSUME NEW T \in Nat, NEW a \in Nat, NEW b \in Nat
    PROVE  /\ T * a \in Nat
           /\ a <= b => T * a <= T * b
           /\ T * (a + 1) = T * a + T
           /\ T * (a + b) = T * a + T * b
  BY SMT

\* The specification's initial states satisfy the invariant.
LEMMA IndInvInit == Init => IndInv
<1> SUFFICES ASSUME Init PROVE IndInv
  OBVIOUS
<1> USE QuotaAssumption
<1>1. TypeOK
  BY DEF Init, TypeOK, Days, Stages
<1>2. AddsToPast
  BY DEF Init, AddsToPast
<1>3. FutureIsUnused
  BY DEF Init, FutureIsUnused
<1>4. Reserved
  <2> SUFFICES ASSUME NEW d \in Days
               PROVE  total[d] + MaxTokens * Cardinality(InFlight(d))
                         <= Base + MaxTokens * (Cardinality(Proc) + excess)
    BY DEF Reserved
  <2>1. InFlight(d) = {}
    BY DEF Init, InFlight
  <2>2. Cardinality(InFlight(d)) = 0
    BY <2>1, FS_EmptySet
  <2>3. Cardinality(Proc) \in Nat
    BY FS_CardinalityType
  <2>4. MaxTokens * 0 = 0 /\ MaxTokens * (Cardinality(Proc) + 0) \in Nat
    BY <2>3, Times
  <2>5. Base \in Nat
    BY DEF Base
  <2> QED
    BY <2>2, <2>4, <2>5 DEF Init
<1> QED
  BY <1>1, <1>2, <1>3, <1>4 DEF IndInv

-----------------------------------------------------------------------------
(* How one day's bound survives a step, as facts about numbers and sets: v *)
(* and w are the counter before and after, S and R the requests in flight, *)
(* e and f the excess.                                                     *)

WithinBound(v, S, e) ==
    v + MaxTokens * Cardinality(S) <= Base + MaxTokens * (Cardinality(Proc) + e)

\* Nothing is added and nobody joins.
LEMMA BoundKept ==
    ASSUME NEW v \in Nat, NEW w \in Nat, NEW e \in Nat, NEW f \in Nat,
           NEW S \in SUBSET Proc, NEW R \in SUBSET S,
           WithinBound(v, S, e), w <= v, e <= f
    PROVE  WithinBound(w, R, f)
<1> USE QuotaAssumption
<1>1. IsFiniteSet(S) /\ IsFiniteSet(R) /\ Cardinality(R) <= Cardinality(S)
  BY FS_Subset
<1>2. Cardinality(S) \in Nat /\ Cardinality(R) \in Nat /\ Cardinality(Proc) \in Nat
  BY <1>1, FS_CardinalityType
<1>3. MaxTokens * Cardinality(R) <= MaxTokens * Cardinality(S)
  BY <1>1, <1>2, Times
<1>4. MaxTokens * (Cardinality(Proc) + e) <= MaxTokens * (Cardinality(Proc) + f)
  BY <1>2, Times
<1>5. Base \in Nat
  BY DEF Base
<1>6. /\ MaxTokens * Cardinality(R) \in Nat
      /\ MaxTokens * Cardinality(S) \in Nat
      /\ MaxTokens * (Cardinality(Proc) + e) \in Nat
      /\ MaxTokens * (Cardinality(Proc) + f) \in Nat
  BY <1>2, Times
<1> QED
  BY <1>3, <1>4, <1>5, <1>6 DEF WithinBound

\* Somebody joins without a check.
LEMMA BoundExtended ==
    ASSUME NEW v \in Nat, NEW e \in Nat, NEW p \in Proc,
           NEW S \in SUBSET Proc, NEW R \in SUBSET (S \cup {p}),
           WithinBound(v, S, e)
    PROVE  WithinBound(v, R, e + 1)
<1> USE QuotaAssumption
<1>1. IsFiniteSet(S) /\ IsFiniteSet(S \cup {p})
  BY FS_Subset, FS_AddElement
<1>2. IsFiniteSet(R) /\ Cardinality(R) <= Cardinality(S \cup {p})
  BY <1>1, FS_Subset
<1>3. Cardinality(S) \in Nat /\ Cardinality(R) \in Nat /\ Cardinality(Proc) \in Nat
  BY <1>1, <1>2, FS_CardinalityType
<1>4. Cardinality(R) <= Cardinality(S) + 1
  BY <1>1, <1>2, <1>3, FS_AddElement
<1>5. MaxTokens * Cardinality(R) <= MaxTokens * (Cardinality(S) + 1)
  BY <1>3, <1>4, Times
<1>6. MaxTokens * (Cardinality(S) + 1) = MaxTokens * Cardinality(S) + MaxTokens
  BY <1>3, Times
<1>7. MaxTokens * ((Cardinality(Proc) + e) + 1) = MaxTokens * (Cardinality(Proc) + e) + MaxTokens
  BY <1>3, Times
<1>8. (Cardinality(Proc) + e) + 1 = Cardinality(Proc) + (e + 1)
  BY <1>3
<1>9. Base \in Nat
  BY DEF Base
<1>10. /\ MaxTokens * Cardinality(R) \in Nat
       /\ MaxTokens * Cardinality(S) \in Nat
       /\ MaxTokens * (Cardinality(Proc) + e) \in Nat
  BY <1>3, Times
<1> QED
  BY <1>5, <1>6, <1>7, <1>8, <1>9, <1>10 DEF WithinBound

\* Somebody leaves, having added what it may, once or twice.
LEMMA BoundSpent ==
    ASSUME NEW v \in Nat, NEW n \in 1..MaxTokens, NEW e \in Nat, NEW p \in Proc,
           NEW S \in SUBSET Proc, p \in S, NEW R \in SUBSET (S \ {p}),
           WithinBound(v, S, e)
    PROVE  WithinBound(v + n, R, e) /\ WithinBound(v + 2 * n, R, e + 1)
<1> USE QuotaAssumption
<1>1. IsFiniteSet(S) /\ IsFiniteSet(S \ {p})
  BY FS_Subset, FS_RemoveElement
<1>2. IsFiniteSet(R) /\ Cardinality(R) <= Cardinality(S \ {p})
  BY <1>1, FS_Subset
<1>3. Cardinality(S) \in Nat /\ Cardinality(R) \in Nat /\ Cardinality(Proc) \in Nat
  BY <1>1, <1>2, FS_CardinalityType
<1>4. Cardinality(R) + 1 <= Cardinality(S)
  BY <1>1, <1>2, <1>3, FS_RemoveElement
<1>5. MaxTokens * (Cardinality(R) + 1) <= MaxTokens * Cardinality(S)
  BY <1>3, <1>4, Times
<1>6. MaxTokens * (Cardinality(R) + 1) = MaxTokens * Cardinality(R) + MaxTokens
  BY <1>3, Times
<1>7. MaxTokens * ((Cardinality(Proc) + e) + 1) = MaxTokens * (Cardinality(Proc) + e) + MaxTokens
  BY <1>3, Times
<1>8. (Cardinality(Proc) + e) + 1 = Cardinality(Proc) + (e + 1)
  BY <1>3
<1>9. Base \in Nat
  BY DEF Base
<1>10. /\ MaxTokens * Cardinality(R) \in Nat
       /\ MaxTokens * Cardinality(S) \in Nat
       /\ MaxTokens * (Cardinality(Proc) + e) \in Nat
  BY <1>3, Times
<1> QED
  BY <1>5, <1>6, <1>7, <1>8, <1>9, <1>10 DEF WithinBound

\* A counter that passes the check leaves room for every request.
LEMMA BoundOfPassing ==
    ASSUME NEW v \in Nat, NEW e \in Nat, NEW R \in SUBSET Proc, UnderLimit(v)
    PROVE  WithinBound(v, R, e)
<1> USE QuotaAssumption
<1>1. IsFiniteSet(R) /\ Cardinality(R) <= Cardinality(Proc)
  BY FS_Subset
<1>2. Cardinality(R) \in Nat /\ Cardinality(Proc) \in Nat
  BY <1>1, FS_CardinalityType
<1>3. MaxTokens * Cardinality(R) <= MaxTokens * (Cardinality(Proc) + e)
  BY <1>1, <1>2, Times
<1>4. v <= Base /\ Base \in Nat
  BY DEF UnderLimit, Base
<1>5. MaxTokens * Cardinality(R) \in Nat /\ MaxTokens * (Cardinality(Proc) + e) \in Nat
  BY <1>2, Times
<1> QED
  BY <1>3, <1>4, <1>5 DEF WithinBound

-----------------------------------------------------------------------------

\* What a fault and the provider's consumption do to the counters.
LEMMA CounterTypes ==
    ASSUME TypeOK
    PROVE  /\ Fault => /\ faults' \in 0..MaxFaults
                       /\ excess \in 0..faults' /\ excess + 1 \in 0..faults'
           /\ \A n \in 1..MaxTokens : Consume(n) => used' \in Nat
  BY QuotaAssumption DEF TypeOK, Fault, Consume

\* What a lapse of an hour leaves of a counter and of its TTL.
LEMMA HourTypes == TypeOK /\ Hour => total' \in [Days -> Nat] /\ ttl' \in [Days -> 0..(DayLen + 1)]
  BY QuotaAssumption DEF TypeOK, Hour

\* No step leaves the types.
LEMMA TypeStep == TypeOK /\ [Next]_vars => TypeOK'
<1> SUFFICES ASSUME TypeOK, [Next]_vars PROVE TypeOK'
  OBVIOUS
<1> USE QuotaAssumption DEF TypeOK, Days, Stages, Go, time, redis
<1>1. ASSUME NEW p \in Proc, NEW k \in Kinds, CheckPasses(p, k) PROVE TypeOK'
  BY <1>1 DEF CheckPasses
<1>2. ASSUME NEW p \in Proc, CheckDenies(p) PROVE TypeOK'
  BY <1>2 DEF CheckDenies
<1>3. ASSUME NEW p \in Proc, NEW k \in Kinds, CheckErrs(p, k) PROVE TypeOK'
  BY <1>3, CounterTypes DEF CheckErrs
<1>4. ASSUME NEW p \in Proc, Rejected(p) PROVE TypeOK'
  BY <1>4 DEF Rejected
<1>5. ASSUME NEW p \in Proc, NEW n \in 1..MaxTokens, Answered(p, n) PROVE TypeOK'
  BY <1>5, CounterTypes DEF Answered
<1>6. ASSUME NEW p \in Proc, NEW n \in 1..MaxTokens, Streamed(p, n) PROVE TypeOK'
  BY <1>6, CounterTypes DEF Streamed
<1>7. ASSUME NEW p \in Proc, AddStarts(p) PROVE TypeOK'
  BY <1>7 DEF AddStarts
<1>8. ASSUME NEW p \in Proc, IncrBy(p) PROVE TypeOK'
  <2>1. total' \in [Days -> Nat]
    BY <1>8 DEF IncrBy, Increment
  <2>2. st' \in [Proc -> Stages]
    BY <1>8 DEF IncrBy, Increment
  <2> QED
    BY <1>8, <2>1, <2>2 DEF IncrBy
<1>9. ASSUME NEW p \in Proc, IncrByTwice(p) PROVE TypeOK'
  <2>1. total' \in [Days -> Nat]
    BY <1>9 DEF IncrByTwice, Increment
  <2>2. st' \in [Proc -> Stages]
    BY <1>9 DEF IncrByTwice, Increment
  <2> QED
    BY <1>9, <2>1, <2>2, CounterTypes DEF IncrByTwice
<1>10. ASSUME NEW p \in Proc, IncrByErrs(p) PROVE TypeOK'
  BY <1>10, CounterTypes DEF IncrByErrs
<1>11. ASSUME NEW p \in Proc, Expire(p) PROVE TypeOK'
  <2>1. ttl' \in [Days -> 0..(DayLen + 1)]
    BY <1>11 DEF Expire, KeyTTL
  <2> QED
    BY <1>11, <2>1 DEF Expire
<1>12. ASSUME NEW p \in Proc, ExpireErrs(p) PROVE TypeOK'
  BY <1>12, CounterTypes DEF ExpireErrs
<1>13. ASSUME Hour PROVE TypeOK'
  <2>1. day' \in Days /\ hour' \in 0..(DayLen - 1)
    BY <1>13 DEF Hour
  <2> QED
    BY <1>13, <2>1, HourTypes DEF Hour
<1>14. ASSUME UNCHANGED vars PROVE TypeOK'
  BY <1>14 DEF vars
<1> QED
  BY <1>1, <1>2, <1>3, <1>4, <1>5, <1>6, <1>7, <1>8, <1>9, <1>10, <1>11, <1>12,
     <1>13, <1>14 DEF Next

\* A request's additions stay in days that have begun.
LEMMA PastStep ==
    TypeOK /\ AddsToPast /\ FutureIsUnused /\ [Next]_vars => AddsToPast' /\ FutureIsUnused'
<1> SUFFICES ASSUME TypeOK, AddsToPast, FutureIsUnused, [Next]_vars
             PROVE  AddsToPast' /\ FutureIsUnused'
  OBVIOUS
<1> USE QuotaAssumption DEF TypeOK, AddsToPast, FutureIsUnused, Days, Go, time, redis
<1>1. ASSUME NEW p \in Proc, NEW k \in Kinds, CheckPasses(p, k) \/ CheckErrs(p, k)
      PROVE  AddsToPast' /\ FutureIsUnused'
  BY <1>1 DEF CheckPasses, CheckErrs
<1>2. ASSUME NEW p \in Proc, CheckDenies(p) \/ Rejected(p)
      PROVE  AddsToPast' /\ FutureIsUnused'
  BY <1>2 DEF CheckDenies, Rejected
<1>3. ASSUME NEW p \in Proc, NEW n \in 1..MaxTokens, Answered(p, n) \/ Streamed(p, n)
      PROVE  AddsToPast' /\ FutureIsUnused'
  BY <1>3 DEF Answered, Streamed
<1>4. ASSUME NEW p \in Proc, AddStarts(p)
      PROVE  AddsToPast' /\ FutureIsUnused'
  BY <1>4 DEF AddStarts
<1>5. ASSUME NEW p \in Proc, IncrBy(p)
      PROVE  AddsToPast' /\ FutureIsUnused'
  <2>1. AddsToPast'
    BY <1>5 DEF IncrBy, Increment
  <2>2. day' = day /\ dayKey[p] <= day /\ dayKey[p] \in Days
    BY <1>5 DEF IncrBy, Increment
  <2>3. \A d \in Days : d # dayKey[p] => total'[d] = total[d]
    BY <1>5 DEF IncrBy, Increment
  <2>4. FutureIsUnused'
    <3> SUFFICES ASSUME NEW d \in Days, day' < d PROVE total'[d] = 0
      OBVIOUS
    <3>1. day < d /\ d # dayKey[p]
      BY <2>2
    <3> QED
      BY <2>3, <3>1
  <2> QED
    BY <2>1, <2>4
<1>6. ASSUME NEW p \in Proc, IncrByTwice(p)
      PROVE  AddsToPast' /\ FutureIsUnused'
  <2>1. AddsToPast'
    BY <1>6 DEF IncrByTwice, Increment
  <2>2. day' = day /\ dayKey[p] <= day /\ dayKey[p] \in Days
    BY <1>6 DEF IncrByTwice, Increment
  <2>3. \A d \in Days : d # dayKey[p] => total'[d] = total[d]
    BY <1>6 DEF IncrByTwice, Increment
  <2>4. FutureIsUnused'
    <3> SUFFICES ASSUME NEW d \in Days, day' < d PROVE total'[d] = 0
      OBVIOUS
    <3>1. day < d /\ d # dayKey[p]
      BY <2>2
    <3> QED
      BY <2>3, <3>1
  <2> QED
    BY <2>1, <2>4
<1>7. ASSUME NEW p \in Proc, IncrByErrs(p) \/ Expire(p) \/ ExpireErrs(p)
      PROVE  AddsToPast' /\ FutureIsUnused'
  BY <1>7 DEF IncrByErrs, Expire, ExpireErrs
<1>8. ASSUME Hour
      PROVE  AddsToPast' /\ FutureIsUnused'
  <2>1. day <= day' /\ st' = st /\ dayKey' = dayKey
    BY <1>8 DEF Hour
  <2>2. \A d \in Days : total[d] = 0 => total'[d] = 0
    BY <1>8 DEF Hour
  <2>3. day' \in Days
    BY <1>8 DEF Hour
  <2> QED
    BY <2>1, <2>2, <2>3
<1>9. ASSUME UNCHANGED vars
      PROVE  AddsToPast' /\ FutureIsUnused'
  BY <1>9 DEF vars
<1> QED
  BY <1>1, <1>2, <1>3, <1>4, <1>5, <1>6, <1>7, <1>8, <1>9 DEF Next

\* The bound is kept by every step.
LEMMA ReservedStep == IndInv /\ [Next]_vars => Reserved'
<1> SUFFICES ASSUME IndInv, [Next]_vars, NEW d \in Days
             PROVE  WithinBound(total[d], InFlight(d), excess)'
  BY DEF Reserved, WithinBound
<1> DEFINE Goal == WithinBound(total'[d], InFlight(d)', excess')
<1> HIDE DEF Goal
<1> SUFFICES Goal
  BY DEF Goal, WithinBound
<1>1. TypeOK /\ TypeOK'
  BY TypeStep DEF IndInv
<1>2. /\ total[d] \in Nat /\ total'[d] \in Nat
      /\ excess \in Nat /\ excess' \in Nat
  BY <1>1, QuotaAssumption DEF TypeOK
<1>3. InFlight(d) \in SUBSET Proc /\ InFlight(d)' \in SUBSET Proc
  BY DEF InFlight
<1>4. WithinBound(total[d], InFlight(d), excess)
  BY DEF IndInv, Reserved, WithinBound
<1>5. AddsToPast /\ FutureIsUnused
  BY DEF IndInv
<1>6. /\ day \in Int /\ d \in Int
      /\ \A p \in Proc : dayKey[p] \in Days
      /\ DOMAIN st = Proc /\ DOMAIN dayKey = Proc /\ DOMAIN total = Days
  BY <1>1 DEF TypeOK, Days
<1>7. ASSUME InFlight(d)' \subseteq InFlight(d), total'[d] <= total[d], excess <= excess'
      PROVE  Goal
  BY <1>2, <1>3, <1>4, <1>7, BoundKept DEF Goal
<1>8. ASSUME total'[d] = total[d], UnderLimit(total[d]) PROVE Goal
  BY <1>2, <1>3, <1>8, BoundOfPassing DEF Goal
<1>9. ASSUME NEW p \in Proc, NEW k \in Kinds, CheckPasses(p, k) PROVE Goal
  <2>1. total' = total /\ excess' = excess
    BY <1>9 DEF CheckPasses, redis
  <2>2. CASE d < day
    <3>1. InFlight(d)' \subseteq InFlight(d)
      BY <1>9, <1>6, <2>2 DEF CheckPasses, Go, InFlight, time
    <3> QED
      BY <1>7, <1>2, <2>1, <3>1
  <2>3. CASE d = day
    BY <1>8, <1>9, <2>1, <2>3 DEF CheckPasses
  <2>4. CASE day < d
    BY <1>8, <1>5, <2>1, <2>4 DEF FutureIsUnused, UnderLimit
  <2> QED
    BY <2>2, <2>3, <2>4, <1>6
<1>10. ASSUME NEW p \in Proc, NEW k \in Kinds, CheckErrs(p, k) PROVE Goal
  <2>1. InFlight(d)' \subseteq InFlight(d) \cup {p}
    BY <1>10, <1>6 DEF CheckErrs, Go, InFlight, time
  <2>2. total'[d] = total[d] /\ excess' = excess + 1
    BY <1>10 DEF CheckErrs, redis
  <2> QED
    BY <1>2, <1>3, <1>4, <2>1, <2>2, BoundExtended DEF Goal
<1>11. ASSUME NEW p \in Proc, CheckDenies(p) \/ Rejected(p) PROVE Goal
  <2>1. InFlight(d)' \subseteq InFlight(d)
    BY <1>11, <1>6 DEF CheckDenies, Rejected, Go, InFlight, time
  <2>2. total' = total /\ excess' = excess
    BY <1>11 DEF CheckDenies, Rejected, redis
  <2> QED
    BY <1>2, <1>7, <2>1, <2>2
<1>12. ASSUME NEW p \in Proc, NEW n \in 1..MaxTokens, Answered(p, n) \/ Streamed(p, n)
       PROVE  Goal
  <2>1. InFlight(d)' \subseteq InFlight(d)
    BY <1>12, <1>6 DEF Answered, Streamed, Go, InFlight, time
  <2>2. total' = total /\ excess' = excess
    BY <1>12 DEF Answered, Streamed, redis
  <2> QED
    BY <1>2, <1>7, <2>1, <2>2
<1>13. ASSUME NEW p \in Proc, AddStarts(p) PROVE Goal
  <2>1. InFlight(d)' \subseteq InFlight(d)
    BY <1>13, <1>6 DEF AddStarts, Go, InFlight, time
  <2>2. total' = total /\ excess' = excess
    BY <1>13 DEF AddStarts, redis
  <2> QED
    BY <1>2, <1>7, <2>1, <2>2
<1>14. ASSUME NEW p \in Proc, st[p] = "adding", day' = day, dayKey' = dayKey,
              NEW s \in {"created", "idle"}, Go(p, s)
       PROVE  /\ InFlight(d)' \subseteq InFlight(d)
              /\ dayKey[p] = d => p \in InFlight(d) /\ p \notin InFlight(d)'
  BY <1>14, <1>6 DEF Go, InFlight
<1>15. ASSUME NEW p \in Proc, NEW times \in {1, 2}, Increment(p, times),
              day' = day, dayKey' = dayKey, excess' = excess + times - 1
       PROVE  Goal
  <2>1. /\ InFlight(d)' \subseteq InFlight(d)
        /\ dayKey[p] = d => p \in InFlight(d) /\ p \notin InFlight(d)'
    BY <1>14, <1>15 DEF Increment
  <2>2. CASE dayKey[p] = d
    <3>1. total'[d] = total[d] + times * need[p]
      BY <1>15, <1>6, <2>2 DEF Increment
    <3>2. need[p] \in 1..MaxTokens
      BY <1>1 DEF TypeOK
    <3>3. /\ WithinBound(total[d] + need[p], InFlight(d)', excess)
          /\ WithinBound(total[d] + 2 * need[p], InFlight(d)', excess + 1)
      <4>1. InFlight(d)' \in SUBSET (InFlight(d) \ {p}) /\ p \in InFlight(d)
        BY <2>1, <2>2
      <4> QED
        BY <1>2, <1>3, <1>4, <3>2, <4>1, BoundSpent
    <3>4. CASE times = 1
      <4>1. total'[d] = total[d] + need[p] /\ excess' = excess
        BY <1>15, <1>2, <3>1, <3>2, <3>4
      <4> QED
        BY <4>1, <3>3 DEF Goal
    <3>5. CASE times = 2
      <4>1. total'[d] = total[d] + 2 * need[p] /\ excess' = excess + 1
        BY <1>15, <1>2, <3>1, <3>2, <3>5
      <4> QED
        BY <4>1, <3>3 DEF Goal
    <3> QED
      BY <1>15, <3>4, <3>5
  <2>3. CASE dayKey[p] # d
    <3>1. total'[d] = total[d]
      BY <1>15, <1>6, <2>3 DEF Increment
    <3> QED
      BY <1>2, <1>7, <1>15, <2>1, <3>1
  <2> QED
    BY <2>2, <2>3
<1>16. ASSUME NEW p \in Proc, IncrBy(p) PROVE Goal
  BY <1>15, <1>16, <1>2 DEF IncrBy, time
<1>17. ASSUME NEW p \in Proc, IncrByTwice(p) PROVE Goal
  BY <1>15, <1>17, <1>2 DEF IncrByTwice, time
<1>18. ASSUME NEW p \in Proc, IncrByErrs(p) PROVE Goal
  <2>1. InFlight(d)' \subseteq InFlight(d)
    BY <1>14, <1>18 DEF IncrByErrs, time
  <2>2. total' = total /\ excess' = excess
    BY <1>18 DEF IncrByErrs, redis
  <2> QED
    BY <1>2, <1>7, <2>1, <2>2
<1>19. ASSUME NEW p \in Proc, Expire(p) \/ ExpireErrs(p) PROVE Goal
  <2>1. InFlight(d)' \subseteq InFlight(d)
    BY <1>19, <1>6 DEF Expire, ExpireErrs, Go, InFlight, time
  <2>2. total' = total /\ excess' = excess
    BY <1>19 DEF Expire, ExpireErrs, redis
  <2> QED
    BY <1>2, <1>7, <2>1, <2>2
<1>20. ASSUME Hour PROVE Goal
  <2>1. day <= day'
    BY <1>20, <1>6 DEF Hour
  <2>2. st' = st /\ dayKey' = dayKey /\ excess' = excess
    BY <1>20 DEF Hour
  <2>3. InFlight(d)' \subseteq InFlight(d)
    <3>1. day' \in Int
      BY <1>1 DEF TypeOK, Days
    <3> QED
      BY <1>6, <2>1, <2>2, <3>1 DEF InFlight
  <2>4. total'[d] <= total[d]
    BY <1>2, <1>20 DEF Hour
  <2> QED
    BY <1>2, <1>7, <2>2, <2>3, <2>4
<1>21. ASSUME UNCHANGED vars PROVE Goal
  <2>1. InFlight(d)' = InFlight(d)
    BY <1>21 DEF vars, time, InFlight
  <2>2. total' = total /\ excess' = excess
    BY <1>21 DEF vars, redis
  <2> QED
    BY <1>2, <1>7, <2>1, <2>2
<1> QED
  BY <1>9, <1>10, <1>11, <1>12, <1>13, <1>16, <1>17, <1>18, <1>19, <1>20, <1>21 DEF Next

-----------------------------------------------------------------------------

\* The strengthened invariant holds throughout: the counter of every day,
\* together with what the requests in flight may still add to it, is bounded.
THEOREM QuotaInvariant == Spec => []IndInv
<1>1. IndInv /\ [Next]_vars => IndInv'
  BY TypeStep, PastStep, ReservedStep DEF IndInv
<1> QED
  BY <1>1, IndInvInit, PTL DEF Spec

\* The types of quota.go's counters and of the requests' state, always.
THEOREM QuotaTypeCorrect == Spec => []TypeOK
  BY QuotaInvariant, PTL DEF IndInv

\* However many requests pass the check of quota.go before the first of them
\* adds its tokens, a day's counter never exceeds the last passing value by more
\* than one completion for each concurrent request and for each fault.
THEOREM QuotaOverrunBounded == Spec => []QuotaBound
<1>1. IndInv => QuotaBound
  <2> SUFFICES ASSUME IndInv, NEW d \in Days
               PROVE  total[d] <= Base + MaxTokens * (Cardinality(Proc) + excess)
    BY DEF QuotaBound, Base
  <2>1. TypeOK
    BY DEF IndInv
  <2>2. Cardinality(InFlight(d)) \in Nat /\ Cardinality(Proc) \in Nat
    BY <2>1, InFlightFinite
  <2>3. excess \in Nat /\ total[d] \in Nat
    BY <2>1, QuotaAssumption DEF TypeOK
  <2>4. /\ MaxTokens * Cardinality(InFlight(d)) \in Nat
        /\ MaxTokens * (Cardinality(Proc) + excess) \in Nat
    BY <2>2, <2>3, QuotaAssumption, Times
  <2>5. Base \in Nat
    BY QuotaAssumption DEF Base
  <2>6. total[d] + MaxTokens * Cardinality(InFlight(d))
            <= Base + MaxTokens * (Cardinality(Proc) + excess)
    BY DEF IndInv, Reserved
  <2> QED
    BY <2>3, <2>4, <2>5, <2>6
<1> QED
  BY <1>1, QuotaInvariant, PTL

-----------------------------------------------------------------------------
(* The expiry of a key.                                                    *)

\* The key that a request has created is one of a day that has begun.
CreatedInPast == \A p \in Proc : st[p] = "created" => dayKey[p] <= day

\* A TTL that has been set on today's key reaches past midnight.
TTLPastDay ==
    \A d \in Days : ttl[d] > 0 => d < day \/ (d = day /\ ttl[d] + hour > DayLen)

ExpiryInv == CreatedInPast /\ TTLPastDay /\ KeyHasTTL

\* No day has a key at first.
LEMMA ExpiryInit == Init => ExpiryInv
<1> SUFFICES ASSUME Init PROVE ExpiryInv
  OBVIOUS
<1>1. CreatedInPast
  BY DEF Init, CreatedInPast
<1>2. TTLPastDay
  BY DEF Init, TTLPastDay
<1>3. KeyHasTTL
  BY DEF Init, KeyHasTTL, KeyAlwaysHasTTL
<1> QED
  BY <1>1, <1>2, <1>3 DEF ExpiryInv

\* The clock's values are numbers that can be compared.
LEMMA ClockTypes ==
    /\ \A d \in Days : d \in Int
    /\ TypeOK => day \in Int /\ hour \in Int /\ hour < DayLen
    /\ TypeOK' => day' \in Int /\ hour' \in Int
  BY QuotaAssumption DEF TypeOK, Days

\* The creator of a key stays in the past, and a TTL past midnight.
LEMMA PastMidnightStep ==
    IndInv /\ CreatedInPast /\ TTLPastDay /\ [Next]_vars => CreatedInPast' /\ TTLPastDay'
<1> SUFFICES ASSUME IndInv, CreatedInPast, TTLPastDay, [Next]_vars
             PROVE  CreatedInPast' /\ TTLPastDay'
  OBVIOUS
<1>1. TypeOK /\ TypeOK' /\ AddsToPast
  BY TypeStep DEF IndInv
<1> USE QuotaAssumption, <1>1 DEF CreatedInPast, TTLPastDay
<1>2. /\ DOMAIN st = Proc /\ DOMAIN dayKey = Proc /\ DOMAIN ttl = Days
      /\ day \in Int /\ hour \in Int /\ hour < DayLen /\ day' \in Int /\ hour' \in Int
      /\ \A d \in Days : d \in Int /\ ttl[d] \in Int /\ ttl[d] >= 0
      /\ \A p \in Proc : dayKey[p] \in Days
  BY ClockTypes DEF TypeOK
<1>3. ASSUME time' = time, ttl' = ttl, NEW p \in Proc, NEW s \in Stages, Go(p, s),
             s # "created" \/ st[p] = "adding",
             dayKey' = dayKey \/ (s = "adding" /\ dayKey' = [dayKey EXCEPT ![p] = day])
      PROVE  CreatedInPast' /\ TTLPastDay'
  <2>1. TTLPastDay'
    BY <1>3 DEF time
  <2>2. ASSUME NEW q \in Proc, st'[q] = "created" PROVE dayKey'[q] <= day'
    BY <1>2, <1>3, <2>2 DEF time, Go, AddsToPast
  <2> QED
    BY <2>1, <2>2
<1>4. ASSUME NEW p \in Proc, NEW k \in Kinds, CheckPasses(p, k) \/ CheckErrs(p, k)
      PROVE  CreatedInPast' /\ TTLPastDay'
  BY <1>3, <1>4 DEF CheckPasses, CheckErrs, redis, Stages
<1>5. ASSUME NEW p \in Proc, CheckDenies(p) \/ Rejected(p)
      PROVE  CreatedInPast' /\ TTLPastDay'
  BY <1>3, <1>5 DEF CheckDenies, Rejected, redis, Stages
<1>6. ASSUME NEW p \in Proc, NEW n \in 1..MaxTokens, Answered(p, n) \/ Streamed(p, n)
      PROVE  CreatedInPast' /\ TTLPastDay'
  BY <1>3, <1>6 DEF Answered, Streamed, redis, Stages
<1>7. ASSUME NEW p \in Proc, AddStarts(p) \/ IncrByErrs(p) \/ ExpireErrs(p)
      PROVE  CreatedInPast' /\ TTLPastDay'
  BY <1>3, <1>7 DEF AddStarts, IncrByErrs, ExpireErrs, redis, Stages
<1>8. ASSUME NEW p \in Proc, IncrBy(p) \/ IncrByTwice(p)
      PROVE  CreatedInPast' /\ TTLPastDay'
  BY <1>3, <1>8 DEF IncrBy, IncrByTwice, Increment, Stages
<1>9. ASSUME NEW p \in Proc, Expire(p)
      PROVE  CreatedInPast' /\ TTLPastDay'
  <2>1. CreatedInPast'
    BY <1>2, <1>9 DEF Expire, Go, time
  <2>2. dayKey[p] <= day /\ day' = day /\ hour' = hour
    BY <1>9 DEF Expire, time
  <2>3. ASSUME NEW d \in Days, ttl'[d] > 0
        PROVE  d < day' \/ (d = day' /\ ttl'[d] + hour' > DayLen)
    <3>1. CASE d = dayKey[p]
      <4>1. ttl'[d] = KeyTTL
        BY <1>2, <1>9, <2>3, <3>1 DEF Expire
      <4>2. hour >= 0
        BY DEF TypeOK
      <4> QED
        BY <1>2, <2>2, <3>1, <4>1, <4>2 DEF KeyTTL
    <3>2. CASE d # dayKey[p]
      <4>1. ttl'[d] = ttl[d]
        BY <1>2, <1>9, <3>2 DEF Expire
      <4> QED
        BY <2>2, <2>3, <4>1
    <3> QED
      BY <3>1, <3>2
  <2> QED
    BY <2>1, <2>3
<1>10. ASSUME Hour
       PROVE  CreatedInPast' /\ TTLPastDay'
  <2>1. /\ day <= day' /\ st' = st /\ dayKey' = dayKey
        /\ \/ hour' = hour + 1 /\ day' = day
           \/ day' = day + 1
    BY <1>2, <1>10 DEF Hour
  <2>2. CreatedInPast'
    BY <1>2, <2>1
  <2>3. ASSUME NEW d \in Days, ttl'[d] > 0
        PROVE  d < day' \/ (d = day' /\ ttl'[d] + hour' > DayLen)
    <3>1. ttl[d] > 0 /\ ttl'[d] = ttl[d] - 1
      BY <1>2, <1>10, <2>3 DEF Hour
    <3> QED
      BY <1>2, <2>1, <3>1
  <2> QED
    BY <2>2, <2>3
<1>11. ASSUME UNCHANGED vars
       PROVE  CreatedInPast' /\ TTLPastDay'
  BY <1>11 DEF vars, time, redis
<1> QED
  BY <1>4, <1>5, <1>6, <1>7, <1>8, <1>9, <1>10, <1>11 DEF Next

\* While nothing fails, a key without a TTL keeps its creator.
LEMMA CreatorStep == TypeOK /\ KeyHasTTL /\ [Next]_vars => KeyHasTTL'
<1> SUFFICES ASSUME TypeOK, KeyHasTTL, [Next]_vars, faults' = 0, NEW d \in Days,
                    total'[d] > 0, ttl'[d] = 0
             PROVE  \E p \in Proc : st'[p] = "created" /\ dayKey'[p] = d
  BY DEF KeyHasTTL, KeyAlwaysHasTTL
<1> USE QuotaAssumption
<1>1. /\ DOMAIN st = Proc /\ DOMAIN dayKey = Proc /\ DOMAIN ttl = Days /\ DOMAIN total = Days
      /\ ttl[d] \in Nat /\ total[d] \in Nat /\ faults \in Nat
      /\ \A p \in Proc : dayKey[p] \in Days /\ need[p] \in Nat \ {0}
  BY DEF TypeOK
<1>2. faults = 0 /\ ~Fault
  BY <1>1 DEF Next, vars, CheckPasses, CheckDenies, CheckErrs, Rejected, Answered, Streamed,
              AddStarts, IncrBy, IncrByTwice, IncrByErrs, Expire, ExpireErrs, Hour, Fault
<1> DEFINE Creator(q) == q \in Proc /\ st[q] = "created" /\ dayKey[q] = d
<1>3. total[d] > 0 /\ ttl[d] = 0 => \E q : Creator(q)
  BY <1>2 DEF KeyHasTTL, KeyAlwaysHasTTL
<1> HIDE DEF Creator
<1>4. ASSUME total'[d] = total[d], ttl'[d] = ttl[d], NEW p \in Proc, ~Creator(p), NEW s, Go(p, s),
             dayKey' = dayKey \/ dayKey' = [dayKey EXCEPT ![p] = day]
      PROVE  \E q \in Proc : st'[q] = "created" /\ dayKey'[q] = d
  BY <1>1, <1>3, <1>4 DEF Creator, Go
<1>5. ASSUME NEW p \in Proc, NEW k \in Kinds, CheckPasses(p, k)
      PROVE  \E q \in Proc : st'[q] = "created" /\ dayKey'[q] = d
  BY <1>4, <1>5 DEF CheckPasses, redis, Creator
<1>6. ASSUME NEW p \in Proc, CheckDenies(p) \/ Rejected(p)
      PROVE  \E q \in Proc : st'[q] = "created" /\ dayKey'[q] = d
  BY <1>4, <1>6 DEF CheckDenies, Rejected, redis, Creator
<1>7. ASSUME NEW p \in Proc, NEW n \in 1..MaxTokens, Answered(p, n) \/ Streamed(p, n)
      PROVE  \E q \in Proc : st'[q] = "created" /\ dayKey'[q] = d
  BY <1>4, <1>7 DEF Answered, Streamed, redis, Creator
<1>8. ASSUME NEW p \in Proc, AddStarts(p)
      PROVE  \E q \in Proc : st'[q] = "created" /\ dayKey'[q] = d
  BY <1>4, <1>8 DEF AddStarts, redis, Creator
<1>9. ASSUME NEW p \in Proc, IncrBy(p)
      PROVE  \E q \in Proc : st'[q] = "created" /\ dayKey'[q] = d
  <2>1. ~Creator(p) /\ ttl' = ttl /\ dayKey' = dayKey
    BY <1>9 DEF IncrBy, Increment, Creator
  <2>2. CASE dayKey[p] # d
    <3>1. total'[d] = total[d]
      BY <1>1, <1>9, <2>2 DEF IncrBy, Increment
    <3> QED
      BY <1>4, <1>9, <2>1, <3>1 DEF IncrBy, Increment
  <2>3. CASE dayKey[p] = d /\ total[d] = 0
    <3>1. total[dayKey[p]] + 1 * need[p] = need[p]
      BY <1>1, <2>3
    <3>2. st' = [st EXCEPT ![p] = "created"]
      BY <1>9, <3>1 DEF IncrBy, Increment, FirstUse, Go
    <3> QED
      BY <1>1, <2>1, <2>3, <3>2
  <2>4. CASE dayKey[p] = d /\ total[d] > 0
    <3>1. PICK q : Creator(q)
      BY <1>3, <2>1, <2>4
    <3>2. st'[q] = st[q]
      BY <1>1, <1>9, <2>1, <3>1 DEF IncrBy, Increment, Go, Creator
    <3> QED
      BY <2>1, <3>1, <3>2 DEF Creator
  <2> QED
    BY <1>1, <2>2, <2>3, <2>4
<1>10. ASSUME NEW p \in Proc, Expire(p)
       PROVE  \E q \in Proc : st'[q] = "created" /\ dayKey'[q] = d
  <2>1. total' = total /\ dayKey' = dayKey
    BY <1>10 DEF Expire
  <2>2. dayKey[p] # d
    <3>1. SUFFICES ASSUME dayKey[p] = d PROVE FALSE
      OBVIOUS
    <3>2. ttl'[d] = KeyTTL
      BY <1>1, <1>10, <2>1, <3>1 DEF Expire
    <3> QED
      BY <3>2 DEF KeyTTL
  <2>3. ttl'[d] = ttl[d] /\ ~Creator(p)
    BY <1>1, <1>10, <2>2 DEF Expire, Creator
  <2> QED
    BY <1>4, <1>10, <2>1, <2>3 DEF Expire
<1>11. ASSUME Hour
       PROVE  \E q \in Proc : st'[q] = "created" /\ dayKey'[q] = d
  <2>1. total[d] > 0 /\ ttl[d] = 0
    BY <1>1, <1>11 DEF Hour
  <2> QED
    BY <1>3, <1>11, <2>1 DEF Hour, Creator
<1>12. ASSUME UNCHANGED vars
       PROVE  \E q \in Proc : st'[q] = "created" /\ dayKey'[q] = d
  BY <1>3, <1>12 DEF vars, redis, Creator
<1> QED
  BY <1>2, <1>5, <1>6, <1>7, <1>8, <1>9, <1>10, <1>11, <1>12
  DEF Next, CheckErrs, IncrByTwice, IncrByErrs, ExpireErrs

\* A TTL that is set reaches past midnight, and keys have one.
THEOREM QuotaExpiryInvariant == Spec => [](IndInv /\ ExpiryInv)
<1>1. IndInv /\ ExpiryInv /\ [Next]_vars => ExpiryInv'
  BY PastMidnightStep, CreatorStep DEF ExpiryInv, IndInv
<1> QED
  BY <1>1, ExpiryInit, QuotaInvariant, PTL DEF Spec

\* Whoever wins the race for a new key of quota.go sets its TTL: while no command
\* fails, no key is left without one, for any number of concurrent requests.
THEOREM QuotaKeysExpire == Spec => []KeyHasTTL
  BY QuotaExpiryInvariant, PTL DEF ExpiryInv

\* The 25 hours of quota.go suffice: no expiry lowers the counter of a day
\* before the day is over, whatever fails and whenever the TTL is set.
THEOREM QuotaCounterOutlivesDay == Spec => CounterOutlivesDay
<1> DEFINE Lasts == \A d \in Days : total'[d] < total[d] => d < day'
<1>1. IndInv /\ ExpiryInv /\ [Next]_vars => [Lasts]_vars
  <2> SUFFICES ASSUME IndInv, ExpiryInv, Next, NEW d \in Days, total'[d] < total[d]
               PROVE  d < day'
    OBVIOUS
  <2> USE QuotaAssumption
  <2>1. TypeOK /\ TypeOK' /\ TTLPastDay
    BY TypeStep DEF IndInv, ExpiryInv
  <2>2. /\ DOMAIN total = Days /\ d \in Int /\ day \in Int /\ day' \in Int
        /\ hour \in Int /\ hour < DayLen
        /\ total[d] \in Nat /\ total'[d] \in Nat /\ ttl[d] \in Nat
        /\ \A p \in Proc : need[p] \in Nat
    BY <2>1, ClockTypes DEF TypeOK
  <2>3. ASSUME NEW p \in Proc, NEW times \in {1, 2}, Increment(p, times) PROVE FALSE
    <3>1. times * need[p] \in Nat
      BY <2>2, <2>3
    <3>2. CASE dayKey[p] = d
      <4>1. total'[d] = total[d] + times * need[p]
        BY <2>2, <2>3, <3>2 DEF Increment
      <4> QED
        BY <2>2, <3>1, <4>1
    <3>3. CASE dayKey[p] # d
      <4>1. total'[d] = total[d]
        BY <2>2, <2>3, <3>3 DEF Increment
      <4> QED
        BY <2>2, <4>1
    <3> QED
      BY <3>2, <3>3
  <2>4. total' # total
    BY <2>2
  <2>5. Hour
    BY <2>3, <2>4 DEF Next, CheckPasses, CheckDenies, CheckErrs, Rejected, Answered, Streamed,
                      AddStarts, IncrBy, IncrByTwice, IncrByErrs, Expire, ExpireErrs, redis
  <2>6. ttl[d] = 1
    BY <2>2, <2>5 DEF Hour
  <2>7. d < day
    BY <2>1, <2>2, <2>6 DEF TTLPastDay
  <2>8. day <= day'
    BY <2>2, <2>5 DEF Hour
  <2> QED
    BY <2>2, <2>7, <2>8
<1> QED
  BY <1>1, QuotaExpiryInvariant, PTL DEF Spec, CounterOutlivesDay
=============================================================================
