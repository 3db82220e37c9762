-------------------------- MODULE RateLimiterProofs --------------------------
(***************************************************************************)
(* Proofs about the sliding-window limiter for any set of requests, any    *)
(* limit and window, and any bounds on clock skew, delay and retries: the  *)
(* sorted set still holds the entry of every admitted request that a       *)
(* script could have to count, so the count it reads is not too low.       *)
(***************************************************************************)
EXTENDS RateLimiter, FiniteSetTheorems, TLAPS

\* A command is executed at most as often as it was sent, and not before.
Sendings ==
    \A r \in Req :
        /\ pending[r] <= tries[r]
        /\ st[r] = "idle" => pending[r] = 0 /\ ~admitted[r]

\* What a gateway's clock said, and when.
ClocksRead ==
    \A r \in Req : born[r] <= clock /\ born[r] <= now[r] /\ now[r] <= born[r] + Skew

\* A script that can still execute is not late.
InTime ==
    \A r \in Req : pending[r] > 0 \/ st[r] = "waiting" => clock <= born[r] + MaxDelay

\* A member's score is a reading it stands for, taken a TTL before the expiry.
Scores ==
    /\ IsFiniteSet(DOMAIN zset)
    /\ \A m \in DOMAIN zset :
           /\ Member(zset[m]) = m
           /\ zset[m] <= clock + Skew
           /\ zset[m] + TTL <= expireAt + Skew

\* The newest reading whose entry a script may have purged.
Horizon == clock + Skew - Window + Grain - 1

\* An admitted request has its member in the set until it is too old.
Present ==
    \A s \in Req : admitted[s] => Member(now[s]) \in DOMAIN zset \/ now[s] <= Horizon

MembersIn(t) == {Member(now[s]) : s \in AdmittedIn(t)}

Cap == IF Limit > 0 THEN Limit ELSE 0

\* No window of that length, wherever it begins, has too many members.
WindowsWithin ==
    \A t \in Int : IsFiniteSet(MembersIn(t)) /\ Cardinality(MembersIn(t)) <= Cap

IndInv ==
    /\ TypeOK
    /\ Sendings
    /\ ClocksRead
    /\ InTime
    /\ Scores
    /\ Present
    /\ WindowsWithin

-----------------------------------------------------------------------------
(* Members, and what the script's commands do to the sorted set.           *)

\* A member is a number, and stands for Grain consecutive readings.
LEMMA MemberGrain ==
    /\ \A t \in Nat : Member(t) \in Nat
    /\ \A a, b \in Nat : Member(a) = Member(b) => a - b <= Grain - 1
  BY LimiterAssumption DEF Member

\* What a script finds after ZREMRANGEBYSCORE.
Found(r) == Purge(Live, now[r] - Window)

\* The entries a script finds are those of the set, unexpired and young enough.
LEMMA FoundEntries ==
    ASSUME TypeOK, NEW r \in Req
    PROVE  /\ DOMAIN Found(r) \subseteq DOMAIN zset
           /\ \A m \in DOMAIN Found(r) : Found(r)[m] = zset[m]
           /\ \A m \in DOMAIN zset :
                  clock < expireAt /\ zset[m] > now[r] - Window => m \in DOMAIN Found(r)
           /\ DOMAIN Found(r) # {} => ~(clock >= expireAt)
<1>1. CASE clock >= expireAt
  <2>1. Live = Empty
    BY <1>1 DEF Live
  <2>2. DOMAIN Found(r) = {}
    BY <2>1 DEF Found, Purge, Restrict, Empty
  <2>3. ~(clock < expireAt)
    BY <1>1, LimiterAssumption DEF TypeOK
  <2> QED
    BY <1>1, <2>2, <2>3
<1>2. CASE ~(clock >= expireAt)
  <2>1. Found(r) = [m \in {k \in DOMAIN zset : zset[k] > now[r] - Window} |-> zset[m]]
    BY <1>2 DEF Found, Live, Purge, Restrict
  <2> QED
    BY <1>2, <2>1
<1> QED
  BY <1>1, <1>2

\* An admitted request's member is found by every script, or is too old.
LEMMA FoundOrOld ==
    ASSUME IndInv, NEW r \in Req, NEW s \in Req, admitted[s]
    PROVE  Member(now[s]) \in DOMAIN Found(r) \/ now[s] <= Horizon
<1> DEFINE m == Member(now[s])
<1>1. TypeOK
  BY DEF IndInv
<1>2. /\ clock \in Int /\ expireAt \in Int /\ now[r] \in Int /\ now[s] \in Nat
      /\ \A k \in DOMAIN zset : zset[k] \in Nat
  BY <1>1, LimiterAssumption DEF TypeOK
<1>3. m \in DOMAIN zset \/ now[s] <= Horizon
  BY DEF IndInv, Present
<1>4. ASSUME m \in DOMAIN zset, m \notin DOMAIN Found(r) PROVE now[s] <= Horizon
  <2>1. ~(clock < expireAt /\ zset[m] > now[r] - Window)
    BY <1>1, <1>4, FoundEntries
  <2>2. Member(zset[m]) = m /\ zset[m] + TTL <= expireAt + Skew
    BY <1>4 DEF IndInv, Scores
  <2>3. now[s] - zset[m] <= Grain - 1
    BY <1>2, <1>4, <2>2, MemberGrain
  <2>4. now[r] <= clock + Skew
    BY <1>1, <1>2, LimiterAssumption DEF IndInv, ClocksRead, TypeOK
  <2>5. zset[m] <= clock + Skew - Window
    BY <1>2, <1>4, <2>1, <2>2, <2>4, LimiterAssumption DEF TTL
  <2> QED
    BY <1>2, <1>4, <2>3, <2>5, LimiterAssumption DEF Horizon
<1> QED
  BY <1>3, <1>4

\* A script finds the members of every window that its own reading falls into.
LEMMA FoundCounts ==
    ASSUME IndInv, NEW r \in Req, pending[r] > 0,
           NEW t \in Int, now[r] <= t + SharpWindow
    PROVE  MembersIn(t) \subseteq DOMAIN Found(r)
<1> SUFFICES ASSUME NEW s \in Req, s \in AdmittedIn(t)
             PROVE  Member(now[s]) \in DOMAIN Found(r)
  BY DEF MembersIn, AdmittedIn
<1>1. clock \in Int /\ now[r] \in Int /\ now[s] \in Int /\ born[r] \in Int
  BY LimiterAssumption DEF IndInv, TypeOK
<1>2. admitted[s] /\ now[s] > t
  BY DEF AdmittedIn
<1>3. born[r] <= now[r] /\ clock <= born[r] + MaxDelay
  BY DEF IndInv, ClocksRead, InTime
<1>4. ~(now[s] <= Horizon)
  BY <1>1, <1>2, <1>3, LimiterAssumption DEF SharpWindow, Horizon
<1> QED
  BY <1>2, <1>4, FoundOrOld

-----------------------------------------------------------------------------
(* The invariant is inductive.                                             *)

\* Nothing is in the set and nobody has been admitted.
LEMMA IndInvInit == Init => IndInv
<1> SUFFICES ASSUME Init PROVE IndInv
  OBVIOUS
<1> USE LimiterAssumption
<1>1. DOMAIN zset = {}
  BY DEF Init, Empty
<1>2. TypeOK
  BY <1>1 DEF Init, TypeOK
<1>3. Sendings /\ ClocksRead /\ InTime
  BY DEF Init, Sendings, ClocksRead, InTime
<1>4. Scores
  BY <1>1, FS_EmptySet DEF Scores
<1>5. Present
  BY DEF Init, Present
<1>6. WindowsWithin
  <2> SUFFICES ASSUME NEW t \in Int
               PROVE  IsFiniteSet(MembersIn(t)) /\ Cardinality(MembersIn(t)) <= Cap
    BY DEF WindowsWithin
  <2>1. MembersIn(t) = {}
    BY DEF Init, MembersIn, AdmittedIn
  <2> QED
    BY <2>1, FS_EmptySet DEF Cap
<1> QED
  BY <1>2, <1>3, <1>4, <1>5, <1>6 DEF IndInv

\* The horizon moves with the clock.
LEMMA Later ==
    ASSUME clock \in Int, clock' \in Int, clock <= clock'
    PROVE  Horizon <= Horizon' /\ Horizon \in Int /\ Horizon' \in Int
<1>1. \A c, d \in Int : c <= d => /\ c + Skew - Window + Grain - 1 \in Int
                                 /\ d + Skew - Window + Grain - 1 \in Int
                                 /\ c + Skew - Window + Grain - 1 <= d + Skew - Window + Grain - 1
  BY LimiterAssumption
<1> QED
  BY <1>1, Zenon DEF Horizon

\* What is said of the admitted requests survives as long as nobody is admitted,
\* their readings stay and the set loses nothing.
LEMMA AdmittedKept ==
    ASSUME IndInv, TypeOK', admitted' = admitted, zset' = zset, expireAt' = expireAt,
           clock <= clock',
           \A s \in Req : admitted[s] => now'[s] = now[s]
    PROVE  Scores' /\ Present' /\ WindowsWithin'
<1>1. /\ clock \in Int /\ clock' \in Int /\ expireAt \in Int
      /\ \A m \in DOMAIN zset : zset[m] \in Int
      /\ \A s \in Req : now[s] \in Int
  BY LimiterAssumption DEF IndInv, TypeOK
<1>2. Scores'
  BY <1>1, LimiterAssumption DEF IndInv, Scores, TTL
<1>3. Horizon <= Horizon' /\ Horizon \in Int /\ Horizon' \in Int
  BY <1>1, Later
<1>4. Present'
  BY <1>1, <1>3 DEF IndInv, Present
<1>5. \A t \in Int : AdmittedIn(t)' = AdmittedIn(t)
  BY DEF AdmittedIn
<1>6. \A t \in Int : MembersIn(t)' = MembersIn(t)
  BY <1>5 DEF MembersIn, AdmittedIn
<1>7. WindowsWithin'
  BY <1>6 DEF IndInv, WindowsWithin
<1> QED
  BY <1>2, <1>4, <1>7

\* Reading the clock and sending the command.
LEMMA CallStep ==
    ASSUME IndInv, NEW r \in Req, Call(r)
    PROVE  IndInv'
<1> USE LimiterAssumption
<1>1. TypeOK
  BY DEF IndInv
<1>2. PICK t \in clock..(clock + Skew) : now' = [now EXCEPT ![r] = t]
  BY DEF Call
<1>3. TypeOK'
  BY <1>1, <1>2 DEF Call, TypeOK
<1>4. pending[r] = 0 /\ ~admitted[r]
  BY DEF IndInv, Sendings, Call
<1>5. Sendings'
  BY <1>1, <1>4 DEF IndInv, Sendings, Call, TypeOK
<1>6. ClocksRead' /\ InTime'
  BY <1>1, <1>2 DEF IndInv, ClocksRead, InTime, Call, TypeOK
<1>7. \A s \in Req : admitted[s] => now'[s] = now[s]
  BY <1>1, <1>2, <1>4 DEF TypeOK
<1>8. clock <= clock'
  BY <1>1 DEF Call, TypeOK
<1>9. Scores' /\ Present' /\ WindowsWithin'
  BY <1>3, <1>7, <1>8, AdmittedKept DEF Call
<1> QED
  BY <1>3, <1>5, <1>6, <1>9 DEF IndInv

\* A copy lost, a command sent again, and the client giving up.
LEMMA ClientStep ==
    ASSUME IndInv, NEW r \in Req, Timeout(r) \/ Lose(r)
    PROVE  IndInv'
<1> USE LimiterAssumption
<1>1. TypeOK
  BY DEF IndInv
<1>2. /\ clock' = clock /\ zset' = zset /\ expireAt' = expireAt /\ now' = now
      /\ born' = born /\ admitted' = admitted /\ remaining' = remaining
  BY DEF Timeout, Lose, request
<1>3. /\ tries' \in [Req -> 0..MaxTries] /\ pending' \in [Req -> 0..MaxTries]
      /\ st' \in [Req -> {"idle", "waiting", "allowed", "denied", "failopen"}]
      /\ \A s \in Req :
             /\ pending'[s] <= tries'[s]
             /\ st'[s] = "idle" => st[s] = "idle" /\ pending'[s] = pending[s]
             /\ pending'[s] > 0 \/ st'[s] = "waiting" => pending[s] > 0 \/ st[s] = "waiting"
  <2>1. CASE Timeout(r) /\ tries[r] < MaxTries
    BY <1>1, <2>1 DEF IndInv, Sendings, Timeout, TypeOK
  <2>2. CASE Timeout(r) /\ ~(tries[r] < MaxTries)
    BY <1>1, <2>2 DEF IndInv, Sendings, Timeout, TypeOK
  <2>3. CASE Lose(r)
    BY <1>1, <2>3 DEF IndInv, Sendings, Lose, TypeOK, request
  <2> QED
    BY <2>1, <2>2, <2>3
<1>4. TypeOK'
  BY <1>1, <1>2, <1>3 DEF TypeOK
<1>5. Sendings' /\ ClocksRead' /\ InTime'
  BY <1>2, <1>3 DEF IndInv, Sendings, ClocksRead, InTime
<1>6. clock <= clock'
  BY <1>1, <1>2 DEF TypeOK
<1>7. Scores' /\ Present' /\ WindowsWithin'
  BY <1>2, <1>4, <1>6, AdmittedKept
<1> QED
  BY <1>4, <1>5, <1>7 DEF IndInv

\* Time passes.
LEMMA TickStep ==
    ASSUME IndInv, Tick
    PROVE  IndInv'
<1> USE LimiterAssumption
<1>1. TypeOK
  BY DEF IndInv
<1>2. TypeOK'
  BY <1>1 DEF Tick, TypeOK, request
<1>3. Sendings'
  BY DEF IndInv, Sendings, Tick, request
<1>4. ClocksRead' /\ InTime'
  BY <1>1 DEF IndInv, ClocksRead, InTime, Tick, request, TypeOK
<1>5. clock <= clock'
  BY <1>1 DEF Tick, TypeOK
<1>6. Scores' /\ Present' /\ WindowsWithin'
  BY <1>2, <1>5, AdmittedKept DEF Tick, request
<1> QED
  BY <1>2, <1>3, <1>4, <1>6 DEF IndInv

-----------------------------------------------------------------------------
(* An execution of the script.                                             *)

\* The requests' state after an execution that is answered with a number.
LEMMA ExecuteStep ==
    ASSUME IndInv, NEW r \in Req, Execute(r), NEW v \in {"denied", "allowed"},
           NEW left \in Nat, Answer(r, v, left),
           admitted' = admitted \/ admitted' = [admitted EXCEPT ![r] = TRUE]
    PROVE  /\ clock' = clock /\ now' = now /\ born' = born /\ tries' = tries
           /\ pending' \in [Req -> 0..MaxTries]
           /\ admitted' \in [Req -> BOOLEAN]
           /\ remaining' \in [Req -> Nat]
           /\ st' \in [Req -> {"idle", "waiting", "allowed", "denied", "failopen"}]
           /\ Sendings' /\ ClocksRead' /\ InTime'
<1> USE LimiterAssumption
<1>1. TypeOK
  BY DEF IndInv
<1>2. clock' = clock /\ now' = now /\ born' = born /\ tries' = tries
  BY DEF Execute, request
<1>3. st[r] # "idle" /\ pending[r] > 0 /\ pending' = [pending EXCEPT ![r] = @ - 1]
  BY DEF IndInv, Sendings, Execute
<1>4. pending' \in [Req -> 0..MaxTries] /\ \A s \in Req : pending'[s] <= pending[s]
  BY <1>1, <1>3 DEF TypeOK
<1>5. admitted' \in [Req -> BOOLEAN] /\ \A s \in Req : s # r => admitted'[s] = admitted[s]
  BY <1>1 DEF TypeOK
<1>6. /\ remaining' \in [Req -> Nat]
      /\ st' \in [Req -> {"idle", "waiting", "allowed", "denied", "failopen"}]
      /\ \A s \in Req : st'[s] = st[s] \/ (s = r /\ st'[s] = v)
  BY <1>1 DEF Answer, TypeOK
<1>7. \A s \in Req : pending[s] \in Int /\ pending'[s] \in Int /\ tries[s] \in Int
  BY <1>1, <1>4 DEF TypeOK
<1>8. Sendings'
  <2> SUFFICES ASSUME NEW s \in Req
               PROVE  /\ pending'[s] <= tries'[s]
                      /\ st'[s] = "idle" => pending'[s] = 0 /\ ~admitted'[s]
    BY DEF Sendings
  <2>1. pending'[s] <= tries'[s]
    BY <1>2, <1>4, <1>7 DEF IndInv, Sendings
  <2>2. ASSUME st'[s] = "idle" PROVE s # r /\ st[s] = "idle"
    BY <1>3, <1>6, <2>2
  <2>3. ASSUME st'[s] = "idle" PROVE pending'[s] = 0
    BY <1>1, <1>3, <2>2, <2>3 DEF IndInv, Sendings, TypeOK
  <2>4. ASSUME st'[s] = "idle" PROVE ~admitted'[s]
    BY <1>5, <2>2, <2>4 DEF IndInv, Sendings
  <2> QED
    BY <2>1, <2>3, <2>4
<1>9. ClocksRead'
  BY <1>2 DEF IndInv, ClocksRead
<1>10. InTime'
  <2> SUFFICES ASSUME NEW s \in Req, pending'[s] > 0 \/ st'[s] = "waiting"
               PROVE  clock <= born[s] + MaxDelay
    BY <1>2 DEF InTime
  <2>1. pending[s] > 0 \/ st[s] = "waiting"
    BY <1>4, <1>6, <1>7
  <2> QED
    BY <2>1 DEF IndInv, InTime
<1> QED
  BY <1>2, <1>4, <1>5, <1>6, <1>8, <1>9, <1>10

\* What a script finds is finite, and a part of the set.
LEMMA FoundScores ==
    ASSUME IndInv, NEW r \in Req
    PROVE  /\ IsFiniteSet(DOMAIN Found(r)) /\ Cardinality(DOMAIN Found(r)) \in Nat
           /\ DOMAIN Found(r) \subseteq Nat
           /\ \A m \in DOMAIN Found(r) :
                  /\ Found(r)[m] \in Nat
                  /\ Member(Found(r)[m]) = m
                  /\ Found(r)[m] <= clock + Skew
                  /\ Found(r)[m] + TTL <= expireAt + Skew
<1>1. TypeOK /\ Scores
  BY DEF IndInv
<1>2. /\ DOMAIN Found(r) \subseteq DOMAIN zset
      /\ \A m \in DOMAIN Found(r) : Found(r)[m] = zset[m]
  BY <1>1, FoundEntries
<1>3. IsFiniteSet(DOMAIN Found(r))
  BY <1>1, <1>2, FS_Subset DEF Scores
<1>4. Cardinality(DOMAIN Found(r)) \in Nat
  BY <1>3, FS_CardinalityType
<1> QED
  BY <1>1, <1>2, <1>3, <1>4 DEF Scores, TypeOK

\* The script purges and denies.
LEMMA DeniesStep ==
    ASSUME IndInv, NEW r \in Req, ScriptDenies(r)
    PROVE  IndInv'
<1>1. /\ Execute(r) /\ Answer(r, "denied", 0) /\ admitted' = admitted
      /\ zset' = Found(r)
      /\ expireAt' = IF DOMAIN Found(r) = {} THEN 0 ELSE expireAt
  BY DEF ScriptDenies, Found
<1>2. /\ clock' = clock /\ now' = now /\ born' = born /\ tries' = tries
      /\ pending' \in [Req -> 0..MaxTries]
      /\ admitted' \in [Req -> BOOLEAN]
      /\ remaining' \in [Req -> Nat]
      /\ st' \in [Req -> {"idle", "waiting", "allowed", "denied", "failopen"}]
      /\ Sendings' /\ ClocksRead' /\ InTime'
  BY <1>1, ExecuteStep
<1>3. expireAt' \in Nat /\ (DOMAIN Found(r) # {} => expireAt' = expireAt)
  BY <1>1 DEF IndInv, TypeOK
<1>4. TypeOK'
  BY <1>1, <1>2, <1>3, FoundScores DEF IndInv, TypeOK
<1>5. Scores'
  BY <1>1, <1>2, <1>3, FoundScores DEF Scores, TTL
<1>6. Present'
  <2> SUFFICES ASSUME NEW s \in Req, admitted[s]
               PROVE  Member(now[s]) \in DOMAIN Found(r) \/ now[s] <= Horizon
    BY <1>1, <1>2 DEF Present, Horizon
  <2> QED
    BY FoundOrOld
<1>7. WindowsWithin'
  <2>1. \A t \in Int : MembersIn(t)' = MembersIn(t)
    BY <1>1, <1>2 DEF MembersIn, AdmittedIn
  <2> QED
    BY <2>1 DEF IndInv, WindowsWithin
<1> QED
  BY <1>2, <1>4, <1>5, <1>6, <1>7 DEF IndInv

\* The script purges, counts, and adds the entry.
LEMMA AdmitsStep ==
    ASSUME IndInv, NEW r \in Req, ScriptAdmits(r)
    PROVE  IndInv'
<1> USE LimiterAssumption
<1> DEFINE z == Found(r)
           m == Member(now[r])
           y == ZAdd(z, m, now[r])
<1>1. /\ Execute(r) /\ ~Full(z) /\ zset' = y /\ expireAt' = clock + TTL
      /\ admitted' = [admitted EXCEPT ![r] = TRUE] /\ Answer(r, "allowed", Left(y))
  BY DEF ScriptAdmits, Found
<1>2. TypeOK /\ ClocksRead
  BY DEF IndInv
<1>3. /\ clock \in Nat /\ now[r] \in Nat /\ m \in Nat /\ now[r] <= clock + Skew
      /\ pending[r] > 0
  BY <1>1, <1>2, MemberGrain DEF TypeOK, ClocksRead, Execute
<1>4. /\ DOMAIN y = DOMAIN z \cup {m}
      /\ y[m] = now[r]
      /\ \A k \in DOMAIN z : k # m => y[k] = z[k]
  BY DEF ZAdd
<1>5. /\ IsFiniteSet(DOMAIN z) /\ Cardinality(DOMAIN z) \in Nat /\ DOMAIN z \subseteq Nat
      /\ \A k \in DOMAIN z :
             z[k] \in Nat /\ Member(z[k]) = k /\ z[k] <= clock + Skew
  BY FoundScores
<1> HIDE DEF z, m, y
<1>6. Cardinality(DOMAIN z) < Limit
  BY <1>1, <1>5 DEF Full
<1>7. /\ IsFiniteSet(DOMAIN y) /\ Cardinality(DOMAIN y) \in Nat
      /\ Cardinality(DOMAIN y) <= Limit
  <2>1. /\ IsFiniteSet(DOMAIN z \cup {m})
        /\ Cardinality(DOMAIN z \cup {m}) = Cardinality(DOMAIN z)
           \/ Cardinality(DOMAIN z \cup {m}) = Cardinality(DOMAIN z) + 1
    BY <1>5, FS_AddElement
  <2> QED
    BY <1>4, <1>5, <1>6, <2>1
<1>8. Left(y) \in Nat
  BY <1>7 DEF Left
<1>9. /\ clock' = clock /\ now' = now /\ born' = born /\ tries' = tries
      /\ pending' \in [Req -> 0..MaxTries]
      /\ admitted' \in [Req -> BOOLEAN]
      /\ remaining' \in [Req -> Nat]
      /\ st' \in [Req -> {"idle", "waiting", "allowed", "denied", "failopen"}]
      /\ Sendings' /\ ClocksRead' /\ InTime'
  BY <1>1, <1>8, ExecuteStep
<1>10. \A k \in DOMAIN y : k \in Nat /\ y[k] \in Nat /\ Member(y[k]) = k /\ y[k] <= clock + Skew
  <2> SUFFICES ASSUME NEW k \in DOMAIN y
               PROVE  k \in Nat /\ y[k] \in Nat /\ Member(y[k]) = k /\ y[k] <= clock + Skew
    OBVIOUS
  <2>1. CASE k = m
    BY <1>3, <1>4, <2>1 DEF m
  <2>2. CASE k # m
    BY <1>4, <1>5, <2>2
  <2> QED
    BY <2>1, <2>2
<1>11. clock + TTL \in Nat
  BY <1>3 DEF TTL
<1>12. TypeOK'
  <2>1. DOMAIN zset' \subseteq Nat /\ \A k \in DOMAIN zset' : zset'[k] \in Nat
    BY <1>1, <1>10
  <2> QED
    BY <1>1, <1>2, <1>9, <1>11, <2>1 DEF TypeOK
<1>13. Scores'
  <2>1. \A k \in DOMAIN y : y[k] + TTL <= clock + TTL + Skew
    BY <1>3, <1>10 DEF TTL
  <2>2. TTL' = TTL /\ \A k : Member(k)' = Member(k)
    BY DEF TTL, Member
  <2> QED
    BY <1>1, <1>7, <1>9, <1>10, <2>1, <2>2 DEF Scores
<1>14. Present'
  <2> SUFFICES ASSUME NEW s \in Req, admitted'[s]
               PROVE  Member(now[s]) \in DOMAIN y \/ now[s] <= Horizon
    BY <1>1, <1>9 DEF Present, Horizon
  <2>1. CASE s = r
    BY <1>4, <2>1 DEF m
  <2>2. CASE s # r
    <3>1. admitted[s]
      BY <1>1, <1>2, <2>2 DEF TypeOK
    <3>2. Member(now[s]) \in DOMAIN z \/ now[s] <= Horizon
      BY <3>1, FoundOrOld DEF z
    <3> QED
      BY <1>4, <3>2
  <2> QED
    BY <2>1, <2>2
<1>15. WindowsWithin'
  <2> SUFFICES ASSUME NEW t \in Int
               PROVE  /\ IsFiniteSet(MembersIn(t)')
                      /\ Cardinality(MembersIn(t)') <= Cap
    BY DEF WindowsWithin, Cap
  <2>1. \A s \in Req : s # r => admitted'[s] = admitted[s]
    BY <1>1, <1>2 DEF TypeOK
  <2>2. CASE ~(now[r] > t /\ now[r] <= t + SharpWindow)
    <3>1. AdmittedIn(t)' = AdmittedIn(t)
      BY <1>9, <2>1, <2>2 DEF AdmittedIn, SharpWindow
    <3>2. MembersIn(t)' = MembersIn(t)
      BY <1>9, <3>1 DEF MembersIn
    <3> QED
      BY <3>2 DEF IndInv, WindowsWithin
  <2>3. CASE now[r] > t /\ now[r] <= t + SharpWindow
    <3>1. MembersIn(t) \subseteq DOMAIN z
      BY <1>3, <2>3, FoundCounts DEF z
    <3>2. AdmittedIn(t)' \subseteq AdmittedIn(t) \cup {r}
      BY <1>9, <2>1 DEF AdmittedIn, SharpWindow
    <3>3. MembersIn(t)' \subseteq MembersIn(t) \cup {m}
      BY <1>9, <3>2 DEF MembersIn, m
    <3>4. MembersIn(t)' \subseteq DOMAIN y
      BY <1>4, <3>1, <3>3
    <3>5. /\ IsFiniteSet(MembersIn(t)')
          /\ Cardinality(MembersIn(t)') <= Cardinality(DOMAIN y)
      BY <1>7, <3>4, FS_Subset
    <3>6. Cardinality(MembersIn(t)') \in Nat
      BY <3>5, FS_CardinalityType
    <3> QED
      BY <1>6, <1>5, <1>7, <3>5, <3>6 DEF Cap
  <2> QED
    BY <2>2, <2>3
<1> QED
  BY <1>9, <1>12, <1>13, <1>14, <1>15 DEF IndInv

\* No step leaves the invariant.
LEMMA IndInvStep == IndInv /\ [Next]_vars => IndInv'
<1> SUFFICES ASSUME IndInv, [Next]_vars PROVE IndInv'
  OBVIOUS
<1>1. ASSUME UNCHANGED vars PROVE IndInv'
  BY <1>1 DEF vars, request, IndInv, TypeOK, Sendings, ClocksRead, InTime, Scores, Present,
              Horizon, WindowsWithin, MembersIn, AdmittedIn, SharpWindow, Cap, TTL, Member
<1> QED
  BY <1>1, CallStep, ClientStep, TickStep, DeniesStep, AdmitsStep DEF Next

-----------------------------------------------------------------------------

\* The inductive invariant holds throughout: every admitted request that a window
\* can still hold has its member in the sorted set.
THEOREM LimiterInvariant == Spec => []IndInv
  BY IndInvInit, IndInvStep, PTL DEF Spec

\* The types of limiter.go's state; X-RateLimit-Remaining is never negative.
THEOREM LimiterTypeCorrect == Spec => []TypeOK
  BY LimiterInvariant, PTL DEF IndInv

\* The Lua script of limiter.go admits no more than Limit members in any window,
\* for any number of gateways, whatever their clocks, delays and retries: what
\* those blur is exactly what SharpWindow takes off the window.
THEOREM LimiterMembersWithinLimit == Spec => []MembersWithinLimit
<1>1. IndInv => MembersWithinLimit
  <2> SUFFICES ASSUME IndInv, NEW r \in Req
               PROVE  Cardinality(MembersIn(now[r] - 1)) <= Cap
    BY DEF MembersWithinLimit, MembersIn, Cap
  <2>1. now[r] - 1 \in Int
    BY DEF IndInv, TypeOK
  <2> QED
    BY <2>1 DEF IndInv, WindowsWithin
<1> QED
  BY <1>1, LimiterInvariant, PTL

\* limiter.go's TTL for any slack, skew and delay: the expiry of the key hides an entry
\* that still counts from no script but one that executes more than Slack - Skew after
\* its call read the clock.
THEOREM LimiterExpiryHidesOnlyFromLate == Spec => []ExpiryHidesOnlyFromLate
<1>1. IndInv => ExpiryHidesOnlyFromLate
  <2> SUFFICES ASSUME IndInv, NEW r \in Req, NEW m \in DOMAIN zset,
                      clock >= expireAt, zset[m] > now[r] - Window
               PROVE  clock - born[r] > Slack - Skew
    BY DEF ExpiryHidesOnlyFromLate
  <2>1. /\ clock \in Int /\ expireAt \in Int /\ zset[m] \in Int
        /\ now[r] \in Int /\ born[r] \in Int
    BY LimiterAssumption DEF IndInv, TypeOK
  <2>2. zset[m] + TTL <= expireAt + Skew
    BY DEF IndInv, Scores
  <2>3. born[r] <= now[r]
    BY DEF IndInv, ClocksRead
  <2> QED
    BY <2>1, <2>2, <2>3, LimiterAssumption DEF TTL
<1> QED
  BY <1>1, LimiterInvariant, PTL

=============================================================================
