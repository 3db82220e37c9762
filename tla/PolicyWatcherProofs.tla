------------------------- MODULE PolicyWatcherProofs -------------------------
(***************************************************************************)
(* Proofs about the hot-reloaded policy: what is active compiled, no save  *)
(* that raised an event is left out, no request is judged by older rules   *)
(* than an earlier one, what is published is the policy in force, and the  *)
(* watcher implements PolicyRegister.  They hold for every set of policy   *)
(* texts and tenants, every way of saving and any number of saves and      *)
(* restarts.                                                               *)
(***************************************************************************)
EXTENDS PolicyWatcher, TLAPS

\* There is a bundle exactly while a watcher exists.
BundleIffWatcher == bundle # None <=> loop \in {"starting", "on", "off"}

\* The bundle was compiled from a save of the file.
BundleOfFile == bundle # None => Compiles(bundle.text) /\ bundle.num <= file.num

\* Reloads happen one at a time and inside the loop.
OneReload ==
    /\ \A r, s \in reloads : r = s
    /\ reloads # {} => loop = "on"

\* A reload never brings an older save than the bundle's, and has already swapped
\* the bundle when it publishes.
ReloadsForward ==
    \A r \in reloads :
        /\ bundle.num <= r.src.num /\ r.src.num <= file.num
        /\ r.stage = "swapped" => bundle = r.src

\* When no event is waiting, what is in the file has been read since it changed.
Fresh ==
    loop \in {"starting", "on"} /\ missed = "no" /\ pending = 0 =>
        /\ reloads = {} => bundle = file \/ ~Compiles(file.text)
        /\ \A r \in reloads : r.src = file

\* The last request was judged by the bundle or by an older one.
SeenIsPast == seen # None /\ seen.rules >= 0 => bundle # None /\ seen.rules <= bundle.num

IndInv ==
    /\ TypeOK
    /\ BundleIffWatcher
    /\ BundleOfFile
    /\ OneReload
    /\ ReloadsForward
    /\ Fresh
    /\ SeenIsPast

-----------------------------------------------------------------------------

\* nil is no bundle.
LEMMA SaveIsSome == \A s \in Saves : s # None
  BY PolicyAssumption DEF Saves, Contents

\* The initial states satisfy the invariant.
LEMMA IndInvInit == Init => IndInv
<1> SUFFICES ASSUME Init PROVE IndInv
  OBVIOUS
<1> USE PolicyAssumption
<1>1. TypeOK
  <2>1. file \in Saves
    BY DEF Init, Saves, Contents
  <2>2. watched \in BOOLEAN /\ done \in BOOLEAN
    BY DEF Init
  <2> QED
    BY <2>1, <2>2 DEF Init, TypeOK
<1>2. BundleIffWatcher /\ BundleOfFile /\ OneReload /\ ReloadsForward /\ Fresh /\ SeenIsPast
  BY DEF Init, BundleIffWatcher, BundleOfFile, OneReload, ReloadsForward, Fresh, SeenIsPast
<1> QED
  BY <1>1, <1>2 DEF IndInv

-----------------------------------------------------------------------------
(* The cache.                                                              *)

\* What publishToCache leaves in the cache of a text that compiles.
LEMMA PublishKeepsCache ==
    ASSUME NEW v, Compiles(v), cache \subseteq Keys, PublishToCache(v)
    PROVE  cache' \subseteq Keys /\ \A k \in cache' \ cache : k.source = v
<1> DEFINE k == [tenant |-> tenantOf[v], version |-> contentVersion[v], source |-> v]
<1>1. v \in Versions
  BY DEF Compiles
<1>2. k \in Keys
  BY <1>1, PolicyAssumption DEF Keys, Range
<1>3. cache' \subseteq cache \cup {k}
  BY DEF PublishToCache, Publish, Stored
<1>4. k.source = v
  OBVIOUS
<1> QED
  BY <1>2, <1>3, <1>4

-----------------------------------------------------------------------------
(* Types.                                                                  *)

\* A change of the file raises an event, or is missed.
LEMMA NotifyFacts ==
    ASSUME TypeOK, Notify
    PROVE  /\ pending' \in 0..2 /\ missed' \in {"no", "early", "detached"}
           /\ missed' # "no" \/ pending' > 0
<1>1. CASE watched
  BY <1>1 DEF Notify, TypeOK
<1>2. CASE ~watched
  BY <1>2 DEF Notify, TypeOK
<1> QED
  BY <1>1, <1>2

\* Every step keeps the types.
LEMMA TypeStep == IndInv /\ [Next]_vars => TypeOK'
<1> SUFFICES ASSUME IndInv, [Next]_vars PROVE TypeOK'
  OBVIOUS
<1> USE PolicyAssumption
<1>0. TypeOK
  BY DEF IndInv
<1>1. ASSUME NEW v \in Versions, Truncate(v) PROVE TypeOK'
  <2>1. file' \in Saves
    BY <1>0, <1>1 DEF Truncate, TypeOK, Saves, Contents
  <2>2. pending' \in 0..2 /\ missed' \in {"no", "early", "detached"}
    BY <1>0, <1>1, NotifyFacts DEF Truncate
  <2> QED
    BY <1>0, <1>1, <2>1, <2>2 DEF Truncate, TypeOK
<1>2. CASE Write
  <2>1. file' \in Saves
    BY <1>0, <1>2 DEF Write, TypeOK, Saves, Contents
  <2>2. pending' \in 0..2 /\ missed' \in {"no", "early", "detached"}
    BY <1>0, <1>2, NotifyFacts DEF Write
  <2> QED
    BY <1>0, <1>2, <2>1, <2>2 DEF Write, TypeOK
<1>3. ASSUME NEW kind, NEW text \in Contents, Replace(kind, text) PROVE TypeOK'
  <2>1. file' \in Saves
    BY <1>0, <1>3 DEF Replace, TypeOK, Saves
  <2> QED
    BY <1>0, <1>3, <2>1 DEF Replace, TypeOK
<1>4. CASE InitialLoad
  <2>1. cache' \subseteq Keys
    BY <1>0, <1>4, PublishKeepsCache DEF InitialLoad, IndInv, TypeOK
  <2> QED
    BY <1>0, <1>4, <2>1 DEF InitialLoad, TypeOK
<1>5. CASE InitialLoadFails \/ AddWatch \/ WatchFails \/ Close \/ LoopStops
  <2>1. watched' \in BOOLEAN /\ done' \in BOOLEAN
    BY <1>0, <1>5 DEF InitialLoadFails, AddWatch, WatchFails, Close, LoopStops, TypeOK, disk
  <2> QED
    BY <1>0, <1>5, <2>1 DEF InitialLoadFails, AddWatch, WatchFails, Close, LoopStops, TypeOK, disk
<1>6. CASE ReloadReads
  BY <1>0, <1>6 DEF ReloadReads, EventReady, TypeOK
<1>7. ASSUME NEW r \in reloads, ReloadSwaps(r) PROVE TypeOK'
  BY <1>0, <1>7 DEF ReloadSwaps, EventsLeft, TypeOK
<1>8. ASSUME NEW r \in reloads, ReloadFails(r) PROVE TypeOK'
  BY <1>0, <1>8 DEF ReloadFails, KeepBundle, TypeOK, disk
<1>9. ASSUME NEW r \in reloads, ReloadPublishes(r) PROVE TypeOK'
  <2>1. Compiles(r.src.text)
    BY <1>0, <1>9, SaveIsSome DEF IndInv, ReloadsForward, BundleOfFile, ReloadPublishes, TypeOK
  <2>2. cache' \subseteq Keys
    BY <1>0, <1>9, <2>1, PublishKeepsCache DEF ReloadPublishes, IndInv, TypeOK
  <2> QED
    BY <1>0, <1>9, <2>2 DEF ReloadPublishes, TypeOK, disk
<1>10. CASE Restart
  <2>1. watched' \in BOOLEAN /\ done' \in BOOLEAN
    BY <1>10 DEF Restart
  <2> QED
    BY <1>0, <1>10, <2>1 DEF Restart, TypeOK
<1>11. ASSUME NEW k \in cache, CacheExpires(k) PROVE TypeOK'
  BY <1>0, <1>11 DEF CacheExpires, TypeOK, disk
<1>12. ASSUME NEW t \in Tenants, EvalPolicy(t) PROVE TypeOK'
  <2>1. seen' \in [tenant : Tenants, rules : -1..MaxSaves] \cup {None}
    BY <1>0, <1>12 DEF EvalPolicy, TypeOK, Saves
  <2> QED
    BY <1>0, <1>12, <2>1 DEF EvalPolicy, TypeOK, disk
<1>13. CASE UNCHANGED vars
  BY <1>0, <1>13 DEF TypeOK, vars, disk
<1> QED
  BY <1>1, <1>2, <1>3, <1>4, <1>5, <1>6, <1>7, <1>8, <1>9, <1>10, <1>11, <1>12, <1>13
  DEF Next, Operator, WatcherStep, SaveAtomically, Delete, Contents

-----------------------------------------------------------------------------
(* The bundle, the reloads and the file.                                   *)

WatcherInv ==
    /\ BundleIffWatcher
    /\ BundleOfFile
    /\ OneReload
    /\ ReloadsForward
    /\ Fresh

\* A new save: the bundle and the reloads are those of earlier ones, and the watcher
\* has an event to come or has missed it.
LEMMA SaveStep ==
    ASSUME IndInv, TypeOK', file'.num \in {file.num, file.num + 1},
           missed' # "no" \/ pending' > 0,
           UNCHANGED <<loop, reloads, bundle>>
    PROVE  WatcherInv'
<1> USE DEF IndInv
<1>1. BundleIffWatcher' /\ OneReload'
  BY DEF BundleIffWatcher, OneReload
<1>2. file.num \in Nat /\ file'.num \in Nat /\ file.num <= file'.num
  BY DEF TypeOK, Saves
<1>3. bundle # None => bundle.num \in Nat
  BY DEF TypeOK, Saves
<1>4. BundleOfFile'
  BY <1>2, <1>3 DEF BundleOfFile, Compiles
<1>5. \A r \in reloads : r.src.num \in Nat
  BY DEF TypeOK, Saves
<1>6. ReloadsForward'
  BY <1>2, <1>5 DEF ReloadsForward
<1>7. Fresh'
  BY DEF Fresh, TypeOK
<1> QED
  BY <1>1, <1>4, <1>6, <1>7 DEF WatcherInv

\* Every step keeps what is known of the bundle and of the reloads.
LEMMA WatcherStepKeeps == IndInv /\ [Next]_vars => WatcherInv'
<1> SUFFICES ASSUME IndInv, [Next]_vars PROVE WatcherInv'
  OBVIOUS
<1> USE DEF WatcherInv
<1>0. TypeOK /\ TypeOK' /\ WatcherInv
  BY TypeStep DEF IndInv
<1>1. ASSUME NEW v \in Versions, Truncate(v) PROVE WatcherInv'
  <2>1. file'.num = file.num + 1
    BY <1>1 DEF Truncate
  <2> QED
    BY <1>0, <1>1, <2>1, NotifyFacts, SaveStep DEF Truncate
<1>2. CASE Write
  <2>1. file'.num = file.num
    BY <1>0, <1>2 DEF Write, TypeOK, Saves
  <2> QED
    BY <1>0, <1>2, <2>1, NotifyFacts, SaveStep DEF Write
<1>3. ASSUME NEW kind, NEW text, Replace(kind, text) PROVE WatcherInv'
  <2>1. file'.num = file.num + 1
    BY <1>3 DEF Replace
  <2>2. missed' # "no"
    BY <1>3 DEF Replace
  <2> QED
    BY <1>0, <1>3, <2>1, <2>2, SaveStep DEF Replace
<1>4. CASE InitialLoad
  <2>1. reloads' = {} /\ bundle' = file' /\ loop' = "starting" /\ Compiles(file'.text)
    BY <1>0, <1>4 DEF InitialLoad, OneReload, Compiles
  <2>2. bundle' # None /\ file'.num \in Nat
    BY <1>0, <2>1, SaveIsSome DEF TypeOK, Saves
  <2> QED
    BY <2>1, <2>2 DEF BundleIffWatcher, BundleOfFile, OneReload, ReloadsForward, Fresh, Compiles
<1>5. CASE InitialLoadFails \/ AddWatch \/ WatchFails \/ Close \/ LoopStops
  <2>1. /\ UNCHANGED <<file, missed, reloads, bundle>>
        /\ reloads # {} => loop' = loop
        /\ loop' \in {"starting", "on"} => loop \in {"starting", "on"} /\ pending' = pending
        /\ loop \in {"starting", "on", "off"} <=> loop' \in {"starting", "on", "off"}
    BY <1>0, <1>5 DEF InitialLoadFails, AddWatch, WatchFails, Close, LoopStops, OneAtATime,
                      OneReload, disk
  <2> QED
    BY <1>0, <2>1 DEF BundleIffWatcher, BundleOfFile, OneReload, ReloadsForward, Fresh, Compiles
<1>6. CASE ReloadReads
  <2> DEFINE r == [stage |-> "read", src |-> file]
  <2>1. reloads' = {r} /\ UNCHANGED <<file, bundle, loop>> /\ loop = "on"
    BY <1>6 DEF ReloadReads, OneAtATime
  <2>2. r.stage = "read" /\ r.src = file
    OBVIOUS
  <2> HIDE DEF r
  <2>3. bundle # None
    BY <1>0, <2>1 DEF BundleIffWatcher
  <2>4. bundle.num <= file.num /\ file.num <= file.num
    BY <1>0, <2>3 DEF BundleOfFile, TypeOK, Saves
  <2>5. ReloadsForward' /\ OneReload' /\ Fresh'
    BY <2>1, <2>2, <2>4 DEF OneReload, ReloadsForward, Fresh
  <2> QED
    BY <1>0, <2>1, <2>5 DEF BundleIffWatcher, BundleOfFile, Compiles
<1>7. ASSUME NEW r \in reloads, ReloadSwaps(r) PROVE WatcherInv'
  <2> DEFINE s == [r EXCEPT !.stage = "swapped"]
  <2>1. s.src = r.src /\ s.stage = "swapped"
    BY <1>0 DEF TypeOK
  <2> HIDE DEF s
  <2>2. reloads' = {s}
    BY <1>0, <1>7 DEF ReloadSwaps, OneReload, s
  <2>3. /\ bundle' = r.src /\ loop = "on" /\ UNCHANGED <<file, loop, missed, pending>>
        /\ Compiles(r.src.text)
    BY <1>0, <1>7 DEF ReloadSwaps, OneReload, EventsLeft
  <2>4. bundle' # None /\ r.src.num \in Nat /\ r.src.num <= file.num
    BY <1>0, <2>3, SaveIsSome DEF TypeOK, Saves, ReloadsForward
  <2>5. Fresh'
    BY <1>0, <2>1, <2>2, <2>3 DEF Fresh
  <2>6. ReloadsForward' /\ OneReload'
    BY <2>1, <2>2, <2>3, <2>4 DEF OneReload, ReloadsForward
  <2>7. BundleOfFile' /\ BundleIffWatcher'
    BY <2>3, <2>4 DEF BundleIffWatcher, BundleOfFile, Compiles
  <2> QED
    BY <2>5, <2>6, <2>7
<1>8. ASSUME NEW r \in reloads, ReloadFails(r) PROVE WatcherInv'
  <2>1. reloads' = {} /\ UNCHANGED <<file, missed, pending, loop, bundle>> /\ ~Compiles(r.src.text)
    BY <1>0, <1>8 DEF ReloadFails, OneReload, KeepBundle, disk
  <2>2. Fresh'
    BY <1>0, <2>1 DEF Fresh, Compiles
  <2> QED
    BY <1>0, <2>1, <2>2 DEF BundleIffWatcher, BundleOfFile, OneReload, ReloadsForward, Compiles
<1>9. ASSUME NEW r \in reloads, ReloadPublishes(r) PROVE WatcherInv'
  <2>1. reloads' = {} /\ UNCHANGED <<file, missed, pending, loop, bundle>> /\ bundle = r.src
    BY <1>0, <1>9 DEF ReloadPublishes, OneReload, ReloadsForward, disk
  <2>2. Fresh'
    BY <1>0, <2>1 DEF Fresh, Compiles
  <2> QED
    BY <1>0, <2>1, <2>2 DEF BundleIffWatcher, BundleOfFile, OneReload, ReloadsForward, Compiles
<1>10. CASE Restart
  BY <1>10 DEF Restart, BundleIffWatcher, BundleOfFile, OneReload, ReloadsForward, Fresh
<1>11. CASE UNCHANGED <<file, missed, pending, loop, reloads, bundle>>
  BY <1>0, <1>11 DEF BundleIffWatcher, BundleOfFile, OneReload, ReloadsForward, Fresh, Compiles
<1>12. ASSUME NEW k \in cache, CacheExpires(k) PROVE WatcherInv'
  BY <1>11, <1>12 DEF CacheExpires, disk
<1>13. ASSUME NEW t \in Tenants, EvalPolicy(t) PROVE WatcherInv'
  BY <1>11, <1>13 DEF EvalPolicy, disk
<1>14. CASE UNCHANGED vars
  BY <1>11, <1>14 DEF vars, disk
<1> QED
  BY <1>1, <1>2, <1>3, <1>4, <1>5, <1>6, <1>7, <1>8, <1>9, <1>10, <1>12, <1>13, <1>14
  DEF Next, Operator, WatcherStep, SaveAtomically, Delete

-----------------------------------------------------------------------------
(* The requests and the cache.                                             *)

\* The bundle of a running gateway is only replaced by a later save.
LEMMA BundleForward ==
    ASSUME IndInv, [Next]_vars, bundle # None, bundle' # None
    PROVE  bundle.num <= bundle'.num
<1> USE DEF IndInv
<1>1. bundle.num \in Nat
  BY DEF TypeOK, Saves
<1>2. CASE bundle' = bundle
  BY <1>1, <1>2
<1>3. ASSUME NEW r \in reloads, ReloadSwaps(r) PROVE bundle.num <= bundle'.num
  BY <1>3 DEF ReloadSwaps, ReloadsForward
<1>4. CASE InitialLoad
  BY <1>4 DEF InitialLoad, BundleIffWatcher
<1>5. CASE Restart
  BY <1>5 DEF Restart
<1>6. CASE UNCHANGED vars
  BY <1>2, <1>6 DEF vars
<1> QED
  BY <1>2, <1>3, <1>4, <1>5, <1>6
  DEF Next, Operator, WatcherStep, Truncate, SaveAtomically, Write, Delete, Replace, InitialLoadFails,
      AddWatch, WatchFails, ReloadReads, ReloadFails, KeepBundle, ReloadPublishes, LoopStops, Close,
      CacheExpires, EvalPolicy

\* The answer that the last request got stays in the past.
LEMMA SeenStep == IndInv /\ [Next]_vars => SeenIsPast'
<1> SUFFICES ASSUME IndInv, [Next]_vars PROVE SeenIsPast'
  OBVIOUS
<1>0. TypeOK /\ TypeOK' /\ BundleIffWatcher /\ BundleIffWatcher' /\ SeenIsPast
  BY TypeStep, WatcherStepKeeps DEF IndInv, WatcherInv
<1>1. CASE seen' = None
  BY <1>1 DEF SeenIsPast
<1>2. CASE seen' = seen /\ loop' \in {"starting", "on", "off"}
  <2> SUFFICES ASSUME seen # None, seen.rules >= 0
               PROVE  bundle' # None /\ seen.rules <= bundle'.num
    BY <1>2 DEF SeenIsPast
  <2>1. bundle # None /\ bundle' # None /\ seen.rules <= bundle.num
    BY <1>0, <1>2 DEF SeenIsPast, BundleIffWatcher
  <2>2. bundle.num <= bundle'.num
    BY <2>1, BundleForward
  <2>3. seen.rules \in Int /\ bundle.num \in Int /\ bundle'.num \in Int
    BY <1>0, <2>1 DEF TypeOK, Saves
  <2> QED
    BY <2>1, <2>2, <2>3
<1>3. CASE UNCHANGED <<seen, bundle>>
  BY <1>0, <1>3 DEF SeenIsPast
<1>4. ASSUME NEW t \in Tenants, EvalPolicy(t) PROVE SeenIsPast'
  <2>1. bundle # None => bundle.num \in Nat
    BY <1>0 DEF TypeOK, Saves
  <2> QED
    BY <1>4, <2>1 DEF EvalPolicy, SeenIsPast
<1>5. CASE Restart
  BY <1>1, <1>5 DEF Restart
<1>6. CASE InitialLoad
  BY <1>2, <1>6 DEF InitialLoad
<1>7. ASSUME NEW r \in reloads, ReloadSwaps(r) PROVE SeenIsPast'
  <2>1. loop' = "on"
    BY <1>7 DEF ReloadSwaps, IndInv, OneReload
  <2> QED
    BY <1>2, <1>7, <2>1 DEF ReloadSwaps
<1>8. CASE UNCHANGED vars
  BY <1>3, <1>8 DEF vars
<1> QED
  BY <1>3, <1>4, <1>5, <1>6, <1>7, <1>8
  DEF Next, Operator, WatcherStep, Truncate, SaveAtomically, Write, Delete, Replace, InitialLoadFails,
      AddWatch, WatchFails, ReloadReads, ReloadFails, KeepBundle, ReloadPublishes, LoopStops, Close,
      CacheExpires

-----------------------------------------------------------------------------

\* The invariant is inductive: saves, events, reloads, failures and restarts keep it.
THEOREM WatcherInvariant == Spec => []IndInv
<1>1. IndInv /\ [Next]_vars => IndInv'
  BY TypeStep, WatcherStepKeeps, SeenStep DEF IndInv, WatcherInv
<1> QED
  BY <1>1, IndInvInit, PTL DEF Spec

\* The types hold for every set of texts and tenants.
THEOREM WatcherTypeCorrect == Spec => []TypeOK
<1>1. IndInv => TypeOK
  BY DEF IndInv
<1> QED
  BY <1>1, WatcherInvariant, PTL

\* A gateway that started with a policy always serves one that compiled: no torn,
\* broken or missing file becomes active or clears it (watcher.go, reload).
THEOREM WatcherServesCompiled == Spec => []ServesCompiled
<1>1. IndInv => ServesCompiled
  BY DEF IndInv, ServesCompiled, BundleIffWatcher, BundleOfFile, Compiles
<1> QED
  BY <1>1, WatcherInvariant, PTL

\* A watcher that has handled its events has the file's policy active (watch, reload).
THEOREM WatcherConverges == Spec => []Converged
<1>1. IndInv => Converged
  BY DEF IndInv, Converged, Fresh, Compiles
<1> QED
  BY <1>1, WatcherInvariant, PTL

\* No request is judged by rules older than those of an earlier request of its tenant,
\* as long as the gateway runs (evalPolicy, reload).
THEOREM WatcherNeverRollsBack == Spec => NoRollback
<1> DEFINE Forward ==
      seen # None /\ seen' # None /\ seen'.tenant = seen.tenant /\ seen'.rules >= 0
          => seen'.rules >= seen.rules
<1>1. IndInv /\ [Next]_vars => [Forward]_vars
  <2> SUFFICES ASSUME IndInv, [Next]_vars, seen # None, seen' # None, seen'.rules >= 0
               PROVE  seen'.rules >= seen.rules
    OBVIOUS
  <2>1. seen.rules \in Int /\ (bundle # None => bundle.num \in Int)
    BY DEF IndInv, TypeOK, Saves
  <2>2. CASE seen' = seen
    BY <2>1, <2>2
  <2>3. ASSUME NEW t \in Tenants, EvalPolicy(t) PROVE seen'.rules >= seen.rules
    BY <2>1, <2>3 DEF EvalPolicy, IndInv, SeenIsPast
  <2>4. CASE Restart
    BY <2>4 DEF Restart
  <2>5. CASE UNCHANGED vars
    BY <2>2, <2>5 DEF vars
  <2> QED
    BY <2>2, <2>3, <2>4, <2>5
    DEF Next, Operator, WatcherStep, Truncate, SaveAtomically, Write, Delete, Replace, InitialLoad,
        InitialLoadFails, AddWatch, WatchFails, ReloadReads, ReloadSwaps, ReloadFails, ReloadPublishes,
        LoopStops, Close, CacheExpires
<1> QED
  BY <1>1, WatcherInvariant, PTL DEF Spec, NoRollback

\* Whatever is published is the policy in force at that moment: publishToCache of
\* watcher.go never runs for a bundle that another reload has already replaced.
THEOREM WatcherPublishesActive == Spec => PublishesActive
<1> DEFINE Published == \A k \in cache' \ cache : bundle' # None /\ k.source = bundle'.text
<1>1. IndInv /\ [Next]_vars => [Published]_vars
  <2> SUFFICES ASSUME IndInv, [Next]_vars PROVE Published
    OBVIOUS
  <2>0. cache \subseteq Keys /\ file # None
    BY SaveIsSome DEF IndInv, TypeOK
  <2>1. CASE cache' \subseteq cache
    BY <2>1
  <2>2. CASE InitialLoad
    <3>1. bundle' = file /\ Compiles(file.text) /\ PublishToCache(file.text)
      BY <2>2 DEF InitialLoad
    <3> QED
      BY <2>0, <3>1, PublishKeepsCache
  <2>3. ASSUME NEW r \in reloads, ReloadPublishes(r) PROVE Published
    <3>1. bundle' = bundle /\ bundle = r.src /\ PublishToCache(r.src.text)
      BY <2>3 DEF ReloadPublishes, IndInv, ReloadsForward
    <3>2. bundle # None
      BY <2>3 DEF IndInv, OneReload, BundleIffWatcher
    <3>3. Compiles(r.src.text)
      BY <3>1, <3>2 DEF IndInv, BundleOfFile
    <3> QED
      BY <2>0, <3>1, <3>2, <3>3, PublishKeepsCache
  <2>4. ASSUME NEW k \in cache, CacheExpires(k) PROVE Published
    BY <2>1, <2>4 DEF CacheExpires
  <2>5. CASE UNCHANGED vars
    BY <2>1, <2>5 DEF vars
  <2> QED
    BY <2>1, <2>2, <2>3, <2>4, <2>5
    DEF Next, Operator, WatcherStep, Truncate, SaveAtomically, Write, Delete, Replace,
        InitialLoadFails, AddWatch, WatchFails, ReloadReads, ReloadSwaps, ReloadFails, LoopStops,
        Close, Restart, EvalPolicy
<1> QED
  BY <1>1, WatcherInvariant, PTL DEF Spec, PublishesActive

-----------------------------------------------------------------------------
(* The register.                                                           *)

\* The value of the register: the save that is active.
Active == IF bundle = None THEN -1 ELSE bundle.num

\* What the register may do, in the watcher's variables.
RegisterStep ==
    \/ file'.num = file.num + 1 /\ Active' = Active
    \/ Active = -1 /\ Active' = file.num /\ file'.num = file.num
    \/ Active' = -1 /\ file'.num = file.num
    \/ \E n \in Active..file.num : Active >= 0 /\ Active' = n /\ file'.num = file.num

\* Every step of the watcher is a step of the register or leaves it alone.
LEMMA StepRefines ==
    ASSUME IndInv, [Next]_vars
    PROVE  RegisterStep \/ (file'.num = file.num /\ Active' = Active)
<1> DEFINE Goal == RegisterStep \/ (file'.num = file.num /\ Active' = Active)
<1> USE DEF RegisterStep
<1>0. TypeOK /\ TypeOK'
  BY TypeStep DEF IndInv
<1>1. CASE UNCHANGED <<file, bundle>>
  BY <1>1 DEF Active
<1>2. ASSUME NEW v \in Versions, Truncate(v) PROVE Goal
  BY <1>2 DEF Truncate, Active
<1>3. CASE Write
  <2>1. file'.num = file.num
    BY <1>0, <1>3 DEF Write, TypeOK, Saves
  <2> QED
    BY <1>3, <2>1 DEF Write, Active
<1>4. ASSUME NEW kind, NEW text, Replace(kind, text) PROVE Goal
  BY <1>4 DEF Replace, Active
<1>5. CASE InitialLoad
  <2>1. bundle = None /\ bundle' = file /\ file' = file /\ file # None
    BY <1>0, <1>5, SaveIsSome DEF InitialLoad, IndInv, BundleIffWatcher, TypeOK
  <2> QED
    BY <2>1 DEF Active
<1>6. CASE Restart
  BY <1>6 DEF Restart, Active
<1>7. ASSUME NEW r \in reloads, ReloadSwaps(r) PROVE Goal
  <2>1. bundle # None /\ bundle' = r.src /\ r.src # None /\ file' = file
    BY <1>0, <1>7, SaveIsSome DEF ReloadSwaps, IndInv, OneReload, BundleIffWatcher, TypeOK
  <2>2. bundle.num \in Nat /\ r.src.num \in Nat /\ file.num \in Nat
    BY <1>0, <2>1 DEF TypeOK, Saves
  <2>3. r.src.num \in bundle.num..file.num
    BY <2>2 DEF IndInv, ReloadsForward
  <2>4. Active = bundle.num /\ Active' = r.src.num /\ file'.num = file.num /\ Active >= 0
    BY <2>1, <2>2 DEF Active
  <2> QED
    BY <2>3, <2>4
<1>8. CASE UNCHANGED vars
  BY <1>1, <1>8 DEF vars, disk
<1> QED
  BY <1>1, <1>2, <1>3, <1>4, <1>5, <1>6, <1>7, <1>8
  DEF Next, Operator, WatcherStep, SaveAtomically, Delete, InitialLoadFails, AddWatch, WatchFails,
      ReloadReads, ReloadFails, KeepBundle, ReloadPublishes, LoopStops, Close, CacheExpires, EvalPolicy, disk

\* The watcher implements the register: requests see the newest save when the gateway
\* starts, and then only later ones, whatever happens to the file (PolicyRegister).
THEOREM WatcherImplementsRegister == Spec => ImplementsRegister
<1>1. Init => Register!RegisterInit
  BY DEF Init, Register!RegisterInit
<1>2. IndInv /\ [Next]_vars => [Register!RegisterNext]_(Register!registerVars)
  <2> SUFFICES ASSUME IndInv, [Next]_vars
               PROVE  [Register!RegisterNext]_(Register!registerVars)
    OBVIOUS
  <2> QED
    BY StepRefines DEF RegisterStep, Active, Register!RegisterNext, Register!registerVars,
        Register!Save, Register!Start, Register!Adopt, Register!Reset
<1> QED
  BY <1>1, <1>2, WatcherInvariant, PTL DEF Spec, ImplementsRegister, Register!RegisterSpec
=============================================================================
