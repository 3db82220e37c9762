---------------------------- MODULE PolicyWatcher ----------------------------
(***************************************************************************)
(* The hot-reloaded policy: the Watcher of policy/watcher.go, the file it  *)
(* follows, the operator who edits that file, the Redis cache it publishes *)
(* to (cache/policy.go), and the requests that evaluate the active bundle  *)
(* (evalPolicy in gateway/gateway.go).                                     *)
(*                                                                         *)
(* A policy text is a member of Versions; those in Broken do not compile.  *)
(* Every save gives the file a new number, so that two saves of one text   *)
(* are told apart.  fsnotify watches the file itself and not its           *)
(* directory: a save that replaces the file leaves the watch behind.       *)
(***************************************************************************)
EXTENDS Integers, FiniteSets, Functions

CONSTANTS
    Versions,       \* policy texts
    Broken,         \* those that do not parse or compile
    Tenants,        \* tenants that send requests
    tenantOf,       \* per text: the tenant it names
    contentVersion, \* per text: its hash
    SaveKinds,      \* how the operator saves
    Torn, Missing,  \* a file cut short, and no file
    None,           \* no bundle, no answer
    MaxSaves,       \* bound: saves and deletions
    MaxRestarts     \* bound: restarts of the gateway

ASSUME PolicyAssumption ==
    /\ Broken \subseteq Versions
    /\ tenantOf \in [Versions -> Tenants]
    /\ SaveKinds \subseteq {"inplace", "atomic", "delete"}
    /\ {Torn, Missing} \cap Versions = {}
    /\ None \notin Versions \cup {Torn, Missing}
    /\ None \notin [num : Nat, text : Versions \cup {Torn, Missing}]
    /\ DOMAIN contentVersion = Versions
    /\ MaxSaves \in Nat /\ MaxRestarts \in Nat

VARIABLES
    file,       \* the file at the path: number of the save, text
    saving,     \* the text of an in-place save under way
    watched,    \* fsnotify's watch is on the file at the path
    pending,    \* Write events not yet received
    missed,     \* the last change raised no event, and why
    loop,       \* the watcher: where NewWatcher and watch() are
    done,       \* Close was called
    reloads,    \* reloads under way
    bundle,     \* w.bundle: the save it was compiled from
    seen,       \* the last request's answer from evalPolicy
    cache,      \* keys in Redis, each with the text it holds
    restarts    \* restarts so far

disk  == <<file, saving, watched, pending, missed>>
vars  == <<disk, loop, done, reloads, bundle, seen, cache, restarts>>

Contents == Versions \cup {Torn, Missing}
Saves == [num : 0..MaxSaves, text : Contents]
Keys == [tenant : Tenants, version : Range(contentVersion), source : Versions]

Init ==
    /\ file \in [num : {0}, text : Versions \cup {Missing}]
    /\ saving = None
    /\ watched = FALSE
    /\ pending = 0
    /\ missed = "no"
    /\ loop = "boot"
    /\ done = FALSE
    /\ reloads = {}
    /\ bundle = None
    /\ seen = None
    /\ cache = {}
    /\ restarts = 0

-----------------------------------------------------------------------------
(* The operator and fsnotify.                                              *)

\* The event of a write: inotify merges it with an equal one at the end of
\* its queue, while fsnotify may hold one more in its hand.
Notify ==
    IF watched
    THEN pending' = (IF pending < 2 THEN pending + 1 ELSE 2) /\ UNCHANGED missed
    ELSE missed' = (IF loop = "on" THEN "detached" ELSE "early") /\ UNCHANGED pending

\* The file is opened for writing, which empties it...
Truncate(v) ==
    /\ "inplace" \in SaveKinds
    /\ file.num < MaxSaves
    /\ saving = None /\ file.text # Missing
    /\ file' = [num |-> file.num + 1, text |-> Torn]
    /\ saving' = v
    /\ Notify
    /\ UNCHANGED <<watched, loop, done, reloads, bundle, seen, cache, restarts>>

\* ...and the text is written.
Write ==
    /\ saving # None
    /\ file' = [file EXCEPT !.text = saving]
    /\ saving' = None
    /\ Notify
    /\ UNCHANGED <<watched, loop, done, reloads, bundle, seen, cache, restarts>>

\* Another file takes the path.  What the watch still reports is that its own
\* file is gone, which watch() ignores.
Replace(kind, text) ==
    /\ kind \in SaveKinds
    /\ file.num < MaxSaves
    /\ saving = None
    /\ file' = [num |-> file.num + 1, text |-> text]
    /\ watched' = FALSE
    /\ missed' = (IF loop = "on" THEN "detached" ELSE "early")
    /\ UNCHANGED <<saving, pending, loop, done, reloads, bundle, seen, cache, restarts>>

SaveAtomically(v) == Replace("atomic", v)

Delete == file.text # Missing /\ Replace("delete", Missing)

-----------------------------------------------------------------------------
(* The policy cache.                                                       *)

\* cacheKey names the tenant and the version, and SET replaces what the key held.
Stored(k) == {c \in cache : <<c.tenant, c.version>> # <<k.tenant, k.version>>} \cup {k}

\* PolicyCache.Set, on a Redis that answers.
Publish(v) ==
    LET k == [tenant |-> tenantOf[v], version |-> contentVersion[v], source |-> v]
    IN  cache' = Stored(k)

\* publishToCache: best effort.
PublishToCache(v) == Publish(v) \/ UNCHANGED cache

\* policyTTL is over.
CacheExpires(k) ==
    /\ k \in cache
    /\ cache' = cache \ {k}
    /\ UNCHANGED <<disk, loop, done, reloads, bundle, seen, restarts>>

-----------------------------------------------------------------------------
(* The watcher.                                                            *)

\* Whether load succeeds.  That it fails on a text cut short is LoadsAsWritten of
\* Guardrails.
Compiles(text) == text \in Versions \ Broken

\* NewWatcher
InitialLoad ==
    /\ loop = "boot"
    /\ Compiles(file.text)
    /\ bundle' = file
    /\ PublishToCache(file.text)
    /\ missed' = "no"
    /\ loop' = "starting"
    /\ UNCHANGED <<file, saving, watched, pending, done, reloads, seen, restarts>>

\* s.policy stays nil.
InitialLoadFails ==
    /\ loop = "boot"
    /\ ~Compiles(file.text)
    /\ loop' = "nopolicy"
    /\ UNCHANGED <<disk, done, reloads, bundle, seen, cache, restarts>>

\* fsw.Add
AddWatch ==
    /\ loop = "starting"
    /\ file.text # Missing
    /\ watched' = TRUE
    /\ loop' = "on"
    /\ UNCHANGED <<file, saving, pending, missed, done, reloads, bundle, seen, cache, restarts>>

\* fsnotify fails, or there is no file to watch.
WatchFails ==
    /\ loop = "starting"
    /\ loop' = "off"
    /\ UNCHANGED <<disk, done, reloads, bundle, seen, cache, restarts>>

\* Mutant: a goroutine for each reload.
TwoAtATime == Cardinality(reloads) < 2

\* watch() calls reload and waits for it.
OneAtATime == reloads = {}

\* Mutant: a select that does not wait.
PollsAnyway == TRUE

\* The channel has an event.
EventReady == pending > 0

\* A Write event arrives, and reload reads the file.
ReloadReads ==
    /\ loop = "on"
    /\ EventReady
    /\ OneAtATime
    /\ pending' = pending - 1
    /\ reloads' = reloads \cup {[stage |-> "read", src |-> file]}
    /\ missed' = "no"
    /\ UNCHANGED <<file, saving, watched, loop, done, bundle, seen, cache, restarts>>

\* Mutant: the events that came during a reload are drained after it.
EventsDrained == 0

\* The events that came during a reload.
EventsLeft == pending

\* The compiled bundle is swapped in.
ReloadSwaps(r) ==
    /\ r.stage = "read"
    /\ Compiles(r.src.text)
    /\ bundle' = r.src
    /\ reloads' = (reloads \ {r}) \cup {[r EXCEPT !.stage = "swapped"]}
    /\ pending' = EventsLeft
    /\ UNCHANGED <<file, saving, watched, missed, loop, done, seen, cache, restarts>>

\* Mutant: the failed load's nil bundle is stored.
ClearBundle == None

\* The bundle after a failed load.
KeepBundle == bundle

\* The error is logged.
ReloadFails(r) ==
    /\ r.stage = "read"
    /\ ~Compiles(r.src.text)
    /\ reloads' = reloads \ {r}
    /\ bundle' = KeepBundle
    /\ UNCHANGED <<disk, loop, done, seen, cache, restarts>>

ReloadPublishes(r) ==
    /\ r.stage = "swapped"
    /\ PublishToCache(r.src.text)
    /\ reloads' = reloads \ {r}
    /\ UNCHANGED <<disk, loop, done, bundle, seen, restarts>>

Close ==
    /\ loop \in {"starting", "on", "off"}
    /\ ~done
    /\ done' = TRUE
    /\ UNCHANGED <<disk, loop, reloads, bundle, seen, cache, restarts>>

\* The loop sees done; an event that is also there may be taken first.
LoopStops ==
    /\ loop = "on"
    /\ done
    /\ OneAtATime
    /\ loop' = "off"
    /\ watched' = FALSE
    /\ pending' = 0
    /\ UNCHANGED <<file, saving, missed, done, reloads, bundle, seen, cache, restarts>>

\* The gateway is restarted; the file and the cache survive.
Restart ==
    /\ restarts < MaxRestarts
    /\ restarts' = restarts + 1
    /\ loop' = "boot"
    /\ done' = FALSE
    /\ watched' = FALSE
    /\ pending' = 0
    /\ reloads' = {}
    /\ bundle' = None
    /\ seen' = None
    /\ UNCHANGED <<file, saving, missed, cache>>

-----------------------------------------------------------------------------

\* evalPolicy for a request of tenant t: the rules of the active bundle, if it
\* is the tenant's.
EvalPolicy(t) ==
    /\ loop # "boot"
    /\ LET applies == bundle # None /\ tenantOf[bundle.text] = t
       IN  seen' = [tenant |-> t, rules |-> IF applies THEN bundle.num ELSE -1]
    /\ UNCHANGED <<disk, loop, done, reloads, bundle, cache, restarts>>

Operator ==
    \/ \E v \in Versions : Truncate(v) \/ SaveAtomically(v)
    \/ Write
    \/ Delete

WatcherStep ==
    \/ InitialLoad
    \/ InitialLoadFails
    \/ AddWatch
    \/ WatchFails
    \/ ReloadReads
    \/ \E r \in reloads : ReloadSwaps(r) \/ ReloadFails(r) \/ ReloadPublishes(r)
    \/ LoopStops

Next ==
    \/ Operator
    \/ WatcherStep
    \/ Close
    \/ Restart
    \/ \E k \in cache : CacheExpires(k)
    \/ \E t \in Tenants : EvalPolicy(t)

Spec == Init /\ [][Next]_vars

\* Goroutines run, the kernel delivers events, and a save that began ends.
FairSpec == Spec /\ WF_vars(WatcherStep) /\ WF_vars(Write)

-----------------------------------------------------------------------------

\* Types of the watcher's state, of the file and of the cache.
TypeOK ==
    /\ file \in Saves
    /\ saving \in Versions \cup {None}
    /\ watched \in BOOLEAN
    /\ pending \in 0..2
    /\ missed \in {"no", "early", "detached"}
    /\ loop \in {"boot", "nopolicy", "starting", "on", "off"}
    /\ done \in BOOLEAN
    /\ reloads \subseteq [stage : {"read", "swapped"}, src : Saves]
    /\ bundle \in Saves \cup {None}
    /\ seen \in [tenant : Tenants, rules : -1..MaxSaves] \cup {None}
    /\ cache \subseteq Keys
    /\ restarts \in 0..MaxRestarts

\* Once the gateway started with a policy it serves one that compiled, whatever is
\* on disk: a half-written or broken file neither becomes active nor clears it.
ServesCompiled ==
    loop \in {"starting", "on", "off"} => bundle # None /\ bundle.text \in Versions \ Broken

\* Every change that raised an event is in the bundle once the watcher is idle:
\* no interleaving of saves and reloads leaves an older policy active for good.
Converged ==
    /\ loop = "on" /\ saving = None /\ file.text \in Versions \ Broken
    /\ pending = 0 /\ reloads = {} /\ missed = "no"
    => bundle = file

\* Requests of a tenant never go back to rules older than those an earlier one was
\* judged by, as long as the gateway runs and the policy stays the tenant's.
NoRollback ==
    [][seen # None /\ seen' # None /\ seen'.tenant = seen.tenant /\ seen'.rules >= 0
            => seen'.rules >= seen.rules]_vars

\* A policy is published while it is in force: no reload that was overtaken, and no
\* load that failed, puts its text into the cache that other instances share.
PublishesActive ==
    [][\A k \in cache' \ cache : bundle' # None /\ k.source = bundle'.text]_vars

\* The watcher as the requests see it.
Register == INSTANCE PolicyRegister WITH
    saved  <- file.num,
    active <- IF bundle = None THEN -1 ELSE bundle.num

\* Saves, events, reloads, failures and restarts together implement the register: the
\* file's newest text at the start, then forward from save to save.
ImplementsRegister == Register!RegisterSpec

\* The policy in the file, if it compiles and no save is under way, is the active one.
FollowsFile == saving = None /\ file.text \in Versions \ Broken => bundle = file

\* In-place saves made while the file is watched are in force sooner or later.
SavesTakeEffect == <>[](loop = "on" /\ missed = "no") => <>[]FollowsFile

\* watcher.go: the event filter "also catches rename/create for editors that save
\* atomically by writing a temp file then renaming".
AtomicSaveReloads == <>[](loop = "on" /\ missed # "early") => <>[]FollowsFile
=============================================================================
