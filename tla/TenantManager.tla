--------------------------- MODULE TenantManager ---------------------------
(***************************************************************************)
(* The tenant configuration cache of driver/config/tenant_manager.go       *)
(* (TenantManager): request goroutines resolving tenants through           *)
(* GetTenantConfig / loadTenantConfig under one sync.RWMutex, the file     *)
(* watchers attached by setupTenantWatcher, their callbacks and the        *)
(* fire-and-forget preload goroutines they spawn, and the administrative   *)
(* operations InvalidateTenantConfig and Shutdown.  The tenant files on    *)
(* disk are the environment.                                               *)
(*                                                                         *)
(* A configuration snapshot (a configx.Provider pointer) is abstracted to *)
(* the version of the tenant file it was parsed from.  The RWMutex is not *)
(* a variable: it is held for writing by the request goroutine in "load" or  *)
(* "setup" and for reading by those in "read"; preload installs,           *)
(* Invalidate and Shutdown take and release it within one step.            *)
(***************************************************************************)
EXTENDS Integers

CONSTANTS
    Procs,              \* request-handling goroutines
    Tenants,            \* non-default tenant identifiers
    MaxVer,             \* bound on writes to each tenant file
    MaxInvalidations,   \* bound on calls of InvalidateTenantConfig
    NestedLock          \* TRUE: setupTenantWatcher re-locks tm.mu as written

ASSUME ConstAssumption ==
    /\ MaxVer \in Nat
    /\ MaxInvalidations \in Nat
    /\ NestedLock \in BOOLEAN

VARIABLES
    pc,             \* pc[p]: where request goroutine p is in GetTenantConfig
    req,            \* req[p]: the tenantID p is resolving
    tenantConfigs,  \* tm.tenantConfigs: tenant -> version of cached provider
    watchers,       \* watchers[t]: tm.watchers has a cleanup func for t
    live,           \* live[t]: file watchers on t's file still running
    events,         \* events[t]: watcher callbacks for t not yet run
    spawned,        \* spawned[t]: preload goroutines that have not read the file
    loaded,         \* loaded[t][v]: preload goroutines holding version v, not installed
    fileVer,        \* fileVer[t]: number of writes to t's kratos.yaml so far
    fileState,      \* fileState[t]: "absent", "valid" or "invalid"
    down,           \* Shutdown has been called
    fatal,          \* the Go runtime aborted on a concurrent map access
    invalidations,  \* calls of InvalidateTenantConfig so far
    seenVer,        \* history: fileVer[t] when a callback for t last invalidated
    validated,      \* history: the versions of t's file that could be parsed
    forceLoad       \* history: InvalidateTenantConfig(t) not yet followed by a load

vars == <<pc, req, tenantConfigs, watchers, live, events, spawned, loaded,
          fileVer, fileState, down, fatal, invalidations, seenVer,
          validated, forceLoad>>

Versions == 0 .. MaxVer

\* The absent map key of tm.tenantConfigs.
NoEntry == -1

FileStates == {"absent", "valid", "invalid"}

PCs == {"idle", "rlock", "read", "lock", "load", "setup"}

\* tm.mu held for writing / reading by a request goroutine.
WriteHeld == \E q \in Procs : pc[q] \in {"load", "setup"}
ReadHeld == \E q \in Procs : pc[q] = "read"

\* A writer is blocked in tm.mu.Lock(): Go's RWMutex then blocks new readers.
WriterPending == \E q \in Procs : pc[q] = "lock"

\* configx.New succeeds only on a file that exists and validates.
Loadable(t) == fileState[t] = "valid"

\* The versions of a file in state s at version v that configx can parse.
ValidIf(s, v) == IF s = "valid" THEN {v} ELSE {}

TypeOK ==
    /\ pc \in [Procs -> PCs]
    /\ req \in [Procs -> Tenants]
    /\ tenantConfigs \in [Tenants -> Versions \cup {NoEntry}]
    /\ watchers \in [Tenants -> BOOLEAN]
    /\ live \in [Tenants -> Nat]
    /\ events \in [Tenants -> Nat]
    /\ spawned \in [Tenants -> Nat]
    /\ loaded \in [Tenants -> [Versions -> Nat]]
    /\ fileVer \in [Tenants -> Versions]
    /\ fileState \in [Tenants -> FileStates]
    /\ down \in BOOLEAN
    /\ fatal \in BOOLEAN
    /\ invalidations \in 0 .. MaxInvalidations
    /\ seenVer \in [Tenants -> Versions]
    /\ validated \in [Tenants -> SUBSET Versions]
    /\ forceLoad \in [Tenants -> BOOLEAN]

\* NewTenantManager: empty maps; each tenant's file may or may not exist.
Init ==
    /\ pc = [p \in Procs |-> "idle"]
    /\ req \in [Procs -> Tenants]
    /\ tenantConfigs = [t \in Tenants |-> NoEntry]
    /\ watchers = [t \in Tenants |-> FALSE]
    /\ live = [t \in Tenants |-> 0]
    /\ events = [t \in Tenants |-> 0]
    /\ spawned = [t \in Tenants |-> 0]
    /\ loaded = [t \in Tenants |-> [v \in Versions |-> 0]]
    /\ fileVer = [t \in Tenants |-> 0]
    /\ fileState \in [Tenants -> FileStates]
    /\ down = FALSE
    /\ fatal = FALSE
    /\ invalidations = 0
    /\ seenVer = [t \in Tenants |-> 0]
    /\ validated = [t \in Tenants |-> ValidIf(fileState[t], 0)]
    /\ forceLoad = [t \in Tenants |-> FALSE]

-----------------------------------------------------------------------------
(* Request goroutines: GetTenantConfig and loadTenantConfig.               *)

\* GetTenantConfig(ctx, t) is called for a non-default tenant.
Request(p, t) ==
    /\ pc[p] = "idle"
    /\ pc' = [pc EXCEPT ![p] = "rlock"]
    /\ req' = [req EXCEPT ![p] = t]
    /\ UNCHANGED <<tenantConfigs, watchers, live, events, spawned, loaded,
                   fileVer, fileState, down, fatal, invalidations, seenVer,
                   validated, forceLoad>>

\* tm.mu.RLock(): blocks while a writer holds or waits for the lock.
RLock(p) ==
    /\ pc[p] = "rlock"
    /\ ~WriteHeld
    /\ ~WriterPending
    /\ pc' = [pc EXCEPT ![p] = "read"]
    /\ UNCHANGED <<req, tenantConfigs, watchers, live, events, spawned, loaded,
                   fileVer, fileState, down, fatal, invalidations, seenVer,
                   validated, forceLoad>>

\* Map lookup under the read lock, then RUnlock: return the cached provider
\* on a hit, go on to loadTenantConfig on a miss.
Read(p) ==
    /\ pc[p] = "read"
    /\ pc' = [pc EXCEPT ![p] = IF tenantConfigs[req[p]] # NoEntry
                                   THEN "idle" ELSE "lock"]
    /\ UNCHANGED <<req, tenantConfigs, watchers, live, events, spawned, loaded,
                   fileVer, fileState, down, fatal, invalidations, seenVer,
                   validated, forceLoad>>

\* Mutant of Lock: the double-check of the map after taking the write lock
\* is dropped, so a goroutine that lost the race loads again.
LockNoRecheck(p) ==
    /\ pc[p] = "lock"
    /\ ~WriteHeld
    /\ ~ReadHeld
    /\ pc' = [pc EXCEPT ![p] =
                 IF fileState[req[p]] # "absent" THEN "load" ELSE "idle"]
    /\ UNCHANGED <<req, tenantConfigs, watchers, live, events, spawned, loaded,
                   fileVer, fileState, down, fatal, invalidations, seenVer,
                   validated, forceLoad>>

\* tm.mu.Lock(), the double-check of the map and the os.Stat of the tenant
\* file: a hit or a missing file returns (deferred Unlock), otherwise the
\* provider is created still holding the lock.
Lock(p) ==
    /\ pc[p] = "lock"
    /\ ~WriteHeld
    /\ ~ReadHeld
    /\ pc' = [pc EXCEPT ![p] =
                 IF tenantConfigs[req[p]] = NoEntry /\ fileState[req[p]] # "absent"
                    THEN "load" ELSE "idle"]
    /\ UNCHANGED <<req, tenantConfigs, watchers, live, events, spawned, loaded,
                   fileVer, fileState, down, fatal, invalidations, seenVer,
                   validated, forceLoad>>

\* Mutant of Load: the error of createTenantProvider is ignored and
\* whatever was parsed from an existing file is cached.
LoadIgnoreError(p) ==
    LET t == req[p] IN
    /\ pc[p] = "load"
    /\ \/ /\ fileState[t] # "absent"
          /\ tenantConfigs' = [tenantConfigs EXCEPT ![t] = fileVer[t]]
          /\ pc' = [pc EXCEPT ![p] = "setup"]
       \/ /\ fileState[t] = "absent"
          /\ pc' = [pc EXCEPT ![p] = "idle"]
          /\ UNCHANGED tenantConfigs
    /\ forceLoad' = [forceLoad EXCEPT ![t] = FALSE]
    /\ UNCHANGED <<req, watchers, live, events, spawned, loaded, fileVer,
                   fileState, down, fatal, invalidations, seenVer, validated>>

\* createTenantProvider under the write lock: on failure fall back to the
\* base config and unlock; on success cache the provider and go on to
\* setupTenantWatcher.
Load(p) ==
    LET t == req[p] IN
    /\ pc[p] = "load"
    /\ \/ /\ Loadable(t)
          /\ tenantConfigs' = [tenantConfigs EXCEPT ![t] = fileVer[t]]
          /\ pc' = [pc EXCEPT ![p] = "setup"]
       \/ /\ ~Loadable(t)
          /\ pc' = [pc EXCEPT ![p] = "idle"]
          /\ UNCHANGED tenantConfigs
    /\ forceLoad' = [forceLoad EXCEPT ![t] = FALSE]
    /\ UNCHANGED <<req, watchers, live, events, spawned, loaded, fileVer,
                   fileState, down, fatal, invalidations, seenVer, validated>>

\* setupTenantWatcher, called with tm.mu held.  As written it calls
\* tm.mu.Lock() again, which blocks for ever since the caller holds it.
\* The old cleanup func is called, but it only logs: the old watcher keeps
\* running.  configx.New with AttachWatcher parses the file again; on
\* failure no watcher is registered.  Returning releases the deferred lock.
Setup(p) ==
    LET t == req[p] IN
    /\ pc[p] = "setup"
    /\ NestedLock => ~WriteHeld
    /\ \/ /\ Loadable(t)
          /\ live' = [live EXCEPT ![t] = @ + 1]
          /\ watchers' = [watchers EXCEPT ![t] = TRUE]
       \/ /\ ~Loadable(t)
          /\ UNCHANGED <<live, watchers>>
    /\ pc' = [pc EXCEPT ![p] = "idle"]
    /\ UNCHANGED <<req, tenantConfigs, events, spawned, loaded,
                   fileVer, fileState, down, fatal, invalidations, seenVer,
                   validated, forceLoad>>

-----------------------------------------------------------------------------
(* Watcher callbacks and preload goroutines.                               *)

\* Mutant of Callback: the callback runs with no file event pending (a
\* duplicated delivery).
CallbackDuplicate(t) ==
    /\ events' = [events EXCEPT ![t] = @ - 1]
    /\ \/ /\ ~Loadable(t)
          /\ UNCHANGED <<tenantConfigs, spawned, fatal, seenVer>>
       \/ /\ Loadable(t)
          /\ tenantConfigs' = [tenantConfigs EXCEPT ![t] = NoEntry]
          /\ spawned' = [spawned EXCEPT ![t] = @ + 1]
          /\ seenVer' = [seenVer EXCEPT ![t] = fileVer[t]]
          /\ fatal' \in IF WriteHeld \/ ReadHeld THEN BOOLEAN ELSE {FALSE}
    /\ UNCHANGED <<pc, req, watchers, live, loaded, fileVer, fileState,
                   down, invalidations, validated, forceLoad>>

\* The AttachWatcher callback.  configx reports an error when the changed
\* file cannot be parsed (removed or invalid); the callback then only logs.
\* Otherwise invalidateTenantConfigUnsafe deletes the map entry WITHOUT
\* holding tm.mu, then a preload goroutine is started.  A delete
\* that overlaps another goroutine's access to the map is a data race; the
\* Go runtime may then abort the process ("concurrent map writes").
Callback(t) ==
    /\ events[t] > 0
    /\ events' = [events EXCEPT ![t] = @ - 1]
    /\ \/ /\ ~Loadable(t)
          /\ UNCHANGED <<tenantConfigs, spawned, fatal, seenVer>>
       \/ /\ Loadable(t)
          /\ tenantConfigs' = [tenantConfigs EXCEPT ![t] = NoEntry]
          /\ spawned' = [spawned EXCEPT ![t] = @ + 1]
          /\ seenVer' = [seenVer EXCEPT ![t] = fileVer[t]]
          /\ fatal' \in IF WriteHeld \/ ReadHeld THEN BOOLEAN ELSE {FALSE}
    /\ UNCHANGED <<pc, req, watchers, live, loaded, fileVer, fileState,
                   down, invalidations, validated, forceLoad>>

\* preloadTenantConfig, first half: createTenantProvider outside the lock.
PreloadRead(t) ==
    /\ spawned[t] > 0
    /\ spawned' = [spawned EXCEPT ![t] = @ - 1]
    /\ \/ /\ Loadable(t)
          /\ loaded' = [loaded EXCEPT ![t][fileVer[t]] = @ + 1]
       \/ /\ ~Loadable(t)
          /\ UNCHANGED loaded
    /\ UNCHANGED <<pc, req, tenantConfigs, watchers, live, events, fileVer,
                   fileState, down, fatal, invalidations, seenVer,
                   validated, forceLoad>>

\* preloadTenantConfig, second half: Lock, store the provider, Unlock.
PreloadInstall(t, v) ==
    /\ loaded[t][v] > 0
    /\ ~WriteHeld
    /\ ~ReadHeld
    /\ loaded' = [loaded EXCEPT ![t][v] = @ - 1]
    /\ tenantConfigs' = [tenantConfigs EXCEPT ![t] = v]
    /\ UNCHANGED <<pc, req, watchers, live, events, spawned, fileVer,
                   fileState, down, fatal, invalidations, seenVer,
                   validated, forceLoad>>

-----------------------------------------------------------------------------
(* Administrative calls and the file system.                               *)

\* InvalidateTenantConfig: under the lock delete the entry, call the
\* cleanup func (which stops nothing) and delete it.
Invalidate(t) ==
    /\ invalidations < MaxInvalidations
    /\ ~WriteHeld
    /\ ~ReadHeld
    /\ invalidations' = invalidations + 1
    /\ tenantConfigs' = [tenantConfigs EXCEPT ![t] = NoEntry]
    /\ watchers' = [watchers EXCEPT ![t] = FALSE]
    /\ forceLoad' = [forceLoad EXCEPT ![t] = TRUE]
    /\ UNCHANGED <<pc, req, live, events, spawned, loaded, fileVer,
                   fileState, down, fatal, seenVer, validated>>

\* Shutdown: under the lock call every cleanup func and clear tm.watchers.
Shutdown ==
    /\ ~down
    /\ ~WriteHeld
    /\ ~ReadHeld
    /\ down' = TRUE
    /\ watchers' = [t \in Tenants |-> FALSE]
    /\ UNCHANGED <<pc, req, tenantConfigs, live, events, spawned, loaded,
                   fileVer, fileState, fatal, invalidations, seenVer,
                   validated, forceLoad>>

\* An operator writes or removes configs/<t>/kratos.yaml; every running
\* watcher of that file gets an event.
FileChange(t, s) ==
    /\ fileVer[t] < MaxVer
    /\ fileVer' = [fileVer EXCEPT ![t] = @ + 1]
    /\ fileState' = [fileState EXCEPT ![t] = s]
    /\ events' = [events EXCEPT ![t] = @ + live[t]]
    /\ validated' = [validated EXCEPT ![t] = @ \cup ValidIf(s, fileVer[t] + 1)]
    /\ UNCHANGED <<pc, req, tenantConfigs, watchers, live, spawned, loaded,
                   down, fatal, invalidations, seenVer, forceLoad>>

-----------------------------------------------------------------------------

Next ==
    /\ ~fatal
    /\ \/ \E p \in Procs :
            \/ \E t \in Tenants : Request(p, t)
            \/ RLock(p) \/ Read(p) \/ Lock(p) \/ Load(p) \/ Setup(p)
       \/ \E t \in Tenants :
            \/ Callback(t) \/ PreloadRead(t)
            \/ \E v \in Versions : PreloadInstall(t, v)
            \/ Invalidate(t)
            \/ \E s \in FileStates : FileChange(t, s)
       \/ Shutdown

\* The steps of a request goroutine after its call (one is enabled at a time).
ResolveStep(p) == RLock(p) \/ Read(p) \/ Lock(p) \/ Load(p) \/ Setup(p)

\* Goroutines that hold or wait for tm.mu are scheduled fairly: Go's
\* RWMutex hands the lock to a starving waiter, so a goroutine blocked on it
\* is strongly fair.  Clients, operators and the file system owe nothing.
Fairness ==
    /\ \A p \in Procs : SF_vars(ResolveStep(p))
    /\ \A t \in Tenants :
          /\ WF_vars(Callback(t))
          /\ WF_vars(PreloadRead(t))
          /\ SF_vars(\E v \in Versions : PreloadInstall(t, v))

Spec == Init /\ [][Next]_vars /\ Fairness

-----------------------------------------------------------------------------
(* Properties.                                                             *)

\* Double-checked locking (loadTenantConfig): while a request goroutine
\* loads tenant t's file under the write lock, no provider for t is
\* cached, so no cold load duplicates or overwrites a cached or preloaded
\* provider, however request, callback and preload goroutines interleave.
SingleFlightLoad ==
    \A p \in Procs : pc[p] = "load" => tenantConfigs[req[p]] = NoEntry

\* Every call of GetTenantConfig eventually returns (unless the runtime has
\* aborted the process): no goroutine waits for tm.mu for ever.
ResolveTerminates ==
    \A p \in Procs : pc[p] # "idle" ~> (pc[p] = "idle" \/ fatal)

\* Spec 8: after a file-change callback for a tenant the cache never holds
\* a provider parsed from a version of the file older than the one the
\* callback saw (the preload goroutine must not install a stale provider).
NoStaleSnapshot ==
    \A t \in Tenants :
        tenantConfigs[t] # NoEntry => tenantConfigs[t] >= seenVer[t]

\* The comment of invalidateTenantConfigUnsafe: the caller holds tm.mu.
\* So tm.tenantConfigs changes only in a step of the goroutine holding the
\* write lock, never while another goroutine reads or holds the map.
MapWritesLocked ==
    [][tenantConfigs' # tenantConfigs =>
         /\ ~ReadHeld
         /\ \A q \in Procs : pc[q] \in {"load", "setup"} => pc'[q] # pc[q]]_vars

\* Spec 8: after Shutdown a watcher callback is a no-op: it starts no
\* preload goroutine.
ShutdownSilencesWatchers ==
    [][down => \A t \in Tenants : spawned'[t] <= spawned[t]]_vars

\* Spec 4.3: one file watcher per tenant; replacing a tenant's watcher
\* stops the previous one, so no background observer leaks.
OneWatcherPerTenant ==
    \A t \in Tenants : live[t] <= 1

\* Spec 4.2: tm.tenantConfigs never holds a provider parsed from a version
\* of the tenant's file that configx rejected (removed or invalid), although
\* loads, callbacks and preloads parse and store in separate steps.
SnapshotsParsable ==
    \A t \in Tenants : tenantConfigs[t] \in validated[t] \cup {NoEntry}

\* Spec 8: after InvalidateTenantConfig(t) the next resolution of t
\* performs a fresh load: until loadTenantConfig parses t's file again, no
\* provider for t is cached, so no resolution can hit.
FreshLoadAfterInvalidate ==
    \A t \in Tenants : forceLoad[t] => tenantConfigs[t] = NoEntry

\* Spec 4.3: when a watched tenant's file becomes unparsable (removed or
\* invalid), the reload fails and the entry is left invalidated, so that
\* resolutions fall back to the base config instead of serving the
\* snapshot from before the change.
InvalidFileEvicted ==
    \A t \in Tenants :
        (tenantConfigs[t] # NoEntry /\ ~Loadable(t) /\ live[t] > 0)
            ~> (tenantConfigs[t] = NoEntry \/ Loadable(t))

\* Spec 7(d): when setupTenantWatcher fails the config stays cached without
\* hot reload until the next successful resolution re-arms the watcher: a
\* resolution that hits an unwatched entry (before Shutdown) starts one.
WatcherRearmed ==
    [][\A p \in Procs :
          (/\ pc[p] = "read" /\ pc'[p] = "idle"
           /\ live[req[p]] = 0 /\ ~down) => live'[req[p]] > 0]_vars

=============================================================================
