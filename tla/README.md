# TLA+ models of the multi-tenant configuration layer

This directory models the multi-tenant additions to this Kratos fork. The
additions have two parts:

* `src/x/tenant_middleware.go`. An HTTP middleware reads the `X-Tenant-Id`
  header, sanitises it (`extractTenantID`) and stores the tenant id in the
  request context.
* `tenant_manager.go` of package `config`. In this repository its text is
  lines 127–450 of `src/configs/default/kratos.yaml`. `TenantManager` caches
  one `configx.Provider` per tenant. The map is guarded by one
  `sync.RWMutex`. A file watcher is attached to every loaded tenant file. Its
  callback invalidates the entry and starts a fire-and-forget preload
  goroutine. `TenantAwareConfig.GetProvider` reads the tenant id from the
  context and asks the manager.

The two parts meet at the context key. The middleware writes under
`x.TenantContextKey("tenant_id")`. `GetProvider` reads under
`config.TenantContextKey("tenant_id")`.

## Inventory

| Component | State | Operations | Module |
|---|---|---|---|
| TenantManager cache | `tenantConfigs`, `watchers`, `mu` | GetTenantConfig, loadTenantConfig, setupTenantWatcher, InvalidateTenantConfig, Shutdown | `TenantManager` |
| File watchers and callbacks | running watchers, pending events | callback (lines 262–288), invalidateTenantConfigUnsafe | `TenantManager` |
| Preload goroutines | provider built but not yet stored | preloadTenantConfig | `TenantManager` |
| Tenant files (environment) | version and state (absent, valid, invalid) per tenant | writes by an operator | `TenantManager` |
| Middleware and context | header, context map | TenantMiddleware, extractTenantID, GetTenantID, SetTenantID, GetProvider's lookup | `TenantContext` |
| CLI `main` (`src/main.go`) | started or not | `RegisterDriver`, then `cmd.Execute` | `TenantContext` (`Boot`) |
| Development `main` (`src/unnamed/part_001`) | none | process wiring | not modelled |
| YAML configuration, README text, registry tests | data | none | not modelled |

The code has these hard behaviours:

* request goroutines interleave under an RWMutex that gives writers
  preference;
* double-checked locking;
* a second `Lock` of the same non-reentrant mutex;
* a map delete made without the lock;
* preload goroutines that build outside the lock and store later;
* cleanup funcs that stop nothing;
* a file that changes between `os.Stat` and parsing;
* sequential `ReplaceAll` sanitisation;
* context keys of two distinct Go types.

## Modules

### `TenantManager.tla`: the cache and its goroutines

**Constants.**

* `Procs`: the request goroutines.
* `Tenants`: the non-default tenants.
* `MaxVer`: the bound on writes to each tenant file.
* `MaxInvalidations`: the bound on `InvalidateTenantConfig` calls.
* `NestedLock`: `TRUE` is the code as written.

A provider is abstracted to the version of the file it was parsed from.
`NoEntry` stands for a missing map key. The mutex is not a variable of its
own. A goroutine holds the write lock while its `pc` is `"load"` or
`"setup"`, and a read lock while its `pc` is `"read"`. Preload installs,
`Invalidate` and `Shutdown` take and release the lock within one step.

**Actions and the code they model.**

| Action | Code |
|---|---|
| `Request` | call of `GetTenantConfig` |
| `RLock` | `RLock`; blocked while a writer holds or waits for the lock (Go's writer preference) |
| `Read` | the lookup: a hit returns, a miss goes on to `loadTenantConfig` |
| `Lock` | `Lock`, the double-check and `os.Stat` |
| `Load` | `createTenantProvider`, then cache the provider or fall back to the base config |
| `Setup` | `setupTenantWatcher` |
| `Callback` | the watcher callback: the error path when the changed file cannot be parsed (removed or invalid), else an unlocked delete plus a preload spawn |
| `PreloadRead`, `PreloadInstall` | the two halves of `preloadTenantConfig` |
| `Invalidate` | `InvalidateTenantConfig` |
| `Shutdown` | `Shutdown` |
| `FileChange` | the environment writes or removes a tenant file |

A delete made while any other goroutine is in the lock may abort the
process. Go's "concurrent map writes" check catches this race, but not
always. The model therefore makes the outcome a nondeterministic `fatal`
flag, and `Next` stops once `fatal` is set.

As written, `setupTenantWatcher` locks `tm.mu` again while its caller holds
it. With `NestedLock = TRUE` every successful load deadlocks, and nothing
after the first load can be explored. `NestedLock = FALSE` models the
obvious repair, which drops the inner `Lock`/`Unlock` pair. Every other run
uses it to explore what the rest of the code does.

**History variables.** Three variables record history and are read only
by properties and proofs: `seenVer` (the newest version a callback has
seen), `validated[t]` (every version of `t`'s file that could be parsed,
the configx outcome `ValidIf` of each write) and `forceLoad[t]` (an
`InvalidateTenantConfig(t)` not yet followed by a `loadTenantConfig`).

**Fairness.** Each request goroutine is strongly fair on its own steps:
`SF_vars(ResolveStep(p))`. Go's RWMutex switches to starvation mode and
hands the lock to a waiter that has waited more than 1 ms. A blocked
goroutine is therefore not passed over for ever, even though its step is
only enabled intermittently. Callbacks and preload reads are weakly fair:
they are goroutines that are always enabled. Preload installs wait on the
mutex, so they are strongly fair. Clients, operators and the file system owe
nothing. The fairness is used only by the liveness properties of the
violation runs (`ResolveTerminates` in `TM_Deadlock`, `InvalidFileEvicted`
in `TM_InvalidFile`); `TM_Safety` checks safety alone. With
`NestedLock = FALSE` the only step that can block for ever is gone and
`Load` is one atomic step, so termination there would follow from the
fairness assumption and not from the code; a stuck `configx.New` holding
the lock (line 187) is outside the model.

### `TenantContext.tla`: middleware and context

**Data.**

* A header is a sequence over `Chars`. The MC alphabet is
  `{".", "/", "\", " ", "a"}`.
* `TrimSpace` is `strings.TrimSpace`.
* `DeleteAll` is `strings.ReplaceAll(s, old, "")`: a left-to-right scan that
  deletes non-overlapping matches. It is a recursive function `scan[i]`
  over the scan position (the result for the suffix from `i`), not a
  `RECURSIVE` operator, so that the module can carry proofs.
* A context key is a record `[type, val]`. Go compares interface keys by
  dynamic type and value, and the record does the same.

**Actions.** `Boot` is `main` (`src/main.go`): it registers the default
registry as the driver and runs `cmd.Execute`, whose serve command mounts
the middleware; no request is served before it. `ServeRequest` runs one
request through `TenantMiddleware` and then through `GetProvider`'s lookup
(kratos.yaml lines 412–421).

### MC modules and configurations

`MC_TenantManager` and `MC_TenantContext` instantiate the two modules. All
`TM_*` runs use two goroutines, one tenant, `MaxVer = 2` and
`MaxInvalidations = 1`. This is enough for the interesting cases:

* both goroutines miss and race on the lock;
* a preload holds version 1 while the file goes to version 2;
* Invalidate is followed by a reload;
* Shutdown is followed by a file change.

Two tenants give more than 2.2 million states and add no new
interleaving, because every tenant shares the same mutex. The `TC_*` runs
enumerate every header of up to 4 characters. That covers `"./."`, `"\\"`,
blank headers and headers that sanitise to the empty string.

`CHECK_DEADLOCK FALSE` is set everywhere. Once every bound is used up and
every goroutine is idle, the system really does stop: it waits for new
requests.

## Runs

| Run | Expect | Property | What it shows |
|---|---|---|---|
| `TM_Safety` | pass | `TypeOK`, `SingleFlightLoad`, `SnapshotsParsable` | The double-check prevents a second load over a cached provider, and the cache never holds a snapshot of a version configx rejected, although the file changes between stat, parse and store (NestedLock = FALSE). 208,210 states. |
| `TM_Deadlock` | violation | `ResolveTerminates` | The code as written: a re-entrant `Lock` blocks for ever. |
| `TM_StalePreload` | violation | `NoStaleSnapshot` | A preload installs version 1 after the callback for version 2. |
| `TM_UnlockedDelete` | violation | `MapWritesLocked` | The callback deletes from the map while another goroutine holds the lock. |
| `TM_ShutdownWatchers` | violation | `ShutdownSilencesWatchers` | After Shutdown, callbacks still spawn preloads. |
| `TM_WatcherLeak` | violation | `OneWatcherPerTenant` | Invalidate followed by a reload leaves two live watchers. |
| `TM_InvalidateReload` | violation | `FreshLoadAfterInvalidate` | A preload spawned before `InvalidateTenantConfig` refills the entry afterwards (still-live watcher, unchecked store at line 355), so the next resolve does not load. |
| `TM_InvalidFile` | violation | `InvalidFileEvicted` | A watched file turns invalid; the callback's error path only logs and the old snapshot is served for ever. |
| `TM_WatcherRearm` | violation | `WatcherRearmed` | The file vanishes between the load and `setupTenantWatcher`; the watcher is never created and later resolves return at the cache hit without re-arming it. |
| `TC_Sanitize` | pass | `TypeOK`, `NoSeparator` | The sequential `ReplaceAll` calls leave no separator and the identifier is never empty. 783 states. |
| `TC_PathSegment` | violation | `SingleSegment` | `"."` passes sanitisation unchanged and `"./."` sanitises to `".."`: neither is a single path segment. |
| `TC_ContextKey` | violation | `ContextRoundTrip` | `GetProvider` never sees the middleware's tenant. |

Every property of a passing run is killed by a mutant of the code. The
mutants are defined next to the operator they replace:

* `LockNoRecheck` drops the double-check.
* `CallbackDuplicate` is a callback with no pending event.
* `LoadIgnoreError` caches a snapshot whenever the file exists, even
  when configx fails to parse it (kills `SnapshotsParsable`).
* `extractNoEmptyCheck` drops the second empty check (kills `TypeOK`) and
  `extractKeepBackslash` drops the backslash `ReplaceAll` (kills
  `NoSeparator`).

## Proofs

Three modules hold theorems: `TenantManager_proofs`,
`TenantManager_snapshots` and `TenantContext_proofs`.
`tlapm` checks every step.

### The cache

The theorems hold for all values of the constants under
`ConstAssumption`: `MaxVer` and `MaxInvalidations` are naturals, and
`NestedLock` is a Boolean.

* `TypeCorrect == Spec => []TypeOK`. `TypeOK` is inductive. `TypeStep` has
  one step per action, and under it one step per variable that the action
  changes. The counters use the lemmas `IncNat`, `DecNat`, `IncNat2` and
  `DecNat2`, which show that a function to `Nat` stays one under `+1`, and
  under `-1` of a positive entry.
* `SingleFlight == Spec => []SingleFlightLoad`. `SingleFlightLoad` is not
  inductive on its own. A step of another goroutine could in principle
  store a provider while `p` is loading. The strengthening is
  `IInv == TypeOK /\ LockExclusive /\ SingleFlightLoad`. `LockExclusive`
  says that a goroutine in `"load"` or `"setup"` is the only one in
  `"read"`, `"load"` or `"setup"`: the write lock excludes every other
  holder. Every step that writes `tenantConfigs` (`Load`, `PreloadInstall`,
  `Invalidate`, `Callback`) is then taken either by the loader itself,
  which leaves `"load"`, or needs the lock to be free. The exception is
  `Callback`, which only deletes, and deleting preserves the property.
  `FrozenStep` covers every step that leaves `pc`, `req` and
  `tenantConfigs` alone.
* `CachedSnapshotsParsable == Spec => []SnapshotsParsable`
  (`TenantManager_snapshots`). `SnapshotsParsable` is not inductive: a
  load stores the version it parses now, and a preload install stores a
  version it read earlier, before the file may have changed again. The
  strengthening `SnapInv` says that the current version of a valid file,
  and every version a preload goroutine holds (`loaded[t][v] > 0`), are in
  `validated`. `TypeOK /\ SnapInv /\ SnapshotsParsable` is inductive
  (`TypeInit`, `SnapInit`; `TypeStep`, `SnapStep`, `ParsableStep`):
  `ParsableStep` has one step per action, a store takes its version from
  `SnapInv`, a delete stores `NoEntry`, and a file change only adds to
  `validated`.

### The middleware (`TenantContext_proofs`)

The theorems hold for every alphabet containing the special characters
and for every header length (`ContextAssumption`). They use only the
control of `extractTenantID` and the context keys, never what `DeleteAll`
computes.

* `ContextHoldsExtracted == Spec => []CtxInv`. `CtxInv` says the context
  has no key but `x.TenantIDKey`, and that `GetTenantID(ctx)` is
  `extractTenantID(header)`. Initially the header is empty and both sides
  are the default tenant (`TrimEmpty`, `ExtractBlank`). `ServeStep` shows
  what one request leaves behind.
* `TenantIDNonEmpty == Spec => [](GetTenantID(ctx) # <<>>)`, from `CtxInv`
  and both empty checks (`ExtractNonEmpty`).
* `ProviderAlwaysDefault == Spec => []ProvidedDefault`. The keys
  `config.TenantContextKey("tenant_id")` and `x.TenantContextKey("tenant_id")`
  differ (`KeysDiffer`). `GetProvider` therefore resolves the default
  tenant after every request. This is the `TC_ContextKey` finding, for
  every header.

### What stays with TLC

* Liveness (`ResolveTerminates`, `InvalidFileEvicted`): `tlapm` does not
  reason about fairness and `ENABLED` here.
* What `strings.ReplaceAll` returns (`NoSeparator` and the sequence type of the identifier in `TenantContext`'s `TypeOK`).
  `DeleteAll` is a recursive function. In TLAPS its value is a `CHOOSE`
  over functions satisfying the recursion. Any fact about it for all inputs
  needs induction over the scan position, and the library's induction
  theorems take an operator argument that the installed provers cannot
  instantiate (citing `NatInduction` for such a fact leaves an obligation
  Zenon and SMT both give up on). TLC checks these on every header of up to 4 characters.
* The properties that the violation runs refute.

## Not modelled

* `GetTenantConfigStats`, `getLoadedTenantsUnsafe` and `GetConfigDirectory`
  only read the map under `RLock` and change nothing.
* The constructors and setters of `TenantAwareConfig`.
* The `configx`/`watcherx` libraries, apart from their observable outcome.
* The development `main` of `src/unnamed/part_001`, and the cobra commands
  behind `cmd.Execute` (outside this repository).
* The README and YAML text that follows the code in
  `src/x/tenant_middleware.go` (lines 66–188): documentation, not code.
* The YAML data and the registry tests.

## Further work

1. Compose `TenantContext`'s `ServeRequest` with `TenantManager`'s
   `Request`, so that a header's path through the sanitiser reaches the
   cache; today the two meet only through the context key, which never
   matches (`TC_ContextKey`).
2. Prove `MapWritesLocked`, with `fatal` excluded, for a variant in which
   the callback takes the lock.
