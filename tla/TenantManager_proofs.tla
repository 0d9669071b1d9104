----------------------- MODULE TenantManager_proofs -----------------------
(***************************************************************************)
(* Proofs about the tenant configuration cache, for every set of request   *)
(* goroutines and tenants and every bound.                                 *)
(***************************************************************************)
EXTENDS TenantManager, TLAPS

\* The RWMutex discipline of tm.mu: a request goroutine holding the write
\* lock (pc "load" or "setup") excludes every other goroutine from holding
\* it for reading or writing.
LockExclusive ==
    \A p, q \in Procs :
        pc[p] \in {"load", "setup"} /\ pc[q] \in {"read", "load", "setup"}
            => p = q

\* The inductive invariant behind SingleFlightLoad.
IInv == TypeOK /\ LockExclusive /\ SingleFlightLoad

-----------------------------------------------------------------------------

(* Counters kept in functions stay natural numbers when one is added to, *)
(* or a positive one subtracted from, an entry.                           *)

LEMMA IncNat ==
    ASSUME NEW S, NEW f \in [S -> Nat], NEW x \in S
    PROVE  [f EXCEPT ![x] = @ + 1] \in [S -> Nat]
OBVIOUS

LEMMA DecNat ==
    ASSUME NEW S, NEW f \in [S -> Nat], NEW x \in S, f[x] > 0
    PROVE  [f EXCEPT ![x] = @ - 1] \in [S -> Nat]
OBVIOUS

LEMMA IncNat2 ==
    ASSUME NEW S, NEW T, NEW f \in [S -> [T -> Nat]], NEW x \in S, NEW y \in T
    PROVE  [f EXCEPT ![x][y] = @ + 1] \in [S -> [T -> Nat]]
OBVIOUS

LEMMA DecNat2 ==
    ASSUME NEW S, NEW T, NEW f \in [S -> [T -> Nat]], NEW x \in S, NEW y \in T,
           f[x][y] > 0
    PROVE  [f EXCEPT ![x][y] = @ - 1] \in [S -> [T -> Nat]]
OBVIOUS

\* Every step of the cache, its callbacks and its environment keeps the
\* types of the model.  Each action gets one step per variable it changes.
LEMMA TypeStep == TypeOK /\ [Next]_vars => TypeOK'
<1> SUFFICES ASSUME TypeOK, [Next]_vars PROVE TypeOK'
    OBVIOUS
<1> USE DEF TypeOK
<1>1. ASSUME NEW p \in Procs, NEW t \in Tenants, Request(p, t) PROVE TypeOK'
    BY <1>1 DEF Request, PCs
<1>2. ASSUME NEW p \in Procs, RLock(p) PROVE TypeOK'
    BY <1>2 DEF RLock, PCs
<1>3. ASSUME NEW p \in Procs, Read(p) PROVE TypeOK'
    BY <1>3 DEF Read, PCs
<1>4. ASSUME NEW p \in Procs, Lock(p) PROVE TypeOK'
    BY <1>4 DEF Lock, PCs
<1>5. ASSUME NEW p \in Procs, Load(p) PROVE TypeOK'
    <2>0. forceLoad' \in [Tenants -> BOOLEAN]
        BY <1>5 DEF Load
    <2>1. CASE Loadable(req[p])
        <3>1. tenantConfigs' \in [Tenants -> Versions \cup {NoEntry}]
            BY <1>5, <2>1 DEF Load
        <3>2. QED
            BY <1>5, <2>0, <2>1, <3>1 DEF Load, PCs
    <2>2. CASE ~Loadable(req[p])
        BY <1>5, <2>0, <2>2 DEF Load, PCs
    <2>3. QED
        BY <2>1, <2>2
<1>6. ASSUME NEW p \in Procs, Setup(p) PROVE TypeOK'
    <2>1. CASE Loadable(req[p])
        <3>0. live' = [live EXCEPT ![req[p]] = @ + 1]
            BY <1>6, <2>1 DEF Setup
        <3>1. live' \in [Tenants -> Nat]
            BY <3>0, IncNat
        <3>2. watchers' \in [Tenants -> BOOLEAN]
            BY <1>6, <2>1 DEF Setup
        <3>3. QED
            BY <1>6, <2>1, <3>1, <3>2 DEF Setup, PCs
    <2>2. CASE ~Loadable(req[p])
        BY <1>6, <2>2 DEF Setup, PCs
    <2>3. QED
        BY <2>1, <2>2
<1>7. ASSUME NEW t \in Tenants, Callback(t) PROVE TypeOK'
    <2>1. events' \in [Tenants -> Nat]
        BY <1>7, DecNat DEF Callback
    <2>2. CASE ~Loadable(t)
        <3>1. UNCHANGED <<tenantConfigs, spawned, fatal, seenVer>>
            BY <1>7, <2>2 DEF Callback
        <3>2. QED
            BY <1>7, <2>1, <3>1 DEF Callback
    <2>3. CASE Loadable(t)
        <3>0. /\ tenantConfigs' = [tenantConfigs EXCEPT ![t] = NoEntry]
              /\ spawned' = [spawned EXCEPT ![t] = @ + 1]
              /\ seenVer' = [seenVer EXCEPT ![t] = fileVer[t]]
              /\ fatal' \in IF WriteHeld \/ ReadHeld THEN BOOLEAN ELSE {FALSE}
            BY <1>7, <2>3, Zenon DEF Callback
        <3>1. tenantConfigs' \in [Tenants -> Versions \cup {NoEntry}]
            BY <3>0
        <3>2. spawned' \in [Tenants -> Nat]
            BY <3>0, IncNat
        <3>3. seenVer' \in [Tenants -> Versions]
            BY <3>0
        <3>4. fatal' \in BOOLEAN
            BY <3>0
        <3>5. QED
            BY <1>7, <2>1, <3>1, <3>2, <3>3, <3>4 DEF Callback
    <2>4. QED
        BY <2>2, <2>3
<1>8. ASSUME NEW t \in Tenants, PreloadRead(t) PROVE TypeOK'
    <2>1. spawned' \in [Tenants -> Nat]
        BY <1>8, DecNat DEF PreloadRead
    <2>2. CASE Loadable(t)
        <3>0. loaded' = [loaded EXCEPT ![t][fileVer[t]] = @ + 1]
            BY <1>8, <2>2 DEF PreloadRead
        <3>1. loaded' \in [Tenants -> [Versions -> Nat]]
            BY <3>0, IncNat2
        <3>2. QED
            BY <1>8, <2>1, <3>1 DEF PreloadRead
    <2>3. CASE ~Loadable(t)
        BY <1>8, <2>1, <2>3 DEF PreloadRead
    <2>4. QED
        BY <2>2, <2>3
<1>9. ASSUME NEW t \in Tenants, NEW v \in Versions, PreloadInstall(t, v)
      PROVE TypeOK'
    <2>1. loaded' \in [Tenants -> [Versions -> Nat]]
        BY <1>9, DecNat2 DEF PreloadInstall
    <2>2. tenantConfigs' \in [Tenants -> Versions \cup {NoEntry}]
        BY <1>9 DEF PreloadInstall
    <2>3. QED
        BY <1>9, <2>1, <2>2 DEF PreloadInstall
<1>10. ASSUME NEW t \in Tenants, Invalidate(t) PROVE TypeOK'
    <2>1. invalidations' \in 0 .. MaxInvalidations
        BY <1>10, ConstAssumption DEF Invalidate
    <2>2. forceLoad' \in [Tenants -> BOOLEAN]
        BY <1>10 DEF Invalidate
    <2>3. QED
        BY <1>10, <2>1, <2>2 DEF Invalidate
<1>11. ASSUME NEW t \in Tenants, NEW s \in FileStates, FileChange(t, s)
       PROVE TypeOK'
    <2>1. fileVer' \in [Tenants -> Versions]
        BY <1>11, ConstAssumption DEF FileChange, Versions
    <2>2. events' \in [Tenants -> Nat]
        BY <1>11 DEF FileChange
    <2>3. fileState' \in [Tenants -> FileStates]
        BY <1>11 DEF FileChange
    <2>4. validated' \in [Tenants -> SUBSET Versions]
        BY <1>11, ConstAssumption DEF FileChange, ValidIf, Versions
    <2>5. QED
        BY <1>11, <2>1, <2>2, <2>3, <2>4 DEF FileChange
<1>12. CASE Shutdown
    BY <1>12 DEF Shutdown
<1>13. CASE UNCHANGED vars
    BY <1>13 DEF vars
<1>14. QED
    BY <1>1, <1>2, <1>3, <1>4, <1>5, <1>6, <1>7, <1>8, <1>9, <1>10, <1>11,
       <1>12, <1>13 DEF Next

\* The initial state of NewTenantManager is well typed.
LEMMA TypeInit == Init => TypeOK
<1> SUFFICES ASSUME Init PROVE TypeOK
    OBVIOUS
<1>1. pc \in [Procs -> PCs] /\ req \in [Procs -> Tenants]
    BY DEF Init, PCs
<1>2. tenantConfigs \in [Tenants -> Versions \cup {NoEntry}]
    BY ConstAssumption DEF Init, Versions, NoEntry
<1>3. /\ watchers \in [Tenants -> BOOLEAN]
      /\ down \in BOOLEAN
      /\ fatal \in BOOLEAN
    BY DEF Init
<1>4. /\ live \in [Tenants -> Nat]
      /\ events \in [Tenants -> Nat]
      /\ spawned \in [Tenants -> Nat]
      /\ loaded \in [Tenants -> [Versions -> Nat]]
    BY DEF Init
<1>5. /\ fileVer \in [Tenants -> Versions]
      /\ fileState \in [Tenants -> FileStates]
      /\ invalidations \in 0 .. MaxInvalidations
      /\ seenVer \in [Tenants -> Versions]
    BY ConstAssumption DEF Init, Versions
<1>6. /\ validated \in [Tenants -> SUBSET Versions]
      /\ forceLoad \in [Tenants -> BOOLEAN]
    BY ConstAssumption DEF Init, ValidIf, Versions
<1>7. QED
    BY <1>1, <1>2, <1>3, <1>4, <1>5, <1>6 DEF TypeOK

\* Type correctness of the cache model.
THEOREM TypeCorrect == Spec => []TypeOK
BY TypeInit, TypeStep, PTL DEF Spec

-----------------------------------------------------------------------------

\* Initially no goroutine is in loadTenantConfig.
LEMMA IInvInit == Init => IInv
BY TypeInit DEF Init, IInv, LockExclusive, SingleFlightLoad

\* Steps that leave pc and tenantConfigs alone keep the lock discipline and
\* single-flight loading.
LEMMA FrozenStep ==
    ASSUME IInv, TypeOK', UNCHANGED <<pc, req, tenantConfigs>>
    PROVE  (LockExclusive /\ SingleFlightLoad)'
BY DEF IInv, LockExclusive, SingleFlightLoad

\* The step of a request goroutine, its callbacks' and the environment's
\* keep IInv.
LEMMA IInvStep == IInv /\ [Next]_vars => IInv'
<1> SUFFICES ASSUME IInv, [Next]_vars PROVE IInv'
    OBVIOUS
<1>0. TypeOK'
    BY TypeStep DEF IInv
<1> USE DEF IInv
<1> DEFINE Excl == LockExclusive /\ SingleFlightLoad
<1>a. SUFFICES Excl'
    BY <1>0
<1>1. ASSUME NEW p \in Procs, NEW t \in Tenants, Request(p, t) PROVE Excl'
    BY <1>1 DEF Request, LockExclusive, SingleFlightLoad, TypeOK
<1>2. ASSUME NEW p \in Procs, RLock(p) PROVE Excl'
    BY <1>2 DEF RLock, WriteHeld, LockExclusive, SingleFlightLoad, TypeOK
<1>3. ASSUME NEW p \in Procs, Read(p) PROVE Excl'
    BY <1>3 DEF Read, LockExclusive, SingleFlightLoad, TypeOK
<1>4. ASSUME NEW p \in Procs, Lock(p) PROVE Excl'
    BY <1>4 DEF Lock, WriteHeld, ReadHeld, LockExclusive, SingleFlightLoad,
                TypeOK
<1>5. ASSUME NEW p \in Procs, Load(p) PROVE Excl'
    <2>1. LockExclusive'
        BY <1>5 DEF Load, LockExclusive, TypeOK
    <2>2. SingleFlightLoad'
        BY <1>5 DEF Load, LockExclusive, SingleFlightLoad, TypeOK
    <2>3. QED
        BY <2>1, <2>2
<1>6. ASSUME NEW p \in Procs, Setup(p) PROVE Excl'
    BY <1>6 DEF Setup, LockExclusive, SingleFlightLoad, TypeOK
<1>7. ASSUME NEW t \in Tenants, Callback(t) PROVE Excl'
    BY <1>7 DEF Callback, LockExclusive, SingleFlightLoad, TypeOK, NoEntry
<1>8. ASSUME NEW t \in Tenants, PreloadRead(t) PROVE Excl'
    BY <1>8, <1>0, FrozenStep DEF PreloadRead
<1>9. ASSUME NEW t \in Tenants, NEW v \in Versions, PreloadInstall(t, v)
      PROVE Excl'
    BY <1>9 DEF PreloadInstall, WriteHeld, LockExclusive, SingleFlightLoad,
                TypeOK
<1>10. ASSUME NEW t \in Tenants, Invalidate(t) PROVE Excl'
    BY <1>10 DEF Invalidate, LockExclusive, SingleFlightLoad, TypeOK, NoEntry
<1>11. ASSUME NEW t \in Tenants, NEW s \in FileStates, FileChange(t, s)
       PROVE Excl'
    BY <1>11, <1>0, FrozenStep DEF FileChange
<1>12. CASE Shutdown
    BY <1>12, <1>0, FrozenStep DEF Shutdown
<1>13. CASE UNCHANGED vars
    BY <1>13 DEF vars, LockExclusive, SingleFlightLoad
<1>14. QED
    BY <1>1, <1>2, <1>3, <1>4, <1>5, <1>6, <1>7, <1>8, <1>9, <1>10, <1>11,
       <1>12, <1>13 DEF Next

\* Double-checked locking in loadTenantConfig: whenever a request goroutine
\* loads a tenant's file under the write lock, no provider for that tenant
\* is cached, for every number of goroutines and tenants.
THEOREM SingleFlight == Spec => []SingleFlightLoad
<1>1. IInv => SingleFlightLoad
    BY DEF IInv
<1>2. QED
    BY <1>1, IInvInit, IInvStep, PTL DEF Spec


=============================================================================
