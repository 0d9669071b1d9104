------------------------ MODULE TenantManager_snapshots ------------------------
(***************************************************************************)
(* SnapshotsParsable for every number of goroutines and tenants: the map   *)
(* tm.tenantConfigs holds only providers of versions configx could parse.  *)
(* It is not inductive on its own: loadTenantConfig stores the version of  *)
(* the file it parses now, and preloadTenantConfig a version it parsed     *)
(* earlier, before the file may have changed again.  SnapInv is the        *)
(* strengthening: the current version of a valid file, and every version   *)
(* a preload goroutine holds, is in validated.                             *)
(***************************************************************************)
EXTENDS TenantManager_proofs

SnapInv ==
    \A t \in Tenants :
        /\ Loadable(t) => fileVer[t] \in validated[t]
        /\ \A v \in Versions : loaded[t][v] > 0 => v \in validated[t]

\* NewTenantManager: no preload runs, and a valid file's version 0 is
\* recorded as parsable.
LEMMA SnapInit == Init => SnapInv
BY DEF Init, SnapInv, Loadable, ValidIf

\* Every step keeps the snapshots that preload goroutines hold, and the
\* current version of a valid file, parsable.
LEMMA SnapStep == TypeOK /\ SnapInv /\ [Next]_vars => SnapInv'
<1> SUFFICES ASSUME TypeOK, SnapInv, [Next]_vars PROVE SnapInv'
    OBVIOUS
<1>1. CASE UNCHANGED <<fileVer, fileState, validated, loaded>>
    BY <1>1 DEF SnapInv, Loadable
<1>2. ASSUME NEW t \in Tenants, PreloadRead(t) PROVE SnapInv'
    <2>1. CASE Loadable(t)
        <3>1. loaded' = [loaded EXCEPT ![t][fileVer[t]] = @ + 1]
            BY <1>2, <2>1 DEF PreloadRead
        <3>2. UNCHANGED <<fileVer, fileState, validated>>
            BY <1>2 DEF PreloadRead
        <3>3. QED
            BY <2>1, <3>1, <3>2 DEF SnapInv, Loadable, TypeOK
    <2>2. CASE ~Loadable(t)
        BY <1>1, <1>2, <2>2 DEF PreloadRead
    <2>3. QED
        BY <2>1, <2>2
<1>3. ASSUME NEW t \in Tenants, NEW v \in Versions, PreloadInstall(t, v)
      PROVE SnapInv'
    <2>1. loaded' = [loaded EXCEPT ![t][v] = @ - 1]
        BY <1>3 DEF PreloadInstall
    <2>2. UNCHANGED <<fileVer, fileState, validated>>
        BY <1>3 DEF PreloadInstall
    <2>3. QED
        BY <2>1, <2>2 DEF SnapInv, Loadable, TypeOK
<1>4. ASSUME NEW t \in Tenants, NEW s \in FileStates, FileChange(t, s)
      PROVE SnapInv'
    <2>1. /\ fileVer' = [fileVer EXCEPT ![t] = @ + 1]
          /\ fileState' = [fileState EXCEPT ![t] = s]
          /\ validated' = [validated EXCEPT ![t] = @ \cup ValidIf(s, fileVer[t] + 1)]
          /\ UNCHANGED loaded
        BY <1>4 DEF FileChange
    <2>2. QED
        BY <2>1 DEF SnapInv, Loadable, ValidIf, TypeOK
<1>5. QED
    <2>1. ASSUME NEW p \in Procs,
                 \/ \E t \in Tenants : Request(p, t)
                 \/ RLock(p) \/ Read(p) \/ Lock(p) \/ Load(p) \/ Setup(p)
          PROVE  UNCHANGED <<fileVer, fileState, validated, loaded>>
        BY <2>1 DEF Request, RLock, Read, Lock, Load, Setup
    <2>2. ASSUME NEW t \in Tenants, Callback(t) \/ Invalidate(t)
          PROVE  UNCHANGED <<fileVer, fileState, validated, loaded>>
        BY <2>2 DEF Callback, Invalidate
    <2>3. Shutdown => UNCHANGED <<fileVer, fileState, validated, loaded>>
        BY DEF Shutdown
    <2>4. UNCHANGED vars => UNCHANGED <<fileVer, fileState, validated, loaded>>
        BY DEF vars
    <2>5. QED
        BY <1>1, <1>2, <1>3, <1>4, <2>1, <2>2, <2>3, <2>4 DEF Next

-----------------------------------------------------------------------------

\* A store puts a parsable version into the map: the version just parsed by
\* loadTenantConfig or the one a preload goroutine holds; every other step
\* deletes or leaves the map alone, and validated only grows.
LEMMA ParsableStep ==
    TypeOK /\ SnapInv /\ SnapshotsParsable /\ [Next]_vars => SnapshotsParsable'
<1> SUFFICES ASSUME TypeOK, SnapInv, SnapshotsParsable, [Next]_vars
             PROVE  SnapshotsParsable'
    OBVIOUS
<1>0. UNCHANGED <<tenantConfigs, validated>> => SnapshotsParsable'
    BY DEF SnapshotsParsable
<1>1. ASSUME NEW p \in Procs, Load(p) PROVE SnapshotsParsable'
    <2>1. CASE Loadable(req[p])
        <3>1. /\ tenantConfigs' = [tenantConfigs EXCEPT ![req[p]] = fileVer[req[p]]]
              /\ UNCHANGED validated
            BY <1>1, <2>1 DEF Load
        <3>2. fileVer[req[p]] \in validated[req[p]]
            BY <2>1 DEF SnapInv, TypeOK
        <3>3. QED
            BY <3>1, <3>2 DEF SnapshotsParsable, TypeOK
    <2>2. CASE ~Loadable(req[p])
        BY <1>0, <1>1, <2>2 DEF Load
    <2>3. QED
        BY <2>1, <2>2
<1>2. ASSUME NEW t \in Tenants, Callback(t) \/ Invalidate(t)
      PROVE SnapshotsParsable'
    <2>1. /\ \/ tenantConfigs' = tenantConfigs
             \/ tenantConfigs' = [tenantConfigs EXCEPT ![t] = NoEntry]
          /\ UNCHANGED validated
        BY <1>2 DEF Callback, Invalidate
    <2>2. QED
        BY <2>1 DEF SnapshotsParsable, TypeOK
<1>3. ASSUME NEW t \in Tenants, NEW v \in Versions, PreloadInstall(t, v)
      PROVE SnapshotsParsable'
    <2>1. v \in validated[t]
        BY <1>3 DEF PreloadInstall, SnapInv
    <2>2. tenantConfigs' = [tenantConfigs EXCEPT ![t] = v] /\ UNCHANGED validated
        BY <1>3 DEF PreloadInstall
    <2>3. QED
        BY <2>1, <2>2 DEF SnapshotsParsable, TypeOK
<1>4. ASSUME NEW t \in Tenants, NEW s \in FileStates, FileChange(t, s)
      PROVE SnapshotsParsable'
    <2>1. /\ UNCHANGED tenantConfigs
          /\ validated' = [validated EXCEPT ![t] = @ \cup ValidIf(s, fileVer[t] + 1)]
        BY <1>4 DEF FileChange
    <2>2. QED
        BY <2>1 DEF SnapshotsParsable, TypeOK
<1>5. ASSUME NEW p \in Procs,
             \/ \E t \in Tenants : Request(p, t)
             \/ RLock(p) \/ Read(p) \/ Lock(p) \/ Setup(p)
      PROVE  SnapshotsParsable'
    BY <1>0, <1>5 DEF Request, RLock, Read, Lock, Setup
<1>6. ASSUME NEW t \in Tenants, PreloadRead(t) PROVE SnapshotsParsable'
    BY <1>0, <1>6 DEF PreloadRead
<1>7. CASE Shutdown \/ UNCHANGED vars
    BY <1>0, <1>7 DEF Shutdown, vars
<1>8. QED
    BY <1>1, <1>2, <1>3, <1>4, <1>5, <1>6, <1>7 DEF Next

\* Spec 4.2 (the run property SnapshotsParsable), for all goroutines,
\* tenants and bounds: tm.tenantConfigs never holds a provider of a version
\* configx rejected, although os.Stat, the parse and the store of
\* loadTenantConfig, and the parse and the later store of
\* preloadTenantConfig, are separate steps between which the file changes.
THEOREM CachedSnapshotsParsable == Spec => []SnapshotsParsable
<1>1. Init => TypeOK /\ SnapInv /\ SnapshotsParsable
    BY TypeInit, SnapInit DEF Init, SnapshotsParsable
<1>2. TypeOK /\ SnapInv /\ SnapshotsParsable /\ [Next]_vars
        => (TypeOK /\ SnapInv /\ SnapshotsParsable)'
    BY TypeStep, SnapStep, ParsableStep
<1>3. QED
    BY <1>1, <1>2, PTL DEF Spec
=============================================================================
