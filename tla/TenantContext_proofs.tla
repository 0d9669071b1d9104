------------------------ MODULE TenantContext_proofs ------------------------
(***************************************************************************)
(* Proofs about the middleware and the context lookup, for every header    *)
(* alphabet and every header length.  They rest on the control of         *)
(* extractTenantID (its two empty checks) and on the context keys, never   *)
(* on what strings.ReplaceAll computes: DeleteAll is a recursive function, *)
(* and what it returns for every input needs induction over sequences,     *)
(* which stays with TLC (NoSeparator and the type of the identifier in    *)
(* TypeOK).                                                                *)
(*                                                                         *)
(* The inductive invariant CtxInv: the context holds, under x.TenantIDKey  *)
(* only, the identifier extractTenantID computes from the current header. *)
(***************************************************************************)
EXTENDS TenantContext, TLAPS

\* The request context built by TenantMiddleware for the current header.
CtxInv ==
    /\ DOMAIN ctx \subseteq {TenantIDKey}
    /\ GetTenantID(ctx) = extractTenantID(header)

\* The two context keys differ: same value, different dynamic types.
LEMMA KeysDiffer == ConfigTenantKey # TenantIDKey
BY DEF ConfigTenantKey, TenantIDKey

\* extractTenantID never returns the empty identifier: a blank header and a
\* header the sanitiser empties both fall back to DefaultTenantID.
LEMMA ExtractNonEmpty ==
    ASSUME NEW h PROVE extractTenantID(h) # <<>>
BY DEF extractTenantID, DefaultTenantID

\* A header that TrimSpace empties yields DefaultTenantID.
LEMMA ExtractBlank ==
    ASSUME NEW h, TrimSpace(h) = <<>> PROVE extractTenantID(h) = DefaultTenantID
BY DEF extractTenantID

\* The empty header trims to the empty string.
LEMMA TrimEmpty == TrimSpace(<<>>) = <<>>
<1>1. {i \in 1 .. Len(<<>>) : <<>>[i] # " "} = {}
    OBVIOUS
<1>2. QED
    BY <1>1 DEF TrimSpace

LEMMA CtxInit == Init => CtxInv
<1> SUFFICES ASSUME Init PROVE CtxInv
    OBVIOUS
<1>1. DOMAIN ctx = {}
    BY DEF Init
<1>2. GetTenantID(ctx) = DefaultTenantID
    BY <1>1 DEF GetTenantID, TenantFrom
<1>3. extractTenantID(header) = DefaultTenantID
    BY TrimEmpty, ExtractBlank DEF Init
<1>4. QED
    BY <1>1, <1>2, <1>3 DEF CtxInv

\* One request: the middleware's fresh context holds the extracted id, and
\* GetProvider's lookup under config.TenantContextKey misses it.
LEMMA ServeStep ==
    ASSUME NEW h, ServeRequest(h)
    PROVE  /\ DOMAIN ctx' = {TenantIDKey}
           /\ GetTenantID(ctx') = extractTenantID(header')
           /\ provided' = DefaultTenantID
<1> DEFINE e == extractTenantID(h)
<1>1. ctx' = [key \in {TenantIDKey} |-> e] /\ header' = h
    <2>1. ctx' = WithValue([k \in {} |-> DefaultTenantID], TenantIDKey, e)
        BY DEF ServeRequest
    <2>2. QED
        BY <2>1, h = header' DEF WithValue, ServeRequest
<1>2. provided' = TenantFrom(ctx', ConfigTenantKey)
    BY DEF ServeRequest
<1>3. QED
    BY <1>1, <1>2, KeysDiffer DEF GetTenantID, TenantFrom

LEMMA CtxStep == CtxInv /\ [Next]_vars => CtxInv'
<1> SUFFICES ASSUME CtxInv, [Next]_vars PROVE CtxInv'
    OBVIOUS
<1>1. CASE Boot
    BY <1>1 DEF Boot, CtxInv
<1>2. ASSUME NEW h \in Headers, ServeRequest(h) PROVE CtxInv'
    BY <1>2, ServeStep DEF CtxInv
<1>3. CASE UNCHANGED vars
    BY <1>3 DEF vars, CtxInv
<1>4. QED
    BY <1>1, <1>2, <1>3 DEF Next

\* TenantMiddleware: at every point of every run the request context holds
\* exactly the identifier extractTenantID computed from the request's
\* X-Tenant-Id header.
THEOREM ContextHoldsExtracted == Spec => []CtxInv
BY CtxInit, CtxStep, PTL DEF Spec

\* extractTenantID's two empty checks: the identifier in the context is
\* never empty, so getTenantConfigPath never joins an empty segment (which
\* would name the base directory's own kratos.yaml).
THEOREM TenantIDNonEmpty == Spec => [](GetTenantID(ctx) # <<>>)
<1>1. CtxInv => GetTenantID(ctx) # <<>>
    BY ExtractNonEmpty DEF CtxInv
<1>2. QED
    BY <1>1, ContextHoldsExtracted, PTL

ProvidedDefault == provided = DefaultTenantID

\* The context-key mismatch of GetProvider (kratos.yaml 415) for every
\* header: config.TenantContextKey("tenant_id") is never a key of the
\* middleware's context, so GetProvider always resolves the default
\* tenant, whatever X-Tenant-Id the request carried.
THEOREM ProviderAlwaysDefault == Spec => []ProvidedDefault
<1>1. Init => ProvidedDefault
    BY DEF Init, ProvidedDefault
<1>2. ProvidedDefault /\ [Next]_vars => ProvidedDefault'
    <2> SUFFICES ASSUME ProvidedDefault, [Next]_vars
                 PROVE  ProvidedDefault'
        OBVIOUS
    <2>1. CASE Boot \/ UNCHANGED vars
        BY <2>1 DEF Boot, vars, ProvidedDefault
    <2>2. ASSUME NEW h \in Headers, ServeRequest(h) PROVE ProvidedDefault'
        BY <2>2, ServeStep DEF ProvidedDefault
    <2>3. QED
        BY <2>1, <2>2 DEF Next
<1>3. QED
    BY <1>1, <1>2, PTL DEF Spec
=============================================================================
