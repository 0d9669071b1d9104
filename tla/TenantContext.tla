--------------------------- MODULE TenantContext ---------------------------
(***************************************************************************)
(* The path of a tenant identifier from the X-Tenant-Id header to the      *)
(* configuration lookup: TenantMiddleware and extractTenantID              *)
(* (x/tenant_middleware.go) put the sanitised identifier into the request  *)
(* context under x.TenantIDKey; x.GetTenantID and the config package's     *)
(* TenantAwareConfig.GetProvider read it back.                             *)
(*                                                                         *)
(* A header is a sequence over a small alphabet that holds every character *)
(* the sanitiser treats specially ("." "/" "\" and a blank) and one        *)
(* ordinary letter.  The identifier "default" is one symbol that no header *)
(* produces.  A context key is a Go interface value: a (type, value) pair, *)
(* two keys are equal only when both the dynamic type and the value are.   *)
(***************************************************************************)
EXTENDS Integers, Sequences, FiniteSets

CONSTANTS
    Chars,      \* header alphabet
    MaxLen      \* longest header considered

ASSUME ContextAssumption ==
    /\ {".", "/", "\\", " "} \subseteq Chars
    /\ MaxLen \in Nat

VARIABLES
    booted,     \* main has registered the driver and cmd.Execute serves
    header,     \* r.Header.Get(TenantIDHeader) of the current request
    ctx,        \* the request context after TenantMiddleware: key -> value
    provided    \* the tenantID TenantAwareConfig.GetProvider passed on

vars == <<booted, header, ctx, provided>>

\* The values r.Header.Get(TenantIDHeader) of "X-Tenant-Id" can take.
Headers == UNION {[1 .. n -> Chars] : n \in 0 .. MaxLen}

\* DefaultTenantID = "default"
DefaultTenantID == <<"default">>

\* TenantIDKey TenantContextKey = "tenant_id" in package x, and the key
\* config.TenantContextKey("tenant_id") built by GetProvider: package config
\* declares its own type TenantContextKey.
TenantIDKey == [type |-> "x.TenantContextKey", val |-> "tenant_id"]
ConfigTenantKey == [type |-> "config.TenantContextKey", val |-> "tenant_id"]

\* Does sequence s contain w as a contiguous run?
ContainsRun(s, w) ==
    \E i \in 0 .. Len(s) - Len(w) : SubSeq(s, i + 1, i + Len(w)) = w

\* strings.TrimSpace
TrimSpace(s) ==
    LET kept == {i \in 1 .. Len(s) : s[i] # " "}
        first == CHOOSE i \in kept : \A j \in kept : i <= j
        last == CHOOSE i \in kept : \A j \in kept : j <= i
    IN IF kept = {} THEN <<>> ELSE SubSeq(s, first, last)

\* strings.ReplaceAll(s, old, ""): scan left to right from start; at each
\* match drop it and resume after it (matches do not overlap); scan[i] is
\* the result for the suffix of s from position i.
DeleteAll(s, old) ==
    LET L == Len(old)
        scan[i \in 1 .. Len(s) + 1] ==
            IF Len(s) - i + 1 < L THEN SubSeq(s, i, Len(s))
            ELSE IF SubSeq(s, i, i + L - 1) = old THEN scan[i + L]
            ELSE <<s[i]>> \o scan[i + 1]
    IN scan[1]

\* Mutants of extractTenantID: the second empty check is dropped; the
\* backslash is not removed.
extractNoEmptyCheck(h) ==
    LET trimmed == TrimSpace(h)
        sanitized == DeleteAll(DeleteAll(DeleteAll(trimmed, <<".", ".">>),
                                         <<"/">>), <<"\\">>)
    IN IF trimmed = <<>> THEN DefaultTenantID ELSE sanitized

extractKeepBackslash(h) ==
    LET trimmed == TrimSpace(h)
        sanitized == DeleteAll(DeleteAll(trimmed, <<".", ".">>), <<"/">>)
    IN IF trimmed = <<>> THEN DefaultTenantID
       ELSE IF sanitized = <<>> THEN DefaultTenantID
       ELSE sanitized

\* extractTenantID
extractTenantID(h) ==
    LET trimmed == TrimSpace(h)
        sanitized == DeleteAll(DeleteAll(DeleteAll(trimmed, <<".", ".">>),
                                         <<"/">>), <<"\\">>)
    IN IF trimmed = <<>> THEN DefaultTenantID
       ELSE IF sanitized = <<>> THEN DefaultTenantID
       ELSE sanitized

\* context.WithValue on a context that holds no tenant key yet.
WithValue(c, k, v) == [key \in DOMAIN c \cup {k} |-> IF key = k THEN v ELSE c[key]]

\* ctx.Value(k).(string) with the "default" fallback (GetTenantID, and the
\* lookup at the head of GetProvider).
TenantFrom(c, k) == IF k \in DOMAIN c THEN c[k] ELSE DefaultTenantID

GetTenantID(c) == TenantFrom(c, TenantIDKey)

Init ==
    /\ booted = FALSE
    /\ header = <<>>
    /\ ctx = [k \in {} |-> DefaultTenantID]
    /\ provided = DefaultTenantID

\* main: dbal.RegisterDriver with the default registry factory, then
\* cmd.Execute(), whose serve command mounts TenantMiddleware.
Boot ==
    /\ ~booted
    /\ booted' = TRUE
    /\ UNCHANGED <<header, ctx, provided>>

\* One request through TenantMiddleware into a handler that asks
\* TenantAwareConfig.GetProvider for its configuration.
ServeRequest(h) ==
    /\ booted
    /\ header' = h
    /\ ctx' = WithValue([k \in {} |-> DefaultTenantID], TenantIDKey,
                        extractTenantID(h))
    /\ provided' = TenantFrom(ctx', ConfigTenantKey)
    /\ UNCHANGED booted

Next == Boot \/ \E h \in Headers : ServeRequest(h)

Spec == Init /\ [][Next]_vars

-----------------------------------------------------------------------------
(* Properties.                                                             *)

\* The identifier extractTenantID puts in the context is never empty.
TypeOK ==
    /\ booted \in BOOLEAN
    /\ header \in Headers
    /\ GetTenantID(ctx) \in Seq(Chars \cup {"default"}) \ {<<>>}

\* Spec 4.1: the extracted identifier holds no path separator of either
\* direction, whatever the header.
NoSeparator ==
    LET id == GetTenantID(ctx)
    IN ~ContainsRun(id, <<"/">>) /\ ~ContainsRun(id, <<"\\">>)

\* Spec 4.1: the extracted identifier is safe as a single path segment of
\* getTenantConfigPath's filepath.Join(configDirectory, id, "kratos.yaml"):
\* it is not "." (the configuration directory itself) and holds no "..".
SingleSegment ==
    LET id == GetTenantID(ctx)
    IN id # <<".">> /\ ~ContainsRun(id, <<".", ".">>)

\* Spec 6: the tenant the middleware stored is the tenant GetProvider
\* resolves (same key on both sides).
ContextRoundTrip ==
    provided = GetTenantID(ctx)

=============================================================================
