--------------------------- MODULE DurationPolicy ---------------------------
(***************************************************************************)
(* The pure term arithmetic of src/licensing/duration-policy.ts, with the  *)
(* lifetime computation of the signer it feeds.  Seconds are abstract      *)
(* naturals: a run gives the lengths small values in the same order as the *)
(* real ones.                                                              *)
(***************************************************************************)
EXTENDS Integers

CONSTANTS
    DEFAULT_TTL_SECONDS,  \* token life and term of a 'once' package
    defaultTtlSeconds,    \* the signer's configured life of a token that asks for none
    MonthlySeconds,       \* 30 * DAY
    YearlySeconds,        \* 365 * DAY
    SAFE_MAX_TTL          \* the ceiling no token life exceeds

ASSUME LengthsAssumption ==
    /\ DEFAULT_TTL_SECONDS \in Nat \ {0}
    /\ defaultTtlSeconds \in Nat \ {0}
    /\ MonthlySeconds \in Nat \ {0}
    /\ YearlySeconds \in Nat \ {0}
    /\ SAFE_MAX_TTL \in Nat \ {0}

BILLING_INTERVALS == {"once", "monthly", "yearly", "lifetime"}

\* The stored marker of a perpetual term, and the value the read side turns
\* it into.  Number.POSITIVE_INFINITY is a value below every time; it is only
\* ever compared through Reached and Within.
INFINITE_TERM == -1
POSITIVE_INFINITY == -2

\* An absent token life: the code's `undefined` and 0 are both falsy where a
\* life is tested.
NoTtl == 0

Min2(a, b) == IF a <= b THEN a ELSE b

\* now >= boundary, and t <= boundary, in the extended numbers of the code.
Reached(now, boundary) == boundary # POSITIVE_INFINITY /\ now >= boundary
Within(t, boundary) == boundary = POSITIVE_INFINITY \/ t <= boundary

-----------------------------------------------------------------------------
termSeconds(interval) ==
    IF interval = "lifetime" THEN SAFE_MAX_TTL
    ELSE IF interval = "yearly" THEN YearlySeconds
    ELSE IF interval = "monthly" THEN MonthlySeconds
    ELSE DEFAULT_TTL_SECONDS

\* The life of one token equals the term of its interval; only what is stored
\* as the term differs (stampedRenewUntil).
durationPolicy(interval) ==
    [ttlSeconds    |-> termSeconds(interval),
     refreshPolicy |-> IF interval \in {"monthly", "yearly", "lifetime"}
                       THEN "auto" ELSE "manual"]

effectiveTtlSeconds(ttlOverride, interval) ==
    IF ttlOverride > 0 THEN ttlOverride ELSE durationPolicy(interval).ttlSeconds

\* (fault) Infinity itself reaches the int column
stampedInfinity(interval, now) ==
    IF interval = "lifetime" THEN POSITIVE_INFINITY ELSE now + termSeconds(interval)

\* The boundary stored at a sale: the sentinel for a perpetual one.
stampedRenewUntil(interval, now) ==
    IF interval = "lifetime" THEN INFINITE_TERM ELSE now + termSeconds(interval)

\* The boundary an existing row is judged by: the stored one, or for a legacy
\* row (0) the one derived from its creation and the live package's interval.
effectiveRenewUntil(renewUntil, createdAt, interval) ==
    IF renewUntil = INFINITE_TERM THEN POSITIVE_INFINITY
    ELSE IF renewUntil > 0 THEN renewUntil
    ELSE IF interval = "lifetime" THEN POSITIVE_INFINITY
    ELSE createdAt + termSeconds(interval)

\* (fault) a perpetual term is carried as the old ~3y wall
carriedAsWall(boundary) ==
    IF boundary = POSITIVE_INFINITY THEN SAFE_MAX_TTL ELSE boundary

\* carriedRenewUntilFor, from a boundary already read.
carriedRenewUntil(boundary) ==
    IF boundary = POSITIVE_INFINITY THEN INFINITE_TERM ELSE boundary

\* (fault) the life is not clamped
unclampedTtl(requested, renewUntil, now) == requested

\* The escape hatch is kept: with no room left the request passes unclamped.
\* With an infinite boundary and no request the headroom itself is infinite.
clampTtlToTerm(requested, renewUntil, now) ==
    IF renewUntil = POSITIVE_INFINITY
    THEN IF requested = NoTtl THEN POSITIVE_INFINITY ELSE requested
    ELSE IF renewUntil <= 0 \/ renewUntil <= now THEN requested
    ELSE IF requested <= 0 THEN renewUntil - now
    ELSE Min2(requested, renewUntil - now)

\* The life the signer really gives: its default for no request, its ceiling
\* above everything.
signedTtl(ttl) ==
    IF ttl = POSITIVE_INFINITY THEN SAFE_MAX_TTL
    ELSE Min2(IF ttl = NoTtl THEN defaultTtlSeconds ELSE ttl, SAFE_MAX_TTL)

\* The expiry of a token whose life was clamped by the clock `now` and whose
\* signer then read iat.
signedExpiry(iat, requested, renewUntil, now) ==
    iat + signedTtl(clampTtlToTerm(requested, renewUntil, now))
=============================================================================
