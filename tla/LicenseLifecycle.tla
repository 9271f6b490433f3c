-------------------------- MODULE LicenseLifecycle --------------------------
(***************************************************************************)
(* The licence table and every handler that writes a licence row: issue,   *)
(* renew, revoke, setDelivery and the reissues of src/licensing, the       *)
(* portal's reissue and silent refresh of src/portal.                      *)
(*                                                                         *)
(* A handler reads its row, computes, and saves.  Requests interleave      *)
(* between the read and the save, so each handler is a Begin and a Commit. *)
(* Two kinds of save exist, and the difference decides what a concurrent   *)
(* commit loses:                                                           *)
(*  - outside a transaction repo.save(row) re-reads the row and writes     *)
(*    every column in which the handler's copy differs: the whole stale    *)
(*    copy wins (renew, revoke, setDelivery);                              *)
(*  - inside dataSource.transaction the re-read sees the transaction's own *)
(*    snapshot, so only the columns the handler assigned are written       *)
(*    (refresh and the three reissues).                                    *)
(* One package stands for the plan all the rows were sold under.           *)
(***************************************************************************)
EXTENDS DurationPolicy, FiniteSets

CONSTANTS
    LicenceIds,        \* primary keys of the licence table
    LegacyIds,         \* rows already there, written before renewUntil existed
    Workers,           \* requests that can be in progress at once
    Ops,               \* the handlers this instance lets run
    Packages,          \* the states the package row can take
    Pins,              \* whether a delivery edit leaves a version pinned
    RequestedTtls,     \* token lives an administrator may ask for
    ReminderWindow,    \* EXPIRY_REMINDER_WINDOW_SECONDS
    SigningDelay,      \* seconds from reading the clock to the signer's own read
    MaxTime, MaxLicIds \* bounds of the instance

FullSaves == {"renew", "revoke", "setDelivery"}
Reissues == {"regenerate", "rebind", "portalRegenerate"}
HeldOps == FullSaves \cup Reissues \cup {"refresh"}
AllOps == HeldOps \cup {"issue", "editPackage", "removePackage"}

Package == [exists: BOOLEAN, active: BOOLEAN,
            interval: BILLING_INTERVALS, ttlOverride: Nat]

ASSUME LifecycleAssumption ==
    /\ LegacyIds \subseteq LicenceIds /\ IsFiniteSet(LegacyIds)
    /\ Ops \subseteq AllOps
    /\ Packages \subseteq {p \in Package : p.exists} /\ Packages # {}
    /\ Pins \subseteq BOOLEAN
    /\ RequestedTtls \subseteq Nat
    /\ ReminderWindow \in Nat /\ SigningDelay \in Nat
    /\ MaxTime \in Nat /\ MaxLicIds \in Nat

VARIABLES
    now,        \* unix seconds
    pkg,        \* the package row
    lic,        \* the licence table
    nextLic,    \* licence claims 1 .. nextLic-1 have been signed
    op,         \* what each worker holds between its read and its save
    \* History, which no handler reads:
    sold,       \* the longest term ever granted to the lineage of a root row
    lastExp,    \* the latest expiry of any token signed for a lineage
    reminders   \* reminder emails sent for a row's current term, counted to 2

history == <<sold, lastExp, reminders>>
vars == <<now, pkg, lic, nextLic, op, history>>

Row == [status: {"none", "active", "revoked"},
        licId: Nat,            \* the unique column
        tokenLic: Nat,         \* the lic claim inside the stored token
        expiresAt: Nat,
        renewUntil: Nat \cup {INFINITE_TERM},
        createdAt: Nat,
        reminded: BOOLEAN,     \* reminderSentAt > 0
        pinned: BOOLEAN,       \* pinnedVersion or overrideVersion set
        root: LicenceIds]      \* history: the first row of the lineage

Idle == [kind |-> "idle"]
Held == [kind: HeldOps, id: LicenceIds, row: Row, pkg: Package, at: Nat]

-----------------------------------------------------------------------------
\* A deleted package leaves the relation null: the interval falls back to
\* 'once' and no token life is known.
IntervalOf(p) == IF p.exists THEN p.interval ELSE "once"
packageTtl(p) == IF p.exists THEN effectiveTtlSeconds(p.ttlOverride, p.interval)
                 ELSE NoTtl
TtlToSign(requested, p) == IF requested = NoTtl THEN packageTtl(p) ELSE requested

\* (fault) a legacy row's term counted from the present
BoundaryFromNow(row, p) == effectiveRenewUntil(row.renewUntil, now, IntervalOf(p))

\* The term boundary of a row judged with the package p.
BoundaryOf(row, p) ==
    effectiveRenewUntil(row.renewUntil, row.createdAt, IntervalOf(p))

LaterOf(a, b) == IF a = POSITIVE_INFINITY \/ b = POSITIVE_INFINITY
                 THEN POSITIVE_INFINITY
                 ELSE IF a <= b THEN b ELSE a

Unused == {i \in LicenceIds : lic[i].status = "none"}
SigningTimes == now .. (now + SigningDelay)

\* save() writes the loaded package relation back: once the package row is
\* gone the foreign key refuses it and the request fails.
RelationStillValid(w) == op[w].pkg.exists => pkg.exists

Begin(w, kind, i) ==
    /\ kind \in Ops
    /\ op[w] = Idle
    /\ op' = [op EXCEPT ![w] = [kind |-> kind, id |-> i, row |-> lic[i],
                                pkg |-> pkg, at |-> now]]
    /\ UNCHANGED <<now, pkg, lic, nextLic, history>>

Finish(w) == op' = [op EXCEPT ![w] = Idle]

\* The token signed for row i's lineage expires at exp.
Signed(i, exp) ==
    lastExp' = [lastExp EXCEPT ![lic[i].root] = IF exp > @ THEN exp ELSE @]

-----------------------------------------------------------------------------
\* LicenseService.issue: a new row for an active package.
Issue ==
    /\ "issue" \in Ops
    /\ pkg.exists /\ pkg.active
    /\ nextLic <= MaxLicIds
    /\ \E i \in Unused, requested \in RequestedTtls \cup {NoTtl},
          iat \in SigningTimes :
        LET renewUntil == stampedRenewUntil(pkg.interval, now)
            exp == signedExpiry(iat, TtlToSign(requested, pkg), renewUntil, now)
        IN  /\ lic' = [lic EXCEPT ![i] =
                   [status |-> "active", licId |-> nextLic, tokenLic |-> nextLic,
                    expiresAt |-> exp, renewUntil |-> renewUntil,
                    createdAt |-> now, reminded |-> FALSE, pinned |-> FALSE,
                    root |-> i]]
            /\ sold' = [sold EXCEPT ![i] =
                   effectiveRenewUntil(renewUntil, now, pkg.interval)]
            /\ lastExp' = [lastExp EXCEPT ![i] = exp]
    /\ nextLic' = nextLic + 1
    /\ UNCHANGED <<now, pkg, op, reminders>>

\* (fault) the revoked status is not looked at
RenewGateAnyStatus(row, p) == row.status # "none" /\ (p.exists => p.active)

\* LicenseService.renew: refused for a revoked row or an inactive package.
RenewGate(row, p) == row.status = "active" /\ (p.exists => p.active)

BeginRenew(w, i) ==
    /\ RenewGate(lic[i], pkg)
    /\ Begin(w, "renew", i)

\* The term a renew grants: infinite, one interval from now, or for 'once' the
\* life of the package, of the request when the package is gone.
RenewBoundary(p, requested, at) ==
    IF IntervalOf(p) = "lifetime" THEN INFINITE_TERM
    ELSE IF IntervalOf(p) = "once"
    THEN at + (IF p.exists THEN packageTtl(p) ELSE requested)
    ELSE at + termSeconds(IntervalOf(p))

\* The clock of a held renew is the one read with the row; the new boundary
\* is the signed expiry itself, except for lifetime.
CommitRenew(w) ==
    /\ op[w].kind = "renew"
    /\ RelationStillValid(w)
    /\ nextLic <= MaxLicIds
    /\ \E requested \in RequestedTtls \cup {NoTtl} :
        LET i == op[w].id
            p == op[w].pkg
            interval == IntervalOf(p)
            exp == signedExpiry(op[w].at, TtlToSign(requested, p),
                                RenewBoundary(p, requested, op[w].at), op[w].at)
            renewUntil == IF interval = "lifetime" THEN INFINITE_TERM ELSE exp
        IN  /\ lic' = [lic EXCEPT ![i] =
                   [op[w].row EXCEPT !.licId = nextLic, !.tokenLic = nextLic,
                                     !.expiresAt = exp, !.renewUntil = renewUntil,
                                     !.reminded = FALSE, !.status = "active"]]
            /\ sold' = [sold EXCEPT ![lic[i].root] =
                   LaterOf(@, effectiveRenewUntil(renewUntil, 0, interval))]
            /\ Signed(i, exp)
            /\ reminders' = [reminders EXCEPT ![i] = 0]
    /\ nextLic' = nextLic + 1
    /\ Finish(w)
    /\ UNCHANGED <<now, pkg>>

\* LicenseService.revoke and setDelivery read any row and save all of it.
BeginRevoke(w, i) ==
    /\ lic[i].status # "none"
    /\ Begin(w, "revoke", i)

CommitRevoke(w) ==
    /\ op[w].kind = "revoke"
    /\ RelationStillValid(w)
    /\ lic' = [lic EXCEPT ![op[w].id] = [op[w].row EXCEPT !.status = "revoked"]]
    /\ Finish(w)
    /\ UNCHANGED <<now, pkg, nextLic, history>>

BeginSetDelivery(w, i) ==
    /\ lic[i].status # "none"
    /\ Begin(w, "setDelivery", i)

CommitSetDelivery(w) ==
    /\ op[w].kind = "setDelivery"
    /\ RelationStillValid(w)
    /\ \E pinned \in Pins :
          lic' = [lic EXCEPT ![op[w].id] = [op[w].row EXCEPT !.pinned = pinned]]
    /\ Finish(w)
    /\ UNCHANGED <<now, pkg, nextLic, history>>

-----------------------------------------------------------------------------
\* regenerate, regenerateWithDomains (rebind) and regenerateForCustomer
\* (portalRegenerate) share the term gate; only rebind looks at the status,
\* and only the administrator's two look at the package.
ReissueGate(kind, row, p) ==
    /\ ~Reached(now, BoundaryOf(row, p))
    /\ kind = "rebind" => row.status # "revoked"
    /\ kind # "portalRegenerate" => (p.exists => p.active)

BeginReissue(w, kind, i) ==
    /\ lic[i].status # "none"
    /\ ReissueGate(kind, lic[i], pkg)
    /\ Begin(w, kind, i)

\* (fault) the old row keeps its status
KeptByReissue(current, row) == current

\* The status of the old row: revoke() writes it unless the copy says it is
\* revoked already, and then the row is left as it is.
RevokedByReissue(current, row) ==
    IF row.status = "revoked" THEN current ELSE "revoked"

\* Revoke the old row and mint the new one in one transaction.  The mint
\* reads the clock again; delivery settings are not carried.
CommitReissue(w) ==
    /\ op[w].kind \in Reissues
    /\ RelationStillValid(w)
    /\ nextLic <= MaxLicIds
    /\ \E i \in Unused, iat \in SigningTimes :
        LET old == op[w].id
            row == op[w].row
            renewUntil == carriedRenewUntil(BoundaryOf(row, op[w].pkg))
            exp == signedExpiry(iat, NoTtl, renewUntil, now)
        IN  /\ lic' = [lic EXCEPT
                   ![old].status = RevokedByReissue(@, row),
                   ![i] = [status |-> "active", licId |-> nextLic,
                           tokenLic |-> nextLic, expiresAt |-> exp,
                           renewUntil |-> renewUntil, createdAt |-> now,
                           reminded |-> FALSE, pinned |-> FALSE,
                           root |-> lic[old].root]]
            /\ Signed(old, exp)
    /\ nextLic' = nextLic + 1
    /\ Finish(w)
    /\ UNCHANGED <<now, pkg, sold, reminders>>

-----------------------------------------------------------------------------
\* RefreshService.doRefresh: any authentic token names a row by its lic claim.
\* A request the rate limiter or the Origin check refuses changes nothing.
BeginRefresh(w, claim) ==
    \E i \in LicenceIds :
        /\ lic[i].licId = claim
        /\ lic[i].status = "active"
        /\ ~Reached(now, BoundaryOf(lic[i], pkg))
        /\ Begin(w, "refresh", i)

\* The reminder is due inside the window of a finite term, once per term.
ReminderDue(row, boundary, at) ==
    /\ boundary # POSITIVE_INFINITY
    /\ boundary - at <= ReminderWindow
    /\ ~row.reminded

\* (faults) the save outside the transaction; a fresh claim for the new token
FullRefreshSave(current, row, exp, remind) ==
    [row EXCEPT !.tokenLic = row.licId, !.expiresAt = exp,
                !.reminded = row.reminded \/ remind]
FreshClaimSave(current, row, exp, remind) ==
    [current EXCEPT !.tokenLic = nextLic, !.expiresAt = exp,
                    !.reminded = current.reminded \/ remind]

\* What the transaction writes over the current row: the token under the claim
\* that was read, and the reminder's mark.  The status the handler assigns
\* equals its snapshot's, so that column is not written.
RefreshSave(current, row, exp, remind) ==
    [current EXCEPT !.tokenLic = row.licId, !.expiresAt = exp,
                    !.reminded = current.reminded \/ remind]

\* Re-mint in place, clamped by the clock and the boundary that were read.
CommitRefresh(w) ==
    /\ op[w].kind = "refresh"
    /\ LET i == op[w].id
           row == op[w].row
           boundary == BoundaryOf(row, op[w].pkg)
           exp == signedExpiry(op[w].at, packageTtl(op[w].pkg), boundary, op[w].at)
           remind == ReminderDue(row, boundary, op[w].at)
       IN  /\ lic' = [lic EXCEPT ![i] = RefreshSave(lic[i], row, exp, remind)]
           /\ Signed(i, exp)
           /\ reminders' = [reminders EXCEPT ![i] = IF remind THEN Min2(@ + 1, 2) ELSE @]
    /\ Finish(w)
    /\ UNCHANGED <<now, pkg, nextLic, sold>>

\* A request ends without a commit: the client went away, the process died or
\* the foreign key refused the save.
Abandon(w) ==
    /\ op[w] # Idle
    /\ Finish(w)
    /\ UNCHANGED <<now, pkg, lic, nextLic, history>>

-----------------------------------------------------------------------------
\* PackageAdminService.update.  A legacy row's term is derived from the live
\* package, so what its lineage was granted moves with the edit.
EditPackage ==
    /\ "editPackage" \in Ops
    /\ pkg.exists
    /\ \E p \in Packages \ {pkg} : pkg' = p
    /\ sold' = [r \in LicenceIds |->
                  IF r \in LegacyIds
                  THEN LaterOf(sold[r], effectiveRenewUntil(0, 0, pkg'.interval))
                  ELSE sold[r]]
    /\ UNCHANGED <<now, lic, nextLic, op, lastExp, reminders>>

\* PackageAdminService.remove: the licence rows keep their snapshot, the
\* relation is set null.
RemovePackage ==
    /\ "removePackage" \in Ops
    /\ pkg.exists
    /\ pkg' = [pkg EXCEPT !.exists = FALSE]
    /\ sold' = [r \in LicenceIds |->
                  IF r \in LegacyIds
                  THEN LaterOf(sold[r], effectiveRenewUntil(0, 0, "once"))
                  ELSE sold[r]]
    /\ UNCHANGED <<now, lic, nextLic, op, lastExp, reminders>>

Tick ==
    /\ now < MaxTime
    /\ now' = now + 1
    /\ UNCHANGED <<pkg, lic, nextLic, op, history>>

-----------------------------------------------------------------------------
Blank(i) == [status |-> "none", licId |-> 0, tokenLic |-> 0, expiresAt |-> 0,
             renewUntil |-> 0, createdAt |-> 0, reminded |-> FALSE,
             pinned |-> FALSE, root |-> i]

\* The legacy rows carry the first lic claims, one each.
Init ==
    /\ now = 0
    /\ pkg \in Packages
    /\ \E claim \in [LicenceIds -> 0 .. Cardinality(LegacyIds)] :
        /\ \A i \in LicenceIds : claim[i] = 0 <=> i \notin LegacyIds
        /\ \A i, j \in LegacyIds : claim[i] = claim[j] => i = j
        /\ lic = [i \in LicenceIds |->
                    IF i \in LegacyIds
                    THEN [Blank(i) EXCEPT !.status = "active", !.licId = claim[i],
                                          !.tokenLic = claim[i]]
                    ELSE Blank(i)]
    /\ nextLic = 1 + Cardinality(LegacyIds)
    /\ op = [w \in Workers |-> Idle]
    /\ sold = [i \in LicenceIds |->
                 IF i \in LegacyIds THEN effectiveRenewUntil(0, 0, pkg.interval)
                 ELSE 0]
    /\ lastExp = [i \in LicenceIds |-> 0]
    /\ reminders = [i \in LicenceIds |-> 0]

Commit(w) ==
    \/ CommitRenew(w)
    \/ CommitRevoke(w)
    \/ CommitSetDelivery(w)
    \/ CommitReissue(w)
    \/ CommitRefresh(w)

Next ==
    \/ Tick
    \/ EditPackage
    \/ RemovePackage
    \/ Issue
    \/ \E w \in Workers :
        \/ \E i \in LicenceIds :
            \/ BeginRenew(w, i)
            \/ BeginRevoke(w, i)
            \/ BeginSetDelivery(w, i)
            \/ \E kind \in Reissues : BeginReissue(w, kind, i)
        \/ \E claim \in 1 .. (nextLic - 1) : BeginRefresh(w, claim)
        \/ Commit(w)
        \/ Abandon(w)

Spec == Init /\ [][Next]_vars
-----------------------------------------------------------------------------
(***************************************************************************)
(* Properties                                                              *)
(***************************************************************************)

\* Every row is well typed, and a held copy has the shape of a row.
TypeOK ==
    /\ now \in Nat
    /\ pkg \in Package
    /\ lic \in [LicenceIds -> Row]
    /\ nextLic \in Nat
    /\ op \in [Workers -> {Idle} \cup Held]
    /\ sold \in [LicenceIds -> Nat \cup {POSITIVE_INFINITY}]
    /\ lastExp \in [LicenceIds -> Nat]
    /\ reminders \in [LicenceIds -> Nat]

Issued(i) == lic[i].status # "none"
Active(i) == lic[i].status = "active"
Term(i) == BoundaryOf(lic[i], pkg)
NoLongerThan(a, b) == b = POSITIVE_INFINITY \/ (a # POSITIVE_INFINITY /\ a <= b)

\* No row may refresh or be reissued beyond the longest term its lineage was
\* ever sold, whatever saves overtake each other: a stale copy written back,
\* a reissue of an old read, a legacy row judged by an edited package.
StoredTermInv ==
    \A i \in LicenceIds : Issued(i) => NoLongerThan(Term(i), sold[lic[i].root])

\* No token ever signed for a lineage outlives the longest term it was sold
\* (clampTtlToTerm: "exp never OUTLIVES the paid term").
TokenWithinTerm ==
    \A r \in LicenceIds : Within(lastExp[r], sold[r])

\* Inside a boundary, but for the seconds between the clock that clamps a life
\* and the signer's, which counts it.
WithinDelay(t, boundary) == boundary = POSITIVE_INFINITY \/ t <= boundary + SigningDelay

\* A reissue past the gate whose boundary was reached before its commit.
LateReissue(w) ==
    /\ op[w].kind \in Reissues
    /\ Reached(now, BoundaryOf(op[w].row, op[w].pkg))

\* Only a reissue overtaken by the end of the term signs a token that outlives
\* what its lineage was sold by more than the signer's delay, and for no longer
\* than the signer's configured default: no other handler does, whatever package
\* edits, renewals or stale copies come between its read and its signature.
OnlyLateReissueOutlives ==
    [][\A r \in LicenceIds :
          lastExp'[r] # lastExp[r]
          => \/ WithinDelay(lastExp'[r], sold'[r])
             \/ \E w \in Workers :
                   /\ LateReissue(w) /\ op'[w] = Idle /\ lic[op[w].id].root = r
                   /\ lastExp'[r] <= now + SigningDelay + defaultTtlSeconds]_vars

\* The token a row holds names a row that exists, so that handing it back
\* refreshes again (refresh.service.ts, M3: no orphaning).
HandedBackTokenResolves ==
    \A i \in LicenceIds :
        Active(i) => \E j \in LicenceIds : lic[j].licId = lic[i].tokenLic

\* Without an administrator's renew, every row of a lineage has exactly the
\* term that was sold: a reissue neither extends it nor collapses a perpetual
\* one (audits #1 and B1).
TermCarriedExactly ==
    \A i \in LicenceIds :
        (Issued(i) /\ lic[i].root \notin LegacyIds) => Term(i) = sold[lic[i].root]

\* A revoked row is never active again.
RevocationSticks ==
    [][\A i \in LicenceIds :
          lic[i].status = "revoked" => lic'[i].status = "revoked"]_vars

\* A revoked row comes back only in the stale copy of a renew or a delivery
\* edit that read it before; no refresh and no reissue, whatever it read, and no
\* handler that begins after the revocation revives it.
OnlyStaleSaveRevives ==
    [][\A i \in LicenceIds :
          (lic[i].status = "revoked" /\ lic'[i].status # "revoked")
          => \E w \in Workers : /\ op[w].kind \in {"renew", "setDelivery"}
                               /\ op[w].id = i /\ op'[w] = Idle
                               /\ op[w].row.status # "revoked"]_vars

\* A lineage whose every key was revoked gets no new live key.
RevokedLineageStaysDead ==
    [][\A r \in LicenceIds :
          (/\ \E i \in LicenceIds : Issued(i) /\ lic[i].root = r
           /\ \A i \in LicenceIds : lic[i].root = r => ~Active(i))
          => \A i \in LicenceIds : lic'[i].root = r => lic'[i].status # "active"]_vars

\* One sale is one live key: a reissue revokes what it replaces.
OneLivePerLineage ==
    \A i, j \in LicenceIds :
        (Active(i) /\ Active(j) /\ lic[i].root = lic[j].root) => i = j

\* The expiry reminder goes out at most once in a term (audit B2).
ReminderOncePerTerm == \A i \in LicenceIds : reminders[i] <= 1

\* A renewed row never has less of its term left than before: renew is "a
\* deliberate term EXTENSION".
RenewExtendsTerm ==
    [][\A i \in LicenceIds :
          (/\ Active(i)
           /\ lic'[i].licId # lic[i].licId)
          => NoLongerThan(Term(i), BoundaryOf(lic'[i], pkg'))]_vars

\* A perpetual licence stays perpetual.
PerpetualStaysPerpetual ==
    [][\A i \in LicenceIds :
          lic[i].renewUntil = INFINITE_TERM => lic'[i].renewUntil = INFINITE_TERM]_vars

\* A version pin is kept when the customer's key is replaced.
PinSurvivesReissue ==
    [][\A i, j \in LicenceIds :
          (/\ Active(i) /\ lic[i].pinned /\ lic'[i].status = "revoked"
           /\ ~Issued(j) /\ lic'[j].status = "active" /\ lic'[j].root = lic[i].root)
          => lic'[j].pinned]_vars
=============================================================================
