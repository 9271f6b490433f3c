----------------------- MODULE LicenseLifecycleProofs -----------------------
(***************************************************************************)
(* Theorems about LicenseLifecycle, for every table, every set of package  *)
(* states and every length of the terms.                                   *)
(***************************************************************************)
EXTENDS LicenseLifecycle, FiniteSetTheorems, TLAPS

-----------------------------------------------------------------------------
(* What the arithmetic of DurationPolicy returns. *)

\* A term and a package's token life are positive.
LEMMA TermPositive ==
    /\ \A i \in BILLING_INTERVALS : termSeconds(i) \in Nat \ {0}
    /\ \A i \in BILLING_INTERVALS, o \in Nat : effectiveTtlSeconds(o, i) \in Nat \ {0}
BY LengthsAssumption
   DEF termSeconds, effectiveTtlSeconds, durationPolicy, BILLING_INTERVALS

LEMMA PackageTtlType ==
    ASSUME NEW p \in Package
    PROVE  packageTtl(p) \in Nat
BY TermPositive DEF packageTtl, Package, NoTtl

\* The clamp returns a request the signer can serve.
LEMMA ClampType ==
    ASSUME NEW r \in Nat, NEW b \in Int, NEW t \in Nat
    PROVE  clampTtlToTerm(r, b, t) \in Nat \cup {POSITIVE_INFINITY}
BY DEF clampTtlToTerm, NoTtl, POSITIVE_INFINITY, Min2

\* Every signed token lives at least a second.
LEMMA SignedTtlPositive ==
    ASSUME NEW ttl \in Nat \cup {POSITIVE_INFINITY}
    PROVE  signedTtl(ttl) \in Nat \ {0}
BY LengthsAssumption DEF signedTtl, NoTtl, POSITIVE_INFINITY, Min2

\* The clamp keeps a token inside a term that has not ended: the reason the
\* callers gate on the term before they mint.
LEMMA ClampWithinTerm ==
    ASSUME NEW r \in Nat, NEW t \in Nat,
           NEW b \in Nat \cup {POSITIVE_INFINITY}, ~Reached(t, b)
    PROVE  Within(t + signedTtl(clampTtlToTerm(r, b, t)), b)
BY LengthsAssumption
   DEF Reached, Within, clampTtlToTerm, signedTtl, NoTtl, POSITIVE_INFINITY, Min2

\* Every expiry is a time.
LEMMA ExpiryType ==
    ASSUME NEW iat \in Nat, NEW r \in Nat, NEW b \in Int, NEW t \in Nat
    PROVE  signedExpiry(iat, r, b, t) \in Nat \ {0}
<1> DEFINE ttl == clampTtlToTerm(r, b, t)
<1>1. ttl \in Nat \cup {POSITIVE_INFINITY}
  BY ClampType
<1>2. signedExpiry(iat, r, b, t) = iat + signedTtl(ttl)
  BY DEF signedExpiry
<1> HIDE DEF ttl
<1>3. signedTtl(ttl) \in Nat \ {0}
  BY <1>1, SignedTtlPositive
<1>4. QED
  BY <1>2, <1>3

LEMMA TtlToSignType ==
    ASSUME NEW r \in RequestedTtls \cup {NoTtl}, NEW p \in Package
    PROVE  r \in Nat /\ TtlToSign(r, p) \in Nat
BY PackageTtlType, LifecycleAssumption DEF TtlToSign, NoTtl

LEMMA IntervalType ==
    ASSUME NEW p \in Package
    PROVE  IntervalOf(p) \in BILLING_INTERVALS
BY DEF IntervalOf, Package, BILLING_INTERVALS

\* A boundary is a positive time or infinite, and carrying it to a reissued
\* row leaves it where it was, never on the legacy marker 0.
LEMMA BoundaryType ==
    ASSUME NEW row \in Row, NEW p \in Package
    PROVE  BoundaryOf(row, p) \in (Nat \ {0}) \cup {POSITIVE_INFINITY}
<1>1. IntervalOf(p) \in BILLING_INTERVALS
  BY IntervalType
<1>2. row.renewUntil \in Nat \cup {INFINITE_TERM} /\ row.createdAt \in Nat
  BY DEF Row
<1>3. QED
  BY <1>1, <1>2, TermPositive
     DEF BoundaryOf, effectiveRenewUntil, INFINITE_TERM, POSITIVE_INFINITY

LEMMA CarriedRoundTrip ==
    ASSUME NEW b \in (Nat \ {0}) \cup {POSITIVE_INFINITY}, NEW c, NEW i
    PROVE  /\ carriedRenewUntil(b) \in (Nat \ {0}) \cup {INFINITE_TERM}
           /\ effectiveRenewUntil(carriedRenewUntil(b), c, i) = b
BY DEF carriedRenewUntil, effectiveRenewUntil, POSITIVE_INFINITY, INFINITE_TERM

LEMMA StampedType ==
    ASSUME NEW i \in BILLING_INTERVALS, NEW t \in Nat
    PROVE  /\ stampedRenewUntil(i, t) \in (Nat \ {0}) \cup {INFINITE_TERM}
           /\ \A c, j : effectiveRenewUntil(stampedRenewUntil(i, t), c, j)
                        = IF i = "lifetime" THEN POSITIVE_INFINITY
                          ELSE t + termSeconds(i)
BY TermPositive
   DEF stampedRenewUntil, effectiveRenewUntil, POSITIVE_INFINITY, INFINITE_TERM

LEMMA EffectiveType ==
    ASSUME NEW u \in Nat \cup {INFINITE_TERM}, NEW c \in Nat,
           NEW i \in BILLING_INTERVALS
    PROVE  effectiveRenewUntil(u, c, i) \in Nat \cup {POSITIVE_INFINITY}
BY TermPositive DEF effectiveRenewUntil, INFINITE_TERM, POSITIVE_INFINITY

-----------------------------------------------------------------------------
(* Type correctness. *)

\* What Begin leaves behind is a held copy.
LEMMA BeginType ==
    ASSUME TypeOK, NEW w \in Workers, NEW i \in LicenceIds,
           NEW kind \in HeldOps, Begin(w, kind, i)
    PROVE  TypeOK'
BY DEF Begin, TypeOK, Held, history

LEMMA HeldType ==
    ASSUME TypeOK, NEW w \in Workers, op[w] # Idle
    PROVE  /\ op[w] \in Held
           /\ op[w].id \in LicenceIds /\ op[w].row \in Row
           /\ op[w].pkg \in Package /\ op[w].at \in Nat
BY DEF TypeOK, Held

LEMMA HeldNotIdle ==
    ASSUME TypeOK, NEW w \in Workers, op[w].kind # "idle"
    PROVE  op[w] # Idle
BY DEF Idle

LEMMA FinishType ==
    ASSUME TypeOK, NEW w \in Workers, Finish(w)
    PROVE  op' \in [Workers -> {Idle} \cup Held]
BY DEF Finish, TypeOK

LEMMA LaterType ==
    ASSUME NEW a \in Nat \cup {POSITIVE_INFINITY}, NEW b \in Nat \cup {POSITIVE_INFINITY}
    PROVE  LaterOf(a, b) \in Nat \cup {POSITIVE_INFINITY}
BY DEF LaterOf

\* lastExp only moves forward, at the root of the row signed for.
LEMMA SignedType ==
    ASSUME TypeOK, NEW i \in LicenceIds, NEW exp \in Nat, Signed(i, exp)
    PROVE  /\ lastExp' \in [LicenceIds -> Nat]
           /\ lastExp' = [lastExp EXCEPT ![lic[i].root] = IF exp > @ THEN exp ELSE @]
BY DEF Signed, TypeOK, Row

LEMMA RenewBoundaryType ==
    ASSUME NEW p \in Package, NEW r \in Nat, NEW t \in Nat
    PROVE  RenewBoundary(p, r, t) \in Int
BY TermPositive, PackageTtlType, IntervalType DEF RenewBoundary, INFINITE_TERM

LEMMA IssueType == ASSUME TypeOK, Issue PROVE TypeOK'
<1> DEFINE renewUntil == stampedRenewUntil(pkg.interval, now)
           Exp(r, iat) == signedExpiry(iat, TtlToSign(r, pkg), renewUntil, now)
<1>1. /\ pkg \in Package /\ now \in Nat /\ nextLic \in Nat
      /\ pkg.interval \in BILLING_INTERVALS
      /\ renewUntil \in Nat \cup {INFINITE_TERM} /\ renewUntil \in Int
  BY StampedType DEF TypeOK, Package, INFINITE_TERM
<1>2. \A r \in RequestedTtls \cup {NoTtl}, iat \in SigningTimes : Exp(r, iat) \in Nat
  <2> HIDE DEF renewUntil
  <2>1. \A iat \in SigningTimes : iat \in Nat
    BY <1>1, LifecycleAssumption DEF SigningTimes
  <2>2. QED
    BY <1>1, <2>1, TtlToSignType, ExpiryType
<1>3. PICK i \in Unused, r \in RequestedTtls \cup {NoTtl}, iat \in SigningTimes :
        /\ lic' = [lic EXCEPT ![i] =
               [status |-> "active", licId |-> nextLic, tokenLic |-> nextLic,
                expiresAt |-> Exp(r, iat), renewUntil |-> renewUntil,
                createdAt |-> now, reminded |-> FALSE, pinned |-> FALSE,
                root |-> i]]
        /\ sold' = [sold EXCEPT ![i] = effectiveRenewUntil(renewUntil, now, pkg.interval)]
        /\ lastExp' = [lastExp EXCEPT ![i] = Exp(r, iat)]
  BY DEF Issue
<1>4. i \in LicenceIds /\ Exp(r, iat) \in Nat
  BY <1>2 DEF Unused
<1>5. effectiveRenewUntil(renewUntil, now, pkg.interval) \in Nat \cup {POSITIVE_INFINITY}
  BY <1>1, EffectiveType
<1> HIDE DEF renewUntil, Exp
<1>6. lic' \in [LicenceIds -> Row]
  BY <1>1, <1>3, <1>4 DEF TypeOK, Row
<1>7. QED
  BY <1>1, <1>3, <1>4, <1>5, <1>6 DEF TypeOK, Issue

LEMMA RenewType == ASSUME TypeOK, NEW w \in Workers, CommitRenew(w) PROVE TypeOK'
<1> DEFINE i == op[w].id
           p == op[w].pkg
           at == op[w].at
           Exp(r) == signedExpiry(at, TtlToSign(r, p), RenewBoundary(p, r, at), at)
           Until(r) == IF IntervalOf(p) = "lifetime" THEN INFINITE_TERM ELSE Exp(r)
           Sold(r) == effectiveRenewUntil(Until(r), 0, IntervalOf(p))
<1>1. op[w] # Idle
  BY DEF CommitRenew, Idle
<1>2. i \in LicenceIds /\ op[w].row \in Row /\ p \in Package /\ at \in Nat
  BY <1>1, HeldType
<1>3. \A r \in RequestedTtls \cup {NoTtl} : Exp(r) \in Nat
  BY <1>2, TtlToSignType, RenewBoundaryType, ExpiryType
<1> HIDE DEF Exp
<1>4. \A r \in RequestedTtls \cup {NoTtl} : Until(r) \in Nat \cup {INFINITE_TERM}
  BY <1>3
<1> HIDE DEF Until
<1>5. \A r \in RequestedTtls \cup {NoTtl} : Sold(r) \in Nat \cup {POSITIVE_INFINITY}
  BY <1>2, <1>4, IntervalType, EffectiveType
<1> HIDE DEF Sold
<1>6. PICK r \in RequestedTtls \cup {NoTtl} :
        /\ lic' = [lic EXCEPT ![i] =
               [op[w].row EXCEPT !.licId = nextLic, !.tokenLic = nextLic,
                                 !.expiresAt = Exp(r), !.renewUntil = Until(r),
                                 !.reminded = FALSE, !.status = "active"]]
        /\ sold' = [sold EXCEPT ![lic[i].root] = LaterOf(@, Sold(r))]
        /\ Signed(i, Exp(r))
        /\ reminders' = [reminders EXCEPT ![i] = 0]
  BY DEF CommitRenew, Exp, Until, Sold
<1>7. lastExp' \in [LicenceIds -> Nat]
  BY <1>2, <1>3, <1>6, SignedType
<1>8. sold' \in [LicenceIds -> Nat \cup {POSITIVE_INFINITY}]
  BY <1>2, <1>5, <1>6, LaterType DEF TypeOK, Row
<1>9. lic' \in [LicenceIds -> Row]
  BY <1>2, <1>3, <1>4, <1>6 DEF TypeOK, Row
<1>10. /\ op' \in [Workers -> {Idle} \cup Held]
       /\ UNCHANGED <<now, pkg>> /\ nextLic' = nextLic + 1
       /\ reminders' \in [LicenceIds -> Nat]
  BY <1>6, FinishType DEF CommitRenew, TypeOK
<1>11. QED
  BY <1>7, <1>8, <1>9, <1>10 DEF TypeOK

LEMMA SaveType ==
    ASSUME TypeOK, NEW w \in Workers, CommitRevoke(w) \/ CommitSetDelivery(w)
    PROVE  TypeOK'
<1>1. op[w] # Idle
  BY DEF CommitRevoke, CommitSetDelivery, Idle
<1>2. op[w].id \in LicenceIds /\ op[w].row \in Row
  BY <1>1, HeldType
<1>3. PICK row \in Row : lic' = [lic EXCEPT ![op[w].id] = row]
  <2>1. [op[w].row EXCEPT !.status = "revoked"] \in Row
    BY <1>2 DEF Row
  <2>2. \A b \in BOOLEAN : [op[w].row EXCEPT !.pinned = b] \in Row
    BY <1>2 DEF Row
  <2>3. QED
    BY <2>1, <2>2, LifecycleAssumption DEF CommitRevoke, CommitSetDelivery
<1>4. lic' \in [LicenceIds -> Row]
  BY <1>2, <1>3 DEF TypeOK
<1>5. op' \in [Workers -> {Idle} \cup Held] /\ UNCHANGED <<now, pkg, nextLic, history>>
  BY FinishType DEF CommitRevoke, CommitSetDelivery
<1>6. QED
  BY <1>4, <1>5 DEF TypeOK, history

LEMMA ReissueType == ASSUME TypeOK, NEW w \in Workers, CommitReissue(w) PROVE TypeOK'
<1> DEFINE old == op[w].id
           row == op[w].row
           renewUntil == carriedRenewUntil(BoundaryOf(row, op[w].pkg))
           Exp(iat) == signedExpiry(iat, NoTtl, renewUntil, now)
<1>1. op[w] # Idle
  BY DEF CommitReissue, Reissues, Idle
<1>2. old \in LicenceIds /\ row \in Row /\ op[w].pkg \in Package
  BY <1>1, HeldType
<1>3. renewUntil \in Nat \cup {INFINITE_TERM} /\ renewUntil \in Int
  <2> DEFINE b == BoundaryOf(row, op[w].pkg)
  <2>1. b \in (Nat \ {0}) \cup {POSITIVE_INFINITY}
    BY <1>2, BoundaryType
  <2> HIDE DEF b
  <2>2. carriedRenewUntil(b) \in (Nat \ {0}) \cup {INFINITE_TERM}
    BY <2>1, CarriedRoundTrip
  <2>3. QED
    BY <2>2 DEF b, INFINITE_TERM
<1> HIDE DEF renewUntil
<1>4. \A iat \in SigningTimes : Exp(iat) \in Nat
  <2>1. NoTtl \in Nat /\ now \in Nat /\ \A iat \in SigningTimes : iat \in Nat
    BY LifecycleAssumption DEF SigningTimes, TypeOK, NoTtl
  <2>2. QED
    BY <1>3, <2>1, ExpiryType
<1> HIDE DEF Exp
<1>5. PICK i \in Unused, iat \in SigningTimes :
        /\ lic' = [lic EXCEPT
               ![old].status = IF row.status = "revoked" THEN @ ELSE "revoked",
               ![i] = [status |-> "active", licId |-> nextLic,
                       tokenLic |-> nextLic, expiresAt |-> Exp(iat),
                       renewUntil |-> renewUntil, createdAt |-> now,
                       reminded |-> FALSE, pinned |-> FALSE,
                       root |-> lic[old].root]]
        /\ Signed(old, Exp(iat))
  BY DEF CommitReissue, RevokedByReissue, Exp, renewUntil
<1>6. i \in LicenceIds /\ Exp(iat) \in Nat
  BY <1>4 DEF Unused
<1>7. lic' \in [LicenceIds -> Row]
  BY <1>2, <1>3, <1>5, <1>6 DEF TypeOK, Row
<1>8. lastExp' \in [LicenceIds -> Nat]
  BY <1>2, <1>5, <1>6, SignedType
<1>9. /\ op' \in [Workers -> {Idle} \cup Held] /\ UNCHANGED <<now, pkg, sold, reminders>>
      /\ nextLic' = nextLic + 1
  BY FinishType DEF CommitReissue
<1>10. QED
  BY <1>7, <1>8, <1>9 DEF TypeOK

LEMMA RefreshType == ASSUME TypeOK, NEW w \in Workers, CommitRefresh(w) PROVE TypeOK'
<1> DEFINE i == op[w].id
           row == op[w].row
           at == op[w].at
           boundary == BoundaryOf(row, op[w].pkg)
           exp == signedExpiry(at, packageTtl(op[w].pkg), boundary, at)
           remind == ReminderDue(row, boundary, at)
<1>1. op[w] # Idle
  BY DEF CommitRefresh, Idle
<1>2. i \in LicenceIds /\ row \in Row /\ op[w].pkg \in Package /\ at \in Nat
  BY <1>1, HeldType
<1>3. boundary \in Int
  BY <1>2, BoundaryType DEF POSITIVE_INFINITY
<1> HIDE DEF boundary
<1>4. exp \in Nat
  BY <1>2, <1>3, PackageTtlType, ExpiryType
<1> HIDE DEF exp
<1>5. remind \in BOOLEAN
  BY DEF ReminderDue
<1> HIDE DEF remind
<1>6. /\ lic' = [lic EXCEPT ![i] = RefreshSave(lic[i], row, exp, remind)]
      /\ Signed(i, exp)
      /\ reminders' = [reminders EXCEPT ![i] = IF remind THEN Min2(@ + 1, 2) ELSE @]
      /\ Finish(w)
      /\ UNCHANGED <<now, pkg, nextLic, sold>>
  BY DEF CommitRefresh, boundary, exp, remind
<1>7. lic[i] \in Row /\ lic' \in [LicenceIds -> Row]
  BY <1>2, <1>4, <1>5, <1>6 DEF RefreshSave, TypeOK, Row
<1>8. lastExp' \in [LicenceIds -> Nat]
  BY <1>2, <1>4, <1>6, SignedType
<1>9. reminders' \in [LicenceIds -> Nat]
  BY <1>2, <1>6 DEF TypeOK, Min2
<1>10. QED
  BY <1>6, <1>7, <1>8, <1>9, FinishType DEF TypeOK

LEMMA InitType == Init => TypeOK
<1> SUFFICES ASSUME Init PROVE TypeOK
  OBVIOUS
<1>1. Cardinality(LegacyIds) \in Nat
  BY FS_CardinalityType, LifecycleAssumption
<1>2. pkg \in Package
  BY LifecycleAssumption DEF Init
<1>3. lic \in [LicenceIds -> Row]
  <2>1. PICK claim \in [LicenceIds -> 0 .. Cardinality(LegacyIds)] :
          lic = [i \in LicenceIds |->
                   IF i \in LegacyIds
                   THEN [Blank(i) EXCEPT !.status = "active", !.licId = claim[i],
                                         !.tokenLic = claim[i]]
                   ELSE Blank(i)]
    BY DEF Init
  <2>2. \A i \in LicenceIds : Blank(i) \in Row
    BY DEF Blank, Row
  <2>3. \A i \in LicenceIds : claim[i] \in Nat
    BY <1>1
  <2>4. \A i \in LicenceIds :
           [Blank(i) EXCEPT !.status = "active", !.licId = claim[i],
                            !.tokenLic = claim[i]] \in Row
    BY <2>3 DEF Blank, Row
  <2>5. QED
    BY <2>1, <2>2, <2>4
<1>4. sold \in [LicenceIds -> Nat \cup {POSITIVE_INFINITY}]
  <2>1. effectiveRenewUntil(0, 0, pkg.interval) \in Nat \cup {POSITIVE_INFINITY}
    BY <1>2, EffectiveType DEF Package
  <2>2. QED
    BY <2>1 DEF Init
<1>5. /\ now = 0 /\ nextLic = 1 + Cardinality(LegacyIds)
      /\ op = [w \in Workers |-> Idle]
      /\ lastExp = [i \in LicenceIds |-> 0] /\ reminders = [i \in LicenceIds |-> 0]
  BY DEF Init
<1>6. QED
  BY <1>1, <1>2, <1>3, <1>4, <1>5 DEF TypeOK

LEMMA PackageType == ASSUME TypeOK, EditPackage \/ RemovePackage PROVE TypeOK'
<1>1. pkg' \in Package
  BY LifecycleAssumption DEF EditPackage, RemovePackage, TypeOK, Package
<1>2. PICK interval \in BILLING_INTERVALS :
        sold' = [r \in LicenceIds |->
                   IF r \in LegacyIds
                   THEN LaterOf(sold[r], effectiveRenewUntil(0, 0, interval))
                   ELSE sold[r]]
  BY <1>1 DEF EditPackage, RemovePackage, Package, BILLING_INTERVALS
<1>3. effectiveRenewUntil(0, 0, interval) \in Nat \cup {POSITIVE_INFINITY}
  BY EffectiveType
<1>4. \A r \in LicenceIds : sold'[r] \in Nat \cup {POSITIVE_INFINITY}
  BY <1>2, <1>3, LaterType DEF TypeOK
<1>5. QED
  BY <1>1, <1>2, <1>4 DEF EditPackage, RemovePackage, TypeOK

LEMMA BeginsType ==
    ASSUME TypeOK, NEW w \in Workers, NEW i \in LicenceIds,
           \/ BeginRenew(w, i) \/ BeginRevoke(w, i) \/ BeginSetDelivery(w, i)
           \/ \E kind \in Reissues : BeginReissue(w, kind, i)
    PROVE  TypeOK'
<1>1. PICK kind \in HeldOps : Begin(w, kind, i)
  BY DEF BeginRenew, BeginRevoke, BeginSetDelivery, BeginReissue, HeldOps, FullSaves
<1>2. QED
  BY <1>1, BeginType

LEMMA NextType == ASSUME TypeOK, [Next]_vars PROVE TypeOK'
<1>1. CASE UNCHANGED vars
  BY <1>1 DEF vars, history, TypeOK
<1>2. CASE Tick
  BY <1>2 DEF Tick, history, TypeOK
<1>3. CASE EditPackage \/ RemovePackage
  BY <1>3, PackageType
<1>4. CASE Issue
  BY <1>4, IssueType
<1>5. ASSUME NEW w \in Workers, NEW i \in LicenceIds,
             \/ BeginRenew(w, i) \/ BeginRevoke(w, i) \/ BeginSetDelivery(w, i)
             \/ \E kind \in Reissues : BeginReissue(w, kind, i)
      PROVE  TypeOK'
  BY <1>5, BeginsType
<1>6. ASSUME NEW w \in Workers, NEW claim, BeginRefresh(w, claim)
      PROVE  TypeOK'
  BY <1>6, BeginType DEF BeginRefresh, HeldOps
<1>7. ASSUME NEW w \in Workers, Commit(w) PROVE TypeOK'
  BY <1>7, RenewType, SaveType, ReissueType, RefreshType DEF Commit
<1>8. ASSUME NEW w \in Workers, Abandon(w) PROVE TypeOK'
  BY <1>8, FinishType DEF Abandon, history, TypeOK
<1>9. QED
  BY <1>1, <1>2, <1>3, <1>4, <1>5, <1>6, <1>7, <1>8 DEF Next

\* Every reachable state is well typed: no save, whatever it overtakes, leaves
\* a row with a term or an expiry the integer columns cannot hold.
THEOREM TypeCorrect == Spec => []TypeOK
<1>1. Init => TypeOK
  BY InitType
<1>2. TypeOK /\ [Next]_vars => TypeOK'
  BY NextType
<1>3. QED
  BY <1>1, <1>2, PTL DEF Spec

-----------------------------------------------------------------------------
(* The stored term.  StoredTermInv is not inductive: a worker may hold a    *)
(* copy and a package read long ago, and both come back at its commit.  The *)
(* strengthening says of a held copy what the invariant says of a row, and  *)
(* separates the rows that carry their term from the legacy ones, whose     *)
(* term is read off a package.                                              *)

LegacyTerm(p) == effectiveRenewUntil(0, 0, IntervalOf(p))
CarriedTerm(renewUntil) == effectiveRenewUntil(renewUntil, 0, "once")

\* A copy of a row whose term is within what s says was sold.
RowWithin(row, s) ==
    /\ row.renewUntil = 0 => row.root \in LegacyIds /\ row.createdAt = 0
    /\ row.renewUntil # 0 => NoLongerThan(CarriedTerm(row.renewUntil), s[row.root])

LegacyWithin(p, s) == \A r \in LegacyIds : NoLongerThan(LegacyTerm(p), s[r])

HeldWithin(w) ==
    /\ Issued(op[w].id)
    /\ op[w].row.status # "none"
    /\ op[w].row.root = lic[op[w].id].root
    /\ RowWithin(op[w].row, sold)
    /\ LegacyWithin(op[w].pkg, sold)

StoredTermIInv ==
    /\ TypeOK
    /\ \A i \in LicenceIds : Issued(i) => RowWithin(lic[i], sold) /\ Issued(lic[i].root)
    /\ \A r \in LegacyIds : Issued(r)
    /\ LegacyWithin(pkg, sold)
    /\ \A w \in Workers : op[w] # Idle => HeldWithin(w)

Terms == Nat \cup {POSITIVE_INFINITY}
SoldMaps == [LicenceIds -> Terms]

LEMMA LongerTrans ==
    ASSUME NEW a \in Terms, NEW b \in Terms, NEW c \in Terms,
           NoLongerThan(a, b), NoLongerThan(b, c)
    PROVE  NoLongerThan(a, c)
BY DEF NoLongerThan, Terms, POSITIVE_INFINITY

LEMMA LaterLonger ==
    ASSUME NEW a \in Terms, NEW b \in Terms
    PROVE  LaterOf(a, b) \in Terms
           /\ NoLongerThan(a, LaterOf(a, b)) /\ NoLongerThan(b, LaterOf(a, b))
BY DEF NoLongerThan, LaterOf, Terms, POSITIVE_INFINITY

LEMMA NoLongerRefl == ASSUME NEW a \in Terms PROVE NoLongerThan(a, a)
BY DEF NoLongerThan, Terms, POSITIVE_INFINITY

\* A row that carries its term is judged alike with any package; a legacy one
\* is judged by the package alone.
LEMMA BoundarySplit ==
    ASSUME NEW row \in Row, NEW p \in Package
    PROVE  /\ row.renewUntil # 0 => BoundaryOf(row, p) = CarriedTerm(row.renewUntil)
           /\ row.renewUntil = 0 /\ row.createdAt = 0 => BoundaryOf(row, p) = LegacyTerm(p)
<1>1. row.renewUntil \in Nat \cup {INFINITE_TERM}
  BY DEF Row
<1>2. QED
  BY <1>1 DEF BoundaryOf, CarriedTerm, LegacyTerm, effectiveRenewUntil, INFINITE_TERM

LEMMA BoundaryWithin ==
    ASSUME NEW row \in Row, NEW p \in Package, NEW s \in SoldMaps,
           RowWithin(row, s), LegacyWithin(p, s)
    PROVE  NoLongerThan(BoundaryOf(row, p), s[row.root])
<1>1. CASE row.renewUntil = 0
  BY <1>1, BoundarySplit DEF RowWithin, LegacyWithin
<1>2. CASE row.renewUntil # 0
  BY <1>2, BoundarySplit DEF RowWithin
<1>3. QED
  BY <1>1, <1>2

LEMMA TermTypes ==
    /\ \A row \in Row : CarriedTerm(row.renewUntil) \in Terms
    /\ \A p \in Package : LegacyTerm(p) \in Terms
<1>1. ASSUME NEW row \in Row PROVE CarriedTerm(row.renewUntil) \in Terms
  <2>1. row.renewUntil \in Nat \cup {INFINITE_TERM} /\ "once" \in BILLING_INTERVALS
    BY DEF Row, BILLING_INTERVALS
  <2>2. QED
    BY <2>1, EffectiveType DEF CarriedTerm, Terms
<1>2. ASSUME NEW p \in Package PROVE LegacyTerm(p) \in Terms
  BY IntervalType, EffectiveType DEF LegacyTerm, Terms
<1>3. QED
  BY <1>1, <1>2

\* What was within the terms sold stays within them when they grow.
LEMMA RowGrows ==
    ASSUME NEW row \in Row, NEW s \in SoldMaps, NEW t \in SoldMaps,
           RowWithin(row, s), NoLongerThan(s[row.root], t[row.root])
    PROVE  RowWithin(row, t)
<1>1. CarriedTerm(row.renewUntil) \in Terms /\ s[row.root] \in Terms /\ t[row.root] \in Terms
  BY TermTypes DEF SoldMaps, Row
<1>2. QED
  BY <1>1, LongerTrans DEF RowWithin

LEMMA LegacyGrows ==
    ASSUME NEW p \in Package, NEW s \in SoldMaps, NEW t \in SoldMaps,
           LegacyWithin(p, s), \A r \in LegacyIds : NoLongerThan(s[r], t[r])
    PROVE  LegacyWithin(p, t)
<1>1. ASSUME NEW r \in LegacyIds PROVE NoLongerThan(LegacyTerm(p), t[r])
  <2>1. s[r] \in Terms /\ t[r] \in Terms /\ LegacyTerm(p) \in Terms
    BY TermTypes, LifecycleAssumption DEF SoldMaps
  <2>2. QED
    BY <2>1, LongerTrans DEF LegacyWithin
<1>2. QED
  BY <1>1 DEF LegacyWithin

\* What a step owes the strengthened invariant: the terms sold do not shrink,
\* issued rows stay issued in their lineage, what it writes is within them.
LEMMA StepKeeps ==
    ASSUME StoredTermIInv, TypeOK',
           \A r \in LicenceIds : Issued(r) =>
               /\ NoLongerThan(sold[r], sold'[r])
               /\ lic'[r].status # "none" /\ lic'[r].root = lic[r].root,
           \A i \in LicenceIds : lic'[i].status # "none" =>
               /\ RowWithin(lic'[i], sold')
               /\ lic'[lic'[i].root].status # "none",
           LegacyWithin(pkg', sold'),
           \A w \in Workers : op'[w] = op[w] \/ op'[w] = Idle \/ HeldWithin(w)'
    PROVE  StoredTermIInv'
<1>1. sold \in SoldMaps /\ sold' \in SoldMaps
  BY DEF StoredTermIInv, TypeOK, SoldMaps, Terms
<1>2. \A r \in LegacyIds : r \in LicenceIds /\ Issued(r) /\ Issued(r)'
  BY LifecycleAssumption DEF StoredTermIInv, Issued
<1>3. ASSUME NEW w \in Workers, op'[w] = op[w], op[w] # Idle
      PROVE  HeldWithin(w)'
  <2> DEFINE i == op[w].id
             row == op[w].row
  <2>1. i \in LicenceIds /\ row \in Row /\ op[w].pkg \in Package
    BY <1>3, HeldType DEF StoredTermIInv
  <2>2. /\ Issued(i) /\ row.status # "none" /\ row.root = lic[i].root
        /\ RowWithin(row, sold) /\ LegacyWithin(op[w].pkg, sold)
    BY <1>3 DEF StoredTermIInv, HeldWithin
  <2>3. row.root \in LicenceIds /\ Issued(row.root)
    BY <2>1, <2>2 DEF StoredTermIInv, Row
  <2>4. RowWithin(row, sold')
    BY <1>1, <2>1, <2>2, <2>3, RowGrows
  <2>5. LegacyWithin(op[w].pkg, sold')
    BY <1>1, <1>2, <2>1, <2>2, LegacyGrows
  <2>6. lic'[i].status # "none" /\ row.root = lic'[i].root
    BY <2>1, <2>2 DEF Issued
  <2>7. QED
    BY <1>3, <2>2, <2>4, <2>5, <2>6 DEF HeldWithin, Issued
<1>4. QED
  BY <1>2, <1>3 DEF StoredTermIInv, Issued

LEMMA InitStored == Init => StoredTermIInv
<1> SUFFICES ASSUME Init PROVE StoredTermIInv
  OBVIOUS
<1>1. TypeOK
  BY InitType
<1>2. \A i \in LicenceIds :
        /\ lic[i].renewUntil = 0 /\ lic[i].createdAt = 0 /\ lic[i].root = i
        /\ Issued(i) <=> i \in LegacyIds
  <2>1. PICK claim :
          lic = [i \in LicenceIds |->
                   IF i \in LegacyIds
                   THEN [Blank(i) EXCEPT !.status = "active", !.licId = claim[i],
                                         !.tokenLic = claim[i]]
                   ELSE Blank(i)]
    BY DEF Init
  <2>2. ASSUME NEW i \in LicenceIds
        PROVE  /\ lic[i].renewUntil = 0 /\ lic[i].createdAt = 0 /\ lic[i].root = i
               /\ Issued(i) <=> i \in LegacyIds
    <3>1. CASE i \in LegacyIds
      BY <2>1, <3>1 DEF Blank, Issued
    <3>2. CASE i \notin LegacyIds
      <4>1. lic[i] = Blank(i)
        BY <2>1, <3>2
      <4>2. QED
        BY <4>1, <3>2 DEF Blank, Issued
    <3>3. QED
      BY <3>1, <3>2
  <2>3. QED
    BY <2>2
<1>3. LegacyTerm(pkg) \in Terms /\ pkg.exists
  BY <1>1, TermTypes, LifecycleAssumption DEF TypeOK, Init
<1>4. \A r \in LegacyIds : sold[r] = LegacyTerm(pkg)
  BY <1>3, LifecycleAssumption DEF Init, LegacyTerm, IntervalOf
<1>5. LegacyWithin(pkg, sold)
  BY <1>3, <1>4, NoLongerRefl DEF LegacyWithin
<1>6. \A i \in LicenceIds : Issued(i) => RowWithin(lic[i], sold) /\ Issued(lic[i].root)
  BY <1>2 DEF RowWithin
<1>7. \A w \in Workers : op[w] = Idle
  BY DEF Init
<1>8. QED
  BY <1>1, <1>2, <1>5, <1>6, <1>7, LifecycleAssumption DEF StoredTermIInv

LEMMA UnchangedKeeps ==
    ASSUME StoredTermIInv, TypeOK', UNCHANGED <<pkg, lic, sold>>,
           \A w \in Workers : op'[w] = op[w] \/ op'[w] = Idle \/ HeldWithin(w)'
    PROVE  StoredTermIInv'
<1>1. \A r \in LicenceIds : sold[r] \in Terms
  BY DEF StoredTermIInv, TypeOK, Terms
<1>2. \A r \in LicenceIds : Issued(r) => NoLongerThan(sold[r], sold'[r])
  BY <1>1, NoLongerRefl
<1>3. \A i \in LicenceIds : lic'[i].status # "none" =>
        RowWithin(lic'[i], sold') /\ lic'[lic'[i].root].status # "none"
  BY DEF StoredTermIInv, Issued
<1>4. QED
  BY <1>2, <1>3, StepKeeps DEF StoredTermIInv, Issued

LEMMA BeginStored ==
    ASSUME StoredTermIInv, NEW w \in Workers, NEW i \in LicenceIds,
           NEW kind \in HeldOps, Begin(w, kind, i), Issued(i)
    PROVE  StoredTermIInv'
<1>1. TypeOK'
  BY BeginType DEF StoredTermIInv
<1>2. op' = [op EXCEPT ![w] = [kind |-> kind, id |-> i, row |-> lic[i],
                               pkg |-> pkg, at |-> now]]
      /\ UNCHANGED <<now, pkg, lic, nextLic, sold, lastExp, reminders>>
  BY DEF Begin, history
<1>3. op'[w] = [kind |-> kind, id |-> i, row |-> lic[i], pkg |-> pkg, at |-> now]
      /\ \A v \in Workers \ {w} : op'[v] = op[v]
  BY <1>2 DEF StoredTermIInv, TypeOK
<1>4. HeldWithin(w)'
  BY <1>2, <1>3 DEF HeldWithin, StoredTermIInv, Issued
<1>5. QED
  BY <1>1, <1>2, <1>3, <1>4, UnchangedKeeps

LEMMA FinishFrees ==
    ASSUME TypeOK, NEW w \in Workers, Finish(w)
    PROVE  \A v \in Workers : op'[v] = op[v] \/ op'[v] = Idle
BY DEF Finish, TypeOK

LEMMA IssueStored == ASSUME StoredTermIInv, Issue PROVE StoredTermIInv'
<1> DEFINE renewUntil == stampedRenewUntil(pkg.interval, now)
<1>1. TypeOK /\ TypeOK'
  BY IssueType DEF StoredTermIInv
<1>2. /\ renewUntil \in (Nat \ {0}) \cup {INFINITE_TERM}
      /\ effectiveRenewUntil(renewUntil, now, pkg.interval) = CarriedTerm(renewUntil)
      /\ CarriedTerm(renewUntil) \in Terms
  <2>1. pkg.interval \in BILLING_INTERVALS /\ now \in Nat
    BY <1>1 DEF TypeOK, Package
  <2>2. renewUntil \in (Nat \ {0}) \cup {INFINITE_TERM}
    BY <2>1, StampedType
  <2> HIDE DEF renewUntil
  <2>3. QED
    BY <2>2 DEF CarriedTerm, effectiveRenewUntil, INFINITE_TERM, POSITIVE_INFINITY, Terms
<1> HIDE DEF renewUntil
<1>3. PICK i, row :
        /\ i \in Unused
        /\ row.status = "active" /\ row.renewUntil = renewUntil /\ row.root = i
        /\ lic' = [lic EXCEPT ![i] = row]
        /\ sold' = [sold EXCEPT ![i] = effectiveRenewUntil(renewUntil, now, pkg.interval)]
  <2>1. PICK i, exp :
        /\ i \in Unused
        /\ lic' = [lic EXCEPT ![i] =
               [status |-> "active", licId |-> nextLic, tokenLic |-> nextLic,
                expiresAt |-> exp, renewUntil |-> renewUntil,
                createdAt |-> now, reminded |-> FALSE, pinned |-> FALSE,
                root |-> i]]
        /\ sold' = [sold EXCEPT ![i] = effectiveRenewUntil(renewUntil, now, pkg.interval)]
    BY DEF Issue, renewUntil
  <2>2. QED
    BY <2>1
<1>4. i \in LicenceIds /\ ~Issued(i)
  BY <1>3 DEF Unused, Issued
<1>5. /\ lic'[i] = row /\ sold'[i] = CarriedTerm(renewUntil)
      /\ \A j \in LicenceIds \ {i} : lic'[j] = lic[j] /\ sold'[j] = sold[j]
  BY <1>1, <1>2, <1>3, <1>4 DEF TypeOK
<1>6. \A r \in LicenceIds : sold[r] \in Terms
  BY <1>1 DEF TypeOK, Terms
<1>7. \A r \in LicenceIds : Issued(r) =>
        /\ NoLongerThan(sold[r], sold'[r])
        /\ lic'[r].status # "none" /\ lic'[r].root = lic[r].root
  BY <1>4, <1>5, <1>6, NoLongerRefl DEF Issued
<1>8. RowWithin(lic'[i], sold')
  BY <1>2, <1>3, <1>5, NoLongerRefl DEF RowWithin, INFINITE_TERM
<1>9. ASSUME NEW j \in LicenceIds, j # i, Issued(j)
      PROVE  RowWithin(lic'[j], sold') /\ lic'[lic'[j].root].status # "none"
  <2>1. RowWithin(lic[j], sold) /\ Issued(lic[j].root) /\ lic[j].root \in LicenceIds
    BY <1>1, <1>9 DEF StoredTermIInv, TypeOK, Row
  <2>2. sold'[lic[j].root] = sold[lic[j].root] /\ lic'[lic[j].root] = lic[lic[j].root]
    BY <2>1, <1>4, <1>5
  <2>3. QED
    BY <2>1, <2>2, <1>5, <1>9 DEF RowWithin, Issued
<1>10. \A j \in LicenceIds : lic'[j].status # "none" =>
         RowWithin(lic'[j], sold') /\ lic'[lic'[j].root].status # "none"
  BY <1>3, <1>4, <1>5, <1>8, <1>9 DEF Issued
<1>11. LegacyWithin(pkg', sold') /\ op' = op
  BY <1>4, <1>5, LifecycleAssumption DEF Issue, StoredTermIInv, LegacyWithin
<1>12. QED
  BY <1>1, <1>7, <1>10, <1>11, StepKeeps

\* A step that writes one issued row, keeping its lineage, over its current
\* content, and lets the term of that lineage grow.
LEMMA WriteKeeps ==
    ASSUME StoredTermIInv, TypeOK', NEW w \in Workers, Finish(w), pkg' = pkg,
           NEW i \in LicenceIds, Issued(i), NEW row \in Row,
           lic' = [lic EXCEPT ![i] = row],
           row.status # "none", row.root = lic[i].root, RowWithin(row, sold'),
           \A r \in LicenceIds : NoLongerThan(sold[r], sold'[r])
    PROVE  StoredTermIInv'
<1>1. lic'[i] = row /\ \A j \in LicenceIds \ {i} : lic'[j] = lic[j]
  BY DEF StoredTermIInv, TypeOK
<1>2. sold \in SoldMaps /\ sold' \in SoldMaps
  BY DEF StoredTermIInv, TypeOK, SoldMaps, Terms
<1>3. \A j \in LicenceIds : Issued(j) => lic'[j].status # "none" /\ lic'[j].root = lic[j].root
  BY <1>1 DEF Issued
<1>4. ASSUME NEW j \in LicenceIds, lic'[j].status # "none"
      PROVE  RowWithin(lic'[j], sold') /\ lic'[lic'[j].root].status # "none"
  <2>1. Issued(j)
    BY <1>1, <1>4 DEF Issued
  <2>2. /\ lic[j] \in Row /\ lic[j].root \in LicenceIds /\ Issued(lic[j].root)
        /\ RowWithin(lic[j], sold)
    BY <2>1 DEF StoredTermIInv, TypeOK, Row
  <2>3. lic'[lic'[j].root].status # "none"
    BY <1>3, <2>1, <2>2
  <2>4. RowWithin(lic[j], sold')
    BY <1>2, <2>2, RowGrows
  <2>5. QED
    BY <1>1, <2>3, <2>4
<1>5. LegacyWithin(pkg', sold')
  <2>1. pkg \in Package /\ LegacyWithin(pkg, sold)
    BY DEF StoredTermIInv, TypeOK
  <2>2. QED
    BY <1>2, <2>1, LegacyGrows, LifecycleAssumption
<1>6. QED
  BY <1>3, <1>4, <1>5, FinishFrees, StepKeeps DEF StoredTermIInv

LEMMA RenewStored ==
    ASSUME StoredTermIInv, NEW w \in Workers, CommitRenew(w)
    PROVE  StoredTermIInv'
<1> DEFINE i == op[w].id
           p == op[w].pkg
           at == op[w].at
           Exp(r) == signedExpiry(at, TtlToSign(r, p), RenewBoundary(p, r, at), at)
           Until(r) == IF IntervalOf(p) = "lifetime" THEN INFINITE_TERM ELSE Exp(r)
           Sold(r) == effectiveRenewUntil(Until(r), 0, IntervalOf(p))
           New(r) == [op[w].row EXCEPT !.licId = nextLic, !.tokenLic = nextLic,
                                       !.expiresAt = Exp(r), !.renewUntil = Until(r),
                                       !.reminded = FALSE, !.status = "active"]
<1>1. op[w] # Idle /\ TypeOK /\ TypeOK'
  <2>1. op[w] # Idle
    BY DEF CommitRenew, Idle
  <2>2. TypeOK
    BY DEF StoredTermIInv
  <2>3. QED
    BY <2>1, <2>2, RenewType
<1>2. /\ i \in LicenceIds /\ op[w].row \in Row /\ p \in Package /\ at \in Nat
      /\ nextLic \in Nat
  BY <1>1, HeldType DEF TypeOK
<1>3. Issued(i) /\ op[w].row.root = lic[i].root /\ lic[i].root \in LicenceIds
  BY <1>1, <1>2 DEF StoredTermIInv, HeldWithin, Row
<1>4. \A r \in RequestedTtls \cup {NoTtl} : Exp(r) \in Nat \ {0}
  BY <1>2, TtlToSignType, RenewBoundaryType, ExpiryType
<1> HIDE DEF Exp
<1>5. ASSUME NEW r \in RequestedTtls \cup {NoTtl}
      PROVE  /\ Until(r) \in (Nat \ {0}) \cup {INFINITE_TERM}
             /\ Sold(r) = CarriedTerm(Until(r)) /\ Sold(r) \in Terms
  <2>1. Until(r) \in (Nat \ {0}) \cup {INFINITE_TERM}
    BY <1>4
  <2> HIDE DEF Until
  <2>2. QED
    BY <2>1 DEF CarriedTerm, effectiveRenewUntil, INFINITE_TERM, POSITIVE_INFINITY, Terms
<1> HIDE DEF Until
<1>6. PICK r \in RequestedTtls \cup {NoTtl} :
        lic' = [lic EXCEPT ![i] = New(r)] /\ sold' = [sold EXCEPT ![lic[i].root] = LaterOf(@, Sold(r))]
  BY DEF CommitRenew, Exp, Until
<1> HIDE DEF Sold
<1>7. /\ \A q \in LicenceIds : sold[q] \in Terms
      /\ \A q \in LicenceIds \ {lic[i].root} : sold'[q] = sold[q]
      /\ sold'[lic[i].root] = LaterOf(sold[lic[i].root], Sold(r))
  BY <1>1, <1>3, <1>6 DEF TypeOK, Terms
<1>8. /\ \A q \in LicenceIds : NoLongerThan(sold[q], sold'[q])
      /\ NoLongerThan(Sold(r), sold'[lic[i].root])
  BY <1>3, <1>5, <1>7, NoLongerRefl, LaterLonger
<1>9. /\ New(r) \in Row /\ New(r).status = "active" /\ New(r).root = lic[i].root
      /\ New(r).renewUntil = Until(r)
  BY <1>2, <1>3, <1>4, <1>5 DEF Row
<1> HIDE DEF New
<1>10. RowWithin(New(r), sold')
  BY <1>5, <1>8, <1>9 DEF RowWithin, INFINITE_TERM
<1>11. QED
  BY <1>1, <1>2, <1>3, <1>6, <1>8, <1>9, <1>10, WriteKeeps DEF CommitRenew

LEMMA SaveStored ==
    ASSUME StoredTermIInv, NEW w \in Workers, CommitRevoke(w) \/ CommitSetDelivery(w)
    PROVE  StoredTermIInv'
<1>1. op[w] # Idle /\ TypeOK /\ TypeOK'
  <2>1. TypeOK
    BY DEF StoredTermIInv
  <2>2. op[w] # Idle
    BY DEF CommitRevoke, CommitSetDelivery, Idle
  <2>3. QED
    BY <2>1, <2>2, SaveType
<1>2. op[w].id \in LicenceIds /\ op[w].row \in Row
  BY <1>1, HeldType
<1>3. /\ Issued(op[w].id) /\ op[w].row.root = lic[op[w].id].root
      /\ op[w].row.status # "none" /\ RowWithin(op[w].row, sold)
  BY <1>1 DEF StoredTermIInv, HeldWithin
<1>4. PICK row \in Row :
        /\ lic' = [lic EXCEPT ![op[w].id] = row] /\ row.status # "none"
        /\ row.root = op[w].row.root /\ row.renewUntil = op[w].row.renewUntil
        /\ row.createdAt = op[w].row.createdAt
  <2>1. CASE CommitRevoke(w)
    <3> DEFINE row == [op[w].row EXCEPT !.status = "revoked"]
    <3>1. row \in Row /\ lic' = [lic EXCEPT ![op[w].id] = row]
      BY <1>2, <2>1 DEF CommitRevoke, Row
    <3>2. /\ row.status # "none" /\ row.root = op[w].row.root
          /\ row.renewUntil = op[w].row.renewUntil
          /\ row.createdAt = op[w].row.createdAt
      BY <1>2 DEF Row
    <3> HIDE DEF row
    <3>3. QED
      BY <3>1, <3>2
  <2>2. CASE CommitSetDelivery(w)
    <3>1. PICK b \in BOOLEAN : lic' = [lic EXCEPT ![op[w].id] = [op[w].row EXCEPT !.pinned = b]]
      BY <2>2, LifecycleAssumption DEF CommitSetDelivery
    <3> DEFINE row == [op[w].row EXCEPT !.pinned = b]
    <3>2. row \in Row
      BY <1>2 DEF Row
    <3>3. /\ row.status = op[w].row.status /\ row.root = op[w].row.root
          /\ row.renewUntil = op[w].row.renewUntil
          /\ row.createdAt = op[w].row.createdAt
      BY <1>2 DEF Row
    <3> HIDE DEF row
    <3>4. QED
      BY <1>3, <3>1, <3>2, <3>3 DEF row
  <2>3. QED
    BY <2>1, <2>2
<1>5. Finish(w) /\ pkg' = pkg /\ sold' = sold
  BY DEF CommitRevoke, CommitSetDelivery, history
<1>6. \A q \in LicenceIds : NoLongerThan(sold[q], sold'[q])
  BY <1>1, <1>5, NoLongerRefl DEF TypeOK, Terms
<1>7. RowWithin(row, sold')
  BY <1>3, <1>4, <1>5 DEF RowWithin
<1>8. QED
  BY <1>1, <1>2, <1>3, <1>4, <1>5, <1>6, <1>7, WriteKeeps

LEMMA RefreshStored ==
    ASSUME StoredTermIInv, NEW w \in Workers, CommitRefresh(w)
    PROVE  StoredTermIInv'
<1>1. op[w] # Idle /\ TypeOK /\ TypeOK'
  <2>1. op[w] # Idle
    BY DEF CommitRefresh, Idle
  <2>2. TypeOK
    BY DEF StoredTermIInv
  <2>3. QED
    BY <2>1, <2>2, RefreshType
<1>2. op[w].id \in LicenceIds /\ Issued(op[w].id)
  BY <1>1, HeldType DEF StoredTermIInv, HeldWithin
<1> DEFINE i == op[w].id
<1>3. PICK t, e, m : lic' = [lic EXCEPT ![i] =
                               [lic[i] EXCEPT !.tokenLic = t, !.expiresAt = e, !.reminded = m]]
  BY DEF CommitRefresh, RefreshSave
<1> DEFINE new == [lic[i] EXCEPT !.tokenLic = t, !.expiresAt = e, !.reminded = m]
<1>4. lic[i] \in Row /\ lic' \in [LicenceIds -> Row] /\ lic'[i] = new
  BY <1>1, <1>2, <1>3 DEF TypeOK
<1>5. /\ new \in Row /\ new.status = lic[i].status /\ new.root = lic[i].root
      /\ new.renewUntil = lic[i].renewUntil /\ new.createdAt = lic[i].createdAt
  BY <1>2, <1>4 DEF Row
<1>6. Finish(w) /\ pkg' = pkg /\ sold' = sold /\ lic' = [lic EXCEPT ![i] = new]
  BY <1>3 DEF CommitRefresh
<1> HIDE DEF new
<1>7. \A q \in LicenceIds : NoLongerThan(sold[q], sold'[q])
  BY <1>1, <1>6, NoLongerRefl DEF TypeOK, Terms
<1>8. RowWithin(new, sold')
  BY <1>2, <1>5, <1>6 DEF RowWithin, StoredTermIInv
<1>9. new.status # "none"
  BY <1>2, <1>5 DEF Issued
<1>10. QED
  BY <1>1, <1>2, <1>5, <1>6, <1>7, <1>8, <1>9, WriteKeeps

LEMMA ReissueStored ==
    ASSUME StoredTermIInv, NEW w \in Workers, CommitReissue(w)
    PROVE  StoredTermIInv'
<1> DEFINE old == op[w].id
           row == op[w].row
           b == BoundaryOf(row, op[w].pkg)
           renewUntil == carriedRenewUntil(b)
<1>1. op[w] # Idle /\ TypeOK /\ TypeOK'
  <2>1. op[w] # Idle
    BY DEF CommitReissue, Reissues, Idle
  <2>2. TypeOK
    BY DEF StoredTermIInv
  <2>3. QED
    BY <2>1, <2>2, ReissueType
<1>2. old \in LicenceIds /\ row \in Row /\ op[w].pkg \in Package
  BY <1>1, HeldType
<1>3. /\ Issued(old) /\ row.root = lic[old].root /\ lic[old].root \in LicenceIds
      /\ RowWithin(row, sold) /\ LegacyWithin(op[w].pkg, sold) /\ Issued(row.root)
  BY <1>1, <1>2 DEF StoredTermIInv, HeldWithin, Row
<1>4. sold \in SoldMaps
  BY <1>1 DEF TypeOK, SoldMaps, Terms
<1>5. b \in (Nat \ {0}) \cup {POSITIVE_INFINITY} /\ NoLongerThan(b, sold[row.root])
  BY <1>2, <1>3, <1>4, BoundaryType, BoundaryWithin
<1> HIDE DEF b
<1>6. renewUntil \in (Nat \ {0}) \cup {INFINITE_TERM} /\ CarriedTerm(renewUntil) = b
  BY <1>5, CarriedRoundTrip DEF CarriedTerm
<1> HIDE DEF renewUntil
<1>7. PICK i, new, status :
        /\ i \in Unused
        /\ lic' = [lic EXCEPT ![old].status = status, ![i] = new]
        /\ status \in {lic[old].status, "revoked"}
        /\ new.status = "active" /\ new.renewUntil = renewUntil /\ new.root = lic[old].root
  <2>1. PICK i, exp :
        /\ i \in Unused
        /\ lic' = [lic EXCEPT
               ![old].status = IF row.status = "revoked" THEN @ ELSE "revoked",
               ![i] = [status |-> "active", licId |-> nextLic,
                       tokenLic |-> nextLic, expiresAt |-> exp,
                       renewUntil |-> renewUntil, createdAt |-> now,
                       reminded |-> FALSE, pinned |-> FALSE,
                       root |-> lic[old].root]]
    BY DEF CommitReissue, RevokedByReissue, renewUntil, b
  <2> DEFINE new == [status |-> "active", licId |-> nextLic,
                     tokenLic |-> nextLic, expiresAt |-> exp,
                     renewUntil |-> renewUntil, createdAt |-> now,
                     reminded |-> FALSE, pinned |-> FALSE,
                     root |-> lic[old].root]
             status == IF row.status = "revoked" THEN lic[old].status ELSE "revoked"
  <2>2. lic' = [lic EXCEPT ![old].status = status, ![i] = new]
    BY <2>1
  <2>3. /\ status \in {lic[old].status, "revoked"}
        /\ new.status = "active" /\ new.renewUntil = renewUntil /\ new.root = lic[old].root
    OBVIOUS
  <2>4. i \in Unused
    BY <2>1
  <2> HIDE DEF new, status
  <2>5. QED
    BY <2>2, <2>3, <2>4
<1>8. i \in LicenceIds /\ ~Issued(i) /\ i # old
  BY <1>3, <1>7 DEF Unused, Issued
<1>9. /\ lic'[i] = new
      /\ lic'[old] = [lic[old] EXCEPT !.status = status]
      /\ \A j \in LicenceIds \ {i, old} : lic'[j] = lic[j]
  BY <1>1, <1>2, <1>7, <1>8 DEF TypeOK
<1>10. /\ lic'[old].status # "none" /\ lic'[old].root = lic[old].root
       /\ lic'[old].renewUntil = lic[old].renewUntil
       /\ lic'[old].createdAt = lic[old].createdAt
  <2>1. lic[old] \in Row
    BY <1>1, <1>2 DEF TypeOK
  <2>2. QED
    BY <2>1, <1>3, <1>7, <1>9 DEF Row, Issued
<1>11. sold' = sold /\ pkg' = pkg /\ Finish(w)
  BY DEF CommitReissue
<1>12. \A r \in LicenceIds : Issued(r) =>
         /\ NoLongerThan(sold[r], sold'[r])
         /\ lic'[r].status # "none" /\ lic'[r].root = lic[r].root
  <2>1. \A r \in LicenceIds : NoLongerThan(sold[r], sold'[r])
    BY <1>4, <1>11, NoLongerRefl DEF SoldMaps
  <2>2. QED
    BY <2>1, <1>8, <1>9, <1>10 DEF Issued
<1>13. RowWithin(new, sold)
  BY <1>3, <1>5, <1>6, <1>7 DEF RowWithin, INFINITE_TERM
<1>14. ASSUME NEW j \in LicenceIds, Issued(j)
       PROVE  RowWithin(lic'[j], sold) /\ Issued(lic'[j].root) /\ lic'[j].root \in LicenceIds
  <2>1. RowWithin(lic[j], sold) /\ Issued(lic[j].root) /\ lic[j].root \in LicenceIds
    BY <1>1, <1>14 DEF StoredTermIInv, TypeOK, Row
  <2>2. /\ lic'[j].root = lic[j].root /\ lic'[j].renewUntil = lic[j].renewUntil
        /\ lic'[j].createdAt = lic[j].createdAt
    BY <1>8, <1>9, <1>10, <1>14
  <2>3. QED
    BY <2>1, <2>2 DEF RowWithin
<1>15. \A j \in LicenceIds : lic'[j].status # "none" =>
         RowWithin(lic'[j], sold') /\ lic'[lic'[j].root].status # "none"
  <2>1. RowWithin(lic'[i], sold) /\ Issued(lic'[i].root) /\ lic'[i].root \in LicenceIds
    BY <1>3, <1>7, <1>9, <1>13
  <2>2. \A j \in LicenceIds : lic'[j].status # "none" => Issued(j) \/ j = i
    BY <1>3, <1>9 DEF Issued
  <2>3. QED
    BY <2>1, <2>2, <1>11, <1>12, <1>14
<1>16. QED
  BY <1>1, <1>11, <1>12, <1>15, FinishFrees, StepKeeps DEF StoredTermIInv

\* A package edit moves the term of legacy rows only, and lets what their
\* lineages were granted grow with it.
LEMMA PackageGrows ==
    ASSUME StoredTermIInv, EditPackage \/ RemovePackage
    PROVE  /\ TypeOK /\ TypeOK' /\ sold \in SoldMaps /\ sold' \in SoldMaps
           /\ UNCHANGED <<lic, op, lastExp>>
           /\ \A r \in LicenceIds : NoLongerThan(sold[r], sold'[r])
           /\ LegacyWithin(pkg', sold')
<1>1. TypeOK /\ TypeOK' /\ pkg' \in Package
  <2>1. TypeOK
    BY DEF StoredTermIInv
  <2>2. QED
    BY <2>1, PackageType DEF TypeOK
<1>2. /\ UNCHANGED <<lic, op, lastExp>>
      /\ sold' = [r \in LicenceIds |->
                   IF r \in LegacyIds THEN LaterOf(sold[r], LegacyTerm(pkg')) ELSE sold[r]]
  <2>1. CASE EditPackage
    <3>1. pkg'.exists
      BY <2>1, LifecycleAssumption DEF EditPackage
    <3>2. LegacyTerm(pkg') = effectiveRenewUntil(0, 0, pkg'.interval)
      BY <3>1 DEF LegacyTerm, IntervalOf
    <3>3. QED
      BY <2>1, <3>2 DEF EditPackage
  <2>2. CASE RemovePackage
    <3>1. ~pkg'.exists
      BY <1>1, <2>2 DEF RemovePackage, TypeOK, Package
    <3>2. LegacyTerm(pkg') = effectiveRenewUntil(0, 0, "once")
      BY <3>1 DEF LegacyTerm, IntervalOf
    <3>3. QED
      BY <2>2, <3>2 DEF RemovePackage
  <2>3. QED
    BY <2>1, <2>2
<1>3. LegacyTerm(pkg') \in Terms /\ sold \in SoldMaps /\ sold' \in SoldMaps
  BY <1>1, TermTypes DEF TypeOK, SoldMaps, Terms
<1>4. \A r \in LicenceIds : NoLongerThan(sold[r], sold'[r])
  BY <1>2, <1>3, LaterLonger, NoLongerRefl DEF SoldMaps
<1>5. LegacyWithin(pkg', sold')
  BY <1>2, <1>3, LaterLonger, LifecycleAssumption DEF LegacyWithin, SoldMaps
<1>6. QED
  BY <1>1, <1>2, <1>3, <1>4, <1>5

LEMMA PackageStored ==
    ASSUME StoredTermIInv, EditPackage \/ RemovePackage
    PROVE  StoredTermIInv'
<1>1. ASSUME NEW j \in LicenceIds, Issued(j) PROVE RowWithin(lic[j], sold')
  <2>1. lic[j] \in Row /\ RowWithin(lic[j], sold) /\ lic[j].root \in LicenceIds
    BY <1>1 DEF StoredTermIInv, TypeOK, Row
  <2>2. QED
    BY <2>1, PackageGrows, RowGrows
<1>2. \A j \in LicenceIds : lic'[j].status # "none" =>
        RowWithin(lic'[j], sold') /\ lic'[lic'[j].root].status # "none"
  BY <1>1, PackageGrows DEF StoredTermIInv, Issued
<1>3. QED
  BY <1>2, PackageGrows, StepKeeps DEF Issued

LEMMA NextStored == ASSUME StoredTermIInv, [Next]_vars PROVE StoredTermIInv'
<1>1. TypeOK'
  BY NextType DEF StoredTermIInv
<1>2. CASE UNCHANGED vars \/ Tick
  BY <1>1, <1>2, UnchangedKeeps DEF vars, history, Tick
<1>3. CASE EditPackage \/ RemovePackage
  BY <1>3, PackageStored
<1>4. CASE Issue
  BY <1>4, IssueStored
<1>5. ASSUME NEW w \in Workers, NEW i \in LicenceIds,
             \/ BeginRenew(w, i) \/ BeginRevoke(w, i) \/ BeginSetDelivery(w, i)
             \/ \E kind \in Reissues : BeginReissue(w, kind, i)
      PROVE  StoredTermIInv'
  <2>1. (\E kind \in HeldOps : Begin(w, kind, i)) /\ Issued(i)
    BY <1>5 DEF BeginRenew, BeginRevoke, BeginSetDelivery, BeginReissue, RenewGate,
                HeldOps, FullSaves, Issued
  <2>2. QED
    BY <2>1, BeginStored
<1>6. ASSUME NEW w \in Workers, NEW claim, BeginRefresh(w, claim)
      PROVE  StoredTermIInv'
  BY <1>6, BeginStored DEF BeginRefresh, HeldOps, Issued
<1>7. ASSUME NEW w \in Workers, Commit(w) PROVE StoredTermIInv'
  BY <1>7, RenewStored, SaveStored, ReissueStored, RefreshStored DEF Commit
<1>8. ASSUME NEW w \in Workers, Abandon(w) PROVE StoredTermIInv'
  BY <1>1, <1>8, FinishFrees, UnchangedKeeps DEF Abandon, history, StoredTermIInv
<1>9. QED
  BY <1>2, <1>3, <1>4, <1>5, <1>6, <1>7, <1>8 DEF Next

\* The strengthening gives the invariant.
LEMMA StoredTermFollows == StoredTermIInv => StoredTermInv
<1> SUFFICES ASSUME StoredTermIInv, NEW i \in LicenceIds, Issued(i)
             PROVE  NoLongerThan(Term(i), sold[lic[i].root])
  BY DEF StoredTermInv
<1>1. /\ lic[i] \in Row /\ pkg \in Package /\ sold \in SoldMaps
      /\ RowWithin(lic[i], sold) /\ LegacyWithin(pkg, sold)
  BY DEF StoredTermIInv, TypeOK, SoldMaps, Terms
<1>2. QED
  BY <1>1, BoundaryWithin DEF Term

\* No row may refresh or be reissued beyond the longest term its lineage was
\* sold, however many requests, rows and administrators' edits interleave.
THEOREM StoredTerm == Spec => []StoredTermInv
<1>1. Init => StoredTermIInv
  BY InitStored
<1>2. StoredTermIInv /\ [Next]_vars => StoredTermIInv'
  BY NextStored
<1>3. StoredTermIInv => StoredTermInv
  BY StoredTermFollows
<1>4. QED
  BY <1>1, <1>2, <1>3, PTL DEF Spec

-----------------------------------------------------------------------------
(* The tokens.  A refresh holds a boundary and a clock read together, and   *)
(* the clamp trusts that the boundary lay ahead; a reissue reads the clock  *)
(* again after its gate, and that is the one way past the term.             *)

\* What its gate established stays true of a held copy.
HeldGated(w) ==
    op[w] # Idle =>
        /\ op[w].kind \in Ops
        /\ op[w].kind = "refresh" => ~Reached(op[w].at, BoundaryOf(op[w].row, op[w].pkg))
        /\ op[w].kind = "renew" => op[w].row.status = "active"
        /\ op[w].kind = "rebind" => op[w].row.status # "revoked"

GatedIInv ==
    /\ StoredTermIInv
    /\ \A w \in Workers : HeldGated(w)

\* TokenWithinTerm, with the signer's delay allowed for.
TokenWithinDelay == \A r \in LicenceIds : WithinDelay(lastExp[r], sold[r])

\* What a step owes the tokens: a lineage keeps its latest expiry and shrinks
\* no term, or its new expiry is inside what it was sold.
TokensKept ==
    \A r \in LicenceIds :
        \/ lastExp'[r] = lastExp[r] /\ NoLongerThan(sold[r], sold'[r])
        \/ WithinDelay(lastExp'[r], sold'[r])

LEMMA WithinLonger ==
    ASSUME NEW t \in Nat, NEW a \in Terms, NEW b \in Terms,
           WithinDelay(t, a), NoLongerThan(a, b)
    PROVE  WithinDelay(t, b)
BY LifecycleAssumption DEF WithinDelay, NoLongerThan, Terms, POSITIVE_INFINITY

LEMMA WithinIsDelayed ==
    ASSUME NEW t \in Nat, NEW b \in Terms, Within(t, b)
    PROVE  WithinDelay(t, b)
BY LifecycleAssumption DEF Within, WithinDelay, Terms, POSITIVE_INFINITY

\* Where the clock that clamps is the clock that signs there is no overhang.
LEMMA NoDelay ==
    ASSUME SigningDelay = 0, NEW t \in Nat, NEW b \in Terms
    PROVE  WithinDelay(t, b) <=> Within(t, b)
BY DEF Within, WithinDelay, Terms, POSITIVE_INFINITY

\* The clamp keeps every expiry inside the boundary it was given, and the
\* signer's later clock moves it by no more than the delay.
LEMMA ExpiryWithinTerm ==
    ASSUME NEW r \in Nat, NEW t \in Nat, NEW iat \in t .. (t + SigningDelay),
           NEW b \in Nat \cup {POSITIVE_INFINITY}, ~Reached(t, b)
    PROVE  WithinDelay(signedExpiry(iat, r, b, t), b)
<1> DEFINE ttl == clampTtlToTerm(r, b, t)
<1>1. ttl \in Nat \cup {POSITIVE_INFINITY}
  <2>1. b \in Int
    BY DEF POSITIVE_INFINITY
  <2>2. QED
    BY <2>1, ClampType
<1>2. Within(t + signedTtl(ttl), b)
  BY ClampWithinTerm
<1> HIDE DEF ttl
<1>3. signedTtl(ttl) \in Nat
  BY <1>1, SignedTtlPositive
<1>4. WithinDelay(iat + signedTtl(ttl), b)
  BY <1>2, <1>3, LifecycleAssumption DEF Within, WithinDelay, POSITIVE_INFINITY
<1>5. QED
  BY <1>4 DEF signedExpiry, ttl

LEMMA SignedNow ==
    ASSUME NEW t \in Nat
    PROVE  t \in t .. (t + SigningDelay)
BY LifecycleAssumption

\* A boundary that is behind leaves the default life, whole.
LEMMA LateExpiry ==
    ASSUME NEW t \in Nat, NEW iat \in t .. (t + SigningDelay), NEW b \in Nat, Reached(t, b)
    PROVE  signedExpiry(iat, NoTtl, b, t) <= t + SigningDelay + defaultTtlSeconds
<1>1. clampTtlToTerm(NoTtl, b, t) = NoTtl
  BY DEF clampTtlToTerm, Reached, POSITIVE_INFINITY
<1>2. signedTtl(NoTtl) \in Int /\ signedTtl(NoTtl) <= defaultTtlSeconds
  BY LengthsAssumption DEF signedTtl, NoTtl, POSITIVE_INFINITY, Min2
<1>3. signedExpiry(iat, NoTtl, b, t) = iat + signedTtl(NoTtl)
  BY <1>1 DEF signedExpiry
<1>4. QED
  BY <1>2, <1>3, LengthsAssumption, LifecycleAssumption

LEMMA TokenKeeps ==
    ASSUME TypeOK, TypeOK', TokenWithinDelay, TokensKept
    PROVE  TokenWithinDelay'
<1>1. \A r \in LicenceIds : lastExp[r] \in Nat /\ sold[r] \in Terms /\ sold'[r] \in Terms
  BY DEF TypeOK, Terms
<1>2. QED
  BY <1>1, WithinLonger DEF TokenWithinDelay, TokensKept

LEMMA IssueToken ==
    ASSUME StoredTermIInv, Issue
    PROVE  TokensKept
<1> DEFINE renewUntil == stampedRenewUntil(pkg.interval, now)
           Exp(r, iat) == signedExpiry(iat, TtlToSign(r, pkg), renewUntil, now)
           granted == effectiveRenewUntil(renewUntil, now, pkg.interval)
<1>1. TypeOK /\ TypeOK' /\ now \in Nat /\ pkg \in Package /\ pkg.interval \in BILLING_INTERVALS
  <2>1. TypeOK
    BY DEF StoredTermIInv
  <2>2. QED
    BY <2>1, IssueType DEF TypeOK, Package
<1>2. PICK i \in Unused, r \in RequestedTtls \cup {NoTtl}, iat \in SigningTimes :
        /\ sold' = [sold EXCEPT ![i] = granted]
        /\ lastExp' = [lastExp EXCEPT ![i] = Exp(r, iat)]
  BY DEF Issue
<1>3. i \in LicenceIds
  BY DEF Unused
<1>4. WithinDelay(Exp(r, iat), granted)
  <2>1. CASE pkg.interval = "lifetime"
    BY <2>1 DEF stampedRenewUntil, effectiveRenewUntil, WithinDelay
  <2>2. CASE pkg.interval # "lifetime"
    <3>1. renewUntil = now + termSeconds(pkg.interval) /\ termSeconds(pkg.interval) \in Nat \ {0}
      BY <1>1, <2>2, TermPositive DEF stampedRenewUntil
    <3>2. renewUntil \in Nat /\ ~Reached(now, renewUntil) /\ granted = renewUntil
      BY <1>1, <3>1 DEF Reached, effectiveRenewUntil, INFINITE_TERM
    <3> HIDE DEF renewUntil
    <3>3. WithinDelay(Exp(r, iat), renewUntil)
      BY <1>1, <3>2, TtlToSignType, ExpiryWithinTerm DEF SigningTimes
    <3>4. QED
      BY <3>2, <3>3
  <2>3. QED
    BY <2>1, <2>2
<1> HIDE DEF granted, Exp, renewUntil
<1>5. TokensKept
  <2>1. /\ lastExp'[i] = Exp(r, iat) /\ sold'[i] = granted
        /\ \A q \in LicenceIds \ {i} : lastExp'[q] = lastExp[q] /\ sold'[q] = sold[q]
    BY <1>1, <1>2, <1>3 DEF TypeOK
  <2>2. \A q \in LicenceIds : sold[q] \in Terms
    BY <1>1 DEF TypeOK, Terms
  <2>3. QED
    BY <2>1, <2>2, <1>4, NoLongerRefl DEF TokensKept
<1>6. QED
  BY <1>5

\* A renew stores the expiry it signed, or a perpetual term.
LEMMA RenewToken ==
    ASSUME StoredTermIInv, NEW w \in Workers, CommitRenew(w)
    PROVE  TokensKept
<1> DEFINE i == op[w].id
           p == op[w].pkg
           Exp(r) == signedExpiry(op[w].at, TtlToSign(r, p),
                                  RenewBoundary(p, r, op[w].at), op[w].at)
           Until(r) == IF IntervalOf(p) = "lifetime" THEN INFINITE_TERM ELSE Exp(r)
           Sold(r) == effectiveRenewUntil(Until(r), 0, IntervalOf(p))
<1>1. op[w] # Idle /\ TypeOK /\ TypeOK'
  <2>1. op[w] # Idle
    BY DEF CommitRenew, Idle
  <2>2. TypeOK
    BY DEF StoredTermIInv
  <2>3. QED
    BY <2>1, <2>2, RenewType
<1>2. i \in LicenceIds /\ p \in Package /\ op[w].at \in Nat
  BY <1>1, HeldType
<1>3. \A r \in RequestedTtls \cup {NoTtl} : Exp(r) \in Nat \ {0}
  BY <1>2, TtlToSignType, RenewBoundaryType, ExpiryType
<1> HIDE DEF Exp
<1>4. ASSUME NEW r \in RequestedTtls \cup {NoTtl}
      PROVE  Sold(r) \in Terms /\ WithinDelay(Exp(r), Sold(r))
  <2>1. Sold(r) \in Terms /\ Within(Exp(r), Sold(r))
    BY <1>3 DEF effectiveRenewUntil, Within, INFINITE_TERM, POSITIVE_INFINITY, Terms
  <2> HIDE DEF Sold
  <2>2. QED
    BY <1>3, <2>1, WithinIsDelayed
<1>5. PICK r \in RequestedTtls \cup {NoTtl} :
        /\ sold' = [sold EXCEPT ![lic[i].root] = LaterOf(@, Sold(r))]
        /\ Signed(i, Exp(r))
  BY DEF CommitRenew, Exp
<1> HIDE DEF Sold
<1>6. lic[i].root \in LicenceIds
  BY <1>1, <1>2 DEF TypeOK, Row
<1> DEFINE q == lic[i].root
<1>7. /\ sold'[q] = LaterOf(sold[q], Sold(r)) /\ lastExp'[q] \in {lastExp[q], Exp(r)}
      /\ \A s \in LicenceIds \ {q} : lastExp'[s] = lastExp[s] /\ sold'[s] = sold[s]
  BY <1>1, <1>5, <1>6 DEF TypeOK, Signed
<1>8. \A s \in LicenceIds : sold[s] \in Terms
  BY <1>1 DEF TypeOK, Terms
<1> HIDE DEF q
<1>9. NoLongerThan(sold[q], sold'[q]) /\ WithinDelay(Exp(r), sold'[q])
  <2>1. q \in LicenceIds /\ Exp(r) \in Nat /\ Sold(r) \in Terms
    BY <1>3, <1>4, <1>6 DEF q
  <2>2. LaterOf(sold[q], Sold(r)) \in Terms /\ NoLongerThan(sold[q], LaterOf(sold[q], Sold(r)))
        /\ NoLongerThan(Sold(r), LaterOf(sold[q], Sold(r)))
    BY <2>1, <1>8, LaterLonger
  <2>3. QED
    BY <2>1, <2>2, <1>4, <1>7, WithinLonger
<1>10. QED
  BY <1>6, <1>7, <1>8, <1>9, NoLongerRefl DEF q, TokensKept

\* A refresh is clamped by a boundary that lay ahead and that was sold.
LEMMA RefreshToken ==
    ASSUME StoredTermIInv, NEW w \in Workers, HeldGated(w), CommitRefresh(w)
    PROVE  TokensKept
<1> DEFINE i == op[w].id
           at == op[w].at
           b == BoundaryOf(op[w].row, op[w].pkg)
           exp == signedExpiry(at, packageTtl(op[w].pkg), b, at)
<1>1. op[w] # Idle /\ TypeOK /\ TypeOK'
  <2>1. op[w] # Idle
    BY DEF CommitRefresh, Idle
  <2>2. TypeOK
    BY DEF StoredTermIInv
  <2>3. QED
    BY <2>1, <2>2, RefreshType
<1>2. /\ i \in LicenceIds /\ op[w].row \in Row /\ op[w].pkg \in Package /\ at \in Nat
      /\ lic[i].root \in LicenceIds /\ sold \in SoldMaps
  BY <1>1, HeldType DEF TypeOK, Row, SoldMaps, Terms
<1>3. ~Reached(at, b)
  BY <1>1 DEF HeldGated, CommitRefresh
<1>4. b \in (Nat \ {0}) \cup {POSITIVE_INFINITY} /\ NoLongerThan(b, sold[lic[i].root])
  <2>1. /\ op[w].row.root = lic[i].root /\ RowWithin(op[w].row, sold)
        /\ LegacyWithin(op[w].pkg, sold)
    BY <1>1 DEF StoredTermIInv, HeldWithin
  <2>2. QED
    BY <1>2, <2>1, BoundaryType, BoundaryWithin
<1>5. Signed(i, exp) /\ sold' = sold
  BY DEF CommitRefresh
<1> HIDE DEF b
<1>6. b \in Int /\ b \in Nat \cup {POSITIVE_INFINITY}
  BY <1>4 DEF POSITIVE_INFINITY
<1>7. exp \in Nat /\ WithinDelay(exp, b)
  BY <1>2, <1>3, <1>6, PackageTtlType, ExpiryType, ExpiryWithinTerm, SignedNow
<1> HIDE DEF exp
<1> DEFINE q == lic[i].root
<1>8. /\ lastExp'[q] \in {lastExp[q], exp}
      /\ \A s \in LicenceIds \ {q} : lastExp'[s] = lastExp[s]
  BY <1>1, <1>2, <1>5 DEF TypeOK, Signed
<1>9. WithinDelay(exp, sold[q])
  BY <1>2, <1>4, <1>7, WithinLonger DEF SoldMaps, Terms
<1>10. \A s \in LicenceIds : NoLongerThan(sold[s], sold'[s])
  BY <1>2, <1>5, NoLongerRefl DEF SoldMaps
<1> HIDE DEF q
<1>11. QED
  BY <1>5, <1>8, <1>9, <1>10 DEF TokensKept

\* A reissue that commits before the boundary it carries keeps within it.
LEMMA ReissueToken ==
    ASSUME StoredTermIInv, NEW w \in Workers, CommitReissue(w), ~LateReissue(w)
    PROVE  TokensKept
<1> DEFINE old == op[w].id
           row == op[w].row
           b == BoundaryOf(row, op[w].pkg)
           renewUntil == carriedRenewUntil(b)
           Exp(iat) == signedExpiry(iat, NoTtl, renewUntil, now)
           q == lic[old].root
<1>1. op[w] # Idle /\ TypeOK /\ op[w].kind \in Reissues
  BY DEF CommitReissue, Reissues, Idle, StoredTermIInv
<1>2. /\ old \in LicenceIds /\ row \in Row /\ op[w].pkg \in Package
      /\ now \in Nat /\ q \in LicenceIds /\ sold \in SoldMaps
  BY <1>1, HeldType DEF TypeOK, Row, SoldMaps, Terms
<1>3. row.root = q /\ RowWithin(row, sold) /\ LegacyWithin(op[w].pkg, sold)
  BY <1>1 DEF StoredTermIInv, HeldWithin
<1>4. b \in (Nat \ {0}) \cup {POSITIVE_INFINITY} /\ NoLongerThan(b, sold[q])
  BY <1>2, <1>3, BoundaryType, BoundaryWithin
<1>5. ~Reached(now, b)
  BY <1>1 DEF LateReissue
<1>6. PICK iat \in SigningTimes : Signed(old, Exp(iat))
  BY DEF CommitReissue
<1> DEFINE exp == Exp(iat)
<1>7. Signed(old, exp) /\ sold' = sold /\ iat \in Nat /\ iat \in now .. (now + SigningDelay)
  BY <1>2, <1>6, LifecycleAssumption DEF CommitReissue, SigningTimes
<1> HIDE DEF b
<1>8. exp \in Nat /\ WithinDelay(exp, b)
  <2>1. CASE b = POSITIVE_INFINITY
    <3>1. renewUntil \in Int
      BY <2>1 DEF carriedRenewUntil, INFINITE_TERM
    <3> HIDE DEF renewUntil
    <3>2. exp \in Nat
      BY <1>2, <1>7, <3>1, ExpiryType DEF NoTtl
    <3>3. QED
      BY <2>1, <3>2 DEF WithinDelay
  <2>2. CASE b # POSITIVE_INFINITY
    <3>1. renewUntil = b /\ b \in Nat /\ NoTtl \in Nat
      BY <1>4, <2>2 DEF carriedRenewUntil, NoTtl
    <3>2. exp = signedExpiry(iat, NoTtl, b, now)
      BY <3>1
    <3> HIDE DEF renewUntil, exp
    <3>3. signedExpiry(iat, NoTtl, b, now) \in Nat
      <4>1. b \in Int /\ signedExpiry(iat, NoTtl, b, now) \in Nat \ {0}
        <5>1. b \in Int
          BY <3>1
        <5>2. QED
          BY <1>2, <1>7, <3>1, <5>1, ExpiryType
      <4>2. QED
        BY <4>1
    <3>4. WithinDelay(signedExpiry(iat, NoTtl, b, now), b)
      BY <1>2, <1>5, <1>7, <3>1, ExpiryWithinTerm
    <3>5. QED
      BY <3>2, <3>3, <3>4
  <2>3. QED
    BY <2>1, <2>2
<1> HIDE DEF exp
<1>9. /\ lastExp'[q] \in {lastExp[q], exp}
      /\ \A r \in LicenceIds \ {q} : lastExp'[r] = lastExp[r]
  BY <1>1, <1>2, <1>7 DEF TypeOK, Signed
<1>10. WithinDelay(exp, sold[q])
  BY <1>2, <1>4, <1>8, WithinLonger DEF SoldMaps, Terms
<1>11. \A r \in LicenceIds : NoLongerThan(sold[r], sold'[r])
  BY <1>2, <1>7, NoLongerRefl DEF SoldMaps
<1> HIDE DEF q
<1>12. QED
  BY <1>7, <1>9, <1>10, <1>11 DEF TokensKept

\* One that commits later signs the default life, counted from its commit.
LEMMA LateToken ==
    ASSUME StoredTermIInv, NEW w \in Workers, CommitReissue(w), LateReissue(w),
           NEW r \in LicenceIds, lastExp'[r] # lastExp[r]
    PROVE  /\ op'[w] = Idle /\ lic[op[w].id].root = r
           /\ lastExp'[r] <= now + SigningDelay + defaultTtlSeconds
<1> DEFINE row == op[w].row
           b == BoundaryOf(row, op[w].pkg)
<1>1. op[w] # Idle /\ TypeOK
  BY DEF CommitReissue, Reissues, Idle, StoredTermIInv
<1>2. op[w].id \in LicenceIds /\ row \in Row /\ op[w].pkg \in Package /\ now \in Nat
  BY <1>1, HeldType DEF TypeOK
<1>3. Reached(now, b)
  BY DEF LateReissue
<1>4. b \in Nat
  <2>1. b \in (Nat \ {0}) \cup {POSITIVE_INFINITY}
    BY <1>2, BoundaryType
  <2>2. QED
    BY <1>3, <2>1 DEF Reached
<1>5. PICK iat \in SigningTimes :
        Signed(op[w].id, signedExpiry(iat, NoTtl, carriedRenewUntil(b), now))
  BY DEF CommitReissue
<1>6. op'[w] = Idle
  BY <1>1 DEF CommitReissue, Finish, TypeOK
<1> HIDE DEF b
<1>7. carriedRenewUntil(b) = b
  BY <1>4 DEF carriedRenewUntil, POSITIVE_INFINITY
<1> DEFINE exp == signedExpiry(iat, NoTtl, b, now)
<1>8. exp <= now + SigningDelay + defaultTtlSeconds
  BY <1>2, <1>3, <1>4, <1>5, LateExpiry DEF SigningTimes
<1>9. Signed(op[w].id, exp)
  BY <1>5, <1>7
<1> HIDE DEF exp
<1>10. lic[op[w].id].root = r /\ lastExp'[r] = exp
  BY <1>1, <1>9 DEF Signed, TypeOK
<1>11. QED
  BY <1>6, <1>8, <1>10

LEMMA TokenSame ==
    ASSUME TypeOK, UNCHANGED <<sold, lastExp>>
    PROVE  TokensKept
<1>1. \A r \in LicenceIds : NoLongerThan(sold[r], sold'[r])
  BY NoLongerRefl DEF TypeOK, Terms
<1>2. QED
  BY <1>1 DEF TokensKept

\* Every step but a late reissue keeps the tokens within the terms.
LEMMA NextToken ==
    ASSUME GatedIInv, [Next]_vars
    PROVE  TokensKept \/ \E w \in Workers : CommitReissue(w) /\ LateReissue(w)
<1>1. TypeOK /\ StoredTermIInv
  BY DEF GatedIInv, StoredTermIInv
<1>2. CASE UNCHANGED vars \/ Tick
  BY <1>1, <1>2, TokenSame DEF vars, history, Tick
<1>3. CASE EditPackage \/ RemovePackage
  BY <1>1, <1>3, PackageGrows DEF TokensKept
<1>4. CASE Issue
  BY <1>1, <1>4, IssueToken
<1>5. ASSUME NEW w \in Workers, NEW i \in LicenceIds,
             \/ BeginRenew(w, i) \/ BeginRevoke(w, i) \/ BeginSetDelivery(w, i)
             \/ \E kind \in Reissues : BeginReissue(w, kind, i)
      PROVE  TokensKept
  BY <1>1, <1>5, TokenSame
     DEF BeginRenew, BeginRevoke, BeginSetDelivery, BeginReissue, Begin, history
<1>6. ASSUME NEW w \in Workers, NEW claim, BeginRefresh(w, claim)
      PROVE  TokensKept
  BY <1>1, <1>6, TokenSame DEF BeginRefresh, Begin, history
<1>7. ASSUME NEW w \in Workers, Commit(w), ~(CommitReissue(w) /\ LateReissue(w))
      PROVE  TokensKept
  <2>1. CASE CommitRevoke(w) \/ CommitSetDelivery(w)
    BY <1>1, <2>1, TokenSame DEF CommitRevoke, CommitSetDelivery, history
  <2>2. HeldGated(w)
    BY DEF GatedIInv
  <2>3. QED
    BY <1>1, <1>7, <2>1, <2>2, RenewToken, RefreshToken, ReissueToken DEF Commit
<1>8. ASSUME NEW w \in Workers, Abandon(w) PROVE TokensKept
  BY <1>1, <1>8, TokenSame DEF Abandon, history
<1>9. QED
  BY <1>2, <1>3, <1>4, <1>5, <1>6, <1>7, <1>8 DEF Next

LEMMA BeginGated ==
    ASSUME TypeOK, NEW w \in Workers, NEW kind, NEW i \in LicenceIds, Begin(w, kind, i),
           kind = "refresh" => ~Reached(now, BoundaryOf(lic[i], pkg)),
           kind = "renew" => lic[i].status = "active",
           kind = "rebind" => lic[i].status # "revoked",
           \A v \in Workers : HeldGated(v)
    PROVE  \A v \in Workers : HeldGated(v)'
<1>1. op' = [op EXCEPT ![w] = [kind |-> kind, id |-> i, row |-> lic[i],
                               pkg |-> pkg, at |-> now]] /\ kind \in Ops
  BY DEF Begin
<1>2. /\ op'[w] = [kind |-> kind, id |-> i, row |-> lic[i], pkg |-> pkg, at |-> now]
      /\ \A v \in Workers \ {w} : op'[v] = op[v]
  BY <1>1 DEF TypeOK
<1>3. HeldGated(w)'
  BY <1>1, <1>2 DEF HeldGated
<1>4. QED
  BY <1>2, <1>3 DEF HeldGated

LEMMA OthersGated ==
    ASSUME \A v \in Workers : HeldGated(v),
           \A v \in Workers : op'[v] = op[v] \/ op'[v] = Idle
    PROVE  \A v \in Workers : HeldGated(v)'
BY DEF HeldGated

LEMMA NextGated ==
    ASSUME TypeOK, \A v \in Workers : HeldGated(v), [Next]_vars
    PROVE  \A v \in Workers : HeldGated(v)'
<1>1. CASE op' = op
  BY <1>1, OthersGated
<1>2. ASSUME NEW w \in Workers, NEW i \in LicenceIds,
             \/ BeginRenew(w, i) \/ BeginRevoke(w, i) \/ BeginSetDelivery(w, i)
             \/ \E kind \in Reissues : BeginReissue(w, kind, i)
      PROVE  \A v \in Workers : HeldGated(v)'
  <2>1. PICK kind : /\ Begin(w, kind, i) /\ kind # "refresh"
                    /\ kind = "renew" => lic[i].status = "active"
                    /\ kind = "rebind" => lic[i].status # "revoked"
    BY <1>2 DEF BeginRenew, RenewGate, BeginRevoke, BeginSetDelivery, BeginReissue,
                ReissueGate, Reissues
  <2>2. QED
    BY <2>1, BeginGated
<1>3. ASSUME NEW w \in Workers, NEW claim, BeginRefresh(w, claim)
      PROVE  \A v \in Workers : HeldGated(v)'
  <2>1. PICK i \in LicenceIds : ~Reached(now, BoundaryOf(lic[i], pkg)) /\ Begin(w, "refresh", i)
    BY <1>3 DEF BeginRefresh
  <2>2. QED
    BY <2>1, BeginGated
<1>4. ASSUME NEW w \in Workers, Commit(w) \/ Abandon(w)
      PROVE  \A v \in Workers : HeldGated(v)'
  <2>1. Finish(w)
    BY <1>4 DEF Commit, Abandon, CommitRenew, CommitRevoke, CommitSetDelivery,
                CommitReissue, CommitRefresh
  <2>2. QED
    BY <2>1, FinishFrees, OthersGated
<1>5. CASE UNCHANGED vars \/ Tick \/ EditPackage \/ RemovePackage \/ Issue
  <2>1. op' = op
    BY <1>5 DEF vars, Tick, EditPackage, RemovePackage, Issue
  <2>2. QED
    BY <2>1, <1>1
<1>6. QED
  BY <1>2, <1>3, <1>4, <1>5 DEF Next

LEMMA GatedInductive == Spec => []GatedIInv
<1>1. Init => GatedIInv
  BY InitStored DEF GatedIInv, HeldGated, Init
<1>2. GatedIInv /\ [Next]_vars => GatedIInv'
  BY NextStored, NextGated DEF GatedIInv, StoredTermIInv
<1>3. QED
  BY <1>1, <1>2, PTL DEF Spec

\* An expiry set past what its lineage was sold, by more than the signer's
\* delay, is that of a reissue whose term ended between its gate and its
\* commit, and that reissue signs no more than a default life: no refresh that
\* raced a package edit oversteps, no renew of any requested life, no stale copy.
THEOREM TokensOutliveByReissue == Spec => OnlyLateReissueOutlives
<1>1. GatedIInv /\ [Next]_vars =>
        [\A r \in LicenceIds :
            lastExp'[r] # lastExp[r]
            => \/ WithinDelay(lastExp'[r], sold'[r])
               \/ \E w \in Workers :
                     /\ LateReissue(w) /\ op'[w] = Idle /\ lic[op[w].id].root = r
                     /\ lastExp'[r] <= now + SigningDelay + defaultTtlSeconds]_vars
  <2>1. SUFFICES ASSUME GatedIInv, [Next]_vars, NEW r \in LicenceIds,
                        lastExp'[r] # lastExp[r], ~WithinDelay(lastExp'[r], sold'[r])
                 PROVE  \E w \in Workers :
                          /\ LateReissue(w) /\ op'[w] = Idle /\ lic[op[w].id].root = r
                          /\ lastExp'[r] <= now + SigningDelay + defaultTtlSeconds
    OBVIOUS
  <2>2. PICK w \in Workers : CommitReissue(w) /\ LateReissue(w)
    BY <2>1, NextToken DEF TokensKept
  <2>3. QED
    BY <2>1, <2>2, LateToken DEF GatedIInv
<1>2. QED
  BY <1>1, GatedInductive, PTL DEF Spec, OnlyLateReissueOutlives

\* Where no key is reissued, no token ever signed outlives the longest term its
\* lineage was sold by more than the signer's delay.
THEOREM TokensWithinDelay ==
    ASSUME Ops \cap Reissues = {}
    PROVE  Spec => []TokenWithinDelay
<1>1. Init => TokenWithinDelay
  <2>1. SUFFICES ASSUME Init PROVE TokenWithinDelay
    OBVIOUS
  <2>2. \A r \in LicenceIds : lastExp[r] = 0 /\ sold[r] \in Terms
    BY <2>1, InitType DEF Init, TypeOK, Terms
  <2>3. QED
    BY <2>2, LifecycleAssumption DEF TokenWithinDelay, WithinDelay, Terms
<1>2. GatedIInv /\ GatedIInv' /\ TokenWithinDelay /\ [Next]_vars => TokenWithinDelay'
  <2>1. SUFFICES ASSUME GatedIInv, GatedIInv', TokenWithinDelay, [Next]_vars
                 PROVE  TokenWithinDelay'
    OBVIOUS
  <2>2. ASSUME NEW w \in Workers, CommitReissue(w) PROVE FALSE
    <3>1. op[w].kind \in Reissues /\ op[w] # Idle
      BY <2>2 DEF CommitReissue, Reissues, Idle
    <3>2. QED
      BY <2>1, <3>1 DEF GatedIInv, HeldGated
  <2>3. TypeOK /\ TypeOK'
    BY <2>1 DEF GatedIInv, StoredTermIInv
  <2>4. QED
    BY <2>1, <2>2, <2>3, NextToken, TokenKeeps
<1>3. QED
  BY <1>1, <1>2, GatedInductive, PTL DEF Spec

\* Where besides the two clocks are one, none outlives it at all.
THEOREM TokensWithinTerm ==
    ASSUME SigningDelay = 0, Ops \cap Reissues = {}
    PROVE  Spec => []TokenWithinTerm
<1>1. TypeOK /\ TokenWithinDelay => TokenWithinTerm
  BY NoDelay DEF TypeOK, TokenWithinDelay, TokenWithinTerm, Terms
<1>2. QED
  BY <1>1, TypeCorrect, TokensWithinDelay, PTL

-----------------------------------------------------------------------------
(* Revocation. *)

\* A revoked row comes back only in the stale copy of a renew or of a delivery
\* edit, for any number of rows and requests: refreshes and reissues, which save
\* inside a transaction, never revive it, nor does a renew that saw it revoked.
THEOREM RevivedByStaleSave == Spec => OnlyStaleSaveRevives
<1>1. GatedIInv /\ [Next]_vars =>
        [\A i \in LicenceIds :
            (lic[i].status = "revoked" /\ lic'[i].status # "revoked")
            => \E w \in Workers : /\ op[w].kind \in {"renew", "setDelivery"}
                                 /\ op[w].id = i /\ op'[w] = Idle
                                 /\ op[w].row.status # "revoked"]_vars
  <2>1. SUFFICES ASSUME GatedIInv, Next, NEW i \in LicenceIds,
                        lic[i].status = "revoked", lic'[i].status # "revoked"
                 PROVE  \E w \in Workers : /\ op[w].kind \in {"renew", "setDelivery"}
                                         /\ op[w].id = i /\ op'[w] = Idle
                                         /\ op[w].row.status # "revoked"
    OBVIOUS
  <2>2. TypeOK
    BY <2>1 DEF GatedIInv, StoredTermIInv
  <2>3. lic' # lic
    BY <2>1
  <2>4. ~Issue
    BY <2>1, <2>2 DEF Issue, Unused, TypeOK
  <2>5. PICK w \in Workers : Commit(w)
    <3>1. ASSUME NEW v \in Workers, NEW kind, NEW j, Begin(v, kind, j) PROVE FALSE
      BY <2>3, <3>1 DEF Begin
    <3>2. ASSUME NEW v \in Workers, NEW j \in LicenceIds,
                 \/ BeginRenew(v, j) \/ BeginRevoke(v, j) \/ BeginSetDelivery(v, j)
                 \/ \E kind \in Reissues : BeginReissue(v, kind, j)
          PROVE  FALSE
      BY <3>1, <3>2 DEF BeginRenew, BeginRevoke, BeginSetDelivery, BeginReissue
    <3>3. ASSUME NEW v \in Workers, NEW claim, BeginRefresh(v, claim) PROVE FALSE
      BY <3>1, <3>3 DEF BeginRefresh
    <3>4. ASSUME Tick \/ EditPackage \/ RemovePackage \/ \E v \in Workers : Abandon(v)
          PROVE  FALSE
      BY <2>3, <3>4 DEF Tick, EditPackage, RemovePackage, Abandon
    <3>5. Next => Issue \/ \E v \in Workers : Commit(v)
      <4>1. SUFFICES ASSUME Next, ~Issue, \A v \in Workers : ~Commit(v) PROVE FALSE
        OBVIOUS
      <4>2. PICK v \in Workers :
              \/ \E j \in LicenceIds :
                    \/ BeginRenew(v, j) \/ BeginRevoke(v, j) \/ BeginSetDelivery(v, j)
                    \/ \E kind \in Reissues : BeginReissue(v, kind, j)
              \/ \E claim \in 1 .. (nextLic - 1) : BeginRefresh(v, claim)
        BY <3>4, <4>1 DEF Next
      <4>3. QED
        BY <3>2, <3>3, <4>2
    <3>6. QED
      BY <2>1, <2>4, <3>5
  <2>6. op[w] # Idle /\ Finish(w)
    <3>1. op[w].kind # "idle"
      BY <2>5 DEF Commit, CommitRenew, CommitRevoke, CommitSetDelivery, CommitReissue,
                  CommitRefresh, Reissues
    <3>2. Finish(w)
      BY <2>5 DEF Commit, CommitRenew, CommitRevoke, CommitSetDelivery, CommitReissue,
                  CommitRefresh
    <3>3. QED
      BY <2>2, <3>1, <3>2, HeldNotIdle
  <2>7. op[w].row \in Row /\ op[w].id \in LicenceIds /\ op'[w] = Idle /\ HeldGated(w)
    BY <2>1, <2>2, <2>6, HeldType DEF GatedIInv, Finish, TypeOK
  <2>8. ~CommitRevoke(w)
    BY <2>1, <2>2, <2>7 DEF CommitRevoke, TypeOK, Row
  <2>9. ~CommitRefresh(w)
    <3>1. SUFFICES ASSUME CommitRefresh(w) PROVE FALSE
      OBVIOUS
    <3>2. PICK exp, remind :
            lic' = [lic EXCEPT ![op[w].id] =
                       RefreshSave(lic[op[w].id], op[w].row, exp, remind)]
      BY <3>1 DEF CommitRefresh
    <3> DEFINE k == op[w].id
               new == RefreshSave(lic[k], op[w].row, exp, remind)
    <3>3. k \in LicenceIds /\ lic[k] \in Row /\ lic \in [LicenceIds -> Row]
      BY <2>2, <2>7 DEF TypeOK
    <3>4. new.status = lic[k].status
      BY <3>3 DEF RefreshSave, Row
    <3> HIDE DEF new, k
    <3>5. lic' = [lic EXCEPT ![k] = new]
      BY <3>2 DEF new, k
    <3>6. lic'[i].status = lic[i].status
      BY <3>3, <3>4, <3>5
    <3>7. QED
      BY <2>1, <3>6
  <2>10. ~CommitReissue(w)
    <3>1. SUFFICES ASSUME CommitReissue(w) PROVE FALSE
      OBVIOUS
    <3>2. PICK j, new :
            /\ j \in Unused
            /\ lic' = [lic EXCEPT ![op[w].id].status = RevokedByReissue(@, op[w].row), ![j] = new]
      BY <3>1 DEF CommitReissue
    <3>3. i # j
      BY <2>1, <3>2 DEF Unused
    <3>4. lic'[i] = lic[i] \/ lic'[i] = [lic[i] EXCEPT !.status = RevokedByReissue(@, op[w].row)]
      BY <2>2, <2>7, <3>2, <3>3 DEF TypeOK, Unused
    <3>5. QED
      BY <2>1, <2>2, <3>4 DEF RevokedByReissue, TypeOK, Row
  <2>11. CASE CommitRenew(w)
    <3>1. op[w].id = i
      BY <2>1, <2>2, <2>11 DEF CommitRenew, TypeOK
    <3>2. QED
      BY <2>6, <2>7, <2>11, <3>1 DEF CommitRenew, HeldGated
  <2>12. CASE CommitSetDelivery(w)
    <3>1. op[w].id = i
      BY <2>1, <2>2, <2>12 DEF CommitSetDelivery, TypeOK
    <3>2. PICK b \in Pins : lic'[i] = [op[w].row EXCEPT !.pinned = b]
      BY <2>1, <2>2, <2>12, <3>1 DEF CommitSetDelivery, TypeOK
    <3>3. op[w].row.status # "revoked"
      BY <2>1, <2>7, <3>2 DEF Row
    <3>4. QED
      BY <2>7, <2>12, <3>1, <3>3 DEF CommitSetDelivery
  <2>13. QED
    BY <2>5, <2>8, <2>9, <2>10, <2>11, <2>12 DEF Commit
<1>2. QED
  BY <1>1, GatedInductive, PTL DEF Spec, OnlyStaleSaveRevives
-----------------------------------------------------------------------------
(* What each commit writes, column by column. *)

LEMMA CommitHolds ==
    ASSUME TypeOK, NEW w \in Workers, Commit(w)
    PROVE  /\ op[w] # Idle /\ op[w].id \in LicenceIds /\ op[w].row \in Row
           /\ op[w].pkg \in Package
           /\ op'[w] = Idle /\ \A v \in Workers \ {w} : op'[v] = op[v]
<1>1. op[w].kind # "idle" /\ Finish(w)
  BY DEF Commit, CommitRenew, CommitRevoke, CommitSetDelivery, CommitReissue,
         CommitRefresh, Reissues
<1>2. op[w] # Idle
  BY <1>1, HeldNotIdle
<1>3. QED
  BY <1>1, <1>2, HeldType DEF Finish, TypeOK

\* A renew writes its copy, under a new claim and active.
LEMMA RenewWrites ==
    ASSUME TypeOK, NEW w \in Workers, CommitRenew(w)
    PROVE  LET i == op[w].id IN
           /\ lic'[i].status = "active" /\ lic'[i].root = op[w].row.root
           /\ \A j \in LicenceIds \ {i} : lic'[j] = lic[j]
           /\ \A r \in LicenceIds \ {lic[i].root} : sold'[r] = sold[r]
<1>1. op[w].id \in LicenceIds /\ op[w].row \in Row
  BY CommitHolds DEF Commit
<1> DEFINE p == op[w].pkg
           at == op[w].at
           Exp(r) == signedExpiry(at, TtlToSign(r, p), RenewBoundary(p, r, at), at)
           Until(r) == IF IntervalOf(p) = "lifetime" THEN INFINITE_TERM ELSE Exp(r)
           Sold(r) == effectiveRenewUntil(Until(r), 0, IntervalOf(p))
<1>2. PICK r :
        /\ lic' = [lic EXCEPT ![op[w].id] =
               [op[w].row EXCEPT !.licId = nextLic, !.tokenLic = nextLic,
                                 !.expiresAt = Exp(r), !.renewUntil = Until(r),
                                 !.reminded = FALSE, !.status = "active"]]
        /\ sold' = [sold EXCEPT ![lic[op[w].id].root] = LaterOf(@, Sold(r))]
  BY DEF CommitRenew
<1> HIDE DEF p, at, Exp, Until, Sold
<1>3. lic'[op[w].id] = [op[w].row EXCEPT !.licId = nextLic, !.tokenLic = nextLic,
                                 !.expiresAt = Exp(r), !.renewUntil = Until(r),
                                 !.reminded = FALSE, !.status = "active"]
  BY <1>1, <1>2 DEF TypeOK
<1>4. lic'[op[w].id].status = "active" /\ lic'[op[w].id].root = op[w].row.root
  BY <1>1, <1>3 DEF Row
<1>5. QED
  BY <1>1, <1>2, <1>4 DEF TypeOK

\* A revocation and a delivery edit write their copy but for one column.
LEMMA SaveWrites ==
    ASSUME TypeOK, NEW w \in Workers, CommitRevoke(w) \/ CommitSetDelivery(w)
    PROVE  LET i == op[w].id
               row == op[w].row IN
           /\ lic'[i].licId = row.licId /\ lic'[i].tokenLic = row.tokenLic
           /\ lic'[i].renewUntil = row.renewUntil /\ lic'[i].root = row.root
           /\ CommitRevoke(w) => lic'[i].status = "revoked"
           /\ CommitSetDelivery(w) => lic'[i].status = row.status
           /\ \A j \in LicenceIds \ {i} : lic'[j] = lic[j]
           /\ sold' = sold
<1>1. op[w].id \in LicenceIds /\ op[w].row \in Row
  BY CommitHolds DEF Commit
<1>2. CASE CommitRevoke(w)
  <2>1. /\ lic'[op[w].id] = [op[w].row EXCEPT !.status = "revoked"]
        /\ \A j \in LicenceIds \ {op[w].id} : lic'[j] = lic[j]
        /\ sold' = sold /\ ~CommitSetDelivery(w)
    BY <1>1, <1>2 DEF TypeOK, CommitRevoke, CommitSetDelivery, history
  <2>2. QED
    BY <1>1, <2>1 DEF Row
<1>3. CASE CommitSetDelivery(w)
  <2>1. PICK b \in Pins : lic' = [lic EXCEPT ![op[w].id] = [op[w].row EXCEPT !.pinned = b]]
    BY <1>3 DEF CommitSetDelivery
  <2>2. /\ lic'[op[w].id] = [op[w].row EXCEPT !.pinned = b]
        /\ \A j \in LicenceIds \ {op[w].id} : lic'[j] = lic[j]
        /\ sold' = sold /\ ~CommitRevoke(w)
    BY <1>1, <1>3, <2>1 DEF TypeOK, CommitRevoke, CommitSetDelivery, history
  <2>3. QED
    BY <1>1, <2>2 DEF Row
<1>4. QED
  BY <1>2, <1>3

\* A refresh writes the current row, and the claim it read into the token.
LEMMA RefreshWrites ==
    ASSUME TypeOK, NEW w \in Workers, CommitRefresh(w)
    PROVE  LET i == op[w].id IN
           /\ lic'[i].tokenLic = op[w].row.licId /\ lic'[i].licId = lic[i].licId
           /\ lic'[i].renewUntil = lic[i].renewUntil /\ lic'[i].root = lic[i].root
           /\ lic'[i].status = lic[i].status
           /\ \A j \in LicenceIds \ {i} : lic'[j] = lic[j]
           /\ sold' = sold
<1>1. op[w].id \in LicenceIds
  BY CommitHolds DEF Commit
<1> DEFINE i == op[w].id
<1>2. PICK e, m : lic' = [lic EXCEPT ![i] =
                     [lic[i] EXCEPT !.tokenLic = op[w].row.licId, !.expiresAt = e,
                                    !.reminded = m]]
  BY DEF CommitRefresh, RefreshSave
<1>3. /\ lic[i] \in Row
      /\ lic'[i] = [lic[i] EXCEPT !.tokenLic = op[w].row.licId, !.expiresAt = e,
                                  !.reminded = m]
      /\ \A j \in LicenceIds \ {i} : lic'[j] = lic[j]
      /\ sold' = sold
  BY <1>1, <1>2 DEF TypeOK, CommitRefresh
<1>4. QED
  BY <1>3 DEF Row

\* A reissue revokes the old row, unless its copy says it is revoked already,
\* and fills an unused one of the same lineage.
LEMMA ReissueWrites ==
    ASSUME TypeOK, NEW w \in Workers, CommitReissue(w), Issued(op[w].id)
    PROVE  LET i == op[w].id
               row == op[w].row IN
           \E k \in LicenceIds :
             /\ ~Issued(k) /\ k # i
             /\ lic'[k].status = "active" /\ lic'[k].root = lic[i].root
             /\ lic'[k].licId = lic'[k].tokenLic
             /\ lic'[k].renewUntil = carriedRenewUntil(BoundaryOf(row, op[w].pkg))
             /\ lic'[i].status = RevokedByReissue(lic[i].status, row)
             /\ lic'[i].licId = lic[i].licId /\ lic'[i].tokenLic = lic[i].tokenLic
             /\ lic'[i].renewUntil = lic[i].renewUntil /\ lic'[i].root = lic[i].root
             /\ \A j \in LicenceIds \ {i, k} : lic'[j] = lic[j]
             /\ sold' = sold
<1>1. op[w].id \in LicenceIds /\ lic[op[w].id] \in Row
  BY CommitHolds DEF Commit, TypeOK
<1> DEFINE i == op[w].id
           New(exp) == [status |-> "active", licId |-> nextLic,
                        tokenLic |-> nextLic, expiresAt |-> exp,
                        renewUntil |-> carriedRenewUntil(BoundaryOf(op[w].row, op[w].pkg)),
                        createdAt |-> now, reminded |-> FALSE, pinned |-> FALSE,
                        root |-> lic[i].root]
<1>2. PICK k, exp :
        /\ k \in Unused
        /\ lic' = [lic EXCEPT ![i].status = RevokedByReissue(@, op[w].row), ![k] = New(exp)]
  BY DEF CommitReissue
<1>3. k \in LicenceIds /\ ~Issued(k) /\ k # i
  BY <1>2 DEF Unused, Issued
<1>4. /\ lic'[k] = New(exp)
      /\ lic'[i] = [lic[i] EXCEPT !.status = RevokedByReissue(@, op[w].row)]
      /\ \A j \in LicenceIds \ {i, k} : lic'[j] = lic[j]
      /\ sold' = sold
  BY <1>1, <1>2, <1>3 DEF TypeOK, CommitReissue
<1>5. /\ lic'[i].status = RevokedByReissue(lic[i].status, op[w].row)
      /\ lic'[i].licId = lic[i].licId /\ lic'[i].tokenLic = lic[i].tokenLic
      /\ lic'[i].renewUntil = lic[i].renewUntil /\ lic'[i].root = lic[i].root
  BY <1>1, <1>4 DEF Row
<1>6. QED
  BY <1>3, <1>4, <1>5

\* Only an issue and the commits write the table.
LEMMA TableWriters ==
    ASSUME Next, ~Issue, \A w \in Workers : ~Commit(w)
    PROVE  lic' = lic
<1>1. CASE Tick \/ EditPackage \/ RemovePackage \/ \E w \in Workers : Abandon(w)
  BY <1>1 DEF Tick, EditPackage, RemovePackage, Abandon
<1>2. ASSUME NEW w \in Workers, NEW kind, NEW i, Begin(w, kind, i) PROVE lic' = lic
  BY <1>2 DEF Begin
<1>3. ASSUME NEW w \in Workers, NEW i \in LicenceIds,
             \/ BeginRenew(w, i) \/ BeginRevoke(w, i) \/ BeginSetDelivery(w, i)
             \/ \E kind \in Reissues : BeginReissue(w, kind, i)
      PROVE  lic' = lic
  BY <1>2, <1>3 DEF BeginRenew, BeginRevoke, BeginSetDelivery, BeginReissue
<1>4. ASSUME NEW w \in Workers, NEW claim, BeginRefresh(w, claim) PROVE lic' = lic
  BY <1>2, <1>4 DEF BeginRefresh
<1>5. QED
  BY <1>1, <1>3, <1>4 DEF Next
-----------------------------------------------------------------------------
(* The exact term.  A lineage that no administrator renews keeps the term   *)
(* and the claims it was sold with, beside any number of renewed lineages.  *)
(* The invariant must speak of the copies in flight too: a revocation and a *)
(* delivery edit write theirs back whole.                                   *)

Renewal(r) == \E w \in Workers : CommitRenew(w) /\ lic[op[w].id].root = r

ExactRow(row, s) ==
    /\ row.tokenLic = row.licId
    /\ row.root \notin LegacyIds =>
          row.renewUntil # 0 /\ CarriedTerm(row.renewUntil) = s[row.root]

HeldExact(w, r) ==
    op[w].row.root = r =>
        ExactRow(op[w].row, sold) /\ op[w].row.licId = lic[op[w].id].licId

ExactIInv(r) ==
    /\ StoredTermIInv
    /\ \A i \in LicenceIds : (Issued(i) /\ lic[i].root = r) => ExactRow(lic[i], sold)
    /\ \A w \in Workers : op[w] # Idle => HeldExact(w, r)

\* What a step owes the invariant.
LEMMA ExactKeeps ==
    ASSUME NEW r \in LicenceIds, ExactIInv(r), StoredTermIInv',
           Issued(r) /\ r \notin LegacyIds => sold'[r] = sold[r],
           \A i \in LicenceIds : (lic'[i].status # "none" /\ lic'[i].root = r) =>
               ExactRow(lic'[i], sold'),
           \A i \in LicenceIds : (Issued(i) /\ lic[i].root = r) =>
               lic'[i].licId = lic[i].licId,
           \A w \in Workers : op'[w] = op[w] \/ op'[w] = Idle \/ HeldExact(w, r)'
    PROVE  ExactIInv(r)'
<1>1. ASSUME NEW w \in Workers, op'[w] = op[w], op[w] # Idle PROVE HeldExact(w, r)'
  <2>1. SUFFICES ASSUME op[w].row.root = r
                 PROVE  /\ ExactRow(op[w].row, sold')
                        /\ op[w].row.licId = lic'[op[w].id].licId
    BY <1>1 DEF HeldExact
  <2>2. op[w].id \in LicenceIds /\ HeldWithin(w)
    BY <1>1, HeldType DEF ExactIInv, StoredTermIInv
  <2>3. Issued(op[w].id) /\ lic[op[w].id].root = r /\ Issued(r)
    BY <2>1, <2>2 DEF HeldWithin, ExactIInv, StoredTermIInv
  <2>4. ExactRow(op[w].row, sold) /\ op[w].row.licId = lic[op[w].id].licId
    BY <1>1, <2>1 DEF ExactIInv, HeldExact
  <2>5. QED
    BY <2>1, <2>2, <2>3, <2>4 DEF ExactRow
<1>2. QED
  BY <1>1 DEF ExactIInv, Issued

LEMMA InitExact == ASSUME NEW r \in LicenceIds, Init PROVE ExactIInv(r)
<1>1. PICK claim :
        lic = [i \in LicenceIds |->
                 IF i \in LegacyIds
                 THEN [Blank(i) EXCEPT !.status = "active", !.licId = claim[i],
                                       !.tokenLic = claim[i]]
                 ELSE Blank(i)]
  BY DEF Init
<1>2. ASSUME NEW i \in LicenceIds, Issued(i) PROVE ExactRow(lic[i], sold)
  <2>1. i \in LegacyIds
    <3>1. i \notin LegacyIds => lic[i] = Blank(i)
      BY <1>1
    <3>2. QED
      BY <1>2, <3>1 DEF Issued, Blank
  <2>2. lic[i].root = i /\ lic[i].tokenLic = lic[i].licId
    BY <1>1, <2>1 DEF Blank
  <2>3. QED
    BY <2>1, <2>2 DEF ExactRow
<1>3. QED
  BY <1>2, InitStored DEF ExactIInv, Init

LEMMA IssueExact ==
    ASSUME NEW r \in LicenceIds, ExactIInv(r), Issue
    PROVE  ExactIInv(r)'
<1> DEFINE renewUntil == stampedRenewUntil(pkg.interval, now)
<1>1. StoredTermIInv /\ StoredTermIInv' /\ TypeOK
  BY IssueStored DEF ExactIInv, StoredTermIInv
<1>2. /\ renewUntil \in (Nat \ {0}) \cup {INFINITE_TERM}
      /\ effectiveRenewUntil(renewUntil, now, pkg.interval) = CarriedTerm(renewUntil)
  <2>1. pkg.interval \in BILLING_INTERVALS /\ now \in Nat
    BY <1>1 DEF TypeOK, Package
  <2>2. renewUntil \in (Nat \ {0}) \cup {INFINITE_TERM}
    BY <2>1, StampedType
  <2> HIDE DEF renewUntil
  <2>3. QED
    BY <2>2 DEF CarriedTerm, effectiveRenewUntil, INFINITE_TERM
<1>3. PICK i, exp :
        /\ i \in Unused
        /\ lic' = [lic EXCEPT ![i] =
               [status |-> "active", licId |-> nextLic, tokenLic |-> nextLic,
                expiresAt |-> exp, renewUntil |-> renewUntil,
                createdAt |-> now, reminded |-> FALSE, pinned |-> FALSE,
                root |-> i]]
        /\ sold' = [sold EXCEPT ![i] = effectiveRenewUntil(renewUntil, now, pkg.interval)]
  BY DEF Issue
<1> HIDE DEF renewUntil
<1>4. i \in LicenceIds /\ ~Issued(i)
  BY <1>3 DEF Unused, Issued
<1>5. /\ lic'[i].root = i /\ lic'[i].renewUntil = renewUntil
      /\ lic'[i].tokenLic = lic'[i].licId
      /\ sold'[i] = CarriedTerm(renewUntil)
      /\ \A j \in LicenceIds \ {i} : lic'[j] = lic[j] /\ sold'[j] = sold[j]
  BY <1>1, <1>2, <1>3, <1>4 DEF TypeOK
<1>6. ExactRow(lic'[i], sold')
  BY <1>2, <1>5 DEF ExactRow, INFINITE_TERM
<1>7. ASSUME NEW j \in LicenceIds, j # i, Issued(j), lic[j].root = r
      PROVE  ExactRow(lic'[j], sold')
  <2>1. ExactRow(lic[j], sold) /\ Issued(r)
    BY <1>1, <1>7 DEF ExactIInv, StoredTermIInv
  <2>2. sold'[r] = sold[r] /\ lic'[j] = lic[j]
    BY <1>4, <1>5, <1>7, <2>1
  <2>3. QED
    BY <1>7, <2>1, <2>2 DEF ExactRow
<1>8. \A j \in LicenceIds : (lic'[j].status # "none" /\ lic'[j].root = r) =>
         ExactRow(lic'[j], sold')
  BY <1>5, <1>6, <1>7 DEF Issued
<1>9. op' = op
  BY DEF Issue
<1>10. Issued(r) => sold'[r] = sold[r]
  BY <1>4, <1>5
<1>11. \A j \in LicenceIds : Issued(j) => lic'[j].licId = lic[j].licId
  BY <1>4, <1>5
<1>12. QED
  BY <1>1, <1>8, <1>9, <1>10, <1>11, ExactKeeps

\* A commit's copy, when it is one of the lineage.
LEMMA CommitExact ==
    ASSUME NEW r \in LicenceIds, ExactIInv(r), NEW w \in Workers, Commit(w)
    PROVE  /\ TypeOK /\ StoredTermIInv /\ StoredTermIInv'
           /\ op[w].id \in LicenceIds /\ Issued(op[w].id) /\ op[w].row \in Row
           /\ op[w].row.root = lic[op[w].id].root
           /\ op[w].pkg \in Package
           /\ HeldExact(w, r)
           /\ \A v \in Workers : op'[v] = op[v] \/ op'[v] = Idle
<1>1. StoredTermIInv /\ TypeOK /\ op[w] # Idle
  BY CommitHolds DEF ExactIInv, StoredTermIInv
<1>2. StoredTermIInv'
  BY <1>1, RenewStored, SaveStored, ReissueStored, RefreshStored DEF Commit
<1>3. HeldWithin(w) /\ HeldExact(w, r)
  BY <1>1 DEF ExactIInv, StoredTermIInv
<1>4. QED
  BY <1>1, <1>2, <1>3, CommitHolds DEF HeldWithin

LEMMA RenewExact ==
    ASSUME NEW r \in LicenceIds, ExactIInv(r), NEW w \in Workers, CommitRenew(w),
           lic[op[w].id].root # r
    PROVE  ExactIInv(r)'
<1> DEFINE i == op[w].id
<1>1. /\ lic'[i].root # r
      /\ \A j \in LicenceIds \ {i} : lic'[j] = lic[j]
      /\ sold'[r] = sold[r]
  BY CommitExact, RenewWrites DEF Commit
<1>2. \A j \in LicenceIds : (lic'[j].status # "none" /\ lic'[j].root = r) =>
         ExactRow(lic'[j], sold')
  BY <1>1 DEF ExactIInv, ExactRow, Issued
<1>3. \A j \in LicenceIds : (Issued(j) /\ lic[j].root = r) => lic'[j].licId = lic[j].licId
  BY <1>1
<1>4. QED
  BY <1>1, <1>2, <1>3, CommitExact, ExactKeeps DEF Commit

LEMMA SaveExact ==
    ASSUME NEW r \in LicenceIds, ExactIInv(r), NEW w \in Workers,
           CommitRevoke(w) \/ CommitSetDelivery(w)
    PROVE  ExactIInv(r)'
<1> DEFINE i == op[w].id
           row == op[w].row
<1>1. /\ lic'[i].licId = row.licId /\ lic'[i].tokenLic = row.tokenLic
      /\ lic'[i].renewUntil = row.renewUntil /\ lic'[i].root = row.root
      /\ \A j \in LicenceIds \ {i} : lic'[j] = lic[j]
      /\ sold' = sold
  BY CommitExact, SaveWrites DEF Commit
<1>2. i \in LicenceIds /\ row.root = lic[i].root /\ HeldExact(w, r)
  BY CommitExact DEF Commit
<1>3. lic[i].root = r => ExactRow(lic'[i], sold') /\ lic'[i].licId = lic[i].licId
  BY <1>1, <1>2 DEF HeldExact, ExactRow
<1>4. \A j \in LicenceIds : (lic'[j].status # "none" /\ lic'[j].root = r) =>
         ExactRow(lic'[j], sold')
  BY <1>1, <1>2, <1>3 DEF ExactIInv, Issued
<1>5. \A j \in LicenceIds : (Issued(j) /\ lic[j].root = r) => lic'[j].licId = lic[j].licId
  BY <1>1, <1>3
<1>6. QED
  BY <1>1, <1>4, <1>5, CommitExact, ExactKeeps DEF Commit

LEMMA RefreshExact ==
    ASSUME NEW r \in LicenceIds, ExactIInv(r), NEW w \in Workers, CommitRefresh(w)
    PROVE  ExactIInv(r)'
<1> DEFINE i == op[w].id
<1>1. /\ lic'[i].tokenLic = op[w].row.licId /\ lic'[i].licId = lic[i].licId
      /\ lic'[i].renewUntil = lic[i].renewUntil /\ lic'[i].root = lic[i].root
      /\ \A j \in LicenceIds \ {i} : lic'[j] = lic[j]
      /\ sold' = sold
  BY CommitExact, RefreshWrites DEF Commit
<1>2. /\ i \in LicenceIds /\ Issued(i) /\ op[w].row.root = lic[i].root
      /\ HeldExact(w, r)
  BY CommitExact DEF Commit
<1>3. lic[i].root = r => ExactRow(lic'[i], sold')
  BY <1>1, <1>2 DEF HeldExact, ExactRow, ExactIInv
<1>4. \A j \in LicenceIds : (lic'[j].status # "none" /\ lic'[j].root = r) =>
         ExactRow(lic'[j], sold')
  BY <1>1, <1>2, <1>3 DEF ExactIInv, Issued
<1>5. \A j \in LicenceIds : lic'[j].licId = lic[j].licId
  BY <1>1, <1>2
<1>6. QED
  BY <1>1, <1>4, <1>5, CommitExact, ExactKeeps DEF Commit

\* A reissue carries the boundary of its copy, which the lineage was sold.
LEMMA ReissueExact ==
    ASSUME NEW r \in LicenceIds, ExactIInv(r), NEW w \in Workers, CommitReissue(w)
    PROVE  ExactIInv(r)'
<1> DEFINE i == op[w].id
           row == op[w].row
           carried == carriedRenewUntil(BoundaryOf(row, op[w].pkg))
<1>1. /\ i \in LicenceIds /\ Issued(i) /\ row.root = lic[i].root /\ row \in Row
      /\ op[w].pkg \in Package /\ HeldExact(w, r)
  BY CommitExact DEF Commit
<1>2. PICK k \in LicenceIds :
        /\ ~Issued(k) /\ k # i
        /\ lic'[k].root = lic[i].root /\ lic'[k].licId = lic'[k].tokenLic
        /\ lic'[k].renewUntil = carried
        /\ lic'[i].licId = lic[i].licId /\ lic'[i].tokenLic = lic[i].tokenLic
        /\ lic'[i].renewUntil = lic[i].renewUntil /\ lic'[i].root = lic[i].root
        /\ \A j \in LicenceIds \ {i, k} : lic'[j] = lic[j]
        /\ sold' = sold
  <2>1. TypeOK /\ Issued(i)
    BY CommitExact DEF Commit
  <2>2. QED
    BY <2>1, ReissueWrites
<1>3. carried # 0 /\ CarriedTerm(carried) = BoundaryOf(row, op[w].pkg)
  <2> DEFINE b == BoundaryOf(row, op[w].pkg)
  <2>1. b \in (Nat \ {0}) \cup {POSITIVE_INFINITY}
    BY <1>1, BoundaryType
  <2> HIDE DEF b
  <2>2. /\ carriedRenewUntil(b) \in (Nat \ {0}) \cup {INFINITE_TERM}
        /\ CarriedTerm(carriedRenewUntil(b)) = b
    BY <2>1, CarriedRoundTrip DEF CarriedTerm
  <2>3. QED
    BY <2>2 DEF b, INFINITE_TERM
<1> HIDE DEF carried
<1>4. lic[i].root = r => ExactRow(lic'[k], sold')
  <2>1. SUFFICES ASSUME lic[i].root = r, r \notin LegacyIds
                 PROVE  CarriedTerm(carried) = sold[r]
    BY <1>2, <1>3 DEF ExactRow
  <2>2. row.renewUntil # 0 /\ CarriedTerm(row.renewUntil) = sold[r]
    BY <1>1, <2>1 DEF HeldExact, ExactRow
  <2>3. QED
    BY <1>1, <1>3, <2>2, BoundarySplit
<1>5. lic[i].root = r => ExactRow(lic'[i], sold')
  BY <1>1, <1>2 DEF ExactRow, ExactIInv
<1>6. \A j \in LicenceIds : (lic'[j].status # "none" /\ lic'[j].root = r) =>
         ExactRow(lic'[j], sold')
  BY <1>1, <1>2, <1>4, <1>5 DEF ExactIInv, Issued
<1>7. \A j \in LicenceIds : Issued(j) => lic'[j].licId = lic[j].licId
  BY <1>2
<1>8. QED
  BY <1>2, <1>6, <1>7, CommitExact, ExactKeeps DEF Commit
LEMMA NextExact ==
    ASSUME NEW r \in LicenceIds, ExactIInv(r), [Next /\ ~Renewal(r)]_vars
    PROVE  ExactIInv(r)'
<1>1. StoredTermIInv /\ TypeOK /\ StoredTermIInv'
  BY NextStored DEF ExactIInv, StoredTermIInv
<1>2. CASE UNCHANGED <<lic, sold>> /\ \A w \in Workers : op'[w] = op[w] \/ op'[w] = Idle
  <2>1. \A i \in LicenceIds : (lic'[i].status # "none" /\ lic'[i].root = r) =>
          ExactRow(lic'[i], sold')
    BY <1>2 DEF ExactIInv, Issued
  <2>2. QED
    BY <1>1, <1>2, <2>1, ExactKeeps
<1>3. CASE EditPackage \/ RemovePackage
  <2>1. UNCHANGED <<lic, op>> /\ \A q \in LicenceIds \ LegacyIds : sold'[q] = sold[q]
    BY <1>3 DEF EditPackage, RemovePackage
  <2>2. \A i \in LicenceIds : (lic'[i].status # "none" /\ lic'[i].root = r) =>
          ExactRow(lic'[i], sold')
    BY <2>1 DEF ExactIInv, ExactRow, Issued
  <2>3. QED
    BY <1>1, <2>1, <2>2, ExactKeeps
<1>4. ASSUME NEW w \in Workers, NEW kind \in HeldOps, NEW i \in LicenceIds,
             Begin(w, kind, i), Issued(i)
      PROVE  ExactIInv(r)'
  <2>1. /\ op'[w] = [kind |-> kind, id |-> i, row |-> lic[i], pkg |-> pkg, at |-> now]
        /\ \A v \in Workers \ {w} : op'[v] = op[v]
        /\ UNCHANGED <<lic, sold>>
    BY <1>1, <1>4 DEF Begin, TypeOK, history
  <2>2. HeldExact(w, r)'
    BY <1>4, <2>1 DEF HeldExact, ExactIInv
  <2>3. \A j \in LicenceIds : (lic'[j].status # "none" /\ lic'[j].root = r) =>
          ExactRow(lic'[j], sold')
    BY <2>1 DEF ExactIInv, Issued
  <2>4. QED
    BY <1>1, <2>1, <2>2, <2>3, ExactKeeps
<1>5. ASSUME NEW w \in Workers, NEW i \in LicenceIds,
             \/ BeginRenew(w, i) \/ BeginRevoke(w, i) \/ BeginSetDelivery(w, i)
             \/ \E kind \in Reissues : BeginReissue(w, kind, i)
      PROVE  ExactIInv(r)'
  <2>1. (\E kind \in HeldOps : Begin(w, kind, i)) /\ Issued(i)
    BY <1>5 DEF BeginRenew, BeginRevoke, BeginSetDelivery, BeginReissue, RenewGate,
                HeldOps, FullSaves, Issued
  <2>2. QED
    BY <1>4, <2>1
<1>6. ASSUME NEW w \in Workers, NEW claim, BeginRefresh(w, claim)
      PROVE  ExactIInv(r)'
  BY <1>4, <1>6 DEF BeginRefresh, HeldOps, Issued
<1>7. ASSUME NEW w \in Workers, Commit(w), ~Renewal(r) PROVE ExactIInv(r)'
  BY <1>7, RenewExact, SaveExact, ReissueExact, RefreshExact DEF Commit, Renewal
<1>8. CASE UNCHANGED vars \/ Tick \/ \E w \in Workers : Abandon(w)
  <2>1. UNCHANGED <<lic, sold>>
    BY <1>8 DEF vars, history, Tick, Abandon
  <2>2. \A v \in Workers : op'[v] = op[v] \/ op'[v] = Idle
    BY <1>1, <1>8, FinishFrees DEF vars, history, Tick, Abandon
  <2>3. QED
    BY <1>2, <2>1, <2>2
<1>9. CASE Issue
  BY <1>9, IssueExact
<1>10. QED
  BY <1>3, <1>5, <1>6, <1>7, <1>8, <1>9 DEF Next

\* Every row of the lineage has the term that was sold, and holds a token that
\* names the row itself.
LineageAsSold(r) ==
    \A i \in LicenceIds :
        (Issued(i) /\ lic[i].root = r) =>
            /\ lic[i].tokenLic = lic[i].licId
            /\ r \notin LegacyIds => Term(i) = sold[r]

LEMMA ExactFollows == ASSUME NEW r \in LicenceIds, ExactIInv(r) PROVE LineageAsSold(r)
<1>1. SUFFICES ASSUME NEW i \in LicenceIds, Issued(i), lic[i].root = r
               PROVE  /\ lic[i].tokenLic = lic[i].licId
                      /\ r \notin LegacyIds => Term(i) = sold[r]
  BY DEF LineageAsSold
<1>2. ExactRow(lic[i], sold) /\ lic[i] \in Row /\ pkg \in Package
  BY <1>1 DEF ExactIInv, StoredTermIInv, TypeOK
<1>3. QED
  BY <1>1, <1>2, BoundarySplit DEF ExactRow, Term

\* A lineage nobody renews keeps, in every row that replaces another, exactly
\* the term it was sold, and a token handed back names its own row, whatever
\* revocations, delivery edits, refreshes, reissues and package edits overlap
\* and however often other lineages are renewed.
THEOREM UnrenewedAsSold ==
    ASSUME NEW r \in LicenceIds
    PROVE  Spec /\ [][~Renewal(r)]_vars => []LineageAsSold(r)
<1>1. Init => ExactIInv(r)
  BY InitExact
<1>2. ExactIInv(r) /\ [Next]_vars /\ [~Renewal(r)]_vars => ExactIInv(r)'
  <2>1. SUFFICES ASSUME ExactIInv(r), [Next]_vars, [~Renewal(r)]_vars PROVE ExactIInv(r)'
    OBVIOUS
  <2>2. [Next /\ ~Renewal(r)]_vars
    BY <2>1
  <2>3. QED
    BY <2>1, <2>2, NextExact
<1>3. ExactIInv(r) => LineageAsSold(r)
  BY ExactFollows
<1>4. QED
  BY <1>1, <1>2, <1>3, PTL DEF Spec

EveryExact == \A r \in LicenceIds : ExactIInv(r)

LEMMA ExactWithoutRenew ==
    ASSUME "renew" \notin Ops
    PROVE  Spec => []EveryExact
<1>1. Init => EveryExact
  BY InitExact DEF EveryExact
<1>2. EveryExact /\ GatedIInv /\ [Next]_vars => EveryExact'
  <2>1. SUFFICES ASSUME EveryExact, GatedIInv, [Next]_vars, NEW r \in LicenceIds
                 PROVE  ExactIInv(r)'
    BY DEF EveryExact
  <2>2. ~Renewal(r)
    BY <2>1, HeldNotIdle
       DEF Renewal, CommitRenew, GatedIInv, StoredTermIInv, HeldGated, Idle
  <2>3. QED
    BY <2>1, <2>2, NextExact DEF EveryExact
<1>3. QED
  BY <1>1, <1>2, GatedInductive, PTL DEF Spec

\* Where no administrator renews, every row of every lineage has exactly the
\* term that was sold: a reissue neither extends nor collapses it.
THEOREM TermsCarriedExactly ==
    ASSUME "renew" \notin Ops
    PROVE  Spec => []TermCarriedExactly
<1>1. EveryExact => TermCarriedExactly
  <2>1. SUFFICES ASSUME EveryExact, NEW i \in LicenceIds, Issued(i),
                        lic[i].root \notin LegacyIds
                 PROVE  Term(i) = sold[lic[i].root]
    BY DEF TermCarriedExactly
  <2>2. TypeOK
    BY <2>1 DEF EveryExact, ExactIInv, StoredTermIInv
  <2>3. lic[i].root \in LicenceIds
    BY <2>2 DEF TypeOK, Row
  <2>4. LineageAsSold(lic[i].root)
    BY <2>1, <2>3, ExactFollows DEF EveryExact
  <2>5. QED
    BY <2>1, <2>4 DEF LineageAsSold
<1>2. QED
  BY <1>1, ExactWithoutRenew, PTL

\* Where no administrator renews, a token handed back by a live row names a row
\* that exists.
THEOREM HandedBackResolves ==
    ASSUME "renew" \notin Ops
    PROVE  Spec => []HandedBackTokenResolves
<1>1. EveryExact => HandedBackTokenResolves
  <2>1. SUFFICES ASSUME EveryExact, NEW i \in LicenceIds, Active(i)
                 PROVE  lic[i].licId = lic[i].tokenLic
    BY DEF HandedBackTokenResolves
  <2>2. TypeOK
    BY <2>1 DEF EveryExact, ExactIInv, StoredTermIInv
  <2>3. lic[i].root \in LicenceIds /\ Issued(i)
    BY <2>1, <2>2 DEF TypeOK, Row, Active, Issued
  <2>4. LineageAsSold(lic[i].root)
    BY <2>1, <2>3, ExactFollows DEF EveryExact
  <2>5. QED
    BY <2>3, <2>4 DEF LineageAsSold
<1>2. QED
  BY <1>1, ExactWithoutRenew, PTL

-----------------------------------------------------------------------------
(* One sale, one live key.                                                  *)

OneLive(r) ==
    \A i, j \in LicenceIds :
        (Active(i) /\ Active(j) /\ lic[i].root = r /\ lic[j].root = r) => i = j

\* Every key of the lineage was revoked.
AllDead(r) ==
    /\ \E i \in LicenceIds : Issued(i) /\ lic[i].root = r
    /\ \A i \in LicenceIds : lic[i].root = r => ~Active(i)

\* A handler saves, for the lineage, a copy whose status is not the row's any
\* more, or replaces a key that it read revoked, which rebind alone refuses.
StaleStatus(w) ==
    op[w].kind \in Reissues \cup {"renew", "setDelivery"}
    /\ op[w].row.status # lic[op[w].id].status
ReplacesRevoked(w) ==
    op[w].kind \in {"regenerate", "portalRegenerate"} /\ op[w].row.status = "revoked"
SecondKey(r) ==
    \E w \in Workers : /\ Commit(w) /\ lic[op[w].id].root = r
                       /\ StaleStatus(w) \/ ReplacesRevoked(w)

\* An issued row stays issued, in the lineage it is in.
LEMMA LineageKept ==
    ASSUME StoredTermIInv, Next, NEW i \in LicenceIds, Issued(i)
    PROVE  Issued(i)' /\ lic'[i].root = lic[i].root
<1>1. TypeOK
  BY DEF StoredTermIInv
<1>2. CASE Issue
  <2>1. PICK j, new : j \in Unused /\ lic' = [lic EXCEPT ![j] = new]
    BY <1>2 DEF Issue
  <2>2. lic'[i] = lic[i]
    BY <1>1, <2>1 DEF Unused, Issued, TypeOK
  <2>3. QED
    BY <2>2 DEF Issued
<1>3. ASSUME NEW w \in Workers, Commit(w) PROVE Issued(i)' /\ lic'[i].root = lic[i].root
  <2>1. /\ op[w].id \in LicenceIds /\ Issued(op[w].id) /\ op[w].row.status # "none"
        /\ op[w].row.root = lic[op[w].id].root
    BY <1>1, <1>3, CommitHolds DEF StoredTermIInv, HeldWithin
  <2>2. CASE CommitReissue(w)
    BY <1>1, <2>1, <2>2, ReissueWrites DEF Issued, RevokedByReissue
  <2>3. CASE ~CommitReissue(w)
    <3>1. /\ lic'[op[w].id].root = lic[op[w].id].root
          /\ lic'[op[w].id].status # "none"
          /\ \A j \in LicenceIds \ {op[w].id} : lic'[j] = lic[j]
      BY <1>1, <1>3, <2>1, <2>3, RenewWrites, SaveWrites, RefreshWrites
         DEF Commit, Issued
    <3>2. QED
      BY <3>1 DEF Issued
  <2>4. QED
    BY <2>2, <2>3
<1>4. CASE ~Issue /\ \A w \in Workers : ~Commit(w)
  BY <1>4, TableWriters DEF Issued
<1>5. QED
  BY <1>2, <1>3, <1>4

\* Without such a commit, at most one row of a lineage is written or filled,
\* and it becomes live only if the row it was read from was live and no longer is.
LEMMA LiveMoves ==
    ASSUME GatedIInv, Next, NEW r \in LicenceIds, ~SecondKey(r), Issued(r)
    PROVE  \/ \A i \in LicenceIds : (Active(i)' /\ lic'[i].root = r) =>
                                        Active(i) /\ lic[i].root = r
           \/ \E i, k \in LicenceIds :
                 /\ Active(i) /\ lic[i].root = r /\ ~Active(i)'
                 /\ \A j \in LicenceIds \ {k} : (Active(j)' /\ lic'[j].root = r) =>
                                                   Active(j) /\ lic[j].root = r
<1>1. StoredTermIInv /\ TypeOK
  BY DEF GatedIInv, StoredTermIInv
<1>2. CASE Issue
  <2>1. PICK i, new :
          i \in Unused /\ new.root = i /\ lic' = [lic EXCEPT ![i] = new]
    BY <1>2 DEF Issue
  <2>2. i \in LicenceIds /\ i # r
    BY <2>1 DEF Unused, Issued
  <2>3. QED
    BY <1>1, <2>1, <2>2 DEF Active, TypeOK
<1>3. CASE ~Issue /\ \A w \in Workers : ~Commit(w)
  BY <1>3, TableWriters DEF Active
<1>4. ASSUME NEW w \in Workers, Commit(w), lic[op[w].id].root # r
      PROVE  \A i \in LicenceIds : (Active(i)' /\ lic'[i].root = r) =>
                                      Active(i) /\ lic[i].root = r
  <2>1. /\ op[w].id \in LicenceIds /\ Issued(op[w].id)
        /\ op[w].row.root = lic[op[w].id].root
    BY <1>1, <1>4, CommitHolds DEF StoredTermIInv, HeldWithin
  <2>2. CASE CommitReissue(w)
    BY <1>1, <1>4, <2>1, <2>2, ReissueWrites DEF Active
  <2>3. CASE ~CommitReissue(w)
    <3>1. /\ lic'[op[w].id].root # r
          /\ \A j \in LicenceIds \ {op[w].id} : lic'[j] = lic[j]
      BY <1>1, <1>4, <2>1, <2>3, RenewWrites, SaveWrites, RefreshWrites DEF Commit
    <3>2. QED
      BY <3>1 DEF Active
  <2>4. QED
    BY <2>2, <2>3
<1>5. ASSUME NEW w \in Workers, Commit(w), lic[op[w].id].root = r
      PROVE  \/ \A i \in LicenceIds : (Active(i)' /\ lic'[i].root = r) =>
                                          Active(i) /\ lic[i].root = r
             \/ \E i, k \in LicenceIds :
                   /\ Active(i) /\ lic[i].root = r /\ ~Active(i)'
                   /\ \A j \in LicenceIds \ {k} : (Active(j)' /\ lic'[j].root = r) =>
                                                     Active(j) /\ lic[j].root = r
  <2> DEFINE i == op[w].id
  <2>1. /\ i \in LicenceIds /\ Issued(i) /\ op[w].row \in Row
        /\ HeldGated(w) /\ op[w] # Idle
    BY <1>1, <1>5, CommitHolds DEF StoredTermIInv, HeldWithin, GatedIInv
  <2>2. ~StaleStatus(w) /\ ~ReplacesRevoked(w)
    BY <1>5 DEF SecondKey
  <2>3. CASE CommitRenew(w)
    <3>1. Active(i)
      BY <2>1, <2>2, <2>3 DEF CommitRenew, StaleStatus, HeldGated, Active
    <3>2. QED
      BY <1>1, <1>5, <2>1, <2>3, <3>1, RenewWrites DEF Active
  <2>4. CASE CommitRevoke(w)
    <3>1. lic'[i].status # "active" /\ \A j \in LicenceIds \ {i} : lic'[j] = lic[j]
      BY <1>1, <2>4, SaveWrites DEF Active
    <3>2. QED
      BY <3>1 DEF Active
  <2>5. CASE CommitSetDelivery(w)
    <3>1. op[w].row.status = lic[i].status
      BY <2>2, <2>5 DEF CommitSetDelivery, StaleStatus
    <3>2. lic'[i].status = lic[i].status /\ \A j \in LicenceIds \ {i} : lic'[j] = lic[j]
      BY <1>1, <2>5, <3>1, SaveWrites
    <3>3. QED
      BY <1>5, <3>2 DEF Active
  <2>6. CASE CommitRefresh(w)
    <3>1. lic'[i].status = lic[i].status /\ \A j \in LicenceIds \ {i} : lic'[j] = lic[j]
      BY <1>1, <2>6, RefreshWrites
    <3>2. QED
      BY <1>5, <3>1 DEF Active
  <2>7. CASE CommitReissue(w)
    <3>1. op[w].row.status = lic[i].status /\ lic[i].status # "revoked"
      BY <2>1, <2>2, <2>7
         DEF CommitReissue, StaleStatus, ReplacesRevoked, HeldGated, Reissues
    <3>2. Active(i)
      BY <1>1, <2>1, <3>1 DEF Active, Issued, TypeOK, Row
    <3>3. PICK k \in LicenceIds :
            /\ lic'[i].status = RevokedByReissue(lic[i].status, op[w].row)
            /\ \A j \in LicenceIds \ {i, k} : lic'[j] = lic[j]
      BY <1>1, <2>1, <2>7, ReissueWrites
    <3>4. lic'[i].status # "active"
      BY <3>1, <3>3 DEF RevokedByReissue, Active
    <3>5. QED
      BY <1>5, <2>1, <3>2, <3>3, <3>4 DEF Active
  <2>8. QED
    BY <1>5, <2>3, <2>4, <2>5, <2>6, <2>7 DEF Commit
<1>6. QED
  BY <1>2, <1>3, <1>4, <1>5
LEMMA StepOneLive ==
    ASSUME GatedIInv, [Next]_vars, NEW r \in LicenceIds, ~SecondKey(r)
    PROVE  /\ OneLive(r) => OneLive(r)'
           /\ AllDead(r) => AllDead(r)'
<1>1. StoredTermIInv /\ StoredTermIInv' /\ TypeOK
  BY NextStored DEF GatedIInv, StoredTermIInv
<1>2. CASE UNCHANGED vars
  BY <1>2 DEF vars, OneLive, AllDead, Active, Issued
<1>3. CASE Next /\ ~Issued(r)
  <2>1. \A i \in LicenceIds : Issued(i) => lic[i].root # r
    BY <1>1, <1>3 DEF StoredTermIInv
  <2>2. ~AllDead(r)
    BY <2>1 DEF AllDead
  <2>3. OneLive(r)'
    <3>1. CASE Issue
      <4>1. PICK i, new : i \in Unused /\ lic' = [lic EXCEPT ![i] = new]
        BY <3>1 DEF Issue
      <4>2. \A j \in LicenceIds \ {i} : lic'[j] = lic[j]
        BY <1>1, <4>1 DEF Unused, TypeOK
      <4>3. QED
        BY <2>1, <4>2 DEF OneLive, Active, Issued
    <3>2. CASE \E w \in Workers : Commit(w)
      <4>1. PICK w \in Workers : Commit(w)
        BY <3>2
      <4>2. op[w].id \in LicenceIds /\ Issued(op[w].id) /\ op[w].row.root = lic[op[w].id].root
        BY <1>1, <4>1, CommitHolds DEF StoredTermIInv, HeldWithin
      <4>3. lic[op[w].id].root # r
        BY <2>1, <4>2
      <4>4. \A j \in LicenceIds : Active(j)' => lic'[j].root # r
        <5>1. CASE CommitReissue(w)
          BY <1>1, <2>1, <4>2, <4>3, <5>1, ReissueWrites DEF Active, Issued
        <5>2. CASE ~CommitReissue(w)
          <6>1. /\ lic'[op[w].id].root # r
                /\ \A j \in LicenceIds \ {op[w].id} : lic'[j] = lic[j]
            BY <1>1, <4>1, <4>2, <4>3, <5>2, RenewWrites, SaveWrites, RefreshWrites
               DEF Commit
          <6>2. QED
            BY <2>1, <6>1 DEF Active, Issued
        <5>3. QED
          BY <5>1, <5>2
      <4>5. QED
        BY <4>4 DEF OneLive
    <3>3. CASE ~Issue /\ \A w \in Workers : ~Commit(w)
      BY <1>3, <2>1, <3>3, TableWriters DEF OneLive, Active, Issued
    <3>4. QED
      BY <3>1, <3>2, <3>3
  <2>4. QED
    BY <2>2, <2>3
<1>4. CASE Next /\ Issued(r)
  <2>1. OneLive(r) => OneLive(r)'
    BY <1>4, LiveMoves DEF OneLive
  <2>2. AllDead(r) => AllDead(r)'
    <3>1. SUFFICES ASSUME AllDead(r) PROVE AllDead(r)'
      OBVIOUS
    <3>2. \A i \in LicenceIds : (Active(i)' /\ lic'[i].root = r) => FALSE
      BY <1>4, <3>1, LiveMoves DEF AllDead
    <3>3. PICK i \in LicenceIds : Issued(i) /\ lic[i].root = r
      BY <3>1 DEF AllDead
    <3>4. Issued(i)' /\ lic'[i].root = r
      BY <1>1, <1>4, <3>3, LineageKept
    <3>5. QED
      BY <3>2, <3>4 DEF AllDead
  <2>3. QED
    BY <2>1, <2>2
<1>5. QED
  BY <1>2, <1>3, <1>4

\* A lineage gets a second live key, or one after its last was revoked, only
\* from a handler that saves a copy whose status is out of date or that replaces
\* a key it read revoked.
OnlyStaleOrRevokedDoubles ==
    [][\A r \in LicenceIds :
          /\ OneLive(r) => OneLive(r)' \/ SecondKey(r)
          /\ AllDead(r) => AllDead(r)' \/ SecondKey(r)]_vars

\* A second live key, or a live key of a revoked lineage, has only these two
\* causes, for any number of rows and requests, renewals and refreshes included.
THEOREM SecondKeysHaveTwoCauses == Spec => OnlyStaleOrRevokedDoubles
<1>1. GatedIInv /\ [Next]_vars =>
        [\A r \in LicenceIds :
            /\ OneLive(r) => OneLive(r)' \/ SecondKey(r)
            /\ AllDead(r) => AllDead(r)' \/ SecondKey(r)]_vars
  BY StepOneLive
<1>2. QED
  BY <1>1, GatedInductive, PTL DEF Spec, OnlyStaleOrRevokedDoubles

\* Requests about the lineage run one after the other, and none of them replaces
\* a key it read revoked.
OneAtATime(r) ==
    \A v, w \in Workers :
        (/\ op[v] # Idle /\ lic[op[v].id].root = r
         /\ op[w] # Idle /\ lic[op[w].id].root = r) => v = w

RevokedReplaced(r) ==
    \E w \in Workers : Commit(w) /\ lic[op[w].id].root = r /\ ReplacesRevoked(w)

\* A request about the lineage then holds the status its row still has.
Fresh(r) ==
    \A w \in Workers :
        (op[w] # Idle /\ lic[op[w].id].root = r) =>
            op[w].row.status = lic[op[w].id].status

LEMMA FreshSaves ==
    ASSUME NEW r \in LicenceIds, GatedIInv, Fresh(r), ~RevokedReplaced(r)
    PROVE  ~SecondKey(r)
BY CommitHolds DEF SecondKey, Fresh, RevokedReplaced, StaleStatus, GatedIInv, StoredTermIInv

\* What a commit leaves alone: the rows of other lineages.
LEMMA OtherLineages ==
    ASSUME StoredTermIInv, NEW w \in Workers, Commit(w), NEW i \in LicenceIds,
           Issued(i), lic[i].root # lic[op[w].id].root
    PROVE  lic'[i] = lic[i]
<1>1. TypeOK
  BY DEF StoredTermIInv
<1>2. op[w].id \in LicenceIds /\ Issued(op[w].id) /\ i # op[w].id
  BY <1>1, CommitHolds DEF StoredTermIInv, HeldWithin
<1>3. CASE CommitReissue(w)
  BY <1>1, <1>2, <1>3, ReissueWrites
<1>4. CASE ~CommitReissue(w)
  BY <1>1, <1>2, <1>4, RenewWrites, SaveWrites, RefreshWrites DEF Commit
<1>5. QED
  BY <1>3, <1>4

LEMMA NextFresh ==
    ASSUME NEW r \in LicenceIds, GatedIInv, OneAtATime(r), Fresh(r), [Next]_vars
    PROVE  Fresh(r)'
<1>1. StoredTermIInv /\ TypeOK
  BY DEF GatedIInv, StoredTermIInv
<1>2. \A w \in Workers : op[w] # Idle => op[w].id \in LicenceIds /\ Issued(op[w].id)
  BY <1>1, HeldType DEF StoredTermIInv, HeldWithin
<1>3. ASSUME NEW w \in Workers, NEW kind, NEW i \in LicenceIds, Begin(w, kind, i)
      PROVE  Fresh(r)'
  <2>1. /\ op'[w] = [kind |-> kind, id |-> i, row |-> lic[i], pkg |-> pkg, at |-> now]
        /\ \A v \in Workers \ {w} : op'[v] = op[v]
        /\ lic' = lic
    BY <1>1, <1>3 DEF Begin, TypeOK
  <2>2. QED
    BY <2>1 DEF Fresh
<1>4. ASSUME UNCHANGED lic, \A w \in Workers : op'[w] = op[w] \/ op'[w] = Idle
      PROVE  Fresh(r)'
  BY <1>4 DEF Fresh
<1>5. CASE UNCHANGED vars \/ Tick \/ EditPackage \/ RemovePackage
  BY <1>4, <1>5 DEF vars, Tick, EditPackage, RemovePackage
<1>6. ASSUME NEW w \in Workers, Abandon(w) PROVE Fresh(r)'
  BY <1>1, <1>4, <1>6, FinishFrees DEF Abandon
<1>7. CASE Issue
  <2>1. PICK j, new : j \in Unused /\ lic' = [lic EXCEPT ![j] = new]
    BY <1>7 DEF Issue
  <2>2. \A w \in Workers : op[w] # Idle => lic'[op[w].id] = lic[op[w].id]
    BY <1>1, <1>2, <2>1 DEF Unused, Issued, TypeOK
  <2>3. op' = op
    BY <1>7 DEF Issue
  <2>4. QED
    BY <2>2, <2>3 DEF Fresh
<1>8. ASSUME NEW w \in Workers, Commit(w) PROVE Fresh(r)'
  <2>1. op[w] # Idle /\ op'[w] = Idle /\ \A v \in Workers \ {w} : op'[v] = op[v]
    BY <1>1, <1>8, CommitHolds
  <2>2. ASSUME NEW v \in Workers, op'[v] # Idle, lic'[op'[v].id].root = r
        PROVE  op'[v].row.status = lic'[op'[v].id].status
    <3>1. v # w /\ op'[v] = op[v] /\ op[v] # Idle
      BY <2>1, <2>2
    <3>2. lic[op[v].id].root = r
      <4>1. Next
        BY <1>8 DEF Next
      <4>2. QED
        BY <1>1, <1>2, <2>2, <3>1, <4>1, LineageKept
    <3>3. lic[op[w].id].root # r
      BY <2>1, <3>1, <3>2 DEF OneAtATime
    <3>4. lic'[op[v].id] = lic[op[v].id]
      BY <1>1, <1>2, <1>8, <3>1, <3>2, <3>3, OtherLineages
    <3>5. QED
      BY <3>1, <3>2, <3>4 DEF Fresh
  <2>3. QED
    BY <2>2 DEF Fresh
<1>9. ASSUME NEW w \in Workers, NEW i \in LicenceIds,
             \/ BeginRenew(w, i) \/ BeginRevoke(w, i) \/ BeginSetDelivery(w, i)
             \/ \E kind \in Reissues : BeginReissue(w, kind, i)
      PROVE  Fresh(r)'
  BY <1>3, <1>9 DEF BeginRenew, BeginRevoke, BeginSetDelivery, BeginReissue
<1>10. ASSUME NEW w \in Workers, NEW claim, BeginRefresh(w, claim) PROVE Fresh(r)'
  BY <1>3, <1>10 DEF BeginRefresh
<1>11. QED
  BY <1>5, <1>6, <1>7, <1>8, <1>9, <1>10 DEF Next

LEMMA InitOneLive == ASSUME Init, NEW r \in LicenceIds PROVE OneLive(r) /\ Fresh(r)
<1>1. PICK claim :
        lic = [i \in LicenceIds |->
                 IF i \in LegacyIds
                 THEN [Blank(i) EXCEPT !.status = "active", !.licId = claim[i],
                                       !.tokenLic = claim[i]]
                 ELSE Blank(i)]
  BY DEF Init
<1>2. \A i \in LicenceIds : lic[i].root = i
  BY <1>1 DEF Blank
<1>3. \A w \in Workers : op[w] = Idle
  BY DEF Init
<1>4. QED
  BY <1>2, <1>3 DEF OneLive, Fresh

\* A lineage whose requests run one after the other, none of them replacing a
\* key it read revoked, has at most one live key, and none again once every key
\* of it was revoked, however the requests about other lineages overlap.
THEOREM SerialLineageHasOneKey ==
    ASSUME NEW r \in LicenceIds
    PROVE  Spec /\ []OneAtATime(r) /\ [][~RevokedReplaced(r)]_vars
           => []OneLive(r) /\ [][AllDead(r) => AllDead(r)']_vars
<1>1. Init => OneLive(r) /\ Fresh(r)
  BY InitOneLive
<1>2. /\ OneLive(r) /\ Fresh(r) /\ GatedIInv /\ OneAtATime(r)
      /\ [Next]_vars /\ [~RevokedReplaced(r)]_vars
      => (OneLive(r) /\ Fresh(r))'
  <2>1. CASE UNCHANGED vars
    BY <2>1 DEF vars, OneLive, Fresh, Active
  <2>2. CASE Next /\ ~RevokedReplaced(r)
    BY <2>2, NextFresh, FreshSaves, StepOneLive
  <2>3. QED
    BY <2>1, <2>2
<1>3. /\ Fresh(r) /\ GatedIInv /\ [Next]_vars /\ [~RevokedReplaced(r)]_vars
      => [AllDead(r) => AllDead(r)']_vars
  BY FreshSaves, StepOneLive
<1>4. QED
  BY <1>1, <1>2, <1>3, GatedInductive, PTL DEF Spec

EveryOneLive == \A r \in LicenceIds : OneLive(r) /\ Fresh(r)

LEMMA SerialSteps ==
    ASSUME \A v, w \in Workers : v = w,
           Ops \cap {"regenerate", "portalRegenerate"} = {},
           GatedIInv, NEW r \in LicenceIds
    PROVE  OneAtATime(r) /\ ~RevokedReplaced(r)
<1>1. \A w \in Workers : op[w] # Idle => op[w].kind \in Ops
  BY DEF GatedIInv, HeldGated
<1>2. \A w \in Workers : Commit(w) => op[w] # Idle
  BY CommitHolds DEF GatedIInv, StoredTermIInv
<1>3. ~RevokedReplaced(r)
  BY <1>1, <1>2 DEF RevokedReplaced, ReplacesRevoked
<1>4. QED
  BY <1>3 DEF OneAtATime

LEMMA SerialOneLive ==
    ASSUME \A v, w \in Workers : v = w,
           Ops \cap {"regenerate", "portalRegenerate"} = {}
    PROVE  Spec => []EveryOneLive
<1>1. Init => EveryOneLive
  BY InitOneLive DEF EveryOneLive
<1>2. EveryOneLive /\ GatedIInv /\ [Next]_vars => EveryOneLive'
  BY SerialSteps, NextFresh, FreshSaves, StepOneLive DEF EveryOneLive
<1>3. QED
  BY <1>1, <1>2, GatedInductive, PTL DEF Spec

\* One sale is one live key, where licence requests do not overlap and keys
\* are only replaced with a rebind.
THEOREM OneKeyPerSale ==
    ASSUME \A v, w \in Workers : v = w,
           Ops \cap {"regenerate", "portalRegenerate"} = {}
    PROVE  Spec => []OneLivePerLineage
<1>1. EveryOneLive /\ TypeOK => OneLivePerLineage
  BY DEF EveryOneLive, OneLive, OneLivePerLineage, TypeOK, Row
<1>2. QED
  BY <1>1, SerialOneLive, TypeCorrect, PTL

\* There, a lineage whose every key was revoked gets no live key again.
THEOREM RevokedLineagesStayDead ==
    ASSUME \A v, w \in Workers : v = w,
           Ops \cap {"regenerate", "portalRegenerate"} = {}
    PROVE  Spec => RevokedLineageStaysDead
<1>1. EveryOneLive /\ GatedIInv /\ [Next]_vars =>
        [\A r \in LicenceIds :
            (/\ \E i \in LicenceIds : Issued(i) /\ lic[i].root = r
             /\ \A i \in LicenceIds : lic[i].root = r => ~Active(i))
            => \A i \in LicenceIds : lic'[i].root = r => lic'[i].status # "active"]_vars
  <2>1. SUFFICES ASSUME EveryOneLive, GatedIInv, [Next]_vars, NEW r \in LicenceIds, AllDead(r)
                 PROVE  \A i \in LicenceIds : lic'[i].root = r => lic'[i].status # "active"
    BY DEF AllDead
  <2>2. AllDead(r)'
    BY <2>1, SerialSteps, FreshSaves, StepOneLive DEF EveryOneLive
  <2>3. QED
    BY <2>2 DEF AllDead, Active
<1>2. QED
  BY <1>1, SerialOneLive, GatedInductive, PTL DEF Spec, RevokedLineageStaysDead
=============================================================================
