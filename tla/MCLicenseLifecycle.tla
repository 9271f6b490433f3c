------------------------- MODULE MCLicenseLifecycle -------------------------
(***************************************************************************)
(* Instances of LicenseLifecycle for TLC: sets of handlers and of package  *)
(* states.  A 'once' or monthly term is 2, a yearly one 3 and the ceiling  *)
(* of a token 4, so that terms begin, run out and are crossed by a request *)
(* in progress before the clock stops.                                     *)
(***************************************************************************)
EXTENDS LicenseLifecycle, TLC

Plan(interval, active, ttlOverride) ==
    [exists |-> TRUE, active |-> active, interval |-> interval,
     ttlOverride |-> ttlOverride]

MonthlyOrLifetime == {Plan("monthly", TRUE, 0), Plan("lifetime", TRUE, 0)}
MonthlyOnly == {Plan("monthly", TRUE, 0)}
LifetimeOnly == {Plan("lifetime", TRUE, 0)}
ShortTokens == {Plan("yearly", TRUE, 1)}
Withdrawable == {Plan("monthly", TRUE, 0), Plan("monthly", FALSE, 0),
                 Plan("lifetime", TRUE, 0)}

\* Handlers whose races are examined together, where the property holds ...
ReissueOps == {"issue", "refresh", "revoke", "regenerate", "rebind",
               "setDelivery"}
SerialOps == {"issue", "refresh", "revoke", "renew", "rebind",
              "editPackage", "removePackage"}

\* ... and the least that shows where it does not.
RenewOnly == {"issue", "renew"}
RenewAfterRemoval == {"issue", "renew", "removePackage"}
RenewAndRefresh == {"issue", "renew", "refresh"}
RenewAndRevoke == {"issue", "renew", "revoke"}
PortalAndRevoke == {"issue", "revoke", "portalRegenerate"}
RebindOnly == {"issue", "rebind"}
PinAndReissue == {"issue", "setDelivery", "regenerate"}

Symmetry == Permutations(Workers)
=============================================================================
