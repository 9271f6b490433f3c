# Verification of the editor backend

TLA+ modules, TLC instances and TLAPS proofs for the backend that sells,
licenses and delivers a text editor: a NestJS service over MySQL (TypeORM),
with Stripe for payment. The modules follow the code in `src/src`; each
definition names, in `PROJECT.json` under "map", the lines it stands for.

## The system

One Node process serves HTTP. A handler runs until its next `await`; between
two awaits any other handler may run, and another instance may run at the same
time. All lasting state is in MySQL, apart from a few in-memory caches and the
bundle store. Three facts about the persistence layer shape everything below:

* `repo.save(entity)` outside a transaction re-reads the row and writes every
  column in which the entity differs: a stale copy wins in full.
* Inside `dataSource.transaction` (MySQL's default isolation, repeatable read)
  the re-read sees the transaction's own snapshot, so only the columns the
  handler assigned are written.
* A conditional `update ... where`, an `increment` and a unique index are atomic.

### Inventory

| Component | Source (`src/src/`) | State | Operations | What is hard | What must hold |
|---|---|---|---|---|---|
| Licence lifecycle | `licensing/license.service.ts`, `licensing/duration-policy.ts`, `portal/refresh.service.ts`, `portal/portal-license.service.ts`, `admin/package-admin.service.ts` | `licenses`, `packages` | issue, renew, revoke, setDelivery, three reissues, silent refresh, package edits and deletion | stale saves, clocks read twice, terms derived from a package that changes, perpetual and legacy rows | nobody gets more term than was sold, a token never outlives it, revocation is final, one live key for a sale |
| Order fulfilment | `billing/*` | `orders`, `processed_stripe_events` | checkout, webhook, force-fulfil, retrieve the key once | at-least-once delivery, two paths that mint, crashes between commit and answer, ledger rollback | paid means licensed once; Stripe is told to stop only then; a key is shown once |
| Engine registry | `licensing/engine-version.service.ts`, `licensing/version-resolution.ts`, `licensing/canary.ts` | `engine_versions`, `engine_defaults`, their history, `engine_canaries`, bundle bytes | publish, restore, promote, retire, set default, roll back, ramp, halt, resolve a session | long checks before a write, bytes and row apart, plan and version decided in two reads | what we choose for a caller can be downloaded and covers the package; a pin is a promise; a build is immutable |
| Delivery access | `delivery/session.*`, `delivery/license-activation.service.ts`, `delivery/license-install.service.ts` | `license_activations`, `license_installs` | arm and redeem an activation, open and refresh a session, take, block, touch and release a seat | count-then-insert, read-then-claim, a licence that dies during a request, fail-open and fail-closed paths | a claim is spent once, dead keys open nothing, leaked keys take no seats, a holder keeps the seat |
| Default package cache | `licensing/default-package.service.ts` | designation row, in-memory cache, one load in flight | serve, refresh, designate, guard deletion | a load overtaken by a designation, outages | an outage never enriches or empties the free tier; a designation is soon served |
| Staff accounts and roles | `auth/*`, `admin/rbac.service.ts` | users, roles, `tokenVersion`, `refreshTokenId` | login, rotate, logout, edit users and roles | check-then-act everywhere | a replayed refresh token kills the session; one administrator remains unless edits overlap |
| Portal login | `portal/customer-auth.*`, `portal/portal-auth.controller.ts`, `licensing/entities/customer.entity.ts` | `magicNonce`, `sessionEpoch` | request a link, mail it, redeem it, log out everywhere; administrators create, edit and delete the customer | nonce compared then burned, epoch read before a logout, stale edits | a link opens only what was under way when it was spent, a logout reaches every session and the sign-in under way |
| Portal limits and log | `portal/refresh-rate-limiter.ts`, `portal/refresh-log.service.ts`, `portal/sharing-detector.service.ts` | in-memory windows, event log, soft flag | allow, record, flag | eviction | never changes entitlement |
| Entitlement events | `delivery/entitlement-events.service.ts` | in-memory subscribers | subscribe, publish | caps, leaks | losing one costs only latency |
| Bundle delivery | `delivery/engine.controller.ts`, `delivery/*-bundle-storage.ts`, `delivery/bundle-url-signer.ts`, `delivery/watermark*.ts` | files or an S3 bucket, the directory promise and the digest memo of a process, URLs out | put, has, get, sign, mark, serve, publish, restore | half-written files, failing disks, restarts and wiped disks, failing open, rows and bytes apart | what a session is told to fetch can be fetched whole, a mark is missed only in the session that failed, lost bytes come back |
| Signing and keys | `licensing/license-signer.service.ts` | key ring | sign, verify | key rotation | unforgeable; expiry is in DurationPolicy |
| Domains, features | `licensing/domain-policy.ts`, `licensing/feature-catalog.ts` | none | validate | - | - |
| Customers, reporting | `admin/admin.controller.ts` | the tables above | list, resend (the customer rows are in Portal login) | cascades | - |
| The rest | email, Stripe client, AI proxy, health, configuration, migrations, start-up | none of their own | I/O | - | - |

### Interaction

A webhook ends in `OrderService.fulfillFromEvent`, which issues a licence in its
transaction and afterwards arms an activation for the buyer's install, sends
mail and nudges open editors. A session reads the defaults, may redeem that
activation, verifies the licence, takes a seat, decides a plan from the
registry and resolves a build. Refreshing a session repeats that from the
licence; refreshing a licence (the portal's endpoint) rewrites its row. Nothing
is locked across these: they meet in the tables.

## The modules

| Module | Models | Extends |
|---|---|---|
| `DurationPolicy` | the arithmetic of terms and token lives | - |
| `LicenseLifecycle` | the licence table and its writers | `DurationPolicy` |
| `PaidCheckout` | what a purchase promises: settle once, issue at most one key after payment in full | - |
| `OrderFulfilment` | orders, ledger, webhook, force-fulfil, retrieval; implements `PaidCheckout` | - |
| `VersionResolution` | the version chain, channel and canary rules, feature intersection, plan choice | - |
| `EngineRegistry` | the registry and the sessions that resolve against it | `VersionResolution` |
| `DeliveryAccess` | activations, seats and the two session endpoints up to the decision to serve | - |
| `DefaultPackage` | what unlicensed visitors receive: the designation, each process's cache and its load, boot, package edits and removals | - |
| `StaffAccounts` | accounts, roles, sign-in, rotation and revocation of staff sessions, the role and account edits | - |
| `PortalLogin` | customers' links, sessions, logouts and the administrators who edit the same rows | - |
| `BundleDelivery` | bundles from their upload to what a browser downloads: both storage drivers, marks, signed URLs, the endpoint | - |
| `*Proofs` | theorems about each | the component and TLAPS |
| `MC*` | instances for TLC | the component |

How they correspond to the code:

* **One action for each database access.** A handler is a Begin (its reads and
  early returns) and a Commit (its save), or one action for each await where
  more than two matter. What the request holds in between is in `op`, `work`,
  `task`, `sess` or `req`. Guards are the code's conditions; a refused request
  takes no step unless it changes state.
* **Saves.** `CommitRenew`, `CommitRevoke`, `CommitSetDelivery`, `SaveRows` and
  `SaveCanary` write the copy they hold (outside a transaction).
  `RefreshSave` and `CommitReissue` write only what they assigned. A save's own
  re-read and its UPDATE are one step, as are a transaction's snapshot and its
  first read.
* **Time.** `LicenseLifecycle` has an integer clock; in `DeliveryAccess` expiry
  is an action. `SigningDelay` is the gap between the clock a handler reads and
  the clock the signer reads; the instances take 0, the theorems about tokens any.
  In `PortalLogin` and `BundleDelivery` links, sessions and URLs expire at any moment.
* **Failures.** `Fail` in `OrderFulfilment` is an error or a deploy at any await;
  `Abandon` in `EngineRegistry` likewise; in `DeliveryAccess` every lookup may
  fail in the direction the code chooses (seats open, claims closed), and
  `Fail` kills the request; in `DefaultPackage` any query of a load or of the
  seed may fail (`Outages`), and `Restart` loses a process's memory and requests;
  in `BundleDelivery` `Faults` names what may fail (the directory, any storage
  call, the process, the disk with all bundles), `MaxFaults` how often, and an
  upload may succeed although its answer is lost.
* **History variables** (`sold`, `lastExp`, `reminders`, `minted`, `shown`,
  `chosen`, `lost`, `armed`, `won`, `topCap`, `welcome`, `seen`, `steady`,
  `changes`, `granted`, `newest`, `killed`, `overtaken`, `contested`, `spent`, `left`,
  `logouts`, `restored`, and the `failed` and `backed` of a URL) are read by no handler; they let a property speak of the past.
* **Data.** A token is its licence claim and expiry, a bundle its digest, a
  customer or an install a model value, a package its term rule or its
  features. Signatures are unforgeable: a key that does not verify behaves like
  that of an ended licence. Wording, logging, mail bodies and DTO validation
  are left out.
* **External.** Stripe is `Pay`, `settled` and `owed`: it redelivers an event
  until it sees a 2xx. The loss of an ephemeral disk is `LoseBytes`.

Simplifications worth knowing: all licences of an instance were sold under one
package; the cascade from a deleted customer to his licences
(`license.entity.ts:33`), the sharing flag, `isTest`, domains (beyond own or
foreign) and per-key rate limits are not modelled; the two default pointers of
a session are read in one step, and so are the several reads of `isComplete`;
`promote` checks and reads its rows in one step; `haltCanary` finds and deletes
in one step. `DeliveryAccess` lets a licence become usable and unusable at any
moment, which covers every course `LicenseLifecycle` allows, and draws the plan
from the set the registry could decide. In `DefaultPackage` the seed looks for
its package and creates it in one step (it may find the feature table empty at any boot and skip), no query hangs for ever, and the two
queries of a designation's refresh are those of any load; emptying a package is
refused by its DTO before the service sees it, so `Patches` has no empty list,
but a stale save may write back the empty list of a legacy row it read.
In `StaffAccounts` the seed is only the initial state, tokens do not expire,
the reads and checks of `updateUser` are one step, as are `createRole` and
`deleteRole` (whose window the foreign key closes), and a save may write a row
that was deleted since it was read only if it holds all its columns. In
`PortalLogin` nonces are numbers never used twice, and the random nonce a
redemption leaves is one no link carries. In `BundleDelivery` a digest is the
content it names (a bundle, with or without the mark of one licence), so two
builds may share bytes but no two contents a digest; a publish with bytes whose
hash or size differ is refused before anything changes and takes no step; the
digest check of the loader, conditional requests and headers are left out.

## What the runs check

| Run | Bounds | Shows |
|---|---|---|
| `lifecycle_reissue` | 2 rows, 2 requests, clock to 2 | `TermCarriedExactly`, `HandedBackTokenResolves`; `OnlyStaleSaveRevives` and `OnlyLateReissueOutlives`, which name the only ways a revocation is undone and a term outlived, with reissues, revokes, refreshes and delivery edits overlapping |
| `lifecycle_serial` | 1 request, a legacy and a sold row, 3 licIds, package edited, withdrawn, deleted | `TypeOK`, `StoredTermInv`, `OneLivePerLineage`, `RevokedLineageStaysDead` over long sequences of legal calls |
| `orders` | 2 orders, one of which an administrator may force, 2 requests, 2 faults | the order nobody forces follows `PaidCheckout` (`KeepsPromise`) and shows its key once (`KeyShownOnce`); for both, 2xx only when settled (`AnsweredIsSettled`) and every paid order settled (`PaidIsSettled`) |
| `registry_sessions` | 2 versions, 1 administrator, 1 session of 3 kinds of customer | `CompleteMatrix`, `DefaultBuildCovers`, `PinIsAPromise` while everything moves |
| `registry_admins` | 2 versions, 2 scopes, 2 administrators, rival uploads, redeploys, failures | `RollbackTargetWasChosen`, `BytesBehindRow` |
| `delivery_claims` | 2 licences, 1 install, 2 purchases, 2 requests, no cap | `TypeOK`, `ClaimsWithinArmings`, `OnlyWhileUsable` |
| `delivery_seats` | 1 licence, 3 installs, 2 requests, cap 1 or none | `OnlyWelcomeSeats`, `SeatsWithinRace`, `KnownSeatServed` |
| `default_package` | 1 process, 1 redeploy, 2 administrators making 3 requests, 2 packages and 2 lists besides the empty one, failing queries | `TypeOK`, `ServesChosen`, `NeverGoesBack`, `ComesToServe` from a first boot |
| `staff_sessions` | 3 accounts, 3 roles, 3 requests that overlap freely, 4 operations asked | `TypeOK`, `NoStaleGrants`, `KilledStaysDead`, `ManagerRemains` while staff sign in, refresh, replay, log out and edit one another |
| `portal_login` | 1 customer, 3 requests, 3 links, 2 logouts | `TypeOK`, `LinkOpensWithinRace`, `LogoutReachesSignIns` while links are asked for and redeemed, the customer logs out and is edited, deleted and put back by a stale save |
| `bundle_delivery` | 2 builds and 2 contents of each bundle (plain, marked), 1 licence, both drivers, 2 requests, 2 URLs, 2 faults of 4 kinds | `TypeOK`, `PromisedIsServed`, `UnmarkedOnlyOnFailure`, `BytesComeBack` |

Why these bounds suffice: every hazard listed in `PROJECT.json` needs two
overlapping requests (one stale), one more event between them, and a boundary
crossed by the clock, all of which fit; each property is also violated by a
plausible bug within them (the mutants in `PROJECT.json`). A 'once' or monthly
term is 2 ticks, a yearly one 3, the ceiling of a token 4 and its configured default life 3, so that terms begin,
run out and are crossed while a request is in flight. Versions 1 and 2 differ
in a feature moved out of the free build. One customer is enough for
`portal_login`, since no request touches the rows of two; three links are one
redeemed, one replaced and one fresh. Two faults let a disk fail and then be
wiped, and `digest_upper_case` has the spelling `bundle_delivery` leaves out. Three installs and a cap of one give
a holder, a racer and a latecomer. In `staff_sessions` four requests are a
sign-in or two and the edits that overlap, and three in flight let a third one
come between the check and the save of two. Nothing is serialised, because
nothing in the code is; what an overlap breaks is excepted by name. `overtaken`
holds the accounts saved from a copy that a revocation overtook (the save writes
back the version the revocation changed): `NoStaleGrants` and `KilledStaysDead`
leave those out, and `rename_revives_token` shows why. `contested` says that
somebody lost the management of accounts while another account edit was between
its check and its save, or that a role lost it: `ManagerRemains` leaves those
histories out, and `SomebodyManages`, which does not, is refuted both ways.
Processes share only the tables, and anything
another process writes an administrator of this one can write as well, so one
process with two administrators is enough for `default_package`. `CHECK_DEADLOCK FALSE` is set because each
instance ends: its clock, rows, faults or uploads run out, or nobody sends a
request; it is not set in `bundle_delivery`, where sessions never end. Symmetry is used over interchangeable requests, installs and orders,
and never in a run with liveness.

**Fairness.** `orders`, `default_package` and `bundle_delivery` need it. In the first, `WF(Handle(w))`: a request the
event loop has started is served to its end. `SF` of delivering an owed event:
Stripe retries while no 2xx has been seen, and eventually reaches a live
instance (faults are bounded by `MaxFaults`). In `default_package`,
`WF` of `Visit` and `Age`: visitors keep coming (the editor asks for a session on
every load) and 30 s pass. `WF` of the boot: `onModuleInit` is awaited to its
end. `SF` of each query of a load: an outage ends, so not every query of a kind
fails for ever; `WF` would not do, since a failed load disables its next query.
In
`bundle_delivery`, `WF(Handle(r))` again, and `SF` of restoring each build: the
health check reports a build whose bytes are gone, and the documented repair is
to upload them again until it no longer does. Elsewhere no buyer or
administrator is assumed to act, or to finish what was started.

### Where the code and its documents disagree

One disagreement is a run with `expect: violation`, quoted under "findings":

* `force_mints_twice`: `fulfillFromEvent` does not load `order.license`, so its
  already-fulfilled guard never fires; webhook and force-fulfil mint one each.

Further instances can be run by hand with `tlc -config <name>.cfg MC...`; each
refutes the property it lists, against what the code says of itself. Where the
first column names a property too, take the config of that run, with that
property in place of its own:

| Config | Refutes | The code says |
|---|---|---|
| `renew_ends_perpetual` | a renewed lifetime licence whose package was deleted becomes finite | "it can't turn a lifetime into a finite term" (`license.service.ts:285`) |
| `renew_shortens_term` | a renew may leave less term than before | "deliberate term EXTENSION" (`license.service.ts:277`) |
| `renew_orphans_refreshed_token` | a refresh and a renew overlap and the stored token names no row | "no orphaning" (`refresh.service.ts:159`) |
| `renew_undoes_revocation` | renew's stale save revives a revoked row | a revoked licence is refused (`license.service.ts:267`) |
| `portal_revives_revoked` | a revoke between the portal's read and its reissue leaves a live key | "Revocation remains the deliberate kill switch" (`portal-license.service.ts:14`) |
| `lifecycle_reissue`, `OneLivePerLineage` | two rebinds of one row leave two live keys | "atomically revoke the old + mint" (`license.service.ts:486`) |
| `lifecycle_reissue`, `TokenWithinTerm` | a reissue is overtaken by the end of the term, its clamp finds nothing left and the token gets the default life | "keeps exp <= renewUntil" (`license.service.ts:222`) |
| `lifecycle_reissue`, `ReminderOncePerTerm` | two refreshes at once read the mark unset and both send the reminder | "it can't double-send across concurrent refreshes" (`refresh.service.ts:186`) |
| `reissue_drops_pin` | a reissue forgets the pinned version | "Pinning is a promise" (`license.entity.ts:163`) |
| `orders`, `AnyKeyShownOnce` | a late save of a forced order resets `licenseDelivered` | "SINGLE-USE" (`order.service.ts:436`) |
| `canary_underserves` | the plan is decided against the default while the canary chooses another version, whose free build lacks a paid feature | "the PLAN is decided against the very build the version chain is about to resolve" (`session.service.ts:180`) |
| `default_dead_ends` | a default is on a channel its callers may not use | "a default must be something every plan can actually be served" (`engine-version.service.ts:145`) |
| `promote_unretires` | promote's stale rows undo a retire | "never resolved as a default" (`engine-version.entity.ts:31`) |
| `delivery_claims`, `KeyHandedWithClaim` | a paid package that fits the free build spends the single-use activation and hands over no key | "Hand the key over exactly once" (`session.controller.ts:182`) |
| `delivery_claims`, `KeyToOneRequest` | a claim read before a re-arming hands the old key to a second request | single-use (`license-activation.service.ts:72`) |
| `delivery_seats`, `SeatsWithinCap` | two installs pass a cap of one together | "at most `maxInstalls`" (`license-install.service.ts:5`) |
| `designation_not_live` | a designation joins a load that read the old row, and is answered while the old package is served | "Refresh immediately so the change is live now" (`default-package.service.ts:267`) |
| `seed_overwrites` | two processes boot, an administrator designates, the slower seed overwrites it | "already designated - never overwrite" (`default-package.seed.ts:67`) |
| `staff_sessions`, `RedeemedOnce` | two refreshes present one token before either rotates it, and both are answered with a pair | "Reuse of an already-rotated refresh token" is refused (`auth.service.ts:137`) |
| `rename_revives_token`, `NeverRevived` | an account edit saves the `tokenVersion` it read before a revocation, and the revoked pair works again | "takes effect on their very next request" (`rbac.service.ts:11`) |
| `staff_sessions`, `SomebodyManages` | two edits each see the other's manager remain, and both save: nobody can manage accounts | "you must never remove the last person who can create/repair admin accounts" (`rbac.service.ts:233`) |
| `role_edit_locks_out`, `SomebodyManages` | editing the managers' role takes the last manager's power, unguarded | "you must never remove the last person who can create/repair admin accounts" (`rbac.service.ts:233`) |
| `delivery_seats`, `ReadmittedStays` | a slower request blocks a seat readmitted meanwhile | "a KNOWN install always passes" (`license-install.service.ts:19`) |
| `portal_login`, `OpensOnce` | two requests redeem one link before either burns it | "an emailed link works exactly once" (`customer.entity.ts:32`) |
| `portal_login`, `LogoutIsFinal` | an administrator's edit that read the customer before a logout saves the old epoch, and the sessions ended by it work again | "all outstanding sessions for this customer stop verifying immediately" (`customer.entity.ts:43`) |
| `portal_login`, `FreshLinkWorks` | a slow redemption burns a link asked for meanwhile, which was never used | "Burn the nonce so the link can't be used twice" burns whichever is current (`customer-auth.service.ts:88`) |
| `mkdir_failed_once` | one failed mkdir is remembered by the process: every upload fails until a restart | "Create the storage directory once, lazily" (`local-bundle-storage.ts:31`) |
| `digest_upper_case` | a manifest that spells its digest in upper case is published and called complete, and every URL a session gets for it is a 404 | "whose BYTES ARE ACTUALLY DOWNLOADABLE" (`engine-version.service.ts:585`) |

## What is proved

Each theorem holds for every value of the constants that satisfies the named
assumption of its module, without bounds on rows, requests or time.

| Theorem | Property | Argument |
|---|---|---|
| `LicenseLifecycleProofs!TypeCorrect` | `TypeOK` | by action |
| `StoredTerm` | `StoredTermInv` | `StoredTermIInv`: not only rows but every held copy carries at most the term of its lineage, and no package state gives a legacy row more; without the copies a Commit could write anything |
| `TokensOutliveByReissue` | `OnlyLateReissueOutlives` | `GatedIInv` adds to `StoredTermIInv` that a refresh in progress still reads its clock before the boundary and a renew holds a row that was active; then the clamp leaves every expiry within the boundary and the delay of the signer, and a late reissue the default life |
| `TokensWithinDelay`, `TokensWithinTerm` | `TokenWithinTerm` but for the signer's delay, and exactly where it is 0 | from the same invariant; assume no reissue, which the refutation of `TokenWithinTerm` in `lifecycle_reissue` shows to be needed |
| `RevivedByStaleSave` | `OnlyStaleSaveRevives` | `GatedIInv`, by commit: a transaction's save leaves the status alone or revokes |
| `UnrenewedAsSold` | every row of a lineage as sold | `ExactIInv(r)`, for the rows and every copy held of one lineage that no commit of a renew touches: the term recorded is the term sold, the token names its own row; the copies are needed because a revocation and a delivery edit write theirs back whole |
| `TermsCarriedExactly`, `HandedBackResolves` | `TermCarriedExactly`, `HandedBackTokenResolves` | `ExactIInv` for every lineage at once; assume no `renew` among the operations, which `renew_shortens_term` and `renew_orphans_refreshed_token` show to be needed |
| `SecondKeysHaveTwoCauses` | one live key, dead stays dead, but for two causes | by commit, from `GatedIInv`: a commit that saves the status its row still has, and does not replace a revoked key, adds no live key |
| `SerialLineageHasOneKey` | the same without exception, for one lineage | `Fresh(r)`: while its requests are one at a time, a copy has the status of its row |
| `OneKeyPerSale`, `RevokedLineagesStayDead` | `OneLivePerLineage`, `RevokedLineageStaysDead` | the last for every lineage; assume requests one at a time, and neither `regenerate` nor the portal's, which accept a revoked key (`portal_revives_revoked`) |
| `OrderFulfilmentProofs!TypeCorrect` | `TypeOK` | by action |
| `LedgerNeverBurned`, `AnswersAreSettled` | `LedgerMeansLicensed`, `AnsweredIsSettled` | `SettlementIInv`: a recorded event's order has a licence, and a request past its commit is in the ledger |
| `OnceByWebhook`, `ShownOnceByWebhook`, `FulfilledForGood` | no second licence, `KeyShownOnce`, `FulfilledStays` | `WebhookIInv`, for each order outside `Forced`, whatever happens to the others: a fulfilled order's event is in the ledger, so no request in flight can take it again |
| `WebhookKeepsPromise` | `KeepsPromise` | initial states map to initial states, each action to a `Settle`, an `Issue` or a stutter |
| `EngineRegistryProofs!TypeCorrect` | `TypeOK` | by action |
| `RowsHaveBytes`, `NeverReplaced` | `BytesBehindRow`, `PublishedNeverChanges` | `RowsIInv`: held row copies agree with the table on what is immutable; a publish that reached its save has stored its bytes |
| `BothBuildsBehindDefaults` | `CompleteMatrix` | `MatrixIInv`: pointers, canaries and every target held by a request have a row for each plan |
| `RollbacksLeadBack` | `RollbackTargetWasChosen` | `ChosenIInv`: a scope's default, the target its history names and every version a request carries between reading one and writing the other were chosen for that scope, and choices are only added to |
| `PinsAreKept` | `PinIsAPromise` | `PinIInv`: from the step that chooses the version on, a pinned session holds the pin and its source, which the guard of the default steps exempts |
| `FreeNeverUnderserves` | the free build only to whom it suffices | `CoverIInv`: the version the plan was decided against is the one a default then decides, it has both rows (`MatrixIInv`), and rows keep their bundle |
| `DefaultsServeThePackage` | `DefaultBuildCovers` | the same with `OfferIInv` (a row's bundle was on offer for its version and plan); assumes `PremiumIsRicher`, below |
| `DeliveryAccessProofs!TypeCorrect` | `TypeOK` | by action |
| `ClaimsAreSingleUse` | `ClaimsWithinArmings` | `ClaimIInv`: claims won plus one for an unclaimed row never exceed armings |
| `GrantedWhileUsable` | `OnlyWhileUsable` | `KeyIInv`: what a request holds after its check was usable since it began |
| `SeatsAreWelcome` | `OnlyWelcomeSeats` | `WelcomeIInv`: a request on its way to a seat passed every check |
| `SeatsAreKept` | `KnownSeatServed` | `SteadyIInv`: until the cap is decided, a watched request's install is active in the table, and what was found active is not turned away |
| `SeatsRaceBounded` | `SeatsWithinRace` | `RaceIInv`: seats active or headed for number at most the largest cap plus the requests in flight, less one, because only an install that found room joins |
| `StaffAccountsProofs!TypeCorrect` | `TypeOK` | by action: a removed role is held by nobody, because the foreign key refuses the deletion otherwise |
| `RevokedUnlessOutdated` | the revoked pairs of one account stay dead, but for a step | `OrderIInv(u)`, about one account and the copies held of it: nothing but a save of a copy that a revocation of that account overtook takes its version back; the save itself is the only step excluded, as in `rename_revives_token` |
| `RevokedStaysDead` | `KilledStaysDead` | `OrderIInv(u)` for every account not yet `overtaken`: no pair is ahead of its account's version, a copy about to be saved is not behind it unless its save will put the account among the overtaken |
| `GrantsNeverStale` | `NoStaleGrants` | `GrantsIInv(u)`, again for every account not overtaken: every pair and every request about to sign one holds at most the account's permissions, is of an older version, or is owed a bump not yet done (stronger than the property, which also counts a bump being finished) |
| `ManagerUnlessContested` | `ManagerRemains` | `OfficeIInv`: until the first contest, a request between the check and the save of an edit that ends somebody's management leaves another manager, because whatever ended his in between was a contest; assumes an active administrator in the seed |
| `DefaultPackageProofs!TypeCorrect` | `TypeOK` | by action |
| `DefaultNeverDangles` | `DefaultExists` | by action: only the row's foreign key, not the check before it, keeps the last step safe |
| `ServedWasChosen` | `ServesChosen` | `ServesIInv`: what a load has read was designated, what a row holds was granted |
| `RefreshesInOrder` | `NeverGoesBack` | `OrderIInv`: a process has one load at a time, and what it read lies between what is cached and the present |
| `PortalLoginProofs!TypeCorrect` | `TypeOK` | by action |
| `LinksOpenWithinRace` | `LinkOpensWithinRace` | `RaceInv`: a nonce in a row or on its way was minted, and no spent one is in a row (`NonceInv`), so nobody passes the comparison with a spent link; the requests past it are at most the openings `left`, which every burn takes from both |
| `LogoutsReachSignIns` | `LogoutReachesSignIns` | `EpochInv`: unless an edit put an epoch back, a row's epoch counts its logouts; a session or a sign-in under way carries at most the count of when it was checked |
| `BundleDeliveryProofs!TypeCorrect` | `TypeOK` | by action |
| `PromisesAreServed` | `PromisedIsServed` | `DeliveryInv`: no file is torn, what the memo names is stored, and every URL names stored bytes while its base is backed; assumes `Spellings \subseteq {"lower"}`, which `digest_upper_case` shows to be needed |
| `MarksFailOnlyWithStorage` | `UnmarkedOnlyOnFailure` | `DeliveryInv` and the same assumption: an unmarked URL of a licence is that of a failed storage call, or of a base that was not there |

`PremiumIsRicher` says that the premium bundle offered for a version supports
what its free bundle does. The code relies on it where the registry does not
answer: the fallback is "the RICHER plan" (`engine-version.service.ts:45`,
`session.service.ts`), and that plan is the constant `premium`. Nothing checks it
when a build is published; with a premium bundle that lacks a feature of the free
one, TLC finds a failed lookup that serves the poorer build.
`FreeNeverUnderserves` does not need it.

Only model-checked: liveness (`PaidIsSettled`, `ComesToServe`, `BytesComeBack`),
which is beyond the prover, and the disagreements above. Every other property of
the passing runs is a theorem. No module declares a RECURSIVE operator.

## Not modelled, and the plan

In order:

1. The deletion of a customer with orders and licences: the cascade, and the
   checkout it races (`order.service.ts:239`).
2. `EntitlementEvents`: subscriber caps and clean-up, if the channel maps prove
   to have properties worth stating.

Not planned: the AI proxy, mail, health, usage lines, configuration and
migrations, which are I/O or text; the sharing detector and the rate limiter,
which change no entitlement; signatures.
