-------------------------- MODULE VersionResolution --------------------------
(***************************************************************************)
(* Which build a caller receives and what it may use in it: the pure       *)
(* decisions of src/licensing/version-resolution.ts and canary.ts, and     *)
(* planForFeatures of engine-version.service.ts.  A feature is a member of *)
(* a small set; '*' stands for everything the build supports.              *)
(***************************************************************************)
EXTENDS Integers

CONSTANTS
    Versions,
    NoVersion        \* null and '' alike: nothing chosen at this step

ASSUME NoVersionAssumption == NoVersion \notin Versions

Plans == {"free", "premium"}
Channels == {"stable", "beta", "internal"}
ALL_FEATURES == "*"

Maybe == Versions \cup {NoVersion}
Chain == [pin: Maybe, override: Maybe, canary: Maybe, channel: Maybe, global: Maybe]

\* The steps of the chain, the most binding first.
Steps == <<"pin", "override", "canary", "channel", "global">>
Sources == {Steps[k] : k \in 1 .. 5} \cup {"none"}

\* First match wins.
decidingStep(chain) ==
    IF \A k \in 1 .. 5 : chain[Steps[k]] = NoVersion THEN "none"
    ELSE LET k == CHOOSE k \in 1 .. 5 :
                     /\ chain[Steps[k]] # NoVersion
                     /\ \A j \in 1 .. (k - 1) : chain[Steps[j]] = NoVersion
         IN Steps[k]

resolveVersion(chain) ==
    LET source == decidingStep(chain)
    IN  [version |-> IF source = "none" THEN NoVersion ELSE chain[source],
         source |-> source]

-----------------------------------------------------------------------------
\* granted = package features \cap supported features.
resolveFeatures(packageFeatures, supportedFeatures) ==
    IF ALL_FEATURES \in packageFeatures THEN supportedFeatures
    ELSE packageFeatures \cap supportedFeatures

ChannelRank == [stable |-> 0, beta |-> 1, internal |-> 2]
channelAllows(callerChannel, buildChannel) ==
    ChannelRank[buildChannel] <= ChannelRank[callerChannel]

eligibleAsDefault(status) == status = "published"

\* A percentage outside 0 .. 100 never means everyone.
ClampPercent(percent) ==
    IF percent < 0 THEN 0 ELSE IF percent > 100 THEN 100 ELSE percent

\* A caller falls in the canary when its bucket for this release, in 0 .. 99,
\* is below the percentage.
inCanary(bucket, percent) ==
    LET pct == ClampPercent(percent)
    IN pct > 0 /\ (pct >= 100 \/ bucket < pct)

-----------------------------------------------------------------------------
Wanted(packageFeatures) == packageFeatures \ {ALL_FEATURES}

\* (fault) one supported feature is enough
someSupported(wanted, supports) == \E f \in wanted : f \in supports

covers(wanted, supports) == \A f \in wanted : f \in supports

\* The cheapest build that supports everything the package grants, from the
\* builds a version has (supports[p] is {} where plan p has none); the richer
\* plan when none does.
planForFeatures(supports, packageFeatures) ==
    IF Wanted(packageFeatures) = {} THEN "free"
    ELSE IF supports["free"] # {} /\ covers(Wanted(packageFeatures), supports["free"])
    THEN "free" ELSE "premium"
=============================================================================
