SPECIFICATION FairSpec
CONSTANTS
    free = free
    premium = premium
    smaller = smaller
    larger = larger
    Bases <- BothBundles
    NoDigest = NoDigest
    Builds <- FreeAndPremium
    NoBuild = NoBuild
    PlanOf <- TheirPlans
    BundleOf <- TheirBundles
    Licences = {}
    NoLicence = NoLicence
    Drivers = {"local", "s3"}
    Spellings = {"lower"}
    Requests = {r1, r2}
    Faults = {"mkdir", "disk", "redeploy", "wipe"}
    MaxFaults = 1
    MaxLinks = 2
PROPERTY
    BytesComeBackAlways
