SPECIFICATION Spec
CONSTANTS
    free = free
    premium = premium
    smaller = smaller
    larger = larger
    Bases <- BothBundles
    NoDigest = NoDigest
    Builds <- FreeAndPremium
    NoBuild = NoBuild
    PlanOf <- TheirPlans
    BundleOf <- TheirBundles
    Licences = {l1}
    NoLicence = NoLicence
    Drivers = {"local", "s3"}
    Spellings = {"lower", "upper"}
    Requests = {r1, r2}
    Faults = {"mkdir", "disk", "redeploy", "wipe"}
    MaxFaults = 0
    MaxLinks = 2
INVARIANT
    CompleteIsDownloadable
