\* Roots small enough to run out: 32 addresses for the sites, 16 for each deployment.
CONSTANTS
    Requests <- MCRequests
    Seqnums = {255, 256}
    SharedPrefixLen = 27
    DeploymentPrefixLen = 28
    MaxSubnets = 4
SPECIFICATION Spec
CHECK_DEADLOCK FALSE
INVARIANTS
    TypeOK
    AddressesDisjoint
    WithinRoot
    TightestFit
    ExhaustedMeansFull
