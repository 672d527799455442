CONSTANTS
    Hosts = {"c1", "c2"}
    Containers = {"www1", "www2", "api1"}
    Certs = {www, api}
    www = www
    api = api
    HostOf <- TwoHosts
    AliasesOf <- TwoCerts
    Absent = Absent
    Empty = Empty
    MaxTrouble = 3
    MaxRuns = 4
SPECIFICATION FairSpec
CHECK_DEADLOCK FALSE
INVARIANTS
    TypeOK
    AuthorityAgrees
    HostsTrustSigner
    ChainCertifiesKey
    AccountRegistered
PROPERTIES
    EndsCertified
