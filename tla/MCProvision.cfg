\* One site, deployed three times: a host goes and comes, its address is given to
\* another server, and blocks come, move and go.
CONSTANTS
    NSites = 1
    Versions = {"v1", "v2"}
    Hosts = {"bastion", "c1"}
    Blocks = {"disk", "log"}
    SiteOf <- OneSiteOf
    HostsOf <- OneSiteHosts
    MountedOn <- OneSiteMounts
    BastionOf <- OneBastion
    MaxDeploys = 3
    MaxServers = 4
    MaxBlocks = 3
SPECIFICATION FairSpec
CHECK_DEADLOCK FALSE
INVARIANTS
    TypeOK
    OneLiveServer
    OneLiveBlock
    BootstrapKey
    CreatedIsReady
    Converged
    RightHost
PROPERTIES
    DeployEnds
