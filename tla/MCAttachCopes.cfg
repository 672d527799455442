\* A host goes and its container moves.
CONSTANTS
    NSites = 1
    Versions = {"v1", "v2"}
    Hosts = {"bastion", "c1"}
    Blocks = {"disk", "log"}
    SiteOf <- OneSiteOf
    HostsOf <- OneSiteHosts
    MountedOn <- OneSiteMounts
    BastionOf <- OneBastion
    MaxDeploys = 2
    MaxServers = 4
    MaxBlocks = 3
SPECIFICATION Spec
CHECK_DEADLOCK FALSE
INVARIANTS
    AttachCopes
