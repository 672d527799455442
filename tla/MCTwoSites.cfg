\* Two sites, each a bastion, on the one account of the domain.
CONSTANTS
    NSites = 2
    Versions = {"v1"}
    Hosts = {"bastion", "bastion2"}
    Blocks = {"disk"}
    SiteOf <- TwoSiteOf
    HostsOf <- TwoSiteHosts
    MountedOn <- TwoSiteMounts
    BastionOf <- TwoBastions
    MaxDeploys = 1
    MaxServers = 3
    MaxBlocks = 2
SPECIFICATION Spec
CHECK_DEADLOCK FALSE
INVARIANTS
    EveryHostLive
