CONSTANTS
    NSites = 2
    HostNames = {"b1", "c1", "c2", "c3"}
    Bastions = {"b1"}
    SiteOf <- MCSiteOf
    Services = {"web", "dhclient"}
    StripeGroups = {"web", "www", "dhclient"}
    ExtraIfaces = {}
    MaxDeployments = 2
    MaxHosts = 3
    Requests <- MCRequests
    SlotFactor <- MCFactor
    Slots <- MCSlots
    MaxCaps = 3
SPECIFICATION PlacementSpec
CHECK_DEADLOCK FALSE
INVARIANTS
    TypeOK
    NoOvercommit
    ContainerAddressesDistinct
    StripesDistinct
    KeptInPlace
