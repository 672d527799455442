\* One site; hosts and deployments in any order.
CONSTANTS
    NSites = 1
    HostNames = {"b1", "c1"}
    Bastions = {"b1"}
    SiteOf <- MCOneSite
    Services = {"web", "dhclient"}
    StripeGroups = {"web", "www", "dhclient"}
    MaxHosts = 3
    ExtraIfaces = {}
    MaxDeployments = 1
    Requests <- MCRequests
    SlotFactor <- MCFactor
    Slots <- MCOneSlots
    MaxCaps = 1
SPECIFICATION PlacementSpec
CHECK_DEADLOCK FALSE
INVARIANT
    ContainersAddressed
