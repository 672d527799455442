\* An interface is added to the bastion after a deployment.
CONSTANTS
    b1 = b1
    c1 = c1
    c2 = c2
    NSites = 1
    HostNames = {b1, c1, c2}
    Bastions = {b1}
    SiteOf <- MCSiteOf
    Services = {"dhclient"}
    StripeGroups = {"dhclient"}
    MaxHosts = 3
    ExtraIfaces = {"vtnet2"}
    MaxDeployments = 1
SPECIFICATION Spec
SYMMETRY Symmetry
CHECK_DEADLOCK FALSE
INVARIANT
    OwnGateway
