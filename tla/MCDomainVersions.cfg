\* One domain, a draft and as many frozen versions as there are names, and objects
\* read before a snapshot that are used after it. Names are interchangeable.
CONSTANTS
    d1 = d1
    v1 = v1
    v2 = v2
    Domains = {d1}
    Names = {v1, v2}
    Parts <- MCParts
    MaxVersions = 3
SYMMETRY MCSymmetry
SPECIFICATION Spec
INVARIANTS
    TypeOK
    DraftIsNewest
    SessionOnNewest
    SelfContained
PROPERTIES
    ImplementsVersionLog
