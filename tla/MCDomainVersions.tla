--------------------------- MODULE MCDomainVersions ---------------------------
(* Instance of DomainVersions: the tables whose rows depend on each other in *)
(* different ways.                                                            *)
EXTENDS DomainVersions, TLC

CONSTANTS d1, v1, v2

\* A role is reached only through the capability that names it.
MCParts == {"host_capability", "role", "depl_role"}

MCSymmetry == Permutations({v1, v2})
=============================================================================
