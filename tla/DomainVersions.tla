--------------------------- MODULE DomainVersions ---------------------------
(* The versions of a domain and the session that works on them               *)
(* (frieze/_core.py): set_domain, the mutators guarded by @friezetxn, the    *)
(* rc_* switches, OAG_Domain.snapshot, txnclone and the database effect of   *)
(* deploy, by one operator whose process may stop and start again.           *)
(*                                                                           *)
(* Abstraction: a version consists of parts, one per table that refers to a  *)
(* domain; two rows of one table are not told apart. The provider side of    *)
(* deploy is module Provision. openarc's OADbTransaction rolls every row back*)
(* when its body raises, and its unique indices raise. An object holds the   *)
(* version name it read with its row; objects of one row are refreshed one by*)
(* one, if at all (txnclone does it by hand). The lists of rows that hang off*)
(* an object are read when they are asked for.                               *)
EXTENDS Naturals, Sequences, FiniteSets

CONSTANTS
    Domains,       \* domain names
    Names,         \* version names a snapshot may draw
    Parts,         \* the parts of a version this instance tells apart
    MaxVersions    \* bound on the OAG_Domain rows

\* The tables under a domain that a mutator fills and the one each row hangs off.
AllParts == {"site", "host", "net_iface", "sysctl", "host_capability",
             "host_knob", "role", "deployment", "depl_capability", "depl_mount",
             "depl_knob", "depl_alias", "depl_role", "subnet"}
Capabilities == {"host_capability", "depl_capability"}

ASSUME PartsAssumption == Parts \subseteq AllParts
ASSUME NamesAssumption == "" \notin Names
ASSUME BoundAssumption == MaxVersions \in Nat

VARIABLES
    rows,      \* the OAG_Domain rows, in creation order
    p_domain,  \* the session's domain: NoSession, or a name and a row
    stale      \* rows with a name of which some object is still without it

vars == <<rows, p_domain, stale>>
-----------------------------------------------------------------------------
NoSession == [domain |-> "none", row |-> 0]

\* p_domain points at a row that was rolled back.
Phantom(d) == [domain |-> d, row |-> 0]

RowIds == DOMAIN rows

is_frozen(i) == rows[i].version # ""

\* What friezetxn and snapshot look at: the name in the object at hand. It is
\* missing from every object of a draft, and from those older than a snapshot.
SeenAsDraft(i) == ~is_frozen(i) \/ i \in stale

RowsOf(d) == {i \in RowIds : rows[i].domain = d}

\* OAG_Domain(domain, 'by_domain')[-1]
Newest(d) == CHOOSE i \in RowsOf(d) : \A j \in RowsOf(d) : j <= i

\* The unique index on (domain, version_name).
Taken(d, version) == \E i \in RowsOf(d) : rows[i].version = version

NewRow(d, parts, enabled) ==
    [domain |-> d, version |-> "", deployed |-> FALSE, parts |-> parts,
     enabled |-> enabled]

\* The rows a part refers to: it exists in a version only together with them.
Parent(part) ==
    CASE part = "host"            -> {"site"}
      [] part = "net_iface"       -> {"host"}
      [] part = "sysctl"          -> {"host"}
      [] part = "host_capability" -> {"host"}
      [] part = "host_knob"       -> {"host_capability"}
      [] part = "depl_capability" -> {"deployment"}
      [] part = "depl_mount"      -> {"depl_capability"}
      [] part = "depl_knob"       -> {"depl_capability"}
      [] part = "depl_alias"      -> {"depl_capability"}
      [] part = "depl_role"       -> {"depl_capability", "role"}
      [] OTHER                    -> {}

\* What the loops of txnclone walk over; a row they reach brings along the
\* rows it refers to (db_clone_with_changes descends the forward keys).
Walked == AllParts \ {"host_knob", "role"}

\* A mutant: the forward keys are not descended.
CloneOf_WalkedOnly(parts) == parts \cap Walked

CloneOf(parts) ==
    LET walked == parts \cap Walked
    IN  walked \cup {p \in parts : \E w \in walked : p \in Parent(w)}
-----------------------------------------------------------------------------
Init == /\ rows = << >>
        /\ p_domain = NoSession
        /\ stale = {}

AddRow(row) ==
    /\ Len(rows) < MaxVersions
    /\ rows' = Append(rows, row)

\* set_domain when the session does not hold the domain, but the database does.
\* (With the domain already in the session it returns p_domain as it is.)
set_domain_Found(d) ==
    /\ p_domain.domain # d
    /\ RowsOf(d) # {}
    /\ p_domain' = [domain |-> d, row |-> Newest(d)]
    /\ UNCHANGED <<rows, stale>>

\* set_domain for a new name: one transaction creates the row, its first SITE
\* subnet and the certificate authority, and p_domain is assigned on the way.
set_domain_Create(d) ==
    /\ p_domain.domain # d
    /\ RowsOf(d) = {}
    /\ AddRow(NewRow(d, {"subnet"} \cap Parts, {}))
    /\ p_domain' = [domain |-> d, row |-> Len(rows) + 1]
    /\ UNCHANGED stale

\* assign_subnet or trust().initialize() raises: the row is rolled back, the
\* global p_domain is not.
set_domain_Fails(d) ==
    /\ p_domain.domain # d
    /\ RowsOf(d) = {}
    /\ p_domain' = Phantom(d)
    /\ UNCHANGED <<rows, stale>>

\* A mutant: the decorator is missing.
add_Unguarded(i, part) ==
    /\ part \notin rows[i].parts
    /\ Parent(part) \cap Parts \subseteq rows[i].parts
    /\ rows' = [rows EXCEPT ![i].parts = @ \cup {part}]
    /\ UNCHANGED <<p_domain, stale>>

\* A mutator: add_site, add_host, add_iface, add_role, add_deployment,
\* add_capability, assign_subnet. A part already there is found and returned.
add(i, part) ==
    /\ SeenAsDraft(i)                    \* friezetxn
    /\ part \notin rows[i].parts
    /\ Parent(part) \cap Parts \subseteq rows[i].parts
    /\ rows' = [rows EXCEPT ![i].parts = @ \cup {part}]
    /\ UNCHANGED <<p_domain, stale>>

\* OAG_Capability.rc_enable, rc_disable and rc_delete carry no @friezetxn.
rc_enable(i, cap) ==
    /\ cap \in rows[i].parts \cap Capabilities
    /\ rows' = [rows EXCEPT ![i].enabled = @ \cup {cap}]
    /\ UNCHANGED <<p_domain, stale>>

rc_disable(i, cap) ==
    /\ cap \in rows[i].parts \cap Capabilities
    /\ rows' = [rows EXCEPT ![i].enabled = @ \ {cap}]
    /\ UNCHANGED <<p_domain, stale>>

\* snapshot raises when the object is frozen or the name drawn is taken. The
\* name is put into the row and the object; there may be others of the row.
snapshot(i, name) ==
    /\ SeenAsDraft(i)
    /\ ~Taken(rows[i].domain, name)
    /\ rows' = [rows EXCEPT ![i].version = name]
    /\ stale' \in {stale \ {i}, stale \cup {i}}
    /\ UNCHANGED p_domain

\* The last object of the row that is without its name is read again, or let go.
Refresh(i) ==
    /\ i \in stale
    /\ stale' = stale \ {i}
    /\ UNCHANGED <<rows, p_domain>>

\* A mutant: the index on (domain, version_name) is not unique.
txnclone_NoIndex(i) ==
    /\ AddRow(NewRow(rows[i].domain, CloneOf(rows[i].parts), rows[i].enabled))
    /\ p_domain' = [domain |-> rows[i].domain, row |-> Len(rows) + 1]
    /\ UNCHANGED stale

\* A mutant: the session keeps the version it had.
txnclone_KeepSession(i) ==
    /\ ~Taken(rows[i].domain, "")
    /\ AddRow(NewRow(rows[i].domain, CloneOf(rows[i].parts), rows[i].enabled))
    /\ UNCHANGED <<p_domain, stale>>

\* txnclone from any handle of version i. The clone has no name, so the unique
\* index refuses it (and all is rolled back) while the domain has a draft.
txnclone(i) ==
    /\ ~Taken(rows[i].domain, "")
    /\ AddRow(NewRow(rows[i].domain, CloneOf(rows[i].parts), rows[i].enabled))
    /\ p_domain' = [domain |-> rows[i].domain, row |-> Len(rows) + 1]
    /\ UNCHANGED stale

\* deploy(push=True) run to its end; stopped earlier it leaves the row alone.
deploy(i) ==
    /\ is_frozen(i)
    /\ rows' = [rows EXCEPT ![i].deployed = TRUE]
    /\ UNCHANGED <<p_domain, stale>>

\* A mutant: the name is forgotten, the row is not.
Restart_KeepRow ==
    /\ p_domain # NoSession
    /\ p_domain' = [p_domain EXCEPT !.domain = NoSession.domain]
    /\ stale' = {}
    /\ UNCHANGED rows

\* The process ends: the module-level p_domain is lost, and every object.
Restart ==
    /\ p_domain # NoSession
    /\ p_domain' = NoSession
    /\ stale' = {}
    /\ UNCHANGED rows

Next ==
    \/ \E d \in Domains :
          set_domain_Found(d) \/ set_domain_Create(d) \/ set_domain_Fails(d)
    \/ \E i \in RowIds :
          \/ \E part \in Parts : add(i, part)
          \/ \E cap \in Capabilities : rc_enable(i, cap) \/ rc_disable(i, cap)
          \/ \E name \in Names : snapshot(i, name)
          \/ Refresh(i)
          \/ txnclone(i)
          \/ deploy(i)
    \/ Restart

Spec == Init /\ [][Next]_vars

-----------------------------------------------------------------------------
Row == [domain : Domains, version : Names \cup {""}, deployed : BOOLEAN,
        parts : SUBSET Parts, enabled : SUBSET Capabilities]

\* Type correctness.
TypeOK ==
    /\ rows \in Seq(Row)
    /\ Len(rows) <= MaxVersions
    /\ \/ p_domain = NoSession
       \/ p_domain \in [domain : Domains, row : 0..Len(rows)]
    /\ stale \subseteq {i \in RowIds : is_frozen(i)}

\* The version being worked on is the newest of its domain, hence the only one:
\* set_domain after a restart takes the newest row and so resumes that work
\* instead of handing out a frozen version.
DraftIsNewest ==
    \A i, j \in RowIds :
        rows[i].domain = rows[j].domain /\ ~is_frozen(i) => j <= i

\* The version the session hands out is the newest of its domain, across
\* clones, restarts and changes of domain: nothing is added to a version that
\* has a successor.
SessionOnNewest ==
    p_domain.row > 0 =>
        /\ rows[p_domain.row].domain = p_domain.domain
        /\ \A j \in RowsOf(p_domain.domain) : j <= p_domain.row

\* Every row a version refers to belongs to the same version: a clone never
\* keeps a reference into the version it was taken from.
SelfContained ==
    \A i \in RowIds : \A part \in rows[i].parts :
        Parent(part) \cap Parts \subseteq rows[i].parts

\* The n-th element of a set of row numbers, in their order.
Rank(S, i) == Cardinality({j \in S : j <= i})
Nth(S, n)  == CHOOSE i \in S : Rank(S, i) = n

\* The domain's history, as VersionLog sees it: its frozen rows in the order
\* they were created in.
FrozenRows(d) == {i \in RowsOf(d) : is_frozen(i)}
LogEntry(row) == [name |-> row.version, parts |-> row.parts, deployed |-> row.deployed]

LogOf(d) == [n \in 1..Cardinality(FrozenRows(d)) |-> LogEntry(rows[Nth(FrozenRows(d), n)])]

DraftOf(d) == {rows[i].parts : i \in RowsOf(d) \ FrozenRows(d)}

Logs   == [d \in Domains |-> LogOf(d)]
Drafts == [d \in Domains |-> DraftOf(d)]

\* What the loops do not walk over: the knobs of host capabilities, to which no
\* row refers either, and the roles no capability has.
Lost == {"host_knob", "role"} \cap Parts

\* The positions in that log of the versions an older object may still change.
LooseOf(d) == {Rank(FrozenRows(d), i) : i \in stale \cap RowsOf(d)}
Loose == [d \in Domains |-> LooseOf(d)]

History == INSTANCE VersionLog WITH log <- Logs, draft <- Drafts, loose <- Loose

\* The rows of a domain are a log of distinctly named versions and at most one
\* draft. A logged version is immutable as soon as the last object that was read
\* before its snapshot is gone, and until then only what such an object can do
\* is done to it; only logged versions are ever deployed; a draft taken from one
\* starts with all of it but the knobs of host capabilities and roles that are
\* not in use.
ImplementsVersionLog == History!Spec
=============================================================================
