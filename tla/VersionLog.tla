----------------------------- MODULE VersionLog -----------------------------
(* What the versions of a domain promise (frieze/_core.py, OAG_Domain): the  *)
(* history of a domain is a log of frozen versions, to which entries are only*)
(* ever added, and at most one draft. The draft is edited, and enters the log*)
(* under a name the log does not hold yet; a new draft starts from what a    *)
(* logged version holds; only logged versions are deployed. An entry may be  *)
(* loose when it is new: it can still grow and be named anew, as by whoever  *)
(* worked on it before and was not told; once it is not, it is immutable.    *)
(* DomainVersions is shown to implement this specification.                  *)
EXTENDS Naturals, Sequences

CONSTANTS
    Domains,   \* domain names
    Names,     \* version names a snapshot may draw
    Parts,     \* what a version may consist of
    Lost       \* what of it a draft taken from it may lack

Version == [name : Names, parts : SUBSET Parts, deployed : BOOLEAN]

VARIABLES
    log,       \* log[d]: the frozen versions of d, oldest first
    draft,     \* draft[d]: {} or the singleton of the parts of d's draft
    loose      \* loose[d]: the positions in log[d] that are loose

vars == <<log, draft, loose>>

TypeOK == /\ log   \in [Domains -> Seq(Version)]
          /\ draft \in [Domains -> {{}} \cup {{parts} : parts \in SUBSET Parts}]
          /\ \A d \in Domains : loose[d] \subseteq DOMAIN log[d]

Init == /\ log   = [d \in Domains |-> << >>]
        /\ draft = [d \in Domains |-> {}]
        /\ loose = [d \in Domains |-> {}]

Unused(d, name) == \A i \in DOMAIN log[d] : log[d][i].name # name

\* The first draft of a domain, from nothing.
Begin(d) ==
    /\ log[d] = << >> /\ draft[d] = {}
    /\ \E parts \in SUBSET Parts : draft' = [draft EXCEPT ![d] = {parts}]
    /\ UNCHANGED <<log, loose>>

\* The draft only grows.
Edit(d) ==
    /\ \E old \in draft[d], new \in SUBSET Parts :
          /\ old \subseteq new
          /\ draft' = [draft EXCEPT ![d] = {new}]
    /\ UNCHANGED <<log, loose>>

Freeze(d, name) ==
    /\ Unused(d, name)
    /\ \E parts \in draft[d] :
          log' = [log EXCEPT ![d] = Append(@, [name     |-> name,
                                               parts    |-> parts,
                                               deployed |-> FALSE])]
    /\ draft' = [draft EXCEPT ![d] = {}]
    /\ \/ UNCHANGED loose
       \/ loose' = [loose EXCEPT ![d] = @ \cup {Len(log[d]) + 1}]

\* A loose entry grows like a draft, ...
Amend(d, i) ==
    /\ i \in loose[d]
    /\ \E parts \in SUBSET Parts :
          /\ log[d][i].parts \subseteq parts
          /\ log' = [log EXCEPT ![d][i].parts = parts]
    /\ UNCHANGED <<draft, loose>>

\* ... is given another name, ...
Rename(d, i, name) ==
    /\ i \in loose[d] /\ Unused(d, name)
    /\ log' = [log EXCEPT ![d][i].name = name]
    /\ \/ UNCHANGED loose
       \/ loose' = [loose EXCEPT ![d] = @ \ {i}]
    /\ UNCHANGED draft

\* ... and settles.
Settle ==
    /\ loose' \in [Domains -> SUBSET Nat]
    /\ \A d \in Domains : loose'[d] \subseteq loose[d]
    /\ UNCHANGED <<log, draft>>

\* A draft taken from a logged version holds nothing that version does not, and
\* lacks nothing but what may get lost.
Branch(d, i) ==
    /\ draft[d] = {}
    /\ \E parts \in SUBSET log[d][i].parts :
          /\ log[d][i].parts \ Lost \subseteq parts
          /\ draft' = [draft EXCEPT ![d] = {parts}]
    /\ UNCHANGED <<log, loose>>

MarkDeployed(d, i) ==
    /\ log' = [log EXCEPT ![d][i].deployed = TRUE]
    /\ UNCHANGED <<draft, loose>>

Next == \/ \E d \in Domains :
            \/ Begin(d)
            \/ Edit(d)
            \/ \E name \in Names : Freeze(d, name)
            \/ \E i \in DOMAIN log[d] :
                  \/ Branch(d, i) \/ MarkDeployed(d, i) \/ Amend(d, i)
                  \/ \E name \in Names : Rename(d, i, name)
        \/ Settle

Spec == Init /\ [][Next]_vars
=============================================================================
