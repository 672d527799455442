------------------------------ MODULE Provision ------------------------------
(* OAG_Domain.deploy, OAG_Site.prepare_infrastructure (frieze/_core.py) and  *)
(* the Vultr shim they call: one process brings a cloud account in line with *)
(* a frozen version of a domain, publishes the bastions' addresses, pushes a *)
(* configuration to every host and marks the version deployed. The process   *)
(* may stop between any two calls, and the operator deploys again, the same  *)
(* version or another.                                                       *)
(*                                                                           *)
(* Abstraction: one account, as all sites use the one API key of the         *)
(* environment; a host is its fqdn; an address is the number of the server   *)
(* that had it first, and may be given to another when that one is gone;     *)
(* gateway and netmask travel with the address and are left out; a key is    *)
(* its material and whether user data is attached; generated files have no   *)
(* content. The versions were cloned before any was deployed, so their rows  *)
(* start without addresses.                                                  *)
EXTENDS Integers, Sequences, FiniteSets

CONSTANTS
    NSites,       \* the sites are 1..NSites, prepared in this order
    Versions,     \* the frozen versions of the domain
    Hosts,        \* fully qualified host names
    Blocks,       \* block storage labels
    SiteOf,       \* the site of each host
    HostsOf,      \* HostsOf[v]: the hosts of version v
    MountedOn,    \* MountedOn[v][b]: the host that mounts b, for the blocks of v
    BastionOf,    \* the bastion of each site
    MaxDeploys,   \* bound on the calls of deploy
    MaxServers,   \* bound on the servers ever created
    MaxBlocks     \* bound on the block devices ever created

Sites == 1..NSites

ASSUME SitesAssumption == NSites \in Nat \ {0} /\ SiteOf \in [Hosts -> Sites]
ASSUME HostsAssumption == HostsOf \in [Versions -> SUBSET Hosts]
ASSUME MountsAssumption ==
    \A v \in Versions : /\ DOMAIN MountedOn[v] \subseteq Blocks
                        /\ \A b \in DOMAIN MountedOn[v] : MountedOn[v][b] \in HostsOf[v]
ASSUME BastionAssumption ==
    \A v \in Versions, s \in Sites : BastionOf[s] \in HostsOf[v] /\ SiteOf[BastionOf[s]] = s
ASSUME BoundAssumption ==
    MaxDeploys \in Nat /\ MaxServers \in Nat /\ MaxBlocks \in Nat

VARIABLES
    \* the cloud account
    servers,    \* every server ever created, in order
    blocks,     \* every block device ever created, in order
    networks,   \* private networks: the sites one exists for
    keys,       \* SSH keys, oldest first
    dns,        \* the address published for each site
    \* the database
    rows,       \* rows[v][h]: address and MAC address recorded for a host
    deployed,   \* versions marked deployed
    \* the deploying process
    pc,         \* what it does next; "idle" when there is none
    version,    \* the version it deploys
    site,       \* the site it prepares
    carry,      \* the material of the last key metadata_set_user_data destroyed
    todo,       \* the blocks to attach, sites to publish or hosts to push to
    glet,       \* glet[h]: the greenlet that creates host h
    created,    \* created[h]: the server that greenlet created
    raised,     \* the step whose IndexError ended the last deploy, or "none"
    deploys     \* calls of deploy so far

cloud   == <<servers, blocks, networks, keys, dns>>
session == <<pc, version, site, carry, todo, glet, created, raised>>
vars    == <<cloud, rows, deployed, session, deploys>>
-----------------------------------------------------------------------------
NoAddress    == -1   \* c_ip4 is None
ZeroAddress  == 0    \* 0.0.0.0, what the API returns until one is assigned
NoServer     == 0
NoKey        == "none"
PlainKey     == [material |-> "CA", userdata |-> FALSE]

GletStates   == {"none", "create", "address", "ping", "update", "done", "dead"}

\* Two mutants: only greenlets that returned are waited for, and none longer
\* than until its server is created.
GletOver_DoneOnly(h) == glet[h] \in {"none", "done"}
GletOver_Created(h)  == glet[h] # "create"

GletOver(h)  == glet[h] \in {"none", "done", "dead"}

ServerIds    == DOMAIN servers
LiveServers  == {s \in ServerIds : servers[s].status = "live"}
ServersOf(h) == {s \in LiveServers : servers[s].host = h}
BlockIds     == DOMAIN blocks
LiveBlocks   == {b \in BlockIds : blocks[b].status = "live"}

SiteHosts  == {h \in HostsOf[version] : SiteOf[h] = site}
SiteBlocks == {b \in DOMAIN MountedOn[version] : MountedOn[version][b] \in SiteHosts}

\* The listing is sorted newest first and its first match is taken.
Listed(h) == CHOOSE s \in ServersOf(h) : \A t \in ServersOf(h) : t <= s

\* Who answers at an address: whoever has it now, whatever its label says.
ServersAt(ip) == {s \in ServerIds : /\ servers[s].ip = ip /\ ip # ZeroAddress
                                    /\ servers[s].status # "gone"}

NewestKey == keys[Len(keys)]
ButLast(q) == SubSeq(q, 1, Len(q) - 1)
-----------------------------------------------------------------------------
ForeignKey == [material |-> "foreign", userdata |-> FALSE]

Init ==
    /\ servers = << >> /\ blocks = << >> /\ networks = {}
    /\ keys \in {<< >>, <<ForeignKey>>}
    /\ dns = [s \in Sites |-> NoAddress]
    /\ rows = [v \in Versions |-> [h \in Hosts |-> [ip  |-> NoAddress,
                                                    mac |-> NoServer]]]
    /\ deployed = {}
    /\ pc = "idle" /\ version \in Versions /\ site = 1
    /\ carry = NoKey /\ todo = {}
    /\ glet = [h \in Hosts |-> "none"] /\ created = [h \in Hosts |-> NoServer]
    /\ raised = "none" /\ deploys = 0

\* deploy(push=True) on a frozen version.
Begin(v) ==
    /\ pc = "idle" /\ deploys < MaxDeploys
    /\ pc' = "authority" /\ version' = v /\ site' = 1
    /\ deploys' = deploys + 1 /\ raised' = "none"
    /\ UNCHANGED <<cloud, rows, deployed, carry, todo, glet, created>>

\* The process is gone: killed, or an exception has left deploy.
EndSession(why) ==
    /\ pc' = "idle" /\ raised' = why
    /\ carry' = NoKey /\ todo' = {}
    /\ glet' = [h \in Hosts |-> "none"] /\ created' = [h \in Hosts |-> NoServer]
    /\ UNCHANGED <<version, site, deploys>>

\* A call to the provider, the database or a file fails, or the process dies.
Crash ==
    /\ pc # "idle"
    /\ EndSession("crash")
    /\ UNCHANGED <<cloud, rows, deployed>>

Stay == UNCHANGED <<pc, version, site, todo, glet, created, raised, deploys>>
Goto(label) ==
    /\ pc' = label
    /\ UNCHANGED <<version, site, carry, todo, glet, created, raised, deploys>>
-----------------------------------------------------------------------------
\* CertAuthInternal.distribute_authority and metadata_set_user_data both begin
\* by destroying every key listed; the latter keeps the material of the last.
DestroyKey ==
    /\ pc \in {"authority", "userdata"} /\ keys # << >>
    /\ keys'  = ButLast(keys)
    /\ carry' = NewestKey.material
    /\ Stay
    /\ UNCHANGED <<servers, blocks, networks, dns, rows, deployed>>

\* A mutant: the keys listed are not destroyed first.
CreateAuthorityKey_Keep ==
    /\ pc = "authority"
    /\ keys' = Append(keys, PlainKey)
    /\ carry' = NoKey
    /\ site' = 1 /\ pc' = "userdata"
    /\ UNCHANGED <<version, todo, glet, created, raised, deploys>>
    /\ UNCHANGED <<servers, blocks, networks, dns, rows, deployed>>

\* distribute_authority does this once for every site.
CreateAuthorityKey ==
    /\ pc = "authority" /\ keys = << >>
    /\ keys' = <<PlainKey>>
    /\ carry' = NoKey
    /\ IF site < NSites THEN site' = site + 1 /\ UNCHANGED pc
                        ELSE site' = 1 /\ pc' = "userdata"
    /\ UNCHANGED <<version, todo, glet, created, raised, deploys>>
    /\ UNCHANGED <<servers, blocks, networks, dns, rows, deployed>>

\* The key is made again with the bootstrap tarball in its comment. With no
\* key to take the material from, sshkey is unbound: a NameError.
CreateUserDataKey ==
    /\ pc = "userdata" /\ keys = << >> /\ carry # NoKey
    /\ keys' = <<[material |-> carry, userdata |-> TRUE]>>
    /\ carry' = NoKey
    /\ pc' = "blocks"
    /\ UNCHANGED <<version, site, todo, glet, created, raised, deploys>>
    /\ UNCHANGED <<servers, blocks, networks, dns, rows, deployed>>
-----------------------------------------------------------------------------
\* A mutant: a block attached to nothing counts as missing.
MissingBlocks_Detached ==
    {l \in SiteBlocks : \A b \in LiveBlocks :
        blocks[b].label # l \/ blocks[b].host = NoServer}

UnneededBlocks == {b \in LiveBlocks : blocks[b].label \notin SiteBlocks}
MissingBlocks  == {l \in SiteBlocks : \A b \in LiveBlocks : blocks[b].label # l}

MarkBlock ==
    /\ pc = "blocks"
    /\ \E b \in UnneededBlocks : blocks' = [blocks EXCEPT ![b].status = "marked"]
    /\ Goto("blocks")
    /\ UNCHANGED <<servers, networks, keys, dns, rows, deployed>>

CreateBlock ==
    /\ pc = "blocks" /\ UnneededBlocks = {}
    /\ Len(blocks) < MaxBlocks
    /\ \E l \in MissingBlocks :
          blocks' = Append(blocks, [label |-> l, status |-> "live", host |-> NoServer])
    /\ Goto("blocks")
    /\ UNCHANGED <<servers, networks, keys, dns, rows, deployed>>

BlocksReady ==
    /\ pc = "blocks" /\ UnneededBlocks = {} /\ MissingBlocks = {}
    /\ Goto("networks")
    /\ UNCHANGED <<cloud, rows, deployed>>

\* self.clone() stands for every site of the domain, not for this one.
CreateNetwork ==
    /\ pc = "networks"
    /\ \E n \in Sites \ networks : networks' = networks \cup {n}
    /\ Goto("networks")
    /\ UNCHANGED <<servers, blocks, keys, dns, rows, deployed>>

NetworksReady ==
    /\ pc = "networks" /\ networks = Sites
    /\ Goto("servers")
    /\ UNCHANGED <<cloud, rows, deployed>>
-----------------------------------------------------------------------------
\* Two mutants: servers are compared with the hosts of every version, and a
\* server whose address is not there yet is overlooked.
UnneededServers_AnyVersion ==
    {s \in LiveServers : \A v \in Versions : servers[s].host \notin HostsOf[v]}
ExistingHosts_Addressed ==
    {h \in SiteHosts : \E s \in ServersOf(h) : servers[s].ip # ZeroAddress}

UnneededServers == {s \in LiveServers : servers[s].host \notin SiteHosts}
ExistingHosts   == {h \in SiteHosts : ServersOf(h) # {}}

MarkServer ==
    /\ pc = "servers"
    /\ \E s \in UnneededServers : servers' = [servers EXCEPT ![s].status = "marked"]
    /\ Goto("servers")
    /\ UNCHANGED <<blocks, networks, keys, dns, rows, deployed>>

\* The rows of the hosts in H with the addresses their servers were listed with.
RowsKept(H) ==
    [rows EXCEPT ![version] =
        [h \in Hosts |-> IF h \in H THEN [@[h] EXCEPT !.ip = servers[Listed(h)].ip]
                                    ELSE @[h]]]

\* The hosts that have a server take its address from the listing; a greenlet
\* is spawned for each of the others.
KeepAndSpawn ==
    /\ pc = "servers" /\ UnneededServers = {}
    /\ rows' = RowsKept(ExistingHosts)
    /\ glet' = [h \in Hosts |-> IF h \in SiteHosts \ ExistingHosts
                                THEN "create" ELSE glet[h]]
    /\ pc' = "join"
    /\ UNCHANGED <<version, site, carry, todo, created, raised, deploys, cloud, deployed>>

GletStep(h, from, to) ==
    /\ pc = "join" /\ glet[h] = from
    /\ glet' = [glet EXCEPT ![h] = to]
    /\ UNCHANGED <<pc, version, site, carry, todo, raised, deploys, deployed>>

\* api.server.create: the server exists from here on.
ServerCreate(h) ==
    /\ GletStep(h, "create", "address")
    /\ Len(servers) < MaxServers
    /\ servers' = Append(servers, [host |-> h, status |-> "live", ip |-> ZeroAddress,
                                   up |-> FALSE, key |-> NewestKey])
    /\ created' = [created EXCEPT ![h] = Len(servers) + 1]
    /\ UNCHANGED <<blocks, networks, keys, dns, rows>>

\* server_create polls until the address is a public one ...
SeeAddress(h) ==
    /\ GletStep(h, "address", "ping")
    /\ servers[created[h]].ip # ZeroAddress
    /\ UNCHANGED <<cloud, rows, created>>

\* A mutant: one ping is sent and its answer ignored.
SeeUp_NoWait(h) ==
    /\ GletStep(h, "ping", "update")
    /\ UNCHANGED <<cloud, rows, created>>

\* ... and until the server answers a ping.
SeeUp(h) ==
    /\ GletStep(h, "ping", "update")
    /\ servers[created[h]].up
    /\ UNCHANGED <<cloud, rows, created>>

UpdateRow(h) ==
    /\ GletStep(h, "update", "done")
    /\ rows' = [rows EXCEPT ![version][h].ip = servers[created[h]].ip]
    /\ UNCHANGED <<cloud, created>>

\* An exception ends the greenlet alone; gevent prints it.
GreenletFails(h) ==
    /\ \E from \in {"create", "address", "ping", "update"} : GletStep(h, from, "dead")
    /\ UNCHANGED <<cloud, rows, created>>

Greenlet(h) == ServerCreate(h) \/ SeeAddress(h) \/ SeeUp(h) \/ UpdateRow(h)

\* gevent.joinall waits for greenlets that failed as for those that returned.
JoinAll ==
    /\ pc = "join" /\ \A h \in Hosts : GletOver(h)
    /\ Goto("macs")
    /\ UNCHANGED <<cloud, rows, deployed>>
-----------------------------------------------------------------------------
\* The rows of the hosts in H with the MAC addresses of their servers.
RowsWithMacs(H) ==
    [rows EXCEPT ![version] =
        [h \in Hosts |-> IF h \in H THEN [@[h] EXCEPT !.mac = Listed(h)] ELSE @[h]]]

\* The refreshed list must have every host: [...][0].
RecordMacs ==
    /\ pc = "macs" /\ ExistingHosts = SiteHosts
    /\ rows' = RowsWithMacs(SiteHosts)
    /\ pc' = "attach" /\ todo' = SiteBlocks
    /\ UNCHANGED <<version, site, carry, glet, created, raised, deploys>>
    /\ UNCHANGED <<cloud, deployed>>

\* The loop raises at a host that is not listed, with some rows written.
MacsFail ==
    /\ pc = "macs" /\ ExistingHosts # SiteHosts
    /\ \E H \in SUBSET ExistingHosts : rows' = RowsWithMacs(H)
    /\ EndSession("macs")
    /\ UNCHANGED <<cloud, deployed>>

\* Rows are written one by one, and the process may die among them.
CrashAmongRows ==
    /\ \/ /\ pc = "servers" /\ UnneededServers = {}
          /\ \E H \in SUBSET ExistingHosts : rows' = RowsKept(H)
       \/ /\ pc = "macs"
          /\ \E H \in SUBSET ExistingHosts : rows' = RowsWithMacs(H)
    /\ EndSession("crash")
    /\ UNCHANGED <<cloud, deployed>>

\* block_attach: the block and the host that mounts it, as listed.
Device(l) == CHOOSE b \in LiveBlocks : blocks[b].label = l
Target(l) == Listed(MountedOn[version][l])

\* Already on the right host: nothing to call.
AttachKept(l) ==
    /\ pc = "attach" /\ l \in todo
    /\ blocks[Device(l)].host \in ServersOf(MountedOn[version][l])
    /\ todo' = todo \ {l}
    /\ UNCHANGED <<pc, version, site, carry, glet, created, raised, deploys>>
    /\ UNCHANGED <<cloud, rows, deployed>>

Detach(l) ==
    /\ pc = "attach" /\ l \in todo
    /\ blocks[Device(l)].host \in LiveServers \ ServersOf(MountedOn[version][l])
    /\ blocks' = [blocks EXCEPT ![Device(l)].host = NoServer]
    /\ Goto("attach")
    /\ UNCHANGED <<servers, networks, keys, dns, rows, deployed>>

Attach(l) ==
    /\ pc = "attach" /\ l \in todo
    /\ blocks[Device(l)].host = NoServer
    /\ blocks' = [blocks EXCEPT ![Device(l)].host = Target(l)]
    /\ todo' = todo \ {l}
    /\ UNCHANGED <<pc, version, site, carry, glet, created, raised, deploys>>
    /\ UNCHANGED <<servers, networks, keys, dns, rows, deployed>>

\* The server it is attached to is looked up among those not marked.
AttachFails(l) ==
    /\ pc = "attach" /\ l \in todo
    /\ blocks[Device(l)].host \notin LiveServers \cup {NoServer}
    /\ EndSession("attach")
    /\ UNCHANGED <<cloud, rows, deployed>>

\* A mutant: the loop over the sites goes one too far.
SitePrepared_OneMore ==
    /\ pc = "attach" /\ todo = {}
    /\ IF site <= NSites THEN site' = site + 1 /\ pc' = "userdata" /\ UNCHANGED todo
                         ELSE pc' = "dns" /\ todo' = Sites /\ UNCHANGED site
    /\ UNCHANGED <<version, carry, glet, created, raised, deploys>>
    /\ UNCHANGED <<cloud, rows, deployed>>

SitePrepared ==
    /\ pc = "attach" /\ todo = {}
    /\ IF site < NSites THEN site' = site + 1 /\ pc' = "userdata" /\ UNCHANGED todo
                        ELSE pc' = "dns" /\ todo' = Sites /\ UNCHANGED site
    /\ UNCHANGED <<version, carry, glet, created, raised, deploys>>
    /\ UNCHANGED <<cloud, rows, deployed>>
-----------------------------------------------------------------------------
\* ExtDNS.distribute: an alias of each site is pointed at its bastion.
Publish(s) ==
    /\ pc = "dns" /\ s \in todo
    /\ rows[version][BastionOf[s]].ip # NoAddress
    /\ dns' = [dns EXCEPT ![s] = rows[version][BastionOf[s]].ip]
    /\ todo' = todo \ {s}
    /\ UNCHANGED <<pc, version, site, carry, glet, created, raised, deploys>>
    /\ UNCHANGED <<servers, blocks, networks, keys, rows, deployed>>

\* The provider refuses the empty string ip4() returns when there is no address.
PublishFails(s) ==
    /\ pc = "dns" /\ s \in todo
    /\ rows[version][BastionOf[s]].ip = NoAddress
    /\ EndSession("dns")
    /\ UNCHANGED <<cloud, rows, deployed>>

Published ==
    /\ pc = "dns" /\ todo = {}
    /\ pc' = "push" /\ todo' = HostsOf[version]
    /\ UNCHANGED <<version, site, carry, glet, created, raised, deploys>>
    /\ UNCHANGED <<cloud, rows, deployed>>

\* ssh, to whoever has the address: the output of the command is printed, its
\* exit status is not read. What it does there is HostConfig's.
Push(h) ==
    /\ pc = "push" /\ h \in todo
    /\ todo' = todo \ {h}
    /\ UNCHANGED <<pc, version, site, carry, glet, created, raised, deploys>>
    /\ UNCHANGED <<cloud, rows, deployed>>

MarkDeployed ==
    /\ pc = "push" /\ todo = {}
    /\ deployed' = deployed \cup {version}
    /\ EndSession("none")
    /\ UNCHANGED <<cloud, rows>>
-----------------------------------------------------------------------------
CloudStep == UNCHANGED <<networks, keys, dns, rows, deployed, session, deploys>>

\* An address nobody has: a new one, or that of a server that is gone.
Unassigned(s) ==
    ({s} \cup {servers[t].ip : t \in {t \in ServerIds : servers[t].status = "gone"}})
        \ ({ZeroAddress} \cup
             {servers[t].ip : t \in {t \in ServerIds : servers[t].status # "gone"}})

AssignAddress(s) ==
    /\ servers[s].status # "gone" /\ servers[s].ip = ZeroAddress
    /\ \E ip \in Unassigned(s) : servers' = [servers EXCEPT ![s].ip = ip]
    /\ UNCHANGED blocks /\ CloudStep

Boot(s) ==
    /\ servers[s].status # "gone" /\ servers[s].ip # ZeroAddress /\ ~servers[s].up
    /\ servers' = [servers EXCEPT ![s].up = TRUE]
    /\ UNCHANGED blocks /\ CloudStep

\* Nothing in frieze deletes what it marks; the operator does, in the provider's
\* console and between deployments. A server that goes lets its blocks go.
PurgeServer(s) ==
    /\ pc = "idle" /\ servers[s].status = "marked"
    /\ servers' = [servers EXCEPT ![s].status = "gone"]
    /\ blocks'  = [b \in BlockIds |-> IF blocks[b].host = s
                                      THEN [blocks[b] EXCEPT !.host = NoServer]
                                      ELSE blocks[b]]
    /\ CloudStep

PurgeBlock(b) ==
    /\ pc = "idle" /\ blocks[b].status = "marked"
    /\ blocks' = [blocks EXCEPT ![b] = [@ EXCEPT !.status = "gone", !.host = NoServer]]
    /\ UNCHANGED servers /\ CloudStep

\* The steps of the process that the operator's command line starts.
SessionStep ==
    \/ DestroyKey \/ CreateAuthorityKey \/ CreateUserDataKey
    \/ MarkBlock \/ CreateBlock \/ BlocksReady
    \/ CreateNetwork \/ NetworksReady
    \/ MarkServer \/ KeepAndSpawn \/ JoinAll
    \/ RecordMacs \/ MacsFail
    \/ \E l \in Blocks : AttachKept(l) \/ Detach(l) \/ Attach(l) \/ AttachFails(l)
    \/ SitePrepared
    \/ \E s \in Sites : Publish(s) \/ PublishFails(s)
    \/ Published
    \/ \E h \in Hosts : Push(h)
    \/ MarkDeployed

Next ==
    \/ \E v \in Versions : Begin(v)
    \/ SessionStep
    \/ \E h \in Hosts : Greenlet(h) \/ GreenletFails(h)
    \/ Crash \/ CrashAmongRows
    \/ \E s \in ServerIds : AssignAddress(s) \/ Boot(s) \/ PurgeServer(s)
    \/ \E b \in BlockIds : PurgeBlock(b)

Spec == Init /\ [][Next]_vars

-----------------------------------------------------------------------------
Key    == [material : {"CA", "foreign"}, userdata : BOOLEAN]
Status == {"live", "marked", "gone"}
Server == [host : Hosts, status : Status, ip : Nat, up : BOOLEAN,
           key : Key]
Block  == [label : Blocks, status : Status, host : Nat]
Steps  == {"idle", "authority", "userdata", "blocks", "networks", "servers",
           "join", "macs", "attach", "dns", "push"}

\* Type correctness of the account, the database and the process.
TypeOK ==
    /\ servers \in Seq(Server) /\ blocks \in Seq(Block)
    /\ networks \subseteq Sites /\ keys \in Seq(Key)
    /\ dns \in [Sites -> Int]
    /\ rows \in [Versions -> [Hosts -> [ip : Int, mac : Nat]]]
    /\ deployed \subseteq Versions
    /\ pc \in Steps /\ version \in Versions /\ site \in Sites
    /\ carry \in {NoKey, "CA", "foreign"}
    /\ pc \notin {"attach", "dns", "push"} => todo = {}
    /\ pc = "attach" => todo \subseteq Blocks
    /\ pc = "dns" => todo \subseteq Sites
    /\ pc = "push" => todo \subseteq Hosts
    /\ glet \in [Hosts -> GletStates] /\ created \in [Hosts -> Nat]
    /\ deploys \in Nat

\* However often deploy is stopped and tried again, and whichever greenlets
\* fail, a host never has two servers: what an earlier attempt created is found
\* by its label before another is asked for.
OneLiveServer ==
    \A s, t \in LiveServers : servers[s].host = servers[t].host => s = t

\* The same of the block devices: a retry never makes a second, empty one.
OneLiveBlock ==
    \A a, b \in LiveBlocks : blocks[a].label = blocks[b].label => a = b

\* Every server is created with the certificate authority's key and the
\* bootstrap tarball, although both keys are destroyed and made again in
\* several calls, for every site and every attempt, by a process that may stop.
BootstrapKey ==
    \A s \in ServerIds : servers[s].key = [material |-> "CA", userdata |-> TRUE]

\* "extcloud.server_create is guaranteed to wait until network activity is
\* detected from newly created server" (_core.py:1692-1693): a greenlet that
\* returned leaves a running server and its address in the host's row.
CreatedIsReady ==
    \A h \in Hosts :
        glet[h] = "done" =>
            /\ servers[created[h]].up
            /\ rows[version][h].ip = servers[created[h]].ip

\* When configurations, with their keys and certificates, are about to be pushed,
\* whoever has the address recorded for a host is that host, unless the greenlet
\* that created it died: addresses are kept over restarts, versions and retries,
\* and an address that has gone to another server is not among those used.
RightHost ==
    pc = "push" =>
        \A h \in HostsOf[version] : \A s \in ServersAt(rows[version][h].ip) :
            servers[s].host = h \/ glet[h] = "dead"

\* Once the infrastructure of a one-site domain is prepared the account holds
\* what the version asks for and nothing else: a server for each host and none
\* besides, the MAC addresses of those servers in the rows, and each block on
\* the server of the host whose container mounts it.
Converged ==
    pc \in {"dns", "push"} =>
        /\ {servers[s].host : s \in LiveServers} = HostsOf[version]
        /\ \A h \in HostsOf[version] : rows[version][h].mac \in ServersOf(h)
        /\ {blocks[b].label : b \in LiveBlocks} = DOMAIN MountedOn[version]
        /\ \A b \in LiveBlocks :
              blocks[b].host \in ServersOf(MountedOn[version][blocks[b].label])
-----------------------------------------------------------------------------
\* The process runs on while it lives, gevent runs every greenlet, and the
\* provider assigns addresses and boots what it was asked to create.
Fairness ==
    /\ WF_vars(SessionStep)
    /\ \A h \in Hosts : WF_vars(Greenlet(h))
    /\ \A s \in 1..MaxServers :
          WF_vars(s \in ServerIds /\ (AssignAddress(s) \/ Boot(s)))

FairSpec == Spec /\ Fairness

\* Every deploy comes to an end: the polling loops of server_create, which have
\* no timeout, and joinall wait for nothing a working provider withholds, and
\* a greenlet that failed does not hold the others up.
DeployEnds == (pc # "idle") ~> (pc = "idle")
-----------------------------------------------------------------------------
\* What follows states what comments in deploy and prepare_infrastructure say
\* and the code does not keep; each is checked by a run that shows how.

\* "block_attach() keeps track of detaching and attaching storage as necessary
\* if our new config has resulted in a container moving from one host to
\* another" (_core.py:1727-1729): it never fails on where the block was.
AttachCopes == raised # "attach"

\* "Issue command to create hosts, networking between them, and storage"
\* (_core.py:919-920), for all sites: afterwards every host has a server.
EveryHostLive ==
    pc = "dns" => \A h \in HostsOf[version] : ServersOf(h) # {}
=============================================================================
