# Verification of frieze

frieze turns an operator's Python script into a cloud deployment: the script
builds a *domain* (sites, hosts, interfaces, deployments, capabilities) as rows
of an openarc database; `snapshot()` freezes it as a version, and `deploy()`
creates the servers, block devices and networks at the provider, publishes the
bastions' addresses and pushes a configuration to every host.

This directory holds TLA+ models of that program, the TLC runs that check them
and the TLAPS proofs about them. Source lines are given as `file:line`;
`_core.py` is `src/frieze/_core.py`, and `_shim_vultr.py` and `public.py` are
under `src/frieze/provider` and `src/frieze/capability/server`; `configinit.py`
and `base.py` are in `src/frieze/capability`, the scripts in its `resources`.

    tlc -workers 2 -config MCProvision.cfg MCProvision.tla    # a run
    tlapm ProvisionProofs.tla                                 # the proofs of a module

## 1. Inventory

### The parts, their state and their operations

| Part | State | Operations | Where |
|---|---|---|---|
| Domain versions, session | `OAG_Domain` rows (version name, deployed), everything that hangs off them; the module-level `p_domain` | `set_domain`, mutators under `@friezetxn`, `snapshot`, `txnclone`, `rc_enable/disable/delete` | `_core.py:105-231`, `646-671`, `974-995`, `1880-1934` |
| Subnet assignment | `OAG_Subnet` rows | `assign_subnet` | `_core.py:733-786` |
| Topology | `OAG_Site`, `OAG_Host`, `OAG_NetIface` rows, dhclient and dhcpd capabilities; addresses are computed | `add_site`, `add_host`, `add_iface`, `add_deployment` | `_core.py:673-731`, `1072-1206`, `1285-1450`, `1507-1607` |
| Capabilities, placement | `OAG_Capability` rows; containers are computed | `add_capability` (of hosts and of deployments), `containers`, `block_storage` | `_core.py:467-606`, `795-896`, `1583-1599` |
| Deployment | the rows' `c_ip4`, MAC addresses, `deployed`; greenlets | `deploy`, `prepare_infrastructure` | `_core.py:896-968`, `1633-1733` |
| Vultr shim | the cloud account: servers, blocks, networks, keys | `server_*`, `block_*`, `network_*`, `sshkey_*`, `metadata_*` | `_shim_vultr.py` |
| External DNS | records at Route 53 | `ExtDNS.distribute` | `public.py:672-707`, `_shim_aws.py` |
| Internal certificate authority | four files of one key pair; the SSH certificate of a push | `initialize`, `distribute_authority`, `_issue_ssh_certificate` | `public.py:358-670` |
| Let's Encrypt | two files of an account, two of each certificate; orders and challenges | `issue_certificate`, `_issue_pem_certificate`, `acme_account_key`, `create_csr` | `public.py:40-356` |
| Configuration archive | a dictionary, and the order of the steps made of it | `intermediate_representation`, `generate`, `generate_cfg_files` | `configinit.py`, `base.py:60-357` |
| Hosts | files of boot environments, the environment that runs and the next | `configinit`, `bectl`, reboot, `frieze_configinit`, `frieze_fetchkey` | `resources/firstboot`, `configinit.py:168-174` |
| Jail layers | ZFS datasets, sentinels, snapshots; the dataset of each container | `jail-zfs-setup.sh`, `jail-zfs-skeleton`, `jail-configinit` | `resources/jail` |
| Templates, host types, OS tables | none | | `base.py`, `hosttype`, `osinfo.py` |

### How they interact

The script calls the mutators one after another, in one process. `add_iface`
calls `assign_subnet` and rewrites rows of other hosts (rerouting, the bastion's
dhcpd); `add_deployment` calls `add_iface` on every host. Addresses and
containers are functions of the rows, recomputed each time they are asked for.
`deploy` reads them all, and writes addresses back to the rows it reads. All
sites of a domain share one account, whose listings (by label, newest first) are
the only memory `deploy` has of earlier attempts. `set_domain` initializes the
authority inside its transaction. Certificates are issued on the way into the
configuration, one container after the other; what is on disk already is used as it
is. The archive of a host goes over ssh, under a certificate the authority signs, to
servers that fetched the authority's key when they first booted; `configinit`
applies it step by step, its scripts build the containers' datasets, and its last
three steps clone the boot environment, activate the clone and reboot.

### What is hard

* *Files that are there.* The authority, the account and every certificate are
  several files, written one after the other, and valid by existing
  (`public.py:150`, `208`, `507`). A layer of the jails is done if its sentinel is.
* *Steps on a host.* A step that fails is gone over, the connection may be lost or
  the host crash after any of them, and the next archive, of whichever version, is
  applied on top of what is there.
* *Stops.* Mutators write row by row, mostly without a transaction, and what is
  found by name the next time is taken to be whole. `deploy` makes tens of calls
  to three services, any of which may fail, and is then run again.
* *Concurrency.* Servers are created by greenlets; `joinall` does not tell a
  failed one from one that returned. The provider assigns addresses and boots
  servers at its own pace.
* *Order.* Which subnet routes an interface, which address it has and where a
  container runs depend on positions in lists that hosts, deployments and
  capabilities join in any order. Keys are destroyed and made again before the
  servers that boot with them.
* *Several versions.* An object that was read before its version was frozen lives
  on and does not know; a deploy may be of an older or a newer version than the one
  before. The addresses in the rows are those of an earlier attempt, and the provider
  gives an address out again.

`PROJECT.json` lists the hazards with their lines and the properties for each.

### What makes each part right

* Versions: a frozen version changes only through objects older than its freezing,
  and then in what such an object can do; one draft at most, and the session on
  the newest version; a clone refers to nothing outside itself and lacks
  only what `txnclone` does not walk over.
* Subnets: no shared address; inside the root; as tight as asked; exhaustion
  reported when, and only when, nothing is left.
* Topology: no shared address, on VLANs that are not rerouted; every internal
  interface served by the bastion of its own site; one DHCP client for each.
* Placement: no host overcommitted; containers' names and addresses their own;
  what is added moves nothing of its own site or deployment, nor of an earlier one.
* Deployment: no second server or block device; hosts up, with the right key, before
  they are used; rows that lead to their own host when configurations are pushed, but
  for greenlets that died; an account that agrees with the version at the end; an end.
* Authority: four files of one key pair; hosts that trust the key that signs.
* Let's Encrypt: a chain beside the private key it certifies, on disk and on
  containers; an account that is known; a certificate for everyone in the end.
* Hosts: a push that is carried through runs whole after the reboot, and reaches
  the containers; the data of containers is cloned whole, and never again.

## 2. Modules

| Module | Models | Kind |
|---|---|---|
| `SubnetPool` | `assign_subnet` | state machine |
| `DomainVersions` | versions and session | state machine, implements `VersionLog` |
| `VersionLog` | what the history of a domain promises | abstract specification |
| `Provision` | `deploy`, `prepare_infrastructure`, Vultr shim, external DNS | state machine with fairness |
| `Network` | sites, hosts, interfaces, VLANs, DHCP | state machine and the address functions |
| `Placement` | capabilities of deployments, containers | extends `Network` |
| `Trust` | the internal authority, Let's Encrypt, keys on the hosts | state machine with fairness |
| `ConfigArchive` | the archive of a host as a function of the host | operators |
| `HostConfig` | what a host does with archives, jail layers included | state machine with fairness, extends `ConfigArchive` |
| `SubnetPoolProofs`, `DomainVersionsProofs`, `ProvisionProofs`, `NetworkProofs`, `PlacementProofs`, `TrustProofs`, `HostConfigProofs` | | proofs |
| `Extrema` | induction over numbers; least and greatest elements, for `CHOOSE` | lemmas |
| `MC*` | | instances for TLC |

Operators whose comment begins "A mutant" or "Two mutants" are slips a
programmer could make in the operator that follows. They belong to no
specification; replacing the operator by the mutant violates the property named
with it in `PROJECT.json`, which shows that the property can fail.

### SubnetPool

`subnets` is the list of stored rows, `outcome` what the last call returned or
raised. An address is an offset in its root; a root is the shared 172.16.0.0/12
or the 10.n.0.0/16 of a deployment. `assign_subnet` is one of `Assign`,
`RaiseExhausted`, `RaiseInvalid` (an octet above 255 or a prefix wider than the
root, where `ipaddress` raises). `hosts_to_prefix`, `IsFree`, and `LoopExit`
follow the code's two loops. The lengths of the roots are constants.

### DomainVersions

`rows` are the `OAG_Domain` rows with what each version consists of: a set of
*parts*, one per table. `Parent` says which row a row refers to, `CloneOf` what
`txnclone` copies: the tables its loops walk over, and the rows those refer to.
`Lost` are the tables they do not walk over: the knobs of hosts' capabilities, and
roles nothing refers to. In `VersionLog` a draft taken from a version lacks no
other part.
`p_domain` is the session, a name and a row. `set_domain` is three actions (found,
created, rolled back); every mutator is `add`, guarded by `friezetxn`; `rc_*`,
`snapshot`, `txnclone`, and the database effect of `deploy` are actions on any
handle of any version; `Restart` loses the session. Two rows of one table are not
told apart. `set_domain` on the domain of the session changes nothing and is no
action.

`friezetxn` and `snapshot` look at the version name in the object at hand, not in the
row (`_core.py:107`, `979`), and an object has the name it was read with: `snapshot`
gives it to one object, and nothing but `txnclone` (`227`) refreshes another. `stale`
holds the frozen rows of which some object may be without the name: `snapshot` puts its
row there or not, `Refresh` is the last of them read again or let go, and `Restart` the
end of all. `SeenAsDraft` is what `is_frozen` comes to on some object of the row; `add`
and `snapshot` have it as their guard.

In `VersionLog` the log of a domain is the sequence of its frozen rows, each
at its rank among them (`LogOf`), and the draft what the one row left holds
(`DraftOf`). An entry is *loose* while its row is in `stale` (`LooseOf`): until it
settles, which it does once and for all unless it is named anew, it can grow and be
given another unused name. No other entry ever changes but to be marked deployed.

### Provision

The account (`servers`, `blocks`, `networks`, `keys`, `dns`), the database
(`rows`, `deployed`) and the process (`pc`, `site`, `todo`, `glet`, ...). The
values of `pc` are the stages of `deploy`, in the code's order:

    authority -> userdata -> blocks -> networks -> servers -> join -> macs -> attach
                    ^                                                           |
                    +------------------- for every site ------------------------+-> dns -> push

Each call to the provider is a step of its own. `Crash` ends the process between
any two, with everything local to it lost; `CrashAmongRows` does among the rows of a
loop that writes one after the other. A greenlet goes through create,
address, ping and update, and may die at any of them. `MacsFail`, `AttachFails`
and `PublishFails` are the exceptions the code raises by itself, the first of them with
some rows written. An address is the number of the server that had it first;
`AssignAddress` gives a server a new one or that of a server that is gone
(`Unassigned`), and a push goes to whoever has the address of the row by then
(`ServersAt`). `AssignAddress` and `Boot` are the provider's; `PurgeServer` and `PurgeBlock` the operator's, in
the provider's console and between deployments, as frieze only *marks* what it no
longer needs. External: the provider's own behaviour, modelled from what the shim
waits for.

Left out: `network_attach`, `block_delete`, `dns_*` of the shim (`deploy` does not
call them); gateway and netmask, which travel with the address; the content of
what is pushed. Publishing goes through the sites in any order.

### Network

Rows of hosts, interfaces, subnets and capabilities, and the dhcpd knob of each
bastion. An operation of the script leaves the `add_iface` calls it makes in
`calls`; each goes through the steps `row`, `reroute`, `subnet`, `dhclient`,
`dhcpd`, which are the numbered stages of `_core.py:1072-1206`. `Stop`,
`RerouteStops` and `CreateDhclientsStops` end a call anywhere, also between two
rows of one stage, and stand for a killed process, a failed write, exhausted
subnets and the exceptions the stages raise. `routingstyle`, `routed_subnet`,
`connected_ifaces` and `ip4` are the properties of `OAG_NetIface` of those names.
`add_deployment` goes through the hosts site by site, and within a site as they came
(`InSiteOrder`); every other list of rows is in the order the rows were created in.
A new subnet is a fresh number, which `SubnetPoolProofs` justifies: subnets never
share an address. Left out: sysctls and host capabilities nothing here reads,
`fib`, MAC addresses, bridges.

`BastionAssumption` is "There is precisely one `sitebastion` per `site`"
(src/README.md:53): with a second one `OAG_Site.bastion` is `None`.

### Placement

`add_capability` of deployments, and `containersOf`, the loop of `OAG_Domain.containers`
as a function of the rows: from `Unplaced`, with every capability left and the hosts'
slots free, `Place` takes the next capability, in the order the code takes them
(deployment by deployment, those with an affinity first), to the first host of the
first site with room, or passes it over. What it needs is one number, cores times
memory. An affinity that some host could meet makes the call raise, and is kept as
that. `ContainerAddress` is
`OAG_Container.ip4`.

### Trust

A script is a `set_domain` and a `deploy`; one runs at a time, `Stop` ends it
anywhere, and the next one starts from what is on disk, at the provider and on the
hosts. `pc` is its stage:

    commit -> ready -> servers -> configs <-> account -> order -> challenge -> verify -> issued
                                     |
                                     +-> push

`file` holds the content of each file, `Absent` without it. Writing one is two steps
(`OpenFile`, `WriteFile`): a file that was created and not written is `Empty`, and
counts as there in `ca_is_valid`, `cert_is_valid` and `acme_is_valid`. A key pair, and
everything made of it, is a number. `RefusedOnce` and `TimedOutOnce` are the two
retries of `_issue_pem_certificate` (`public.py:244-248`, `277-280`): the first with
a request and a private key made anew. `Registered` is the registration that any request
to Let's Encrypt goes out with (`public.py:290`): while it is there without the account
key, the new account is refused (`AccountRefused`, then `Raise`). `CreateServer` is what `prepare_infrastructure`
and `frieze_fetchkey` come to here: the server trusts the key that is published then,
for ever. `Pushed` is sshd's check, and `Unreached` a push that fails and is not
noticed (`_core.py:963`). Left out: the root authority, dates, formats, and the
text of requests.

### ConfigArchive and HostConfig

`ConfigArchive` is pure: `intermediate_representation` of a host as a sequence of keys,
merged as `dict_merge` merges them, and `generate`, the steps in the order in which
the names of the archive's files sort. `Assigned` is where the finishing commands
replace what a list of commands had, at its place.

`HostConfig` runs these steps. `Push(v)` is a deployment of version v reaching this
host: `todo` is what is left of the archive, `line` where the script that is its
first step has got to. `WriteFile`, `OtherStep`, `WriteCfinit`, `CreateEnvironment`,
`ActivateEnvironment` and `Shutdown` are steps of the archive; `jail_zfs_setup` and
`jail_zfs_skeleton` are scripts, command by command where one may fail or be left half
done. `StepOver` is what `configinit` does when a step fails: it goes on. `Boot` starts
the environment that was activated and the containers of its `jail.conf` that have a
dataset; one that is to boot as if for the first time takes the configuration in its
`/root`. `ConnectionLost`, `Crash` and `DownloadFails` are bounded by `MaxTrouble`.

What a host was last pushed is taken to have ended when the next push reaches it. The
`ssh` that starts `configinit` (`_core.py:948`) has no terminal, and scripts log to a
file: when the connection is lost `configinit` may end there (`ConnectionLost`) or run
on to its end, which is the run without the loss, as its exit status is not read. That
it runs on beside the next push is not modelled.

The content of a file is the version it is of; a release of the operating system
does not change, and packages and pools have no state. ZFS, `bectl`, nullfs and rc
are external, modelled from how the scripts use them. Three assumptions:
`VersionsAssumption` numbers the versions, `NamesAssumption` says that a dataset is
found under its own name (and maybe under others, as `egrep` finds it), and
`ArchivesAssumption` that the archives of this host end with the finishing commands.
The last is about `ConfigArchive` and is evaluated by TLC on the instance; it fails
for a host one of whose capabilities comes with a custom package (see below), which
`add_capability` of hosts never sets.

## 3. Runs

Twelve runs; seven pass, five exhibit a disagreement. TLC's deadlock check is off
where the bounds, or the script's end, stop the model.

| Run | Shows | Instance | Distinct states |
|---|---|---|---|
| `subnets` | `AddressesDisjoint`, `WithinRoot`, `TightestFit`, `ExhaustedMeansFull` | roots of 32 and 16 addresses, six host counts, 4 rows | 4,881 |
| `versions` | `DraftIsNewest`, `SessionOnNewest`, `SelfContained`, `ImplementsVersionLog` | one domain, two names, 3 versions, 3 parts; symmetric | 17,102 |
| `provision` | `OneLiveServer`, `OneLiveBlock`, `BootstrapKey`, `CreatedIsReady`, `RightHost`, `Converged`, `DeployEnds` | one site, two versions, three deploys, two hosts, two blocks; `FairSpec` | 612,929 |
| `network` | `IfaceAddressesDistinct`, `ServedByBastion`, `DhclientPerIface` | one site, a bastion and two compute hosts, a deployment, one further interface each; symmetric | 477,008 |
| `placement` | `NoOvercommit`, `ContainerAddressesDistinct`, `StripesDistinct`, `KeptInPlace` | two sites, three of four hosts, two deployments, three capabilities | 1,001,701 |
| `trust` | `AuthorityAgrees`, `HostsTrustSigner`, `ChainCertifiesKey`, `AccountRegistered`, `EndsCertified` | two hosts, three containers of two sets of aliases, 4 scripts, 3 troubles; `FairSpec` | 112,078 |
| `host` | `Lands`, `ThinjailKept`, `RunningReached`, `EndsConfigured` | two versions of a host, two containers, 2 troubles; `FairSpec` | 193,083 |

The runs `subnets`, `versions`, `provision`, `network`, `placement`, `trust` and `host`
also check the type invariant of their modules.

### Why the bounds are enough to be interesting

* `subnets`: the roots are small enough that four requests exhaust them, and the
  host counts are on both sides of a prefix. 255 and 256 are the last number that
  fits an octet and the first that does not. For the lengths of the code, and for
  all others, disjointness and containment are proved.
* `versions`: three versions are a version, its clone and the clone of either;
  three parts have a parent and a row reached only from elsewhere (a role). Versions
  are frozen, edited by an object that is older, named anew, cloned and deployed.
  Symmetry permutes the names, which no definition tells apart. One domain, as each
  has its own log; that the session may go from one domain to another
  (`set_domain_Found` while it holds another) is covered by the proofs, which are for
  any set of domains: of each of these properties there is one.
* `provision`: in the second version the compute host is gone, its container has moved
  to the bastion with its block, and another block has come. Deployed in any order
  blocks are made, attached, detached, found on a marked host and given up, and servers
  are created, kept and marked, each time after deploys that stopped anywhere. Three
  deploys let a host go, its address be given to another server, and the host come
  back, with the old address still in its row. Four servers and three devices are never
  exceeded by what three deploys create. More sites are in `two_sites` and in the proofs.
* `network`: two compute hosts share a subnet; a further internal interface of a
  host needs the bastion's second subnet and makes two DHCP clients on it; a
  deployment before or after it has VLANs that are rerouted, or not. Symmetry
  permutes the compute hosts. For any number of sites, hosts, deployments and further
  interfaces the properties are proved.
* `placement`: any three of four hosts, so that compute hosts share a site or are in
  two of them; one site has a bastion and one has none (nothing enforces it). Two
  hosts have room for one container and the third for two, so capabilities spill
  over, and over to the other site, and are left over. A call of two stripes and a
  group with a maximum meet in both orders. `KeptInPlace` also looks at the fourth
  host, and at a capability beyond the bound, as what might be added next. No
  request asks for an affinity: `containers` then raises.
* `trust`: two containers share their aliases, and so a directory, on different
  hosts; the third has its own. Three troubles are enough for a stop between any two
  writes, a refusal of the next script and a late answer in the third, or a stop in
  each of the retries; a fourth script is there to make up for them.
* `host`: the second version adds a container, a capability with a package and a pool
  to the capabilities `add_host` gives a compute host. The container it adds is `web1`,
  and `egrep` finds the dataset of the first, `web10`, by that name; whether that is
  there when `web1` is made depends on which version is pushed first. Two troubles stop a script halfway and then the
  one that is run over what it left; pushes are not bounded.

### Fairness

Three properties need it.

* `DeployEnds` (`provision`). `WF(SessionStep)`: the process runs on while it lives.
  `WF(Greenlet(h))`: gevent schedules every greenlet that is ready. `WF` of
  `AssignAddress` or `Boot`, for each server: the provider assigns an address and boots what it was
  asked to create, which is what `server_create` polls for without a timeout. No
  fairness for crashes, failures, purges or a new `deploy`.
* `EndsCertified` (`trust`). `WF(Run)`: a script runs on, and is started again after
  it is over, which the operator has to do. None for refusals, late answers and
  stops, which are bounded.
* `EndsConfigured` (`host`). `WF(configinit)`: an archive is applied while the
  connection lasts. `SF(Push(Newest))`: the newest version is deployed again and
  again, though other pushes may come between; strong, as `Push` is disabled while
  an archive is applied.

Both of the latter name what is excepted. `Torn`: the password, the account key or
a chain was created and not written, or the registration was and the account key not
created, which nothing repairs. `Stuck`: `jail-zfs-setup.sh` stopped between the mark of
layer 1 and its snapshot (`:86`), or while directories were moved (`:154-169`), and
no later run of it gets past that. `Shadowed`: a container has no dataset and its name
is part of that of one that has, which is taken for its own (`jail-zfs-skeleton:8`).
And `EndsConfigured` claims nothing once an older version was pushed after a newer one.

### Disagreements

Each has a run in which TLC exhibits it, and a finding that quotes the comment.

| Run | What happens |
|---|---|
| `own_gateway` | An interface added to the bastion after a deployment reroutes the VLANs of the compute hosts (`_core.py:1115`), whose address is then that of another subnet's gateway. |
| `attach_copes` | The host a block is attached to has just been marked, and `block_attach` does not find it (`_shim_vultr.py:99`). |
| `two_sites` | Preparing the second site marks the servers of the first (`_core.py:1674`). |
| `containers` | A host added after a deployment gets no VLAN of it; containers placed there have no address (`_core.py:692`). |
| `first_boot` | The configuration of a new container is written to `root/cfinit` under its directory (`base.py:226`), over which BASE is mounted when it starts (`jail-fstab:3`); its first boot, which is to read it (`frieze_configinit:10-11`, `23`), finds none. A later push reaches it, as the container then runs. |

`Converged` is checked for one site; with two it fails as `two_sites` does.
It speaks of the account at the end of `prepare_infrastructure`: deploys stopped by
`attach_copes` do not get there.

Seen while modelling, and left without a run, as no line says otherwise or as the
case is outside the instances:

* Versions. `txnclone` walks the capabilities of hosts and not their knobs
  (`_core.py:199`), nor roles nothing refers to: the clone lacks the interface list of
  the bastion's dhcpd, and `add_iface` on it finds the capability without its knob
  (`Lost`). An object that was read before its version was frozen through another is
  still let to add to it, and to name it anew, as `friezetxn` and `snapshot` look at the
  object (`_core.py:107`, `979`; `root_domain` is cached, and only `txnclone` refreshes
  it, `:227`). `rc_enable`, `rc_disable` and `rc_delete` write to frozen versions
  (`_core.py:274-284`). `set_domain` leaves `p_domain` on a row that was rolled back
  when `trust().initialize()` raises (`_core.py:1914`), and the next call returns it.
* Deployment. A greenlet that dies after it created its server leaves the address of an
  earlier one in the row; the label is listed, so the look-up after `joinall` passes,
  and the configuration goes to whoever has that address now (`_core.py:948`). It is
  the exception of `RightHost`. A retry right after a crash does not wait for a server it finds by its
  label, and publishes 0.0.0.0 (`_core.py:1684`; the comment at 925 speaks of what
  exists before the call only). A push that fails is printed and the version marked deployed
  (`_core.py:963`). The authority's key is destroyed and created in two calls, under a
  comment that says "Atomically" (`_core.py:914`).
* Topology. The host found by name in `add_host` may be half built. When a call for a
  further interface of the bastion stops before its dhcpd, hosts that get one later are
  served by an interface dhcpd does not listen on, until it is written again. The dhclients of
  further interfaces go by position (`_core.py:1137`). A bastion's network asks for
  1000 hosts and 100 dynamic ones and gets the 1022 of a /22 (`_core.py:1122`). The name
  of a block device on the host is its position in a list (`_core.py:1851`).
* Placement. `max_stripes` is compared before the stripes of the call are added
  (`_core.py:544`). A capability that fits on no single host, but on all of them
  together, is neither placed nor reported (`_core.py:866-878`). An affinity makes
  `containers` raise (`_core.py:855`).
* Certificates. When they expire is never looked at (`public.py:151`). After a stop
  between the writes of `registration.jwk` and `account.jwk` (`public.py:323-327`) every
  request for an account goes out in the name of the one that was lost, and is refused
  (`public.py:290`). The other `Torn` cases above.
* Archive. A custom package puts its commands in `POST_COMMAND_LIST` early; the
  finishing commands then replace them, and keep their place: they are lost, and
  the host reboots before the rest is applied (`configinit.py:94-105`, `170`).
  The scripts of a host are told apart by a comparison of bytes with text
  (`base.py:87`) and all have the key `/bin/sh`, so the last replaces the others.
* Placement over versions. What is added to an earlier site or deployment may move the
  containers of later ones, or change their numbers and so their addresses
  (`_core.py:836`, `885`), and nothing promises otherwise. Blocks that the version being
  deployed does not need are given up, also if another one does (`_core.py:1650`).
* Hosts. After an older version was pushed again `bectl create` does not replace the
  environment of its name, and what is booted is what was made of it the first time
  (`configinit.py:171`). BASE is cloned from the last snapshot of any release
  (`jail-zfs-setup.sh:102`). The `Stuck` cases above. A container whose name is
  part of that of one that is there, `web1` beside `web10`, never gets a dataset
  (`jail-zfs-skeleton:8`; `Shadowed`).

## 4. Proofs

TLAPS checks the following for every value of the constants that satisfies the
assumptions.

| Module | Theorems |
|---|---|
| `SubnetPoolProofs` | `TypeCorrect`, `NoSharedAddress`, `StaysWithinRoot`, `SmallestFit`, `ExhaustionIsReal` |
| `DomainVersionsProofs` | `VersionTypes`, `DraftAlwaysNewest`, `SessionAlwaysNewest`, `AlwaysSelfContained`, `RowsAreALog` |
| `ProvisionProofs` | `ProvisionTypes`, `NoSecondServer`, `NoSecondBlock`, `AlwaysBootstrapped`, `ReturnedIsReady`, `OnlyTheRightHost`, `OneSiteConverges`, `OnlyTheLastSite` |
| `NetworkProofs` | `LayoutInductive`, `NetworkTypes`, `AddressesAreDistinct`, `AlwaysServed`, `OneDhclientEach` |
| `PlacementProofs` | `PlacementInductive`, `PlacementTypes`, `StripesAreDistinct`, `NeverOvercommitted`, `ContainersApart`, `ContainersStay` |
| `TrustProofs` | `TrustTypes`, `AuthorityIsOne`, `SignerIsTrusted`, `ChainIsForKey`, `AccountIsKnown` |
| `HostConfigProofs` | `HostTypes`, `ThinjailIsKept`, `PushesLand`, `RunningIsReached` |

Every invariant and every action property that a passing run checks is the conclusion
of one of them, and so is the refinement.

Each module proves, of one or more invariants, `Init => IInv`,
`IInv /\ [Next]_vars => IInv'` and that `IInv`
implies the theorem.

**SubnetPool.** `IInv` is `TypeOK`, `RowsRequested` (every row is of a type some caller asks for, under the root of that type),
`AddressesDisjoint` and `WithinRoot`. `RowsRequested` is what makes the code's
comparison sufficient: it compares a candidate with rows of its own type only, and
by `OneSharedType` no two types are cut from the shared root. (No caller in `src/`
asks for `ROUTING`; if one did, disjointness would fail.) The arithmetic is in the
lemmas on powers of two: a candidate's block is aligned and ends inside its root,
and two aligned blocks of which neither contains an end of the other share nothing.

`PoolInv` adds `Answered`, what the last call returned or raised. A size divides every
larger one (`SizeDivides`), and the prefix the code looks for by counting is the longest
with room (`LongestPrefix`), which gives `SmallestFit`. For `ExhaustionIsReal` the
blocks the loops visit are all there are, by induction over their positions.

**DomainVersions.** `IInv` is `TypeOK`, `DraftIsNewest`, `SessionOnNewest` and
`SelfContained`. `txnclone` is what could break the first three; the unique index
on name and version refuses it while there is a draft. `CloneClosed`: what the
clone copies is closed under `Parent`. None of it rests on objects knowing that their
version is frozen: `snapshot` may be called again on a stale one, and then gives a row
that has a name another.

`RowsAreALog` is the refinement: under `LogInv`, which is `IInv` and that nothing is
deployed that is not frozen, each action is an action of `VersionLog` or leaves log and
draft alone. It takes `set_domain_Create` to `Begin`, `add` to `Edit`, `snapshot` to
`Freeze`, `txnclone` to `Branch`, `deploy` to `MarkDeployed`; on a stale row `add` to
`Amend` and `snapshot` to `Rename`; `Refresh` and `Restart` to `Settle`, and every other
to a stutter. The log is by ranks: ranks are positions without gaps (`NthIs`, `RankReached`,
by induction), and as `DraftIsNewest` puts the draft after every frozen row
(`DraftsApart`), `snapshot` appends (`NthAdded`, `NthKept`).

**Provision.** No safety property is inductive by itself. `IInv` adds:

* `SpawnedHaveNone`: while a greenlet has still to create its host, no live server
  has that host's label. It holds as the greenlets are spawned for the hosts
  without a server, and as nobody else creates any.
* `KeyStages`: which keys exist at which stage, and what `carry` holds. From the
  stage `blocks` on there is one key, the authority's with the user data, and the
  servers are created after it (`BootstrapKey`).
* `GletSeen`: what a greenlet has seen: at `ping` an address, at `update` a server
  that is up (`CreatedIsReady`).
* `GletSites`: greenlets are of hosts of the sites reached so far, and over but while
  they are joined.
* `Attaching`: the hosts and the blocks that a stage looks up exist, so that
  `CHOOSE` picks one.

Blocks have no such strengthening: their label is looked up in the step that
creates them.

`OnlyTheRightHost` is about addresses that are given out again, so what was recorded
before the process began counts for nothing. `RightInv` adds: no two servers that are
there have one address (`OwnAddress`); while deploy runs none is deleted, so a server
keeps its address until it ends (`AliveStays`); a greenlet that got as far as creating
its server made one of its own host (`CreatedRight`); and the rows of hosts that were
listed with a server, in the sites reached so far, lead to a server of the host or to
nobody yet (`RowsRight`). A host whose greenlet died is in neither part: its row may
still lead to another's server.

`Prepared` says what each stage leaves to the next: no unneeded block and none missing
before networks are made, no unneeded server before greenlets are spawned, spawned ones
of this site only, then a server for each host with its MAC address in the row, then
blocks where they belong but for those still in `todo`. Nothing the provider, the
greenlets or the operator do meanwhile undoes it: purges take only what is marked. As
it speaks of the site being prepared, its conclusion for a whole domain is about the
last site (`OnlyTheLastSite`). With `NSites = 1` that is the version, hence the
hypothesis of `OneSiteConverges`; with more, `two_sites` is the
counterexample.

**Network.** Everything is computed from positions in lists, so the first lemmas are
about those: `Before` grows strictly, and `Nth` is its inverse (`BeforeStrict`,
`NthBefore`). A call only adds rows, after all there are (`RowsGrow`, `SetsGrow`), so
positions are kept (`PositionsKept`), and a new interface comes last. `NetworkInv` adds
to the types:

* `CallKinds`, `InCall`, `IfaceKinds`: what the calls that are left are about, and that
  one in progress is about the newest interface.
* `RoutedByBastion` and `RoutedInOrder`: interfaces are routed by the bastion of their
  site, a physical one of a compute host by the subnet of its position among the
  internal ones. New subnets of the bastion come after those it has, so rerouting gives
  a physical interface the router it had; a VLAN it gives one in place of none.
* `Listening`: what a bastion's dhcpd listens on. It holds of the interfaces that come
  with a host only, as `add_iface` writes the list before it creates the second one.
* `ClientsInOrder`: the n-th DHCP client of a host is of its n-th physical interface,
  wherever going through them stopped.

Addresses: two interfaces with one address have it from the same subnet. Either both are
handed out by one interface, at different offsets; or one is the subnet's own, at offset
1, which is never handed out.

**Placement.** `PlacementInv` is `NetworkInv` and `StripesInOrder`: stripes of a service
go up with the rows, through all groups of a deployment. That they are distinct is not
inductive, as the next one is computed from the highest there is.

`containersOf` is a loop. A function with the equations of the loop exists
(`LoopExists`, by induction), so `ContainersLoop` may speak of its states. Each of them
is `Placing`, `Numbered` and `Balanced`: slots taken and slots left add up to what the
host has, and containers on a host are numbered from 1 without a gap, for each
deployment. That gives `NeverOvercommitted` and, with the offsets of VLANs,
`ContainersApart`. For `ContainersStay` the loop over the rows now and over the rows
then run side by side. With a host more they agree on all that is placed ahead of it, on
hosts of its site and of earlier ones (`SameAhead`): what finds no room there goes to it
or beyond in both. With more capabilities they go through the same states until the
first new one is taken (`Alike`), and by then all that is older in its deployment or in
an earlier one has been placed (`Past`).

**Trust.** `IInv` relates what is left to write to what was written. `Authority`: the
password file, the last, exists only if the three others are of one key pair, as while
`CommitLeft` has it still to come it is absent; and a committed domain has it. So
`ca_is_valid`, which looks for four files, can be fooled only about the content of the
last. `Trusting`: before the row is committed nobody was given a key, and after it no
step touches the authority's files (`CommittedStays`), so whatever was fetched since is
the key that signs. `Certificates`: a private key is replaced only while there is no
chain beside it, and `chain.crt` is written when `private.pem` holds the key of the
request; so retries and other containers of the same aliases cannot part them.
`Account` is the same for the registration and the account key. `Quiet` says at which
stages anything is written at all.

**HostConfig.** `ScriptTypes`, and two invariants, for any versions, hosts, names and number of failures.

`DataInv` is about the layers. `LayersInv`: while directories are moved each of them is
in BASE or in SKELETON; the snapshot is of all or does not exist. It is inductive
because the moves end with the last directory only, and because a script that was
stopped among them finds `var/empty` gone and does not get to the snapshot.
`ThinjailInv` follows, and with it `ThinjailKept`: a container is cloned from the whole
skeleton, and only if it has no dataset, as it is found under its own name
(`NamesAssumption`).

`PushInv` is about one push. `RestOfArchive`: what is left is a tail of the archive
of the version. While it is applied, `InPush`: a file of the version whose step is no
longer left was written, to the environment that runs; a container that runs and whose
steps are not left has its payload and is to boot anew; once the environment is no
longer to be created it is there; once it is no longer to be activated, it is next.
`Environments`: as long as none was pushed out of order no environment is of a newer
version than the last, and the one of the last has all of its files, as it was cloned
from one that had, and only the same version writes to it after that. At
`shutdown` nothing is left (`FinishesLast`, the content of `ArchivesAssumption`), which
gives `Lands` and `RunningReached`. An interruption empties `todo`, and with it all that
`InPush` claims: what was written stays, and is written again.

**Only model-checked**: the liveness properties `DeployEnds`, `EndsCertified` and
`EndsConfigured`, as liveness under fairness is out of the prover's reach, and the
violations. Induction is done on sets of numbers (`Induction` in `Extrema`), as the
theorems of the library take an operator as a parameter, which no prover here can
instantiate; loops and ranks are therefore functions, and no module uses a recursive
operator.

## 5. Not modelled

* The Route 53 shim and the command line have no state. Templates of capabilities
  (dhcpd, named, bird), host types, operating systems and the text of generated files
  are data; the tree of mount points (`base.py`) is one more file.
* The root authority (`public.py:426-449`, `642-670`) may sign the certificate of the internal
  one. It is read, never written, and nothing that is modelled looks at who signed.
* `bootstrap.sh` and `resetimage.sh` are run by hand when an image is made.
* Provider calls `deploy` does not make: `network_attach`, `block_delete`, `dns_*`.
* Two rows of one table in a version (`DomainVersions` is about tables), two
  operators at once, and the clock.
* Tests and docs promise nothing beyond what is quoted.

## 6. Plan

Done, in this order: `SubnetPool`, `DomainVersions` over `VersionLog`, `Provision`,
`Network`, `Placement`, `Trust`, `ConfigArchive`, `HostConfig`, and the proofs of all of
them. The order went from what every other part rests on to where failures cost most
(data on block devices, servers that are paid for), then to the rows everything is
computed from, then to keys and to the hosts.

Next:

1. `Provision` shown to implement an abstract account: a map from labels to
   servers and blocks that only gains what the version asks for.
2. What the excepted cases come to, as invariants: VLANs that were rerouted (an address
   is then shared with a gateway, and with nothing else), `Torn`, `Stuck` and `Shadowed`;
   and the overlap of two pushes to one host.
3. Of the hazards `PROJECT.json` lists without a property, the one that instances
   could reach: the 14th container of a
   deployment on a host whose VLAN is a /28.
