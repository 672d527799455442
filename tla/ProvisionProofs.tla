--------------------------- MODULE ProvisionProofs ---------------------------
(* Theorems about Provision, for every set of sites, hosts, blocks and       *)
(* versions, every placement and every number of attempts.                   *)
EXTENDS Provision, SequenceTheorems, TLAPS

BootKey == [material |-> "CA", userdata |-> TRUE]

\* The host of a greenlet that is about to ask for a server has none.
SpawnedHaveNone == \A h \in Hosts : glet[h] = "create" => ServersOf(h) = {}

\* The keys of the account at each stage of deploy: the bootstrap key is the
\* only one from the moment servers may be created.
KeyStages ==
    /\ pc = "userdata" =>
          \/ keys = << >> /\ carry = "CA"
          \/ \E u \in BOOLEAN : keys = <<[material |-> "CA", userdata |-> u]>>
    /\ pc \notin {"idle", "authority", "userdata"} => keys = <<BootKey>>

\* What a greenlet has seen of its server stays true of it.
GletSeen ==
    /\ pc \in {"idle", "authority"} => \A h \in Hosts : glet[h] = "none"
    /\ \A h \in Hosts :
          /\ glet[h] \in {"address", "ping", "update", "done"} => created[h] \in ServerIds
          /\ glet[h] \in {"ping", "update", "done"} => servers[created[h]].ip # ZeroAddress
          /\ glet[h] \in {"update", "done"} => servers[created[h]].up
          /\ glet[h] = "done" => rows[version][h].ip = servers[created[h]].ip

\* A greenlet is one of a site that has been reached, and has ended when the
\* process goes on.
LateSteps == {"join", "macs", "attach", "dns", "push"}

Reached(h) == SiteOf[h] < site \/ (SiteOf[h] = site /\ pc \in LateSteps)

GletSites ==
    /\ pc # "join" => \A h \in Hosts : GletOver(h)
    /\ \A h \in Hosts : glet[h] # "none" => Reached(h)

\* While blocks are attached, every host of the site has its server.
Attaching ==
    pc = "attach" => todo \subseteq SiteBlocks /\ ExistingHosts = SiteHosts

IInv == TypeOK /\ OneLiveServer /\ SpawnedHaveNone /\ OneLiveBlock
          /\ KeyStages /\ BootstrapKey /\ GletSeen /\ GletSites /\ Attaching
-----------------------------------------------------------------------------
\* A listing finds the host's server when it has one: there are never two.
LEMMA ListedServer ==
    ASSUME TypeOK, OneLiveServer, NEW h, ServersOf(h) # {}
    PROVE  Listed(h) \in ServersOf(h) /\ Listed(h) \in Nat
<1>1. \A s, t \in ServersOf(h) : s = t
  BY DEF OneLiveServer, ServersOf
<1>2. ServersOf(h) \subseteq Nat
  BY DEF TypeOK, ServersOf, LiveServers, ServerIds
<1>3. \E s \in ServersOf(h) : \A t \in ServersOf(h) : t <= s
  BY <1>1, <1>2
<1>4. Listed(h) \in ServersOf(h)
  BY <1>3 DEF Listed
<1>. QED  BY <1>2, <1>4

LEMMA FunctionIsSeq ==
    ASSUME NEW n \in Nat, NEW S, NEW q \in [1..n -> S]  PROVE q \in Seq(S)
BY SeqDef

\* An entry of a sequence may be replaced by another of its kind.
LEMMA SeqUpdate ==
    ASSUME NEW S, NEW q \in Seq(S), NEW i, NEW e, i \in DOMAIN q => e \in S
    PROVE  [q EXCEPT ![i] = e] \in Seq(S)
<1>1. CASE i \in DOMAIN q
  BY <1>1, ExceptSeq
<1>2. CASE i \notin DOMAIN q
  <2>1. [q EXCEPT ![i] = e] = q
    BY <1>2
  <2>. QED  BY <2>1
<1>. QED  BY <1>1, <1>2

\* The updates of a server, of a block and of a host's row that occur.
LEMMA ServerUpdate ==
    ASSUME NEW r \in Server
    PROVE  /\ \A st \in Status : [r EXCEPT !.status = st] \in Server
           /\ \A a \in Nat : [r EXCEPT !.ip = a] \in Server
           /\ [r EXCEPT !.up = TRUE] \in Server
BY DEF Server

LEMMA BlockUpdate ==
    ASSUME NEW r \in Block
    PROVE  /\ \A st \in Status : [r EXCEPT !.status = st] \in Block
           /\ \A n \in Nat : [r EXCEPT !.host = n] \in Block
           /\ \A st \in Status, n \in Nat : [r EXCEPT !.status = st, !.host = n] \in Block
BY DEF Block

HostRow == [ip : Int, mac : Nat]

LEMMA RowUpdate ==
    ASSUME NEW r \in HostRow
    PROVE  /\ \A a \in Int : [r EXCEPT !.ip = a] \in HostRow
           /\ \A n \in Nat : [r EXCEPT !.mac = n] \in HostRow
BY DEF HostRow

\* The rows that are written, host by host, from the listing of the servers.
RowsTyped == [Versions -> [Hosts -> HostRow]]

\* Rows that took addresses, and rows that took MAC addresses, from it.
Relisted(H) ==
    \A v \in Versions, h \in Hosts :
        /\ v = version /\ h \in H => rows'[v][h].ip = servers[Listed(h)].ip
        /\ v # version \/ h \notin H => rows'[v][h].ip = rows[v][h].ip

LEMMA KeptRows ==
    ASSUME TypeOK, OneLiveServer, NEW H \in SUBSET ExistingHosts, rows' = RowsKept(H)
    PROVE  rows' \in RowsTyped /\ Relisted(H)
<1>. DEFINE e(h) == [rows[version][h] EXCEPT !.ip = servers[Listed(h)].ip]
<1>1. rows \in RowsTyped /\ version \in Versions
  BY DEF TypeOK, RowsTyped, HostRow
<1>2. \A h \in Hosts : rows[version][h] \in HostRow
  BY <1>1 DEF RowsTyped
<1>3. ASSUME NEW h \in H  PROVE servers[Listed(h)].ip \in Int
  <2>1. Listed(h) \in ServersOf(h)
    BY ListedServer DEF ExistingHosts
  <2>2. servers[Listed(h)] \in Server
    BY <2>1 DEF TypeOK, ServersOf, LiveServers, ServerIds
  <2>. QED  BY <2>2 DEF Server
<1>4. \A h \in Hosts : h \in H => e(h) \in HostRow
  BY <1>2, <1>3, RowUpdate
<1>5. \A h \in Hosts : e(h).ip = servers[Listed(h)].ip
  BY <1>2 DEF HostRow
<1>. HIDE DEF e
<1>6. rows' = [rows EXCEPT ![version] =
                 [h \in Hosts |-> IF h \in H THEN e(h) ELSE rows[version][h]]]
  BY Zenon DEF RowsKept, e
<1>7. rows' \in RowsTyped
  BY <1>1, <1>2, <1>4, <1>6 DEF RowsTyped
<1>8. \A v \in Versions, h \in Hosts :
         rows'[v][h] = IF v = version /\ h \in H THEN e(h) ELSE rows[v][h]
  BY <1>1, <1>6 DEF RowsTyped
<1>9. Relisted(H)
  BY <1>5, <1>8 DEF Relisted
<1>. QED  BY <1>7, <1>9

MacsListed(H) ==
    /\ \A v \in Versions, h \in Hosts : rows'[v][h].ip = rows[v][h].ip
    /\ \A h \in Hosts : h \in H => rows'[version][h].mac = Listed(h)

LEMMA MacRows ==
    ASSUME TypeOK, OneLiveServer, NEW H \in SUBSET ExistingHosts, rows' = RowsWithMacs(H)
    PROVE  rows' \in RowsTyped /\ MacsListed(H)
<1>. DEFINE e(h) == [rows[version][h] EXCEPT !.mac = Listed(h)]
<1>1. rows \in RowsTyped /\ version \in Versions
  BY DEF TypeOK, RowsTyped, HostRow
<1>2. \A h \in Hosts : rows[version][h] \in HostRow
  BY <1>1 DEF RowsTyped
<1>3. ASSUME NEW h \in H  PROVE Listed(h) \in Nat
  BY ListedServer DEF ExistingHosts
<1>4. \A h \in Hosts : h \in H => e(h) \in HostRow
  BY <1>2, <1>3, RowUpdate
<1>5. \A h \in Hosts : e(h).ip = rows[version][h].ip /\ e(h).mac = Listed(h)
  BY <1>2 DEF HostRow
<1>. HIDE DEF e
<1>6. rows' = [rows EXCEPT ![version] =
                 [h \in Hosts |-> IF h \in H THEN e(h) ELSE rows[version][h]]]
  BY Zenon DEF RowsWithMacs, e
<1>7. rows' \in RowsTyped
  BY <1>1, <1>2, <1>4, <1>6 DEF RowsTyped
<1>8. \A v \in Versions, h \in Hosts :
         rows'[v][h] = IF v = version /\ h \in H THEN e(h) ELSE rows[v][h]
  BY <1>1, <1>6 DEF RowsTyped
<1>9. MacsListed(H)
  BY <1>1, <1>5, <1>8 DEF MacsListed
<1>. QED  BY <1>7, <1>9

\* Where the process is does not change the account.
LEMMA EndSessionType ==
    ASSUME TypeOK, NEW why, EndSession(why), rows' \in RowsTyped,
           UNCHANGED <<cloud, deployed>>
    PROVE  TypeOK'
BY DEF TypeOK, EndSession, cloud, Steps, GletStates, NoKey, NoServer, RowsTyped, HostRow

LEMMA SameRowsTyped == ASSUME TypeOK, UNCHANGED rows  PROVE rows' \in RowsTyped
BY DEF TypeOK, RowsTyped, HostRow

\* Type correctness is preserved by the steps that change keys and networks.
LEMMA KeyStepsType ==
    ASSUME TypeOK, DestroyKey \/ CreateAuthorityKey \/ CreateUserDataKey
    PROVE  TypeOK'
<1>1. CASE DestroyKey
  <2>1. Len(keys) \in Nat /\ Len(keys) >= 1 /\ NewestKey \in Key
    BY <1>1 DEF TypeOK, DestroyKey, NewestKey
  <2>2. ButLast(keys) \in Seq(Key)
    BY <2>1, SubSeqProperties DEF TypeOK, ButLast
  <2>. QED  BY <1>1, <2>1, <2>2 DEF TypeOK, DestroyKey, Key, Stay
<1>2. CASE CreateAuthorityKey
  BY <1>2, SitesAssumption
  DEF TypeOK, CreateAuthorityKey, PlainKey, Key, NoKey, Steps, Sites
<1>3. CASE CreateUserDataKey
  BY <1>3 DEF TypeOK, CreateUserDataKey, Key, NoKey, Steps
<1>. QED  BY <1>1, <1>2, <1>3

\* The same of the steps that mark, create and attach blocks.
LEMMA BlockStepsType ==
    ASSUME IInv,
           \/ MarkBlock \/ CreateBlock \/ BlocksReady \/ CreateNetwork \/ NetworksReady
           \/ \E l \in Blocks : AttachKept(l) \/ Detach(l) \/ Attach(l) \/ AttachFails(l)
    PROVE  TypeOK'
<1>. USE DEF IInv, TypeOK
<1>1. CASE MarkBlock
  <2>1. PICK b \in UnneededBlocks : blocks' = [blocks EXCEPT ![b].status = "marked"]
    BY <1>1 DEF MarkBlock
  <2>2. blocks' = [blocks EXCEPT ![b] = [blocks[b] EXCEPT !.status = "marked"]]
    BY <2>1, Zenon
  <2>3. blocks[b] \in Block
    BY DEF UnneededBlocks, LiveBlocks, BlockIds
  <2>4. [blocks[b] EXCEPT !.status = "marked"] \in Block
    BY <2>3, BlockUpdate DEF Status
  <2>5. blocks' \in Seq(Block)
    BY <2>2, <2>4, SeqUpdate
  <2>. QED  BY <1>1, <2>5 DEF MarkBlock, Goto, Steps
<1>2. CASE CreateBlock
  BY <1>2, MountsAssumption
  DEF CreateBlock, Goto, MissingBlocks, SiteBlocks, Block, Status, NoServer, Steps
<1>3. CASE BlocksReady
  BY <1>3 DEF BlocksReady, Goto, cloud, Steps
<1>4. CASE CreateNetwork
  BY <1>4 DEF CreateNetwork, Goto, Steps
<1>5. CASE NetworksReady
  BY <1>5 DEF NetworksReady, Goto, cloud, Steps
<1>6. ASSUME NEW l \in Blocks, AttachKept(l)  PROVE TypeOK'
  BY <1>6 DEF AttachKept, cloud
<1>7. ASSUME NEW l \in Blocks, Detach(l)  PROVE TypeOK'
  <2>. DEFINE e == [blocks[Device(l)] EXCEPT !.host = NoServer]
  <2>1. blocks' = [blocks EXCEPT ![Device(l)] = e]
    BY <1>7, Zenon DEF Detach
  <2>2. Device(l) \in DOMAIN blocks => e \in Block
    <3>1. SUFFICES ASSUME Device(l) \in DOMAIN blocks  PROVE e \in Block
      OBVIOUS
    <3>2. blocks[Device(l)] \in Block /\ NoServer \in Nat
      BY <3>1 DEF NoServer
    <3>. QED  BY <3>2, BlockUpdate
  <2>. HIDE DEF e
  <2>3. blocks' \in Seq(Block)
    BY <2>1, <2>2, SeqUpdate
  <2>. QED  BY <1>7, <2>3 DEF Detach, Goto, Steps
<1>8. ASSUME NEW l \in Blocks, Attach(l)  PROVE TypeOK'
  <2>1. MountedOn[version][l] \in SiteHosts
    BY <1>8 DEF Attach, Attaching, SiteBlocks
  <2>. DEFINE e == [blocks[Device(l)] EXCEPT !.host = Target(l)]
  <2>2. Target(l) \in Nat
    BY <1>8, <2>1, ListedServer DEF Attach, Attaching, ExistingHosts, Target
  <2>3. blocks' = [blocks EXCEPT ![Device(l)] = e]
    BY <1>8, Zenon DEF Attach
  <2>4. Device(l) \in DOMAIN blocks => e \in Block
    <3>1. SUFFICES ASSUME Device(l) \in DOMAIN blocks  PROVE e \in Block
      OBVIOUS
    <3>2. blocks[Device(l)] \in Block
      BY <3>1
    <3>. QED  BY <2>2, <3>2, BlockUpdate
  <2>. HIDE DEF e
  <2>5. blocks' \in Seq(Block)
    BY <2>3, <2>4, SeqUpdate
  <2>. QED  BY <1>8, <2>5 DEF Attach
<1>9. ASSUME NEW l \in Blocks, AttachFails(l)  PROVE TypeOK'
  BY <1>9, EndSessionType, SameRowsTyped DEF AttachFails
<1>. QED  BY <1>1, <1>2, <1>3, <1>4, <1>5, <1>6, <1>7, <1>8, <1>9

\* The same of the steps that mark and create servers and record them.
LEMMA ServerStepsType ==
    ASSUME IInv,
           \/ MarkServer \/ KeepAndSpawn \/ JoinAll \/ RecordMacs \/ MacsFail
           \/ CrashAmongRows
           \/ \E h \in Hosts : Greenlet(h) \/ GreenletFails(h)
    PROVE  TypeOK'
<1>. USE DEF IInv, TypeOK
<1>1. CASE MarkServer
  <2>1. PICK s \in UnneededServers : servers' = [servers EXCEPT ![s].status = "marked"]
    BY <1>1 DEF MarkServer
  <2>2. servers' = [servers EXCEPT ![s] = [servers[s] EXCEPT !.status = "marked"]]
    BY <2>1, Zenon
  <2>3. servers[s] \in Server
    BY DEF UnneededServers, LiveServers, ServerIds
  <2>4. [servers[s] EXCEPT !.status = "marked"] \in Server
    BY <2>3, ServerUpdate DEF Status
  <2>5. servers' \in Seq(Server)
    BY <2>2, <2>4, SeqUpdate
  <2>. QED  BY <1>1, <2>5 DEF MarkServer, Goto, Steps
<1>2. CASE KeepAndSpawn
  <2>1. rows' \in RowsTyped
    BY <1>2, KeptRows DEF KeepAndSpawn
  <2>. QED  BY <1>2, <2>1 DEF KeepAndSpawn, HostRow, RowsTyped, cloud, Steps, GletStates
<1>3. CASE JoinAll
  BY <1>3 DEF JoinAll, Goto, cloud, Steps
<1>4. CASE RecordMacs
  <2>1. rows' \in RowsTyped
    BY <1>4, MacRows DEF RecordMacs
  <2>2. SiteBlocks \subseteq Blocks
    BY MountsAssumption DEF SiteBlocks
  <2>. QED  BY <1>4, <2>1, <2>2 DEF RecordMacs, HostRow, RowsTyped, cloud, Steps
<1>5. CASE MacsFail
  <2>1. rows' \in RowsTyped
    BY <1>5, MacRows DEF MacsFail
  <2>. QED  BY <1>5, <2>1, EndSessionType DEF MacsFail
<1>10. CASE CrashAmongRows
  <2>1. rows' \in RowsTyped
    BY <1>10, KeptRows, MacRows DEF CrashAmongRows
  <2>. QED  BY <1>10, <2>1, EndSessionType DEF CrashAmongRows
<1>6. ASSUME NEW h \in Hosts, ServerCreate(h)  PROVE TypeOK'
  <2>1. NewestKey \in Key
    <3>1. keys = <<BootKey>>
      BY <1>6 DEF ServerCreate, GletStep, KeyStages
    <3>2. NewestKey = BootKey
      BY <3>1 DEF NewestKey
    <3>. QED  BY <3>2 DEF BootKey, Key
  <2>2. servers' \in Seq(Server)
    BY <1>6, <2>1 DEF ServerCreate, Server, Status, ZeroAddress
  <2>. QED  BY <1>6, <2>2 DEF ServerCreate, GletStep, GletStates
<1>7. ASSUME NEW h \in Hosts, SeeAddress(h) \/ SeeUp(h)  PROVE TypeOK'
  BY <1>7 DEF SeeAddress, SeeUp, GletStep, GletStates, cloud
<1>8. ASSUME NEW h \in Hosts, UpdateRow(h)  PROVE TypeOK'
  <2>. DEFINE e == [rows[version][h] EXCEPT !.ip = servers[created[h]].ip]
  <2>1. servers[created[h]].ip \in Int /\ rows[version][h] \in HostRow
    <3>1. created[h] \in DOMAIN servers
      BY <1>8 DEF UpdateRow, GletStep, GletSeen, ServerIds
    <3>2. servers[created[h]] \in Server
      BY <3>1
    <3>. QED  BY <3>2 DEF Server, HostRow
  <2>2. e \in HostRow
    BY <2>1, RowUpdate
  <2>3. rows' = [rows EXCEPT ![version] = [rows[version] EXCEPT ![h] = e]]
    BY <1>8, Zenon DEF UpdateRow
  <2>. HIDE DEF e
  <2>4. rows' \in [Versions -> [Hosts -> HostRow]]
    BY <2>2, <2>3 DEF HostRow
  <2>. QED  BY <1>8, <2>4 DEF HostRow, UpdateRow, GletStep, GletStates, cloud
<1>9. ASSUME NEW h \in Hosts, GreenletFails(h)  PROVE TypeOK'
  BY <1>9 DEF GreenletFails, GletStep, GletStates, cloud
<1>. QED  BY <1>1, <1>2, <1>3, <1>4, <1>5, <1>6, <1>7, <1>8, <1>9,
             <1>10 DEF Greenlet

LEMMA UnassignedNat ==
    ASSUME TypeOK, NEW s \in ServerIds, NEW a \in Unassigned(s)  PROVE a \in Nat
<1>1. s \in Nat
  BY DEF TypeOK, ServerIds
<1>2. \A t \in ServerIds : servers[t].ip \in Nat
  <2>1. \A t \in ServerIds : servers[t] \in Server
    BY DEF TypeOK, ServerIds
  <2>. QED  BY <2>1 DEF Server
<1>. QED  BY <1>1, <1>2 DEF Unassigned

\* The same of publishing, pushing and of what the provider and its operator do.
LEMMA OtherStepsType ==
    ASSUME IInv,
           \/ \E v \in Versions : Begin(v)
           \/ SitePrepared \/ Published
           \/ \E s \in Sites : Publish(s) \/ PublishFails(s)
           \/ \E h \in Hosts : Push(h)
           \/ MarkDeployed \/ Crash
           \/ \E s \in ServerIds : AssignAddress(s) \/ Boot(s) \/ PurgeServer(s)
           \/ \E b \in BlockIds : PurgeBlock(b)
    PROVE  TypeOK'
<1>. USE DEF IInv, TypeOK
<1>1. ASSUME NEW v \in Versions, Begin(v)  PROVE TypeOK'
  BY <1>1, SitesAssumption DEF Begin, cloud, Steps, Sites
<1>2. CASE SitePrepared
  <2>1. CASE site < NSites
    BY <1>2, <2>1, SitesAssumption DEF SitePrepared, cloud, Steps, Sites
  <2>2. CASE ~(site < NSites)
    BY <1>2, <2>2, SitesAssumption DEF SitePrepared, cloud, Steps, Sites
  <2>. QED  BY <2>1, <2>2
<1>3. ASSUME NEW s \in Sites, Publish(s)  PROVE TypeOK'
  <2>1. rows[version][BastionOf[s]].ip \in Int
    BY HostsAssumption, BastionAssumption
  <2>. QED  BY <1>3, <2>1 DEF Publish
<1>4. ASSUME NEW s \in Sites, PublishFails(s)  PROVE TypeOK'
  BY <1>4, EndSessionType, SameRowsTyped DEF PublishFails
<1>12. CASE Published
  BY <1>12, HostsAssumption DEF Published, Steps, cloud
<1>5. ASSUME NEW h \in Hosts, Push(h)  PROVE TypeOK'
  BY <1>5 DEF Push, cloud
<1>6. CASE MarkDeployed
  BY <1>6 DEF MarkDeployed, EndSession, cloud, Steps, NoKey, GletStates, NoServer
<1>7. CASE Crash
  BY <1>7, EndSessionType, SameRowsTyped DEF Crash
<1>8. ASSUME NEW s \in ServerIds, AssignAddress(s)  PROVE TypeOK'
  <2>1. servers[s] \in Server
    BY DEF ServerIds
  <2>2. PICK a \in Unassigned(s) : servers' = [servers EXCEPT ![s].ip = a]
    BY <1>8 DEF AssignAddress
  <2>3. a \in Nat
    BY UnassignedNat
  <2>4. [servers[s] EXCEPT !.ip = a] \in Server
    BY <2>1, <2>3, ServerUpdate
  <2>5. servers' = [servers EXCEPT ![s] = [servers[s] EXCEPT !.ip = a]]
    BY <2>2, Zenon
  <2>6. servers' \in Seq(Server)
    BY <2>4, <2>5, SeqUpdate
  <2>. QED  BY <1>8, <2>6 DEF AssignAddress, CloudStep, session
<1>9. ASSUME NEW s \in ServerIds, Boot(s)  PROVE TypeOK'
  <2>1. servers[s] \in Server
    BY DEF ServerIds
  <2>2. [servers[s] EXCEPT !.up = TRUE] \in Server
    BY <2>1, ServerUpdate
  <2>3. servers' = [servers EXCEPT ![s] = [servers[s] EXCEPT !.up = TRUE]]
    BY <1>9, Zenon DEF Boot
  <2>4. servers' \in Seq(Server)
    BY <2>2, <2>3, SeqUpdate
  <2>. QED  BY <1>9, <2>4 DEF Boot, CloudStep, session
<1>10. ASSUME NEW s \in ServerIds, PurgeServer(s)  PROVE TypeOK'
  <2>. DEFINE e(b) == [blocks[b] EXCEPT !.host = NoServer]
  <2>1. [servers[s] EXCEPT !.status = "gone"] \in Server
    <3>1. servers[s] \in Server /\ "gone" \in Status
      BY DEF ServerIds, Status
    <3>. QED  BY <3>1, ServerUpdate
  <2>2. servers' = [servers EXCEPT ![s] = [servers[s] EXCEPT !.status = "gone"]]
    BY <1>10, Zenon DEF PurgeServer
  <2>3. servers' \in Seq(Server)
    BY <2>1, <2>2, SeqUpdate
  <2>4. \A b \in BlockIds : blocks[b] \in Block /\ e(b) \in Block
    <3>1. ASSUME NEW b \in BlockIds  PROVE blocks[b] \in Block /\ NoServer \in Nat
      BY DEF BlockIds, NoServer
    <3>. QED  BY <3>1, BlockUpdate
  <2>. HIDE DEF e
  <2>5. blocks' = [b \in BlockIds |-> IF blocks[b].host = s THEN e(b) ELSE blocks[b]]
    BY <1>10, Zenon DEF PurgeServer, e
  <2>6. BlockIds = 1..Len(blocks) /\ Len(blocks) \in Nat
    BY DEF BlockIds
  <2>7. blocks' \in [1..Len(blocks) -> Block]
    BY <2>4, <2>5, <2>6
  <2>8. blocks' \in Seq(Block)
    BY <2>6, <2>7, FunctionIsSeq
  <2>. QED  BY <1>10, <2>3, <2>8 DEF PurgeServer, CloudStep, session
<1>11. ASSUME NEW b \in BlockIds, PurgeBlock(b)  PROVE TypeOK'
  <2>. DEFINE e == [blocks[b] EXCEPT !.status = "gone", !.host = NoServer]
  <2>1. e \in Block
    <3>1. blocks[b] \in Block /\ "gone" \in Status /\ NoServer \in Nat
      BY DEF BlockIds, Status, NoServer
    <3>. QED  BY <3>1, BlockUpdate
  <2>2. blocks' = [blocks EXCEPT ![b] = e]
    BY <1>11, Zenon DEF PurgeBlock
  <2>. HIDE DEF e
  <2>3. blocks' \in Seq(Block)
    BY <2>1, <2>2, SeqUpdate DEF BlockIds
  <2>. QED  BY <1>11, <2>3 DEF PurgeBlock, CloudStep, session
<1>. QED  BY <1>1, <1>2, <1>3, <1>4, <1>5, <1>6, <1>7, <1>8, <1>9, <1>10, <1>11,
             <1>12

LEMMA NextType == IInv /\ [Next]_vars => TypeOK'
<1>1. IInv /\ UNCHANGED vars => TypeOK'
  BY DEF IInv, TypeOK, vars, cloud, session
<1>. QED  BY <1>1, KeyStepsType, BlockStepsType, ServerStepsType, OtherStepsType
          DEF IInv, Next, SessionStep
-----------------------------------------------------------------------------
\* What no step takes from a server: its host and key, its address once
\* it has one, that it runs; and a server that is not live does not come back.
Kept(old, new) ==
    /\ new.host = old.host /\ new.key = old.key
    /\ new.status = "live" => old.status = "live"
    /\ old.ip # ZeroAddress => new.ip = old.ip
    /\ old.up => new.up

ServersKept ==
    ServerIds' = ServerIds /\ \A s \in ServerIds : Kept(servers[s], servers'[s])

LEMMA UnchangedKept == ASSUME UNCHANGED servers  PROVE ServersKept
BY DEF ServersKept, Kept, ServerIds

LEMMA ReplacedKept ==
    ASSUME TypeOK, NEW i \in ServerIds, NEW e, servers' = [servers EXCEPT ![i] = e],
           Kept(servers[i], e)
    PROVE  ServersKept
<1>1. ServerIds' = ServerIds
  BY DEF TypeOK, ServerIds
<1>2. ASSUME NEW s \in ServerIds  PROVE Kept(servers[s], servers'[s])
  <2>1. servers'[s] = IF s = i THEN e ELSE servers[s]
    BY DEF ServerIds
  <2>2. Kept(servers[s], servers[s])
    BY DEF Kept
  <2>. QED  BY <2>1, <2>2
<1>. QED  BY <1>1, <1>2 DEF ServersKept

\* The updates that occur take nothing from the server.
LEMMA UpdateKept ==
    ASSUME NEW r \in Server
    PROVE  /\ \A st \in {"marked", "gone"} : Kept(r, [r EXCEPT !.status = st])
           /\ \A a : r.ip = ZeroAddress => Kept(r, [r EXCEPT !.ip = a])
           /\ Kept(r, [r EXCEPT !.up = TRUE])
BY DEF Server, Kept

\* Only ServerCreate adds a server; the other steps keep those there are.
LEMMA ServersMove ==
    ASSUME TypeOK, [Next]_vars
    PROVE  ServersKept \/ \E h \in Hosts : ServerCreate(h)
<1>. SUFFICES ASSUME ~ \E h \in Hosts : ServerCreate(h)  PROVE ServersKept
  OBVIOUS
<1>1. CASE MarkServer
  <2>1. PICK s \in UnneededServers : servers' = [servers EXCEPT ![s].status = "marked"]
    BY <1>1 DEF MarkServer
  <2>2. servers' = [servers EXCEPT ![s] = [servers[s] EXCEPT !.status = "marked"]]
    BY <2>1, Zenon
  <2>3. s \in ServerIds /\ servers[s] \in Server
    BY DEF TypeOK, UnneededServers, LiveServers, ServerIds
  <2>4. Kept(servers[s], [servers[s] EXCEPT !.status = "marked"])
    BY <2>3, UpdateKept
  <2>. QED  BY <2>2, <2>3, <2>4, ReplacedKept
<1>3. ASSUME NEW s \in ServerIds, AssignAddress(s) \/ Boot(s) \/ PurgeServer(s)
      PROVE  ServersKept
  <2>1. servers[s] \in Server
    BY DEF TypeOK, ServerIds
  <2>2. CASE AssignAddress(s)
    <3>1. PICK a : servers' = [servers EXCEPT ![s].ip = a]
      BY <2>2 DEF AssignAddress
    <3>2. servers' = [servers EXCEPT ![s] = [servers[s] EXCEPT !.ip = a]]
      BY <3>1, Zenon
    <3>3. Kept(servers[s], [servers[s] EXCEPT !.ip = a])
      BY <2>1, <2>2, UpdateKept DEF AssignAddress
    <3>. QED  BY <3>2, <3>3, ReplacedKept
  <2>3. CASE Boot(s)
    <3>1. servers' = [servers EXCEPT ![s] = [servers[s] EXCEPT !.up = TRUE]]
      BY <2>3, Zenon DEF Boot
    <3>2. Kept(servers[s], [servers[s] EXCEPT !.up = TRUE])
      BY <2>1, UpdateKept
    <3>. QED  BY <3>1, <3>2, ReplacedKept
  <2>4. CASE PurgeServer(s)
    <3>1. servers' = [servers EXCEPT ![s] = [servers[s] EXCEPT !.status = "gone"]]
      BY <2>4, Zenon DEF PurgeServer
    <3>2. Kept(servers[s], [servers[s] EXCEPT !.status = "gone"])
      BY <2>1, UpdateKept
    <3>. QED  BY <3>1, <3>2, ReplacedKept
  <2>. QED  BY <1>3, <2>2, <2>3, <2>4
<1>4. CASE UNCHANGED servers
  BY <1>4, UnchangedKept
<1>5. CASE SessionStep /\ ~MarkServer
  <2>1. UNCHANGED servers
    BY <1>5 DEF SessionStep, DestroyKey, CreateAuthorityKey, CreateUserDataKey,
       MarkBlock, CreateBlock, BlocksReady, CreateNetwork, NetworksReady,
       KeepAndSpawn, JoinAll, RecordMacs, MacsFail, AttachKept, Detach, Attach,
       AttachFails, SitePrepared, Publish, Published, PublishFails, Push, MarkDeployed, cloud
  <2>. QED  BY <2>1, UnchangedKept
<1>6. ASSUME \/ \E v \in Versions : Begin(v)
             \/ \E h \in Hosts : SeeAddress(h) \/ SeeUp(h) \/ UpdateRow(h)
             \/ \E h \in Hosts : GreenletFails(h)
             \/ Crash \/ CrashAmongRows
             \/ \E b \in BlockIds : PurgeBlock(b)
      PROVE  UNCHANGED servers
  BY <1>6 DEF Begin, SeeAddress, SeeUp, UpdateRow, GreenletFails, Crash, CrashAmongRows, PurgeBlock, cloud
<1>7. UNCHANGED vars => UNCHANGED servers
  BY DEF vars, cloud
<1>. QED  BY <1>1, <1>3, <1>4, <1>5, <1>6, <1>7 DEF Next, Greenlet, SessionStep

\* What the invariants below use of ServerCreate.
LEMMA Created ==
    ASSUME TypeOK, NEW h \in Hosts, ServerCreate(h)
    PROVE  LET n == Len(servers) + 1
           IN  /\ n \in Nat /\ n \notin ServerIds /\ ServerIds' = ServerIds \cup {n}
               /\ \A s \in ServerIds : servers'[s] = servers[s]
               /\ servers'[n].host = h /\ servers'[n].key = NewestKey
               /\ servers'[n].ip = ZeroAddress /\ servers'[n].status = "live"
<1>. DEFINE n == Len(servers) + 1
            e == [host |-> h, status |-> "live", ip |-> ZeroAddress,
                  up |-> FALSE, key |-> NewestKey]
<1>1. servers' = Append(servers, e)
  BY DEF ServerCreate
<1>2. /\ e.host = h /\ e.key = NewestKey
      /\ e.ip = ZeroAddress /\ e.status = "live"
  OBVIOUS
<1>3. servers \in Seq(Server)
  BY DEF TypeOK
<1>. HIDE DEF e
<1>4. /\ n \in Nat /\ DOMAIN servers = 1..Len(servers) /\ DOMAIN servers' = 1..n
      /\ \A s \in 1..Len(servers) : servers'[s] = servers[s]
      /\ servers'[n] = e
  BY <1>1, <1>3
<1>. QED  BY <1>2, <1>3, <1>4 DEF ServerIds

\* The steps of the process that end it, and those that leave greenlets and
\* rows alone.
EndingStep ==
    \/ MacsFail \/ MarkDeployed \/ Crash \/ CrashAmongRows
    \/ \E l \in Blocks : AttachFails(l)
    \/ \E s \in Sites : PublishFails(s)

QuietStep ==
    \/ DestroyKey \/ CreateAuthorityKey \/ CreateUserDataKey
    \/ MarkBlock \/ CreateBlock \/ BlocksReady
    \/ CreateNetwork \/ NetworksReady \/ MarkServer \/ JoinAll
    \/ \E l \in Blocks : AttachKept(l) \/ Detach(l) \/ Attach(l)
    \/ SitePrepared \/ Published
    \/ \E s \in Sites : Publish(s)
    \/ \E h \in Hosts : Push(h)

LEMMA SessionSteps ==
    ASSUME SessionStep  PROVE KeepAndSpawn \/ RecordMacs \/ EndingStep \/ QuietStep
BY DEF SessionStep, EndingStep, QuietStep

LEMMA EndingSteps ==
    ASSUME EndingStep  PROVE pc' = "idle" /\ \A h \in Hosts : glet'[h] = "none"
BY DEF EndingStep, MacsFail, CrashAmongRows, PublishFails, MarkDeployed, Crash, AttachFails, EndSession

LEMMA QuietSteps ==
    ASSUME QuietStep
    PROVE  UNCHANGED <<glet, created, rows, version>> /\ pc' \notin {"idle", "join"}
BY DEF QuietStep, DestroyKey, CreateAuthorityKey, CreateUserDataKey, MarkBlock,
   CreateBlock, BlocksReady, CreateNetwork, NetworksReady, MarkServer, JoinAll,
   AttachKept, Detach, Attach, SitePrepared, Publish, Published, Push, Goto, Stay, cloud

\* A greenlet is only ever started for a host without a server.
LEMMA Spawning ==
    ASSUME IInv, [Next]_vars, NEW h \in Hosts, glet'[h] = "create"
    PROVE  ServersOf(h) = {}
<1>. SUFFICES ASSUME glet[h] # "create"  PROVE ServersOf(h) = {}
  BY DEF IInv, SpawnedHaveNone
<1>0. glet \in [Hosts -> GletStates]
  BY DEF IInv, TypeOK
<1>1. CASE KeepAndSpawn
  BY <1>1 DEF KeepAndSpawn, ExistingHosts
<1>2. ASSUME NEW k \in Hosts, Greenlet(k) \/ GreenletFails(k)  PROVE FALSE
  BY <1>0, <1>2 DEF Greenlet, ServerCreate, SeeAddress, SeeUp, UpdateRow,
                    GreenletFails, GletStep
<1>3. CASE EndingStep
  BY <1>3, EndingSteps
<1>4. CASE RecordMacs
  BY <1>4 DEF RecordMacs
<1>5. CASE QuietStep
  BY <1>5, QuietSteps
<1>6. ASSUME \/ \E v \in Versions : Begin(v)
             \/ \E s \in ServerIds : AssignAddress(s) \/ Boot(s) \/ PurgeServer(s)
             \/ \E b \in BlockIds : PurgeBlock(b)
             \/ UNCHANGED vars
      PROVE  UNCHANGED glet
  BY <1>6 DEF Begin, AssignAddress, Boot, PurgeServer, PurgeBlock, CloudStep, session, vars
<1>7. CASE SessionStep \/ Crash \/ CrashAmongRows
  BY <1>1, <1>3, <1>4, <1>5, <1>7, SessionSteps DEF EndingStep
<1>. QED  BY <1>2, <1>6, <1>7 DEF Next

LEMMA NextServers ==
    IInv /\ [Next]_vars => OneLiveServer' /\ SpawnedHaveNone'
<1>. SUFFICES ASSUME IInv, [Next]_vars  PROVE OneLiveServer' /\ SpawnedHaveNone'
  OBVIOUS
<1>1. CASE ServersKept
  <2>1. \A s \in LiveServers' : s \in LiveServers /\ servers'[s].host = servers[s].host
    BY <1>1 DEF ServersKept, Kept, LiveServers
  <2>2. OneLiveServer'
    BY <2>1 DEF IInv, OneLiveServer
  <2>3. \A h \in Hosts : ServersOf(h)' \subseteq ServersOf(h)
    BY <2>1 DEF ServersOf
  <2>. QED  BY <2>2, <2>3, Spawning DEF SpawnedHaveNone
<1>2. ASSUME NEW h \in Hosts, ServerCreate(h)  PROVE OneLiveServer' /\ SpawnedHaveNone'
  <2>. DEFINE n == Len(servers) + 1
  <2>1. /\ n \notin ServerIds /\ ServerIds' = ServerIds \cup {n}
        /\ \A s \in ServerIds : servers'[s] = servers[s]
        /\ servers'[n].host = h
    BY <1>2, Created DEF IInv
  <2>. HIDE DEF n
  <2>2. ServersOf(h) = {} /\ glet' = [glet EXCEPT ![h] = "address"]
    BY <1>2 DEF ServerCreate, GletStep, IInv, SpawnedHaveNone
  <2>3. LiveServers' \subseteq LiveServers \cup {n}
    BY <2>1 DEF LiveServers
  <2>4. \A s \in LiveServers : s \in ServerIds /\ servers[s].host # h
    BY <2>2 DEF ServersOf, LiveServers
  <2>5. OneLiveServer'
    BY <2>1, <2>3, <2>4 DEF IInv, OneLiveServer
  <2>6. ASSUME NEW k \in Hosts, glet'[k] = "create"  PROVE ServersOf(k)' = {}
    <3>1. k # h /\ glet[k] = "create"
      BY <2>2, <2>6 DEF IInv, TypeOK
    <3>2. ServersOf(k) = {}
      BY <3>1 DEF IInv, SpawnedHaveNone
    <3>. QED  BY <2>1, <2>3, <2>4, <3>1, <3>2 DEF ServersOf
  <2>. QED  BY <2>5, <2>6 DEF SpawnedHaveNone
<1>. QED  BY <1>1, <1>2, ServersMove DEF IInv
-----------------------------------------------------------------------------
\* A block keeps its label, and one that is not live does not come back.
BlocksKept ==
    /\ BlockIds' = BlockIds
    /\ \A b \in BlockIds : /\ blocks'[b].label = blocks[b].label
                           /\ blocks'[b].status = "live" => blocks[b].status = "live"

LEMMA UnchangedBlocks == ASSUME UNCHANGED blocks  PROVE BlocksKept
BY DEF BlocksKept, BlockIds

LEMMA ReplacedBlock ==
    ASSUME TypeOK, NEW i, NEW e, blocks' = [blocks EXCEPT ![i] = e],
           i \in BlockIds => /\ e.label = blocks[i].label
                             /\ e.status = "live" => blocks[i].status = "live"
    PROVE  BlocksKept
<1>1. BlockIds' = BlockIds
  BY DEF BlockIds
<1>2. ASSUME NEW b \in BlockIds
      PROVE  /\ blocks'[b].label = blocks[b].label
             /\ blocks'[b].status = "live" => blocks[b].status = "live"
  <2>1. blocks'[b] = IF b = i THEN e ELSE blocks[b]
    BY DEF BlockIds
  <2>. QED  BY <2>1
<1>. QED  BY <1>1, <1>2 DEF BlocksKept

LEMMA BlockUpdateKept ==
    ASSUME NEW r \in Block
    PROVE  /\ \A n : LET e == [r EXCEPT !.host = n]
                     IN  e.label = r.label /\ e.status = r.status
           /\ \A st : LET e == [r EXCEPT !.status = st]
                      IN  e.label = r.label /\ e.status = st
           /\ \A n, st : LET e == [r EXCEPT !.status = st, !.host = n]
                         IN  e.label = r.label /\ e.status = st
BY DEF Block

\* Only CreateBlock adds a block; the other steps keep those there are.
LEMMA BlocksMove ==
    ASSUME TypeOK, [Next]_vars, ~CreateBlock
    PROVE  BlocksKept
<1>0. \A b \in DOMAIN blocks : blocks[b] \in Block
  BY DEF TypeOK
<1>1. CASE MarkBlock
  <2>1. PICK b \in UnneededBlocks : blocks' = [blocks EXCEPT ![b].status = "marked"]
    BY <1>1 DEF MarkBlock
  <2>. DEFINE e == [blocks[b] EXCEPT !.status = "marked"]
  <2>2. blocks' = [blocks EXCEPT ![b] = e]
    BY <2>1, Zenon
  <2>3. b \in BlockIds => e.label = blocks[b].label /\ e.status = "marked"
    BY <1>0, BlockUpdateKept DEF BlockIds
  <2>. HIDE DEF e
  <2>. QED  BY <2>2, <2>3, ReplacedBlock
<1>2. ASSUME NEW l \in Blocks, Detach(l) \/ Attach(l)  PROVE BlocksKept
  <2>1. PICK n : blocks' = [blocks EXCEPT ![Device(l)].host = n]
    BY <1>2, Zenon DEF Detach, Attach
  <2>. DEFINE e == [blocks[Device(l)] EXCEPT !.host = n]
  <2>2. blocks' = [blocks EXCEPT ![Device(l)] = e]
    BY <2>1, Zenon
  <2>3. Device(l) \in BlockIds => e.label = blocks[Device(l)].label
                                  /\ e.status = blocks[Device(l)].status
    BY <1>0, BlockUpdateKept DEF BlockIds
  <2>. HIDE DEF e
  <2>. QED  BY <2>2, <2>3, ReplacedBlock
<1>3. ASSUME NEW s \in ServerIds, PurgeServer(s)  PROVE BlocksKept
  <2>. DEFINE e(b) == [blocks[b] EXCEPT !.host = NoServer]
  <2>1. \A b \in BlockIds : e(b).label = blocks[b].label /\ e(b).status = blocks[b].status
    BY <1>0, BlockUpdateKept DEF BlockIds
  <2>. HIDE DEF e
  <2>2. blocks' = [b \in BlockIds |-> IF blocks[b].host = s THEN e(b) ELSE blocks[b]]
    BY <1>3, Zenon DEF PurgeServer, e
  <2>. QED  BY <2>1, <2>2 DEF BlocksKept, BlockIds
<1>4. ASSUME NEW b \in BlockIds, PurgeBlock(b)  PROVE BlocksKept
  <2>. DEFINE e == [blocks[b] EXCEPT !.status = "gone", !.host = NoServer]
  <2>1. blocks' = [blocks EXCEPT ![b] = e]
    BY <1>4, Zenon DEF PurgeBlock
  <2>2. e.label = blocks[b].label /\ e.status = "gone"
    BY <1>0, BlockUpdateKept DEF BlockIds
  <2>. HIDE DEF e
  <2>. QED  BY <2>1, <2>2, ReplacedBlock
<1>5. CASE SessionStep /\ ~MarkBlock /\ ~ \E l \in Blocks : Detach(l) \/ Attach(l)
  <2>1. UNCHANGED blocks
    BY <1>5 DEF SessionStep, DestroyKey, CreateAuthorityKey, CreateUserDataKey,
       BlocksReady, CreateNetwork, NetworksReady, MarkServer, KeepAndSpawn, JoinAll,
       RecordMacs, MacsFail, AttachKept, AttachFails, SitePrepared, Publish,
       Published, PublishFails, Push, MarkDeployed, cloud
  <2>. QED  BY <2>1, UnchangedBlocks
<1>6. ASSUME \/ \E v \in Versions : Begin(v)
             \/ \E h \in Hosts : Greenlet(h) \/ GreenletFails(h)
             \/ Crash \/ CrashAmongRows
             \/ \E s \in ServerIds : AssignAddress(s) \/ Boot(s)
             \/ UNCHANGED vars
      PROVE  UNCHANGED blocks
  BY <1>6 DEF Begin, Greenlet, ServerCreate, SeeAddress, SeeUp, UpdateRow,
              GreenletFails, Crash, CrashAmongRows, AssignAddress, Boot, vars, cloud
<1>. QED  BY <1>1, <1>2, <1>3, <1>4, <1>5, <1>6, UnchangedBlocks DEF Next, SessionStep

LEMMA NextBlocks == IInv /\ [Next]_vars => OneLiveBlock'
<1>. SUFFICES ASSUME IInv, [Next]_vars  PROVE OneLiveBlock'
  OBVIOUS
<1>1. CASE ~CreateBlock
  <2>1. BlocksKept
    BY <1>1, BlocksMove DEF IInv
  <2>. QED  BY <2>1 DEF BlocksKept, IInv, OneLiveBlock, LiveBlocks
<1>2. CASE CreateBlock
  <2>1. PICK l \in MissingBlocks :
           blocks' = Append(blocks, [label |-> l, status |-> "live", host |-> NoServer])
    BY <1>2 DEF CreateBlock
  <2>. DEFINE n == Len(blocks) + 1
  <2>2. /\ BlockIds' = BlockIds \cup {n} /\ n \notin BlockIds
        /\ \A b \in BlockIds : blocks'[b] = blocks[b]
        /\ blocks'[n].label = l
    BY <2>1 DEF IInv, TypeOK, BlockIds
  <2>. HIDE DEF n
  <2>3. \A b \in LiveBlocks : blocks[b].label # l
    BY DEF MissingBlocks
  <2>. QED  BY <2>2, <2>3 DEF IInv, OneLiveBlock, LiveBlocks
<1>. QED  BY <1>1, <1>2
-----------------------------------------------------------------------------
LEMMA NextKeys == IInv /\ [Next]_vars => KeyStages'
<1>. SUFFICES ASSUME IInv, [Next]_vars  PROVE KeyStages'
  OBVIOUS
<1>. USE DEF IInv, KeyStages
<1>1. CASE DestroyKey
  <2>1. CASE pc = "authority"
    BY <1>1, <2>1 DEF DestroyKey, Stay
  <2>2. CASE pc = "userdata"
    <3>1. PICK u \in BOOLEAN : keys = <<[material |-> "CA", userdata |-> u]>>
      BY <1>1, <2>2 DEF DestroyKey
    <3>2. Len(keys) = 1 /\ NewestKey.material = "CA"
      BY <3>1 DEF NewestKey
    <3>3. ButLast(keys) = << >>
      BY <3>2, SubSeqEmpty DEF ButLast, TypeOK
    <3>. QED  BY <1>1, <2>2, <3>2, <3>3 DEF DestroyKey, Stay
  <2>. QED  BY <1>1, <2>1, <2>2 DEF DestroyKey
<1>2. CASE CreateAuthorityKey
  BY <1>2 DEF CreateAuthorityKey, PlainKey
<1>3. CASE CreateUserDataKey
  BY <1>3 DEF CreateUserDataKey, BootKey, NoKey
<1>4. ASSUME SessionStep, ~DestroyKey, ~CreateAuthorityKey, ~CreateUserDataKey
      PROVE  /\ pc \notin {"idle", "authority", "userdata"} /\ UNCHANGED keys
             /\ pc' # "authority"
  BY <1>4 DEF SessionStep, MarkBlock, CreateBlock, BlocksReady, CreateNetwork,
     NetworksReady, MarkServer, KeepAndSpawn, JoinAll, RecordMacs, MacsFail,
     AttachKept, Detach, Attach, AttachFails, SitePrepared, Publish, Published, PublishFails,
     Push, MarkDeployed, Goto, EndSession, cloud
<1>5. ASSUME NEW h \in Hosts, Greenlet(h) \/ GreenletFails(h)
      PROVE  UNCHANGED <<keys, pc, carry>>
  BY <1>5 DEF Greenlet, ServerCreate, SeeAddress, SeeUp, UpdateRow, GreenletFails,
              GletStep, cloud
<1>6. ASSUME (\E v \in Versions : Begin(v)) \/ Crash \/ CrashAmongRows
      PROVE  pc' \in {"idle", "authority"}
  BY <1>6 DEF Begin, Crash, CrashAmongRows, EndSession
<1>7. ASSUME \/ \E s \in ServerIds : AssignAddress(s) \/ Boot(s) \/ PurgeServer(s)
             \/ \E b \in BlockIds : PurgeBlock(b)
             \/ UNCHANGED vars
      PROVE  UNCHANGED <<keys, pc, carry>>
  BY <1>7 DEF AssignAddress, Boot, PurgeServer, PurgeBlock, CloudStep, session, vars, cloud
<1>8. UNCHANGED <<keys, pc, carry>> => KeyStages'
  OBVIOUS
<1>9. ASSUME pc \notin {"idle", "authority", "userdata"}, UNCHANGED keys
      PROVE  KeyStages'
  BY <1>9 DEF BootKey
<1>. QED  BY <1>1, <1>2, <1>3, <1>4, <1>5, <1>6, <1>7, <1>8, <1>9 DEF Next

\* A server is created with the one key that is there at that stage.
LEMMA NextBootstrap == IInv /\ [Next]_vars => BootstrapKey'
<1>. SUFFICES ASSUME IInv, [Next]_vars  PROVE BootstrapKey'
  OBVIOUS
<1>1. CASE ServersKept
  BY <1>1 DEF IInv, BootstrapKey, ServersKept, Kept
<1>2. ASSUME NEW h \in Hosts, ServerCreate(h)  PROVE BootstrapKey'
  <2>. DEFINE n == Len(servers) + 1
  <2>1. /\ ServerIds' = ServerIds \cup {n}
        /\ \A s \in ServerIds : servers'[s] = servers[s]
        /\ servers'[n].key = NewestKey
    BY <1>2, Created DEF IInv
  <2>. HIDE DEF n
  <2>2. keys = <<BootKey>>
    BY <1>2 DEF ServerCreate, GletStep, IInv, KeyStages
  <2>3. NewestKey = BootKey
    BY <2>2 DEF NewestKey
  <2>. QED  BY <2>1, <2>3 DEF IInv, BootstrapKey, BootKey
<1>. QED  BY <1>1, <1>2, ServersMove DEF IInv
-----------------------------------------------------------------------------
\* GletSeen needs the account only in that what a server has it keeps.
LEMMA ServersGrow ==
    ASSUME TypeOK, [Next]_vars
    PROVE  \A s \in ServerIds : /\ s \in ServerIds'
                                /\ servers[s].ip # ZeroAddress =>
                                       servers'[s].ip = servers[s].ip
                                /\ servers[s].up => servers'[s].up
<1>1. CASE ServersKept
  BY <1>1 DEF ServersKept, Kept
<1>2. ASSUME NEW h \in Hosts, ServerCreate(h)
      PROVE  \A s \in ServerIds : s \in ServerIds' /\ servers'[s] = servers[s]
  BY <1>2, Created
<1>. QED  BY <1>1, <1>2, ServersMove

LEMMA NextGletSeen == IInv /\ [Next]_vars => GletSeen'
<1>. SUFFICES ASSUME IInv, [Next]_vars  PROVE GletSeen'
  OBVIOUS
<1>0. \A s \in ServerIds : /\ s \in ServerIds'
                           /\ servers[s].ip # ZeroAddress =>
                                  servers'[s].ip = servers[s].ip
                           /\ servers[s].up => servers'[s].up
  BY ServersGrow DEF IInv
<1>typed. /\ glet \in [Hosts -> GletStates] /\ created \in [Hosts -> Nat]
      /\ rows \in [Versions -> [Hosts -> HostRow]] /\ version \in Versions
  BY DEF IInv, TypeOK, HostRow
<1>1. ASSUME \A h \in Hosts : glet'[h] = "none"  PROVE GletSeen'
  BY <1>1 DEF GletSeen
<1>2. ASSUME UNCHANGED <<glet, created, version>>,
             \A h \in Hosts : rows'[version][h].ip = rows[version][h].ip,
             pc' \in {"idle", "authority"} => pc \in {"idle", "authority"}
      PROVE  GletSeen'
  BY <1>0, <1>2 DEF IInv, GletSeen
<1>3. CASE KeepAndSpawn
  <2>1. SiteHosts \subseteq Hosts /\ ExistingHosts \subseteq SiteHosts
    BY <1>typed, HostsAssumption DEF SiteHosts, ExistingHosts
  <2>2. Relisted(ExistingHosts)
    BY <1>3, KeptRows DEF KeepAndSpawn, IInv
  <2>3. ASSUME NEW h \in Hosts, glet[h] # "none"  PROVE h \notin SiteHosts
    <3>1. SiteOf[h] < site
      BY <1>3, <2>3 DEF KeepAndSpawn, IInv, GletSites, Reached, LateSteps
    <3>2. site \in Int
      BY SitesAssumption DEF IInv, TypeOK, Sites
    <3>. QED  BY <3>1, <3>2 DEF SiteHosts
  <2>4. ASSUME NEW h \in Hosts, glet[h] # "none"
        PROVE  glet'[h] = glet[h] /\ rows'[version][h].ip = rows[version][h].ip
    <3>1. glet'[h] = glet[h]
      BY <1>3, <2>3, <2>4 DEF KeepAndSpawn
    <3>2. rows'[version][h].ip = rows[version][h].ip
      BY <1>typed, <2>1, <2>2, <2>3, <2>4 DEF Relisted
    <3>. QED  BY <3>1, <3>2
  <2>5. ASSUME NEW h \in Hosts, glet[h] = "none"  PROVE glet'[h] \in {"none", "create"}
    BY <1>3, <2>5 DEF KeepAndSpawn
  <2>6. UNCHANGED <<created, servers, version>> /\ pc' = "join"
    BY <1>3 DEF KeepAndSpawn, cloud
  <2>. QED  BY <2>4, <2>5, <2>6 DEF IInv, GletSeen, ServerIds
<1>4. CASE RecordMacs
  <2>1. MacsListed(SiteHosts)
    BY <1>4, MacRows DEF RecordMacs, IInv
  <2>2. UNCHANGED <<glet, created, version>> /\ pc' = "attach"
    BY <1>4 DEF RecordMacs
  <2>. QED  BY <1>2, <1>typed, <2>1, <2>2 DEF MacsListed
<1>5. ASSUME NEW h \in Hosts, ServerCreate(h)  PROVE GletSeen'
  <2>. DEFINE n == Len(servers) + 1
  <2>1. n \in ServerIds'
    BY <1>5, Created DEF IInv
  <2>2. /\ glet' = [glet EXCEPT ![h] = "address"] /\ created' = [created EXCEPT ![h] = n]
        /\ pc' = "join" /\ UNCHANGED <<rows, version>>
    BY <1>5 DEF ServerCreate, GletStep
  <2>. HIDE DEF n
  <2>. QED  BY <1>0, <1>typed, <2>1, <2>2 DEF IInv, GletSeen
<1>6. ASSUME NEW h \in Hosts, SeeAddress(h)  PROVE GletSeen'
  BY <1>0, <1>typed, <1>6 DEF IInv, GletSeen, SeeAddress, GletStep
<1>7. ASSUME NEW h \in Hosts, SeeUp(h)  PROVE GletSeen'
  BY <1>0, <1>typed, <1>7 DEF IInv, GletSeen, SeeUp, GletStep
<1>8. ASSUME NEW h \in Hosts, UpdateRow(h)  PROVE GletSeen'
  <2>. DEFINE e == [rows[version][h] EXCEPT !.ip = servers[created[h]].ip]
  <2>1. glet[h] = "update"
    BY <1>8 DEF UpdateRow, GletStep
  <2>2. e.ip = servers[created[h]].ip
    BY <1>typed DEF HostRow
  <2>. HIDE DEF e
  <2>3. rows' = [rows EXCEPT ![version] = [rows[version] EXCEPT ![h] = e]]
    BY <1>8, Zenon DEF UpdateRow, e
  <2>4. \A k \in Hosts : rows'[version][k] = IF k = h THEN e ELSE rows[version][k]
    BY <1>typed, <2>3
  <2>5. /\ glet' = [glet EXCEPT ![h] = "done"] /\ pc' = "join"
        /\ UNCHANGED <<created, version, servers>>
    BY <1>8 DEF UpdateRow, GletStep, cloud
  <2>. QED  BY <1>0, <1>typed, <2>1, <2>2, <2>4, <2>5 DEF IInv, GletSeen
<1>9. ASSUME NEW h \in Hosts, GreenletFails(h)  PROVE GletSeen'
  BY <1>0, <1>typed, <1>9 DEF IInv, GletSeen, GreenletFails, GletStep
<1>10. CASE EndingStep
  BY <1>1, <1>10, EndingSteps
<1>11. CASE QuietStep
  <2>1. pc' = "authority" => pc = "authority"
    BY <1>11 DEF QuietStep, DestroyKey, CreateAuthorityKey, CreateUserDataKey, MarkBlock,
       CreateBlock, BlocksReady, CreateNetwork, NetworksReady, MarkServer, JoinAll,
       AttachKept, Detach, Attach, SitePrepared, Publish, Published, Push, Goto, Stay
  <2>. QED  BY <1>2, <1>11, <2>1, QuietSteps
<1>12. ASSUME \E v \in Versions : Begin(v)
       PROVE  \A h \in Hosts : glet'[h] = "none"
  BY <1>12 DEF Begin, IInv, GletSeen
<1>13. ASSUME \/ \E s \in ServerIds : AssignAddress(s) \/ Boot(s) \/ PurgeServer(s)
              \/ \E b \in BlockIds : PurgeBlock(b)
              \/ UNCHANGED vars
       PROVE  UNCHANGED <<glet, created, rows, version, pc>>
  BY <1>13 DEF AssignAddress, Boot, PurgeServer, PurgeBlock, CloudStep, session, vars
<1>14. CASE SessionStep \/ Crash \/ CrashAmongRows
  BY <1>3, <1>4, <1>10, <1>11, <1>14, SessionSteps DEF EndingStep
<1>15. ASSUME NEW h \in Hosts, Greenlet(h)  PROVE GletSeen'
  BY <1>5, <1>6, <1>7, <1>8, <1>15 DEF Greenlet
<1>. QED  BY <1>1, <1>2, <1>9, <1>12, <1>13, <1>14, <1>15 DEF Next
-----------------------------------------------------------------------------
\* The sites are prepared in their order, and the greenlets of each are waited for.
LEMMA NextGletSites == IInv /\ [Next]_vars => GletSites'
<1>. SUFFICES ASSUME IInv, [Next]_vars  PROVE GletSites'
  OBVIOUS
<1>typed. /\ glet \in [Hosts -> GletStates] /\ site \in Int /\ NSites \in Int
          /\ SiteOf \in [Hosts -> Int]
  BY SitesAssumption DEF IInv, TypeOK, Sites
<1>1. ASSUME \A h \in Hosts : glet'[h] = "none"  PROVE GletSites'
  BY <1>1 DEF GletSites, GletOver
<1>2. CASE KeepAndSpawn
  <2>1. pc = "servers" /\ pc' = "join" /\ UNCHANGED site
    BY <1>2 DEF KeepAndSpawn
  <2>2. ASSUME NEW h \in Hosts, glet'[h] # "none"  PROVE Reached(h)'
    <3>1. CASE glet[h] # "none"
      BY <2>1, <3>1 DEF IInv, GletSites, Reached, LateSteps
    <3>2. CASE h \in SiteHosts
      BY <2>1, <3>2 DEF SiteHosts, Reached, LateSteps
    <3>. QED  BY <1>2, <2>2, <3>1, <3>2 DEF KeepAndSpawn
  <2>. QED  BY <2>1, <2>2 DEF GletSites
<1>3. ASSUME NEW h \in Hosts, Greenlet(h) \/ GreenletFails(h)  PROVE GletSites'
  <2>1. pc = "join" /\ pc' = "join" /\ glet[h] # "none" /\ UNCHANGED site
    BY <1>3 DEF Greenlet, ServerCreate, SeeAddress, SeeUp, UpdateRow, GreenletFails, GletStep
  <2>2. ASSUME NEW k \in Hosts, glet'[k] # "none"  PROVE glet[k] # "none"
    BY <1>typed, <1>3, <2>1, <2>2
    DEF Greenlet, ServerCreate, SeeAddress, SeeUp, UpdateRow, GreenletFails, GletStep
  <2>. QED  BY <2>1, <2>2 DEF IInv, GletSites, Reached
<1>4. CASE EndingStep
  BY <1>1, <1>4, EndingSteps
<1>5. ASSUME UNCHANGED <<glet, site>>, pc \in LateSteps => pc' \in LateSteps,
             pc' = "join" => pc = "join", pc = "join" => pc' = "join" \/ JoinAll
      PROVE  GletSites'
  <2>1. pc' # "join" => \A h \in Hosts : GletOver(h)
    BY <1>5 DEF IInv, GletSites, JoinAll
  <2>. QED  BY <1>5, <2>1 DEF IInv, GletSites, Reached, GletOver
<1>6. CASE CreateAuthorityKey
  BY <1>1, <1>6 DEF CreateAuthorityKey, IInv, GletSeen
<1>7. CASE SitePrepared
  <2>1. /\ pc = "attach" /\ UNCHANGED glet
        /\ \/ site' = site + 1 /\ pc' = "userdata"
           \/ site' = site /\ pc' = "dns"
    BY <1>7 DEF SitePrepared
  <2>2. \A h \in Hosts : Reached(h) => Reached(h)'
    BY <1>typed, <2>1 DEF Reached, LateSteps
  <2>. QED  BY <2>1, <2>2 DEF IInv, GletSites, GletOver
<1>8. ASSUME QuietStep, ~CreateAuthorityKey, ~SitePrepared  PROVE GletSites'
  <2>1. /\ UNCHANGED <<glet, site>> /\ (pc \in LateSteps => pc' \in LateSteps)
        /\ pc' # "join" /\ (pc = "join" => JoinAll)
    BY <1>8 DEF QuietStep, DestroyKey, CreateUserDataKey, MarkBlock, CreateBlock,
       BlocksReady, CreateNetwork, NetworksReady, MarkServer, JoinAll, AttachKept, Detach,
       Attach, Publish, Published, Push, Goto, Stay, LateSteps
  <2>. QED  BY <1>5, <2>1
<1>9. CASE RecordMacs
  BY <1>5, <1>9 DEF RecordMacs, LateSteps
<1>10. ASSUME \E v \in Versions : Begin(v)  PROVE \A h \in Hosts : glet'[h] = "none"
  BY <1>10 DEF Begin, IInv, GletSeen
<1>11. ASSUME \/ \E s \in ServerIds : AssignAddress(s) \/ Boot(s) \/ PurgeServer(s)
              \/ \E b \in BlockIds : PurgeBlock(b)
              \/ UNCHANGED vars
       PROVE  UNCHANGED <<glet, site, pc>>
  BY <1>11 DEF AssignAddress, Boot, PurgeServer, PurgeBlock, CloudStep, session, vars
<1>12. CASE SessionStep \/ Crash \/ CrashAmongRows
  BY <1>2, <1>4, <1>6, <1>7, <1>8, <1>9, <1>12, SessionSteps DEF EndingStep
<1>. QED  BY <1>1, <1>3, <1>5, <1>10, <1>11, <1>12 DEF Next
-----------------------------------------------------------------------------
\* Nothing marks a server while blocks are attached.
LEMMA NextAttaching == IInv /\ [Next]_vars => Attaching'
<1>. SUFFICES ASSUME IInv, [Next]_vars, pc' = "attach"
              PROVE  (todo \subseteq SiteBlocks /\ ExistingHosts = SiteHosts)'
  BY DEF Attaching
<1>. USE DEF SiteBlocks, SiteHosts, ExistingHosts, ServersOf, LiveServers, ServerIds
<1>1. CASE RecordMacs
  BY <1>1 DEF RecordMacs, cloud
<1>2. ASSUME NEW l \in Blocks, AttachKept(l) \/ Detach(l) \/ Attach(l)
      PROVE  (todo \subseteq SiteBlocks /\ ExistingHosts = SiteHosts)'
  BY <1>2 DEF AttachKept, Detach, Attach, Goto, cloud, IInv, Attaching
<1>3. ASSUME NEW s \in ServerIds, AssignAddress(s) \/ Boot(s)
      PROVE  (todo \subseteq SiteBlocks /\ ExistingHosts = SiteHosts)'
  <2>1. \A t \in ServerIds : servers[t] \in Server
    BY DEF IInv, TypeOK
  <2>2. PICK e : /\ servers' = [servers EXCEPT ![s] = e]
                 /\ e.host = servers[s].host /\ e.status = servers[s].status
    <3>1. CASE AssignAddress(s)
      <4>0. PICK a : servers' = [servers EXCEPT ![s].ip = a]
        BY <3>1 DEF AssignAddress
      <4>. DEFINE e == [servers[s] EXCEPT !.ip = a]
      <4>1. servers' = [servers EXCEPT ![s] = e]
        BY <4>0, Zenon
      <4>2. e.host = servers[s].host /\ e.status = servers[s].status
        BY <2>1 DEF Server
      <4>. QED  BY <4>1, <4>2, Zenon
    <3>2. CASE Boot(s)
      <4>. DEFINE e == [servers[s] EXCEPT !.up = TRUE]
      <4>1. servers' = [servers EXCEPT ![s] = e]
        BY <3>2, Zenon DEF Boot
      <4>2. e.host = servers[s].host /\ e.status = servers[s].status
        BY <2>1 DEF Server
      <4>. QED  BY <4>1, <4>2, Zenon
    <3>. QED  BY <1>3, <3>1, <3>2
  <2>3. /\ ServerIds' = ServerIds
        /\ \A t \in ServerIds : servers'[t].host = servers[t].host
                                /\ servers'[t].status = servers[t].status
    BY <2>2
  <2>4. UNCHANGED <<todo, version, site, pc>>
    BY <1>3 DEF AssignAddress, Boot, CloudStep, session
  <2>. QED  BY <2>3, <2>4 DEF IInv, Attaching
<1>4. ASSUME SessionStep, ~RecordMacs,
             ~ \E l \in Blocks : AttachKept(l) \/ Detach(l) \/ Attach(l)
      PROVE  FALSE
  BY <1>4 DEF SessionStep, DestroyKey, CreateAuthorityKey, CreateUserDataKey,
     MarkBlock, CreateBlock, BlocksReady, CreateNetwork, NetworksReady, MarkServer,
     KeepAndSpawn, JoinAll, MacsFail, AttachFails, SitePrepared, Publish,
     Published, PublishFails, Push, MarkDeployed, EndSession, Goto, Stay
<1>5. ASSUME \/ \E v \in Versions : Begin(v)
             \/ \E h \in Hosts : Greenlet(h) \/ GreenletFails(h)
             \/ Crash \/ CrashAmongRows
             \/ \E s \in ServerIds : PurgeServer(s)
             \/ \E b \in BlockIds : PurgeBlock(b)
      PROVE  FALSE
  BY <1>5 DEF Begin, Greenlet, ServerCreate, SeeAddress, SeeUp, UpdateRow,
     GreenletFails, GletStep, Crash, CrashAmongRows, EndSession, PurgeServer, PurgeBlock, CloudStep, session
<1>6. CASE UNCHANGED vars
  BY <1>6 DEF vars, cloud, session, IInv, Attaching
<1>. QED  BY <1>1, <1>2, <1>3, <1>4, <1>5, <1>6 DEF Next
-----------------------------------------------------------------------------
LEMMA InitIInv == Init => IInv
<1>. SUFFICES ASSUME Init  PROVE IInv
  OBVIOUS
<1>1. TypeOK
  <2>1. ForeignKey \in Key
    BY DEF ForeignKey, Key
  <2>2. keys \in Seq(Key)
    <3>1. << >> \in Seq(Key) /\ <<ForeignKey>> \in Seq(Key)
      BY <2>1
    <3>. QED  BY <3>1 DEF Init
  <2>3. servers \in Seq(Server) /\ blocks \in Seq(Block)
    BY DEF Init
  <2>4. rows \in [Versions -> [Hosts -> [ip : Int, mac : Nat]]]
    BY DEF Init, NoAddress, NoServer
  <2>5. networks \subseteq Sites /\ dns \in [Sites -> Int] /\ deployed \subseteq Versions
    BY DEF Init, NoAddress
  <2>6. /\ pc \in Steps /\ version \in Versions /\ site \in Sites
        /\ carry \in {NoKey, "CA", "foreign"} /\ todo = {} /\ pc = "idle"
        /\ deploys \in Nat
    BY SitesAssumption DEF Init, Steps, Sites
  <2>7. glet \in [Hosts -> GletStates] /\ created \in [Hosts -> Nat]
    BY DEF Init, GletStates, NoServer
  <2>. QED  BY <2>2, <2>3, <2>4, <2>5, <2>6, <2>7 DEF TypeOK
<1>2. ServerIds = {} /\ BlockIds = {}
  BY DEF Init, ServerIds, BlockIds
<1>3. OneLiveServer /\ OneLiveBlock /\ BootstrapKey
  BY <1>2 DEF OneLiveServer, OneLiveBlock, LiveServers, LiveBlocks, BootstrapKey
<1>4. SpawnedHaveNone /\ KeyStages /\ GletSeen /\ GletSites /\ Attaching
  BY DEF Init, SpawnedHaveNone, KeyStages, GletSeen, GletSites, GletOver, Attaching
<1>. QED  BY <1>1, <1>3, <1>4 DEF IInv

LEMMA NextIInv == IInv /\ [Next]_vars => IInv'
BY NextType, NextServers, NextBlocks, NextKeys, NextBootstrap, NextGletSeen,
   NextGletSites, NextAttaching DEF IInv

LEMMA IInvAlways == Spec => []IInv
BY InitIInv, NextIInv, PTL DEF Spec

\* The account, the database and the process stay well formed.
THEOREM ProvisionTypes == Spec => []TypeOK
<1>1. IInv => TypeOK
  BY DEF IInv
<1>. QED  BY <1>1, IInvAlways, PTL

\* However often deploy stops and is run again, for however many sites, hosts
\* and versions, no host ever has two servers.
THEOREM NoSecondServer == Spec => []OneLiveServer
<1>1. IInv => OneLiveServer
  BY DEF IInv
<1>. QED  BY <1>1, IInvAlways, PTL

\* No attempt ever makes a second device under a label that has one.
THEOREM NoSecondBlock == Spec => []OneLiveBlock
<1>1. IInv => OneLiveBlock
  BY DEF IInv
<1>. QED  BY <1>1, IInvAlways, PTL

\* Every server boots with the authority's key and the bootstrap tarball, at
\* whatever point the earlier attempts stopped and however many sites had their
\* keys destroyed and made again.
THEOREM AlwaysBootstrapped == Spec => []BootstrapKey
<1>1. IInv => BootstrapKey
  BY DEF IInv
<1>. QED  BY <1>1, IInvAlways, PTL

\* A greenlet that returned leaves a running server, whose address is in the
\* host's row, whatever the other greenlets and the provider do meanwhile.
THEOREM ReturnedIsReady == Spec => []CreatedIsReady
<1>1. IInv => CreatedIsReady
  BY DEF IInv, GletSeen, CreatedIsReady
<1>. QED  BY <1>1, IInvAlways, PTL

-----------------------------------------------------------------------------
\* What a step may change of a server's host, status and address: it is marked
\* or deleted, or it gets its address.
FieldsKept(old, new) ==
    new.host = old.host /\ new.status = old.status /\ new.ip = old.ip

Dropped(s) ==
    /\ \/ MarkServer /\ s \in LiveServers /\ servers'[s].status = "marked"
       \/ PurgeServer(s)
    /\ servers'[s].host = servers[s].host /\ servers'[s].ip = servers[s].ip

Addressed(s) ==
    /\ AssignAddress(s)
    /\ servers'[s].host = servers[s].host /\ servers'[s].status = servers[s].status

ServerMoves(s) == FieldsKept(servers[s], servers'[s]) \/ Dropped(s) \/ Addressed(s)

LEMMA FieldUpdate ==
    ASSUME NEW r \in Server
    PROVE  /\ \A st : LET e == [r EXCEPT !.status = st]
                      IN  e.host = r.host /\ e.ip = r.ip /\ e.status = st
           /\ \A a : LET e == [r EXCEPT !.ip = a]
                     IN  e.host = r.host /\ e.status = r.status
           /\ FieldsKept(r, [r EXCEPT !.up = TRUE])
BY DEF Server, FieldsKept

LEMMA FieldsMove ==
    ASSUME TypeOK, [Next]_vars, NEW s \in ServerIds, ~ \E h \in Hosts : ServerCreate(h)
    PROVE  ServerMoves(s)
<1>0. ASSUME NEW t \in ServerIds  PROVE servers[t] \in Server
  BY DEF TypeOK, ServerIds
<1>. DEFINE upd(t, e) == servers' = [servers EXCEPT ![t] = e]
<1>a. ASSUME NEW t, NEW e, upd(t, e)
      PROVE  servers'[s] = IF s = t THEN e ELSE servers[s]
  BY <1>a DEF ServerIds
<1>b. FieldsKept(servers[s], servers[s])
  BY DEF FieldsKept
<1>1. CASE MarkServer
  <2>1. PICK t \in UnneededServers : servers' = [servers EXCEPT ![t].status = "marked"]
    BY <1>1 DEF MarkServer
  <2>. DEFINE e == [servers[t] EXCEPT !.status = "marked"]
  <2>2. upd(t, e)
    BY <2>1, Zenon
  <2>3. t \in ServerIds /\ e.host = servers[t].host /\ e.ip = servers[t].ip
       /\ e.status = "marked"
    <3>1. t \in ServerIds
      BY DEF UnneededServers, LiveServers
    <3>. QED  BY <1>0, <3>1, FieldUpdate
  <2>. HIDE DEF e
  <2>4. servers'[s] = IF s = t THEN e ELSE servers[s]
    BY <1>a, <2>2
  <2>. QED  BY <1>1, <1>b, <2>3, <2>4 DEF ServerMoves, Dropped, UnneededServers
<1>3. ASSUME NEW t \in ServerIds, AssignAddress(t)  PROVE ServerMoves(s)
  <2>1. PICK a : servers' = [servers EXCEPT ![t].ip = a]
    BY <1>3 DEF AssignAddress
  <2>. DEFINE e == [servers[t] EXCEPT !.ip = a]
  <2>2. upd(t, e)
    BY <2>1, Zenon
  <2>3. e.host = servers[t].host /\ e.status = servers[t].status
    BY <1>0, FieldUpdate
  <2>. HIDE DEF e
  <2>4. servers'[s] = IF s = t THEN e ELSE servers[s]
    BY <1>a, <2>2
  <2>. QED  BY <1>3, <1>b, <2>3, <2>4 DEF ServerMoves, Addressed
<1>8. ASSUME NEW t \in ServerIds, Boot(t)  PROVE ServerMoves(s)
  <2>. DEFINE e == [servers[t] EXCEPT !.up = TRUE]
  <2>1. upd(t, e)
    BY <1>8, Zenon DEF Boot
  <2>2. FieldsKept(servers[t], e)
    BY <1>0, FieldUpdate
  <2>. HIDE DEF e
  <2>3. servers'[s] = IF s = t THEN e ELSE servers[s]
    BY <1>a, <2>1
  <2>. QED  BY <1>b, <2>2, <2>3 DEF ServerMoves
<1>4. ASSUME NEW t \in ServerIds, PurgeServer(t)  PROVE ServerMoves(s)
  <2>. DEFINE e == [servers[t] EXCEPT !.status = "gone"]
  <2>1. upd(t, e)
    BY <1>4, Zenon DEF PurgeServer
  <2>2. e.host = servers[t].host /\ e.ip = servers[t].ip
    BY <1>0, FieldUpdate
  <2>. HIDE DEF e
  <2>3. servers'[s] = IF s = t THEN e ELSE servers[s]
    BY <1>a, <2>1
  <2>. QED  BY <1>4, <1>b, <2>2, <2>3 DEF ServerMoves, Dropped
<1>5. UNCHANGED servers => ServerMoves(s)
  BY <1>b DEF ServerMoves
<1>6. ASSUME SessionStep, ~MarkServer  PROVE UNCHANGED servers
    BY <1>6 DEF SessionStep, DestroyKey, CreateAuthorityKey, CreateUserDataKey,
       MarkBlock, CreateBlock, BlocksReady, CreateNetwork, NetworksReady,
       KeepAndSpawn, JoinAll, RecordMacs, MacsFail, AttachKept, Detach, Attach,
       AttachFails, SitePrepared, Publish, Published, PublishFails, Push, MarkDeployed, cloud
<1>7. ASSUME \/ \E v \in Versions : Begin(v)
             \/ \E h \in Hosts : SeeAddress(h) \/ SeeUp(h) \/ UpdateRow(h)
             \/ \E h \in Hosts : GreenletFails(h)
             \/ Crash \/ CrashAmongRows
             \/ \E b \in BlockIds : PurgeBlock(b)
             \/ UNCHANGED vars
      PROVE  UNCHANGED servers
  BY <1>7 DEF Begin, SeeAddress, SeeUp, UpdateRow, GreenletFails, Crash, CrashAmongRows, PurgeBlock, cloud, vars
<1>. QED  BY <1>1, <1>3, <1>4, <1>5, <1>6, <1>7, <1>8 DEF Next, Greenlet

\* The set of servers there are, over any step.
LEMMA IdsMove ==
    ASSUME TypeOK, [Next]_vars, ~ \E h \in Hosts : ServerCreate(h)
    PROVE  ServerIds' = ServerIds
BY ServersMove DEF ServersKept

-----------------------------------------------------------------------------
\* What preparing a site settles, stage by stage: the blocks before the
\* networks, the servers before the addresses, then where each block is.
BlocksSettled  == UnneededBlocks = {} /\ MissingBlocks = {}
ServersSettled == UnneededServers = {}
SpawnedOfSite  == \A h \in Hosts : GletOver(h) \/ h \in SiteHosts
MacsSettled    == /\ ExistingHosts = SiteHosts
                  /\ \A h \in SiteHosts : rows[version][h].mac \in ServersOf(h)

OnItsHost(b)   == blocks[b].host \in ServersOf(MountedOn[version][blocks[b].label])
OnHostsBut(T)  == \A b \in LiveBlocks : blocks[b].label \in T \/ OnItsHost(b)

Prepared ==
    /\ pc \in {"networks", "servers", "join", "macs", "attach", "dns", "push"} => BlocksSettled
    /\ pc \in {"join", "macs", "attach", "dns", "push"} => ServersSettled
    /\ pc = "join" => SpawnedOfSite
    /\ pc \in {"attach", "dns", "push"} => MacsSettled
    /\ pc = "attach" => OnHostsBut(todo)
    /\ pc \in {"dns", "push"} => OnHostsBut({}) /\ site = NSites

\* A step after which every server has the status it had.
StatusesStay ==
    /\ ServerIds' = ServerIds
    /\ \A s \in ServerIds : /\ servers'[s].host = servers[s].host
                            /\ servers'[s].status = servers[s].status

\* The parts follow what they are about.
LEMMA BlocksSettledStays ==
    ASSUME BlocksSettled, UNCHANGED <<version, site>>, BlocksKept, 
           \A b \in LiveBlocks : blocks'[b].status = "live"
    PROVE  BlocksSettled'
<1>1. LiveBlocks' = LiveBlocks /\ \A b \in LiveBlocks : blocks'[b].label = blocks[b].label
  BY DEF BlocksKept, LiveBlocks
<1>2. SiteBlocks' = SiteBlocks
  BY DEF SiteBlocks, SiteHosts
<1>. QED
  BY <1>1, <1>2 DEF BlocksSettled, UnneededBlocks, MissingBlocks

LEMMA ServersStay ==
    ASSUME StatusesStay
    PROVE  LiveServers' = LiveServers /\ \A h : ServersOf(h)' = ServersOf(h)
<1>1. LiveServers' = LiveServers
  BY DEF StatusesStay, LiveServers
<1>2. \A h : ServersOf(h)' = ServersOf(h)
  BY <1>1 DEF StatusesStay, ServersOf, LiveServers
<1>. QED  BY <1>1, <1>2

LEMMA ServersSettledStays ==
    ASSUME ServersSettled, StatusesStay, UNCHANGED <<version, site>>
    PROVE  ServersSettled'
BY ServersStay DEF ServersSettled, UnneededServers, SiteHosts, StatusesStay, LiveServers

LEMMA MacsSettledStays ==
    ASSUME MacsSettled, StatusesStay, UNCHANGED <<version, site, rows>>
    PROVE  MacsSettled'
<1>1. SiteHosts' = SiteHosts
  BY DEF SiteHosts
<1>2. \A h : ServersOf(h)' = ServersOf(h)
  BY ServersStay
<1>. QED  BY <1>1, <1>2 DEF MacsSettled, ExistingHosts

LEMMA OnHostsStays ==
    ASSUME NEW T, OnHostsBut(T), StatusesStay, UNCHANGED <<version, blocks>>
    PROVE  \A b \in LiveBlocks' : blocks'[b].label \in T \/ OnItsHost(b)'
<1>1. \A h : ServersOf(h)' = ServersOf(h)
  BY ServersStay
<1>2. \A b : OnItsHost(b)' = OnItsHost(b)
  BY <1>1 DEF OnItsHost
<1>3. LiveBlocks' = LiveBlocks
  BY DEF LiveBlocks, BlockIds
<1>. QED  BY <1>2, <1>3 DEF OnHostsBut

\* Nothing but marking, deleting and creating changes which servers there are.
LEMMA StatusesMove ==
    ASSUME TypeOK, [Next]_vars, pc # "idle", pc' # "servers"
    PROVE  StatusesStay \/ \E h \in Hosts : ServerCreate(h)
<1>1. ~MarkServer
  BY DEF MarkServer, Goto
<1>2. \A s \in ServerIds : ~PurgeServer(s)
  BY DEF PurgeServer
<1>. SUFFICES ASSUME ~ \E h \in Hosts : ServerCreate(h)  PROVE StatusesStay
  OBVIOUS
<1>3. ServerIds' = ServerIds
  BY IdsMove
<1>4. ASSUME NEW s \in ServerIds
      PROVE  servers'[s].host = servers[s].host /\ servers'[s].status = servers[s].status
  <2>1. ServerMoves(s)
    BY FieldsMove
  <2>. QED  BY <1>1, <1>2, <2>1 DEF ServerMoves, FieldsKept, Dropped, Addressed
<1>. QED  BY <1>3, <1>4 DEF StatusesStay

LEMMA SameServers == ASSUME UNCHANGED servers  PROVE StatusesStay
BY DEF StatusesStay, ServerIds

LEMMA SameBlocks ==
    ASSUME BlocksSettled, UNCHANGED <<version, site, blocks>>
    PROVE  BlocksSettled'
BY DEF BlocksSettled, UnneededBlocks, MissingBlocks, LiveBlocks, BlockIds, SiteBlocks, SiteHosts

\* Up to the blocks of a site nothing is settled; and when the process ends.
EarlySteps == {"idle", "authority", "userdata", "blocks"}

LEMMA EarlyPrepared == ASSUME pc' \in EarlySteps  PROVE Prepared'
BY DEF EarlySteps, Prepared

\* The networks and the servers of the site.
LEMMA PreparedToJoin ==
    ASSUME IInv, Prepared,
           \/ BlocksReady \/ CreateNetwork \/ NetworksReady \/ MarkServer \/ KeepAndSpawn
    PROVE  Prepared'
<1>1. BlocksSettled'
  <2>1. BlocksSettled
    BY DEF BlocksReady, CreateNetwork, NetworksReady, MarkServer, KeepAndSpawn,
           Prepared, BlocksSettled
  <2>2. UNCHANGED <<version, site, blocks>>
    BY DEF BlocksReady, CreateNetwork, NetworksReady, MarkServer, KeepAndSpawn, Goto, cloud
  <2>. QED  BY <2>1, <2>2, SameBlocks
<1>2. CASE pc' \in {"networks", "servers"}
  BY <1>1, <1>2 DEF Prepared
<1>3. CASE KeepAndSpawn
  <2>1. ServersSettled /\ UNCHANGED <<servers, version, site>> /\ pc' = "join"
    BY <1>3 DEF KeepAndSpawn, cloud, ServersSettled
  <2>2. ServersSettled'
    BY <2>1, SameServers, ServersSettledStays
  <2>3. SpawnedOfSite'
    <3>1. SiteHosts' = SiteHosts
      BY <2>1 DEF SiteHosts
    <3>2. ASSUME NEW h \in Hosts, h \notin SiteHosts  PROVE GletOver(h) /\ glet'[h] = glet[h]
      BY <1>3, <3>2 DEF KeepAndSpawn, IInv, GletSites
    <3>. QED  BY <3>1, <3>2 DEF SpawnedOfSite, GletOver
  <2>. QED  BY <1>1, <2>1, <2>2, <2>3 DEF Prepared
<1>4. BlocksReady \/ CreateNetwork \/ NetworksReady \/ MarkServer =>
         pc' \in {"networks", "servers"}
  BY DEF BlocksReady, CreateNetwork, NetworksReady, MarkServer, Goto
<1>. QED  BY <1>2, <1>3, <1>4

\* The greenlets create servers only for the hosts of the site.
LEMMA PreparedWhileJoining ==
    ASSUME IInv, Prepared, NEW h \in Hosts, Greenlet(h) \/ GreenletFails(h)
    PROVE  Prepared'
<1>1. /\ pc = "join" /\ pc' = "join" /\ ~GletOver(h)
      /\ UNCHANGED <<version, site, blocks>>
  BY DEF Greenlet, ServerCreate, SeeAddress, SeeUp, UpdateRow, GreenletFails,
         GletStep, GletOver, cloud
<1>2. PICK to : glet' = [glet EXCEPT ![h] = to]
  BY DEF Greenlet, ServerCreate, SeeAddress, SeeUp, UpdateRow, GreenletFails, GletStep
<1>3. BlocksSettled /\ ServersSettled /\ SpawnedOfSite
  BY <1>1 DEF Prepared
<1>4. SiteHosts' = SiteHosts
  BY <1>1 DEF SiteHosts
<1>5. h \in SiteHosts
  BY <1>1, <1>3 DEF SpawnedOfSite
<1>6. SpawnedOfSite'
  <2>1. \A k \in Hosts : k # h => glet'[k] = glet[k]
    BY <1>2 DEF IInv, TypeOK
  <2>. QED  BY <1>3, <1>4, <1>5, <2>1 DEF SpawnedOfSite, GletOver
<1>7. ServersSettled'
  <2>1. CASE ServerCreate(h)
    <3>. DEFINE n == Len(servers) + 1
    <3>1. /\ ServerIds' = ServerIds \cup {n}
          /\ \A s \in ServerIds : servers'[s] = servers[s]
          /\ servers'[n].host = h
      BY <2>1, Created DEF IInv
    <3>. HIDE DEF n
    <3>. QED
      BY <1>3, <1>4, <1>5, <3>1 DEF ServersSettled, UnneededServers, LiveServers
  <2>2. CASE ~ServerCreate(h)
    <3>1. UNCHANGED servers
      BY <2>2 DEF Greenlet, SeeAddress, SeeUp, UpdateRow, GreenletFails, cloud
    <3>. QED  BY <1>1, <1>3, <3>1, SameServers, ServersSettledStays
  <2>. QED  BY <2>1, <2>2
<1>8. BlocksSettled'
  BY <1>1, <1>3, SameBlocks
<1>. QED  BY <1>1, <1>6, <1>7, <1>8 DEF Prepared

\* The addresses are recorded when every host of the site has its server.
LEMMA PreparedToAttach ==
    ASSUME IInv, Prepared, JoinAll \/ RecordMacs
    PROVE  Prepared'
<1>1. UNCHANGED <<version, site, blocks, servers>> /\ pc \in {"join", "macs"}
  BY DEF JoinAll, RecordMacs, Goto, cloud
<1>2. BlocksSettled /\ ServersSettled
  BY <1>1 DEF Prepared
<1>3. BlocksSettled' /\ ServersSettled'
  BY <1>1, <1>2, SameBlocks, SameServers, ServersSettledStays
<1>4. CASE JoinAll
  BY <1>3, <1>4 DEF JoinAll, Goto, Prepared
<1>5. CASE RecordMacs
  <2>1. SiteHosts' = SiteHosts /\ \A h : ServersOf(h)' = ServersOf(h)
    BY <1>1, SameServers, ServersStay DEF SiteHosts
  <2>2. ExistingHosts = SiteHosts /\ pc' = "attach" /\ todo' = SiteBlocks
    BY <1>5 DEF RecordMacs
  <2>3. SiteHosts \subseteq Hosts
    BY HostsAssumption DEF IInv, TypeOK, SiteHosts
  <2>4. MacsListed(SiteHosts)
    BY <1>5, <2>2, MacRows DEF RecordMacs, IInv
  <2>7. \A h \in SiteHosts : rows'[version][h].mac = Listed(h)
    BY <2>3, <2>4 DEF MacsListed
  <2>8. \A h \in SiteHosts : Listed(h) \in ServersOf(h)
    BY <2>2, ListedServer DEF IInv, ExistingHosts
  <2>9. MacsSettled'
    BY <1>1, <2>1, <2>2, <2>7, <2>8 DEF MacsSettled, ExistingHosts
  <2>10. OnHostsBut(todo)'
    <3>1. LiveBlocks' = LiveBlocks
      BY <1>1 DEF LiveBlocks, BlockIds
    <3>2. \A b \in LiveBlocks : blocks[b].label \in SiteBlocks
      BY <1>2 DEF BlocksSettled, UnneededBlocks
    <3>. QED  BY <1>1, <2>2, <3>1, <3>2 DEF OnHostsBut
  <2>. QED  BY <1>3, <2>2, <2>9, <2>10 DEF Prepared
<1>. QED  BY <1>4, <1>5

\* A block of the site has its device, and no other live one has its label.
LEMMA DeviceOf ==
    ASSUME IInv, BlocksSettled, NEW l \in SiteBlocks
    PROVE  /\ Device(l) \in LiveBlocks /\ blocks[Device(l)].label = l
           /\ \A b \in LiveBlocks : blocks[b].label = l => b = Device(l)
<1>1. \E b \in LiveBlocks : blocks[b].label = l
  BY DEF BlocksSettled, MissingBlocks
<1>2. Device(l) \in LiveBlocks /\ blocks[Device(l)].label = l
  BY <1>1 DEF Device
<1>. QED  BY <1>2 DEF IInv, OneLiveBlock

\* What the account holds otherwise when a block is attached or detached.
LEMMA AttachingKeeps ==
    ASSUME IInv, Prepared, NEW l \in Blocks, AttachKept(l) \/ Detach(l) \/ Attach(l)
    PROVE  /\ pc = "attach" /\ pc' = "attach" /\ BlocksSettled /\ MacsSettled
           /\ OnHostsBut(todo) /\ l \in todo /\ l \in SiteBlocks
           /\ UNCHANGED <<version, site, rows, servers>>
           /\ BlocksSettled' /\ ServersSettled' /\ MacsSettled'
<1>1. /\ pc = "attach" /\ pc' = "attach" /\ l \in todo
      /\ UNCHANGED <<version, site, rows, servers>>
  BY DEF AttachKept, Detach, Attach, Goto, cloud
<1>2. BlocksSettled /\ ServersSettled /\ MacsSettled /\ OnHostsBut(todo)
  BY <1>1 DEF Prepared
<1>3. l \in SiteBlocks
  BY <1>1 DEF IInv, Attaching
<1>4. ServersSettled' /\ MacsSettled'
  BY <1>1, <1>2, SameServers, ServersSettledStays, MacsSettledStays
<1>5. BlocksSettled'
  <2>1. CASE AttachKept(l)
    <3>1. UNCHANGED blocks
      BY <2>1 DEF AttachKept, cloud
    <3>. QED  BY <1>1, <1>2, <3>1, SameBlocks
  <2>2. CASE Detach(l) \/ Attach(l)
    <3>. DEFINE d == Device(l)
    <3>1. PICK n : blocks' = [blocks EXCEPT ![d].host = n]
      BY <2>2, Zenon DEF Detach, Attach
    <3>. DEFINE e == [blocks[d] EXCEPT !.host = n]
    <3>2. blocks' = [blocks EXCEPT ![d] = e]
      BY <3>1, Zenon
    <3>3. d \in LiveBlocks
      BY <1>2, <1>3, DeviceOf
    <3>. HIDE DEF d
    <3>4. blocks[d] \in Block /\ d \in BlockIds
      BY <3>3 DEF IInv, TypeOK, LiveBlocks, BlockIds
    <3>5. e.label = blocks[d].label /\ e.status = blocks[d].status
      BY <3>4, BlockUpdateKept
    <3>. HIDE DEF e
    <3>6. /\ BlockIds' = BlockIds
          /\ \A b \in BlockIds : blocks'[b] = IF b = d THEN e ELSE blocks[b]
      BY <3>2 DEF BlockIds
    <3>7. BlocksKept
      BY <3>5, <3>6 DEF BlocksKept
    <3>8. \A b \in LiveBlocks : blocks'[b].status = "live"
      BY <3>5, <3>6 DEF LiveBlocks
    <3>. QED  BY <1>1, <1>2, <3>7, <3>8, BlocksSettledStays
  <2>. QED  BY <2>1, <2>2
<1>. QED  BY <1>1, <1>2, <1>3, <1>4, <1>5

\* Each block ends on the server of the host that mounts it.
LEMMA PreparedWhileAttaching ==
    ASSUME IInv, Prepared, NEW l \in Blocks, AttachKept(l) \/ Detach(l) \/ Attach(l)
    PROVE  Prepared'
<1>1. /\ pc = "attach" /\ pc' = "attach" /\ BlocksSettled /\ MacsSettled
      /\ OnHostsBut(todo) /\ l \in todo /\ l \in SiteBlocks
      /\ UNCHANGED <<version, site, rows, servers>>
      /\ BlocksSettled' /\ ServersSettled' /\ MacsSettled'
  BY AttachingKeeps
<1>. DEFINE d == Device(l)
            home == ServersOf(MountedOn[version][l])
<1>2. /\ d \in LiveBlocks /\ blocks[d].label = l
      /\ \A b \in LiveBlocks : blocks[b].label = l => b = d
  BY <1>1, DeviceOf
<1>3. \A h : ServersOf(h)' = ServersOf(h)
  BY <1>1, SameServers, ServersStay
<1>4. OnHostsBut(todo)'
  <2>1. CASE AttachKept(l)
    <3>1. todo' = todo \ {l} /\ blocks[d].host \in home /\ UNCHANGED blocks
      BY <2>1 DEF AttachKept, cloud
    <3>2. LiveBlocks' = LiveBlocks
      BY <3>1 DEF LiveBlocks, BlockIds
    <3>3. \A b \in LiveBlocks : blocks[b].label \in todo \ {l} \/ OnItsHost(b)
      BY <1>1, <1>2, <3>1 DEF OnHostsBut, OnItsHost
    <3>4. \A b : OnItsHost(b)' = OnItsHost(b)
      BY <1>1, <1>3, <3>1 DEF OnItsHost
    <3>. HIDE DEF d, home
    <3>. QED  BY <3>1, <3>2, <3>3, <3>4 DEF OnHostsBut
  <2>2. CASE Detach(l) \/ Attach(l)
    <3>1. PICK n : /\ blocks' = [blocks EXCEPT ![d].host = n]
                   /\ \/ todo' = todo
                      \/ todo' = todo \ {l} /\ n \in home
      <4>1. CASE Detach(l)
        BY <4>1, Zenon DEF Detach, Goto
      <4>2. CASE Attach(l)
        <5>1. Target(l) \in home
          <6>1. MountedOn[version][l] \in SiteHosts
            BY <1>1 DEF SiteBlocks
          <6>2. ServersOf(MountedOn[version][l]) # {}
            BY <1>1, <6>1 DEF MacsSettled, ExistingHosts
          <6>. QED  BY <6>2, ListedServer DEF Target, IInv
        <5>. QED  BY <4>2, <5>1, Zenon DEF Attach
      <4>. QED  BY <2>2, <4>1, <4>2
    <3>. DEFINE e == [blocks[d] EXCEPT !.host = n]
    <3>2. blocks' = [blocks EXCEPT ![d] = e]
      BY <3>1, Zenon
    <3>. HIDE DEF d
    <3>3. blocks[d] \in Block /\ d \in BlockIds
      BY <1>2 DEF IInv, TypeOK, LiveBlocks, BlockIds
    <3>4. e.label = l /\ e.status = blocks[d].status /\ e.host = n
      <4>1. e.host = n
        BY <3>3 DEF Block
      <4>. QED  BY <1>2, <3>3, <4>1, BlockUpdateKept
    <3>. HIDE DEF e
    <3>5. /\ BlockIds' = BlockIds
          /\ \A b \in BlockIds : blocks'[b] = IF b = d THEN e ELSE blocks[b]
      BY <3>2 DEF BlockIds
    <3>6. LiveBlocks' \subseteq LiveBlocks
      BY <3>4, <3>5 DEF LiveBlocks
    <3>7. ASSUME NEW b \in LiveBlocks
          PROVE  blocks'[b].label \in todo' \/ OnItsHost(b)'
      <4>1. b \in BlockIds
        BY DEF LiveBlocks
      <4>2. CASE b = d
        <5>1. blocks'[b].label = l /\ blocks'[b].host = n
          BY <3>4, <3>5, <4>1, <4>2
        <5>2. CASE todo' = todo
          BY <1>1, <5>1, <5>2
        <5>3. CASE n \in home
          BY <1>1, <1>3, <5>1, <5>3 DEF OnItsHost
        <5>. QED  BY <3>1, <5>2, <5>3
      <4>3. CASE b # d
        <5>1. blocks'[b] = blocks[b]
          BY <3>5, <4>1, <4>3
        <5>2. blocks[b].label # l
          BY <1>2, <4>3
        <5>3. blocks[b].label \in todo \/ OnItsHost(b)
          BY <1>1 DEF OnHostsBut
        <5>4. OnItsHost(b)' = OnItsHost(b)
          BY <1>1, <1>3, <5>1 DEF OnItsHost
        <5>. QED  BY <3>1, <5>1, <5>2, <5>3, <5>4
      <4>. QED  BY <4>2, <4>3
    <3>. QED  BY <3>6, <3>7 DEF OnHostsBut
  <2>. QED  BY <2>1, <2>2
<1>. QED  BY <1>1, <1>4 DEF Prepared

\* The steps after the sites, and those of the provider, leave it as prepared.
LEMMA PreparedAfter ==
    ASSUME IInv, [Next]_vars, Prepared,
           \/ SitePrepared \/ Published
           \/ \E s \in Sites : Publish(s)
           \/ \E h \in Hosts : Push(h)
           \/ \E s \in ServerIds : AssignAddress(s) \/ Boot(s)
           \/ UNCHANGED vars
    PROVE  Prepared'
<1>0. TypeOK
  BY DEF IInv
<1>1. CASE pc' \in EarlySteps
  BY <1>1, EarlyPrepared
<1>2. UNCHANGED <<version, rows, blocks>>
  BY DEF SitePrepared, Published, Publish, Push, AssignAddress, Boot, CloudStep, session,
         cloud, vars
<1>3. ASSUME NEW h \in Hosts, ServerCreate(h), UNCHANGED glet  PROVE FALSE
  BY <1>0, <1>3 DEF ServerCreate, GletStep, TypeOK
<1>4. UNCHANGED glet
  BY DEF SitePrepared, Published, Publish, Push, AssignAddress, Boot, CloudStep, session,
         cloud, vars
<1>5. ASSUME pc' \notin EarlySteps
      PROVE  /\ UNCHANGED site /\ (pc' = pc => todo' = todo \/ pc \in {"dns", "push"})
             /\ (pc' # pc => /\ pc' \in {"dns", "push"}
                             /\ \/ pc = "attach" /\ todo = {} /\ ~(site < NSites)
                                \/ pc = "dns")
  BY <1>5 DEF SitePrepared, Published, Publish, Push, AssignAddress, Boot, CloudStep,
              session, cloud, vars, EarlySteps
<1>6. ASSUME pc' \in {"networks", "servers"}  PROVE Prepared'
  <2>1. BlocksSettled /\ UNCHANGED site
    BY <1>5, <1>6 DEF EarlySteps, Prepared
  <2>2. BlocksSettled'
    BY <1>2, <2>1, SameBlocks
  <2>. QED  BY <1>6, <2>2 DEF Prepared
<1>7. ASSUME pc' \in {"join", "macs", "attach", "dns", "push"}  PROVE Prepared'
  <2>1. pc \in {"join", "macs", "attach", "dns", "push"} /\ UNCHANGED site
    BY <1>5, <1>7 DEF EarlySteps
  <2>2. StatusesStay
    BY <1>0, <1>3, <1>4, <1>7, <2>1, StatusesMove
  <2>3. BlocksSettled /\ ServersSettled
    BY <2>1 DEF Prepared
  <2>4. BlocksSettled' /\ ServersSettled'
    BY <1>2, <2>1, <2>2, <2>3, SameBlocks, ServersSettledStays
  <2>5. pc' = "join" => SpawnedOfSite'
    <3>. SUFFICES ASSUME pc' = "join"  PROVE SpawnedOfSite'
      OBVIOUS
    <3>1. SpawnedOfSite
      BY <1>5 DEF EarlySteps, Prepared
    <3>2. SiteHosts' = SiteHosts
      BY <1>2, <2>1 DEF SiteHosts
    <3>. QED  BY <1>4, <3>1, <3>2 DEF SpawnedOfSite, GletOver
  <2>6. pc' \in {"attach", "dns", "push"} => MacsSettled'
    <3>. SUFFICES ASSUME pc' \in {"attach", "dns", "push"}  PROVE MacsSettled'
      OBVIOUS
    <3>1. MacsSettled
      BY <1>5 DEF EarlySteps, Prepared
    <3>. QED  BY <1>2, <2>1, <2>2, <3>1, MacsSettledStays
  <2>7. pc' = "attach" => OnHostsBut(todo)'
    <3>. SUFFICES ASSUME pc' = "attach"  PROVE OnHostsBut(todo)'
      OBVIOUS
    <3>1. OnHostsBut(todo) /\ todo' = todo
      BY <1>5 DEF EarlySteps, Prepared
    <3>2. \A b \in LiveBlocks' : blocks'[b].label \in todo \/ OnItsHost(b)'
      BY <1>2, <2>2, <3>1, OnHostsStays
    <3>. QED  BY <3>1, <3>2 DEF OnHostsBut
  <2>8. pc' \in {"dns", "push"} => OnHostsBut({})' /\ site' = NSites
    <3>. SUFFICES ASSUME pc' \in {"dns", "push"}  PROVE OnHostsBut({})' /\ site' = NSites
      OBVIOUS
    <3>1. OnHostsBut({}) /\ site = NSites
      <4>1. CASE pc \in {"dns", "push"}
        BY <4>1 DEF Prepared
      <4>2. CASE pc = "attach" /\ todo = {} /\ ~(site < NSites)
        <5>1. site \in 1..NSites /\ NSites \in Nat
          BY <1>0, SitesAssumption DEF TypeOK, Sites
        <5>. QED  BY <4>2, <5>1 DEF Prepared
      <4>. QED  BY <1>5, <4>1, <4>2 DEF EarlySteps
    <3>2. \A b \in LiveBlocks' : blocks'[b].label \in {} \/ OnItsHost(b)'
      BY <1>2, <2>2, <3>1, OnHostsStays
    <3>. QED  BY <2>1, <3>1, <3>2 DEF OnHostsBut
  <2>. QED  BY <1>7, <2>4, <2>5, <2>6, <2>7, <2>8 DEF Prepared
<1>8. TypeOK'
  BY NextType
<1>. QED  BY <1>1, <1>6, <1>7, <1>8 DEF TypeOK, Steps, EarlySteps

LEMMA NextPrepared == ASSUME IInv, [Next]_vars, Prepared  PROVE Prepared'
<1>1. ASSUME \/ \E v \in Versions : Begin(v)
             \/ DestroyKey \/ CreateAuthorityKey \/ CreateUserDataKey
             \/ MarkBlock \/ CreateBlock
             \/ EndingStep
      PROVE  pc' \in EarlySteps
  BY <1>1 DEF Begin, DestroyKey, CreateAuthorityKey, CreateUserDataKey, MarkBlock,
     CreateBlock, EndingStep, MacsFail, MarkDeployed, Crash, CrashAmongRows, AttachFails, PublishFails,
     EndSession, Goto, Stay, EarlySteps
<1>2. ASSUME \/ \E s \in ServerIds : PurgeServer(s)
             \/ \E b \in BlockIds : PurgeBlock(b)
      PROVE  pc' \in EarlySteps
  BY <1>2 DEF PurgeServer, PurgeBlock, CloudStep, session, EarlySteps
<1>3. ASSUME NEW l \in Blocks, AttachKept(l) \/ Detach(l) \/ Attach(l)
      PROVE  Prepared'
  BY <1>3, PreparedWhileAttaching
<1>4. ASSUME NEW h \in Hosts, Greenlet(h) \/ GreenletFails(h)  PROVE Prepared'
  BY <1>4, PreparedWhileJoining
<1>5. CASE BlocksReady \/ CreateNetwork \/ NetworksReady \/ MarkServer \/ KeepAndSpawn
  BY <1>5, PreparedToJoin
<1>6. CASE JoinAll \/ RecordMacs
  BY <1>6, PreparedToAttach
<1>7. CASE \/ SitePrepared \/ Published
           \/ \E s \in Sites : Publish(s)
           \/ \E h \in Hosts : Push(h)
           \/ \E s \in ServerIds : AssignAddress(s) \/ Boot(s)
           \/ UNCHANGED vars
  BY <1>7, PreparedAfter
<1>. QED
  BY <1>1, <1>2, <1>3, <1>4, <1>5, <1>6, <1>7, EarlyPrepared
  DEF Next, SessionStep, EndingStep

PreparedInv == IInv /\ Prepared

LEMMA PreparedAlways == Spec => []PreparedInv
<1>1. Init => PreparedInv
  <2>1. Init => Prepared
    BY DEF Init, Prepared
  <2>. QED  BY <2>1, InitIInv DEF PreparedInv
<1>2. PreparedInv /\ [Next]_vars => PreparedInv'
  BY NextIInv, NextPrepared DEF PreparedInv
<1>. QED  BY <1>1, <1>2, PTL DEF Spec

\* With one site, the hosts and the blocks of the site are those of the version.
LEMMA OneSite ==
    ASSUME TypeOK, NSites = 1
    PROVE  SiteHosts = HostsOf[version] /\ SiteBlocks = DOMAIN MountedOn[version]
<1>1. site = 1 /\ version \in Versions
  BY DEF TypeOK, Sites
<1>2. \A h \in HostsOf[version] : SiteOf[h] = 1
  BY <1>1, HostsAssumption, SitesAssumption DEF Sites
<1>3. SiteHosts = HostsOf[version]
  BY <1>1, <1>2 DEF SiteHosts
<1>. QED  BY <1>1, <1>3, MountsAssumption DEF SiteBlocks

\* A one-site domain, once its infrastructure is prepared, has in the account
\* what the version asks for and nothing else, whatever an earlier attempt or
\* another version left there and however often deploy was stopped before.
THEOREM OneSiteConverges == ASSUME NSites = 1  PROVE Spec => []Converged
<1>1. ASSUME PreparedInv  PROVE Converged
  <2>. SUFFICES ASSUME pc \in {"dns", "push"}
                PROVE  /\ {servers[s].host : s \in LiveServers} = HostsOf[version]
                       /\ \A h \in HostsOf[version] : rows[version][h].mac \in ServersOf(h)
                       /\ {blocks[b].label : b \in LiveBlocks} = DOMAIN MountedOn[version]
                       /\ \A b \in LiveBlocks :
                             blocks[b].host \in ServersOf(MountedOn[version][blocks[b].label])
    BY DEF Converged
  <2>1. BlocksSettled /\ ServersSettled /\ MacsSettled /\ OnHostsBut({})
    BY <1>1 DEF PreparedInv, Prepared
  <2>2. SiteHosts = HostsOf[version] /\ SiteBlocks = DOMAIN MountedOn[version]
    BY <1>1, OneSite DEF PreparedInv, IInv
  <2>3. {servers[s].host : s \in LiveServers} = SiteHosts
    <3>1. \A s \in LiveServers : servers[s].host \in SiteHosts
      BY <2>1 DEF ServersSettled, UnneededServers
    <3>2. ASSUME NEW h \in SiteHosts  PROVE \E s \in LiveServers : servers[s].host = h
      BY <2>1 DEF MacsSettled, ServersOf
    <3>. QED  BY <3>1, <3>2
  <2>4. {blocks[b].label : b \in LiveBlocks} = SiteBlocks
    BY <2>1 DEF BlocksSettled, UnneededBlocks, MissingBlocks
  <2>5. \A h \in SiteHosts : rows[version][h].mac \in ServersOf(h)
    BY <2>1 DEF MacsSettled
  <2>6. \A b \in LiveBlocks :
            blocks[b].host \in ServersOf(MountedOn[version][blocks[b].label])
    BY <2>1 DEF OnHostsBut, OnItsHost
  <2>. QED  BY <2>2, <2>3, <2>4, <2>5, <2>6
<1>. QED  BY <1>1, PreparedAlways, PTL

\* What holds of every domain: the account then holds what the last site asks
\* for. With a second site this is not what the version asks for, which is how
\* the run two_sites fails.
LastSiteConverged ==
    pc \in {"dns", "push"} =>
        /\ site = NSites
        /\ {servers[s].host : s \in LiveServers} = SiteHosts
        /\ {blocks[b].label : b \in LiveBlocks} = SiteBlocks

\* After the sites are prepared, one after the other, every server and every
\* block that is left is one of the last site.
THEOREM OnlyTheLastSite == Spec => []LastSiteConverged
<1>1. ASSUME PreparedInv  PROVE LastSiteConverged
  <2>. SUFFICES ASSUME pc \in {"dns", "push"}
                PROVE  /\ site = NSites
                       /\ {servers[s].host : s \in LiveServers} = SiteHosts
                       /\ {blocks[b].label : b \in LiveBlocks} = SiteBlocks
    BY DEF LastSiteConverged
  <2>1. BlocksSettled /\ ServersSettled /\ MacsSettled /\ site = NSites
    BY <1>1 DEF PreparedInv, Prepared
  <2>2. \A s \in LiveServers : servers[s].host \in SiteHosts
    BY <2>1 DEF ServersSettled, UnneededServers
  <2>3. ASSUME NEW h \in SiteHosts  PROVE \E s \in LiveServers : servers[s].host = h
    BY <2>1 DEF MacsSettled, ServersOf
  <2>4. {blocks[b].label : b \in LiveBlocks} = SiteBlocks
    BY <2>1 DEF BlocksSettled, UnneededBlocks, MissingBlocks
  <2>. QED  BY <2>1, <2>2, <2>3, <2>4
<1>. QED  BY <1>1, PreparedAlways, PTL
-----------------------------------------------------------------------------
\* No two servers that are there have the same address.
Alive(s) == s \in ServerIds /\ servers[s].status # "gone"

OwnAddress ==
    \A s, t : Alive(s) /\ Alive(t) /\ servers[s].ip = servers[t].ip
                  /\ servers[s].ip # ZeroAddress => s = t

\* An address leads to the host's server, or to none yet.
HostAt(a, h) ==
    a = ZeroAddress \/ \E s : Alive(s) /\ servers[s].host = h /\ servers[s].ip = a

\* The servers greenlets made are there and are those of their hosts.
CreatedRight ==
    \A h \in Hosts :
        glet[h] \in {"address", "ping", "update", "done"} =>
            Alive(created[h]) /\ servers[created[h]].host = h

\* While the process lives, the rows of the hosts it found a server for, in the
\* sites it has reached, are right. Those of greenlets that returned follow from
\* CreatedRight.
RowsRight ==
    pc \notin {"idle", "authority"} =>
        \A h \in HostsOf[version] :
            Reached(h) /\ glet[h] = "none" => HostAt(rows[version][h].ip, h)

RightInv == PreparedInv /\ OwnAddress /\ CreatedRight /\ RowsRight

\* Only its deletion takes a server away, and none is deleted while deploy runs.
LEMMA AliveStays ==
    ASSUME TypeOK, [Next]_vars, pc # "idle", NEW s, Alive(s)
    PROVE  /\ Alive(s)' /\ servers'[s].host = servers[s].host
           /\ servers[s].ip # ZeroAddress => servers'[s].ip = servers[s].ip
<1>1. s \in ServerIds /\ servers[s].status # "gone"
  BY DEF Alive
<1>2. /\ s \in ServerIds'
      /\ servers[s].ip # ZeroAddress => servers'[s].ip = servers[s].ip
  BY <1>1, ServersGrow
<1>3. CASE \E h \in Hosts : ServerCreate(h)
  <2>1. servers'[s] = servers[s]
    BY <1>1, <1>3, Created
  <2>. QED  BY <1>1, <1>2, <2>1 DEF Alive
<1>4. CASE ~ \E h \in Hosts : ServerCreate(h)
  <2>1. ServerMoves(s)
    BY <1>1, <1>4, FieldsMove
  <2>2. ~PurgeServer(s)
    BY DEF PurgeServer
  <2>. QED  BY <1>1, <1>2, <2>1, <2>2 DEF ServerMoves, FieldsKept, Dropped, Addressed, Alive
<1>. QED  BY <1>3, <1>4

LEMMA HostAtStays ==
    ASSUME TypeOK, [Next]_vars, pc # "idle", NEW a, NEW h, HostAt(a, h)
    PROVE  HostAt(a, h)'
<1>1. CASE a = ZeroAddress
  BY <1>1 DEF HostAt
<1>2. ASSUME NEW s, Alive(s), servers[s].host = h, servers[s].ip = a, a # ZeroAddress
      PROVE  HostAt(a, h)'
  <2>1. Alive(s)' /\ servers'[s].host = h /\ servers'[s].ip = a
    BY <1>2, AliveStays
  <2>. QED  BY <2>1 DEF HostAt
<1>. QED  BY <1>1, <1>2 DEF HostAt

\* An address is given to a server when nobody has it.
LEMMA NextOwnAddress ==
    ASSUME TypeOK, OwnAddress, [Next]_vars  PROVE OwnAddress'
<1>1. ASSUME NEW s \in ServerIds, AssignAddress(s)  PROVE OwnAddress'
  <2>1. PICK a \in Unassigned(s) : servers' = [servers EXCEPT ![s].ip = a]
    BY <1>1 DEF AssignAddress
  <2>. DEFINE e == [servers[s] EXCEPT !.ip = a]
  <2>2. servers' = [servers EXCEPT ![s] = e]
    BY <2>1, Zenon
  <2>3. servers[s] \in Server
    BY DEF TypeOK, ServerIds
  <2>4. e.ip = a /\ e.status = servers[s].status
    BY <2>3 DEF Server
  <2>. HIDE DEF e
  <2>5. /\ ServerIds' = ServerIds
        /\ \A t \in ServerIds : servers'[t] = IF t = s THEN e ELSE servers[t]
    BY <2>2 DEF ServerIds
  <2>6. \A t : Alive(t) => servers[t].ip # a
    BY DEF Unassigned, Alive
  <2>7. \A t : Alive(t)' => Alive(t)
    BY <2>4, <2>5 DEF Alive
  <2>8. ASSUME NEW t, NEW u, Alive(t)', Alive(u)', servers'[t].ip = servers'[u].ip,
               servers'[t].ip # ZeroAddress
        PROVE  t = u
    <3>1. Alive(t) /\ Alive(u) /\ t \in ServerIds /\ u \in ServerIds
      BY <2>7, <2>8 DEF Alive
    <3>2. \/ t = s \/ servers'[t].ip = servers[t].ip
      BY <2>5, <3>1
    <3>3. \/ u = s \/ servers'[u].ip = servers[u].ip
      BY <2>5, <3>1
    <3>4. servers'[s].ip = a
      BY <2>4, <2>5
    <3>. QED  BY <2>6, <2>8, <3>1, <3>2, <3>3, <3>4 DEF OwnAddress
  <2>. QED  BY <2>8 DEF OwnAddress
<1>2. ASSUME NEW h \in Hosts, ServerCreate(h)  PROVE OwnAddress'
  <2>. DEFINE n == Len(servers) + 1
  <2>1. /\ ServerIds' = ServerIds \cup {n}
        /\ \A s \in ServerIds : servers'[s] = servers[s]
        /\ servers'[n].ip = ZeroAddress
    BY <1>2, Created
  <2>. HIDE DEF n
  <2>. QED  BY <2>1 DEF OwnAddress, Alive
<1>3. ASSUME ~ \E h \in Hosts : ServerCreate(h),
             ~ \E s \in ServerIds : AssignAddress(s)
      PROVE  OwnAddress'
  <2>1. ServerIds' = ServerIds
    BY <1>3, IdsMove
  <2>2. ASSUME NEW s \in ServerIds
        PROVE  /\ servers'[s].ip = servers[s].ip
               /\ servers'[s].status # "gone" => servers[s].status # "gone"
    <3>1. ServerMoves(s)
      BY <1>3, FieldsMove
    <3>2. FieldsKept(servers[s], servers'[s]) \/ Dropped(s)
      BY <1>3, <3>1 DEF ServerMoves, Addressed
    <3>3. PurgeServer(s) => servers'[s].status = "gone"
      <4>1. servers[s] \in Server
        BY DEF TypeOK, ServerIds
      <4>2. PurgeServer(s) => servers' = [servers EXCEPT ![s] = [servers[s] EXCEPT !.status = "gone"]]
        BY Zenon DEF PurgeServer
      <4>3. [servers[s] EXCEPT !.status = "gone"].status = "gone"
        BY <4>1, FieldUpdate
      <4>. QED  BY <4>2, <4>3 DEF ServerIds
    <3>. QED  BY <3>2, <3>3 DEF FieldsKept, Dropped, LiveServers
  <2>3. \A s : Alive(s)' => Alive(s)
    BY <2>1, <2>2 DEF Alive
  <2>. QED  BY <2>2, <2>3 DEF OwnAddress, Alive
<1>. QED  BY <1>1, <1>2, <1>3

LEMMA NextCreatedRight ==
    ASSUME RightInv, [Next]_vars  PROVE CreatedRight'
<1>0. IInv /\ CreatedRight
  BY DEF RightInv, PreparedInv
<1>typed. glet \in [Hosts -> GletStates] /\ created \in [Hosts -> Nat]
  BY <1>0 DEF IInv, TypeOK
<1>1. ASSUME NEW h \in Hosts, glet[h] \in {"address", "ping", "update", "done"},
             created'[h] = created[h]
      PROVE  Alive(created[h])' /\ servers'[created'[h]].host = h
  <2>1. pc # "idle"
    BY <1>0, <1>1 DEF IInv, GletSeen
  <2>2. PICK n : n = created[h]
    OBVIOUS
  <2>3. Alive(n) /\ servers[n].host = h /\ created'[h] = n
    BY <1>0, <1>1, <2>2 DEF CreatedRight
  <2>4. Alive(n)' /\ servers'[n].host = h
    BY <1>0, <2>1, <2>3, AliveStays DEF IInv
  <2>. QED  BY <2>3, <2>4 DEF Alive
<1>2. ASSUME UNCHANGED created,
             \A h \in Hosts : glet'[h] \in {"address", "ping", "update", "done"} =>
                              glet[h] \in {"address", "ping", "update", "done"}
      PROVE  CreatedRight'
  BY <1>1, <1>2 DEF CreatedRight
<1>3. ASSUME \A h \in Hosts : glet'[h] = "none"  PROVE CreatedRight'
  BY <1>3 DEF CreatedRight
<1>4. ASSUME NEW h \in Hosts, ServerCreate(h)  PROVE CreatedRight'
  <2>. DEFINE n == Len(servers) + 1
  <2>1. servers'[n].host = h /\ servers'[n].status = "live" /\ n \in ServerIds'
    BY <1>0, <1>4, Created DEF IInv
  <2>2. glet' = [glet EXCEPT ![h] = "address"] /\ created' = [created EXCEPT ![h] = n]
    BY <1>4 DEF ServerCreate, GletStep
  <2>. HIDE DEF n
  <2>3. ASSUME NEW k \in Hosts, k # h  PROVE glet'[k] = glet[k] /\ created'[k] = created[k]
    BY <1>typed, <2>2, <2>3
  <2>4. created'[h] = n
    BY <1>typed, <2>2
  <2>. QED  BY <1>1, <2>1, <2>3, <2>4 DEF CreatedRight, Alive
<1>5. ASSUME NEW h \in Hosts, SeeAddress(h) \/ SeeUp(h) \/ UpdateRow(h) \/ GreenletFails(h)
      PROVE  CreatedRight'
  <2>1. created' = created
    BY <1>5 DEF SeeAddress, SeeUp, UpdateRow, GreenletFails
  <2>2. ASSUME NEW k \in Hosts, glet'[k] \in {"address", "ping", "update", "done"}
        PROVE  glet[k] \in {"address", "ping", "update", "done"}
    BY <1>typed, <1>5, <2>2 DEF SeeAddress, SeeUp, UpdateRow, GreenletFails, GletStep
  <2>. QED  BY <1>2, <2>1, <2>2
<1>6. CASE EndingStep
  BY <1>3, <1>6, EndingSteps
<1>7. CASE QuietStep
  BY <1>2, <1>7, QuietSteps
<1>8. CASE KeepAndSpawn
  BY <1>2, <1>8 DEF KeepAndSpawn
<1>9. CASE RecordMacs
  BY <1>2, <1>9 DEF RecordMacs
<1>10. CASE SessionStep \/ Crash \/ CrashAmongRows
  BY <1>6, <1>7, <1>8, <1>9, <1>10, SessionSteps DEF EndingStep
<1>11. ASSUME \/ \E v \in Versions : Begin(v)
              \/ \E s \in ServerIds : AssignAddress(s) \/ Boot(s) \/ PurgeServer(s)
              \/ \E b \in BlockIds : PurgeBlock(b)
              \/ UNCHANGED vars
       PROVE  UNCHANGED <<glet, created>>
  BY <1>11 DEF Begin, AssignAddress, Boot, PurgeServer, PurgeBlock, CloudStep, session, vars
<1>. QED  BY <1>2, <1>4, <1>5, <1>10, <1>11 DEF Next, Greenlet

\* Every step leaves the rows right: a host is found with a server and takes its
\* address, or its row waits for its greenlet.
LEMMA NextRowsRight ==
    ASSUME RightInv, [Next]_vars  PROVE RowsRight'
<1>0. IInv /\ TypeOK /\ OneLiveServer /\ RowsRight
  BY DEF RightInv, PreparedInv, IInv
<1>typed. /\ rows \in RowsTyped /\ version \in Versions /\ HostsOf[version] \subseteq Hosts
          /\ glet \in [Hosts -> GletStates] /\ site \in Sites
          /\ site \in Int /\ SiteOf \in [Hosts -> Int]
          /\ \A h \in Hosts : SiteOf[h] >= 1
  BY <1>0, HostsAssumption, SitesAssumption DEF TypeOK, HostRow, RowsTyped, Sites
<1>1. ASSUME pc' \in {"idle", "authority"}  PROVE RowsRight'
  BY <1>1 DEF RowsRight
<1>2. ASSUME NEW h \in HostsOf[version], pc \notin {"idle", "authority"},
             UNCHANGED version, Reached(h), glet[h] = "none",
             rows'[version][h].ip = rows[version][h].ip
      PROVE  HostAt(rows[version][h].ip, h)'
  <2>1. PICK a : a = rows[version][h].ip
    OBVIOUS
  <2>2. HostAt(a, h)
    BY <1>0, <1>2, <2>1 DEF RowsRight
  <2>3. HostAt(a, h)'
    BY <1>0, <1>2, <2>2, HostAtStays
  <2>. QED  BY <1>2, <2>1, <2>3 DEF HostAt
<1>3. ASSUME pc \notin {"idle", "authority"}, UNCHANGED version,
             \A h \in HostsOf[version] :
                 Reached(h)' /\ glet'[h] = "none" =>
                     /\ Reached(h) /\ glet[h] = "none"
                     /\ rows'[version][h].ip = rows[version][h].ip
      PROVE  RowsRight'
  BY <1>2, <1>3 DEF RowsRight
<1>4. ASSUME UNCHANGED <<version, rows, glet, site>>,
             pc' \in LateSteps => pc \in LateSteps, pc \notin {"idle", "authority"}
      PROVE  RowsRight'
  BY <1>3, <1>4 DEF Reached
<1>5. CASE KeepAndSpawn
  <2>1. /\ pc = "servers" /\ pc' = "join" /\ Relisted(ExistingHosts)
        /\ UNCHANGED <<version, site, servers>>
    BY <1>0, <1>5, KeptRows DEF KeepAndSpawn, cloud
  <2>2. ASSUME NEW h \in HostsOf[version], h \in ExistingHosts
        PROVE  HostAt(rows[version][h].ip, h)'
    <3>1. Listed(h) \in ServersOf(h)
      BY <1>0, <2>2, ListedServer DEF ExistingHosts
    <3>2. rows'[version][h].ip = servers[Listed(h)].ip
      BY <1>typed, <2>1, <2>2 DEF Relisted
    <3>3. PICK s : s = Listed(h)
      OBVIOUS
    <3>4. /\ s \in ServerIds' /\ servers'[s].status # "gone" /\ servers'[s].host = h
          /\ servers'[s].ip = rows'[version'][h].ip
      BY <2>1, <3>1, <3>2, <3>3 DEF ServersOf, LiveServers, ServerIds
    <3>. QED  BY <3>4 DEF HostAt, Alive
  <2>3. ASSUME NEW h \in HostsOf[version], Reached(h)', glet'[h] = "none"
        PROVE  HostAt(rows[version][h].ip, h)'
    <3>1. h \notin SiteHosts \/ h \in ExistingHosts
      BY <1>typed, <1>5, <2>3 DEF KeepAndSpawn
    <3>2. CASE h \notin SiteHosts
      <4>1. h \notin ExistingHosts /\ Reached(h) /\ glet[h] = "none"
        BY <1>typed, <1>5, <2>1, <2>3, <3>2
        DEF SiteHosts, ExistingHosts, Reached, KeepAndSpawn
      <4>2. rows'[version][h].ip = rows[version][h].ip
        BY <1>typed, <2>1, <4>1 DEF Relisted
      <4>. QED  BY <1>2, <2>1, <4>1, <4>2
    <3>. QED  BY <2>2, <3>1, <3>2
  <2>. QED  BY <2>1, <2>3 DEF RowsRight
<1>6. CASE RecordMacs
  <2>1. /\ pc = "macs" /\ pc' = "attach" /\ UNCHANGED <<version, glet, site>>
        /\ MacsListed(SiteHosts)
    BY <1>0, <1>6, MacRows DEF RecordMacs
  <2>2. \A h \in HostsOf[version] : rows'[version][h].ip = rows[version][h].ip
    BY <1>typed, <2>1 DEF MacsListed
  <2>. QED  BY <1>3, <2>1, <2>2 DEF Reached, LateSteps
<1>7. ASSUME NEW h \in Hosts, UpdateRow(h)  PROVE RowsRight'
  <2>1. glet'[h] = "done" /\ pc = "join" /\ pc' = "join" /\ UNCHANGED <<version, site>>
    BY <1>typed, <1>7 DEF UpdateRow, GletStep
  <2>2. \A k \in Hosts : k # h => rows'[version][k] = rows[version][k] /\ glet'[k] = glet[k]
    BY <1>typed, <1>7 DEF UpdateRow, GletStep, RowsTyped
  <2>. QED  BY <1>3, <1>typed, <2>1, <2>2 DEF Reached
<1>8. ASSUME NEW h \in Hosts,
             ServerCreate(h) \/ SeeAddress(h) \/ SeeUp(h) \/ GreenletFails(h)
      PROVE  RowsRight'
  <2>1. pc = "join" /\ pc' = "join" /\ UNCHANGED <<version, site, rows>>
    BY <1>8 DEF ServerCreate, SeeAddress, SeeUp, GreenletFails, GletStep
  <2>2. \A k \in Hosts : glet'[k] = "none" => glet[k] = "none"
    BY <1>typed, <1>8 DEF ServerCreate, SeeAddress, SeeUp, GreenletFails, GletStep
  <2>. QED  BY <1>3, <1>typed, <2>1, <2>2 DEF Reached
<1>9. CASE EndingStep \/ \E v \in Versions : Begin(v)
  BY <1>1, <1>9, EndingSteps DEF Begin
<1>10. CASE DestroyKey
  BY <1>1, <1>4, <1>10 DEF DestroyKey, Stay
<1>11. CASE CreateAuthorityKey
  <2>1. pc' = "authority" \/ (pc' = "userdata" /\ site' = 1)
    BY <1>11 DEF CreateAuthorityKey
  <2>2. CASE pc' = "userdata" /\ site' = 1
    <3>1. UNCHANGED version
      BY <1>11 DEF CreateAuthorityKey
    <3>2. \A h \in HostsOf[version] : ~Reached(h)'
      BY <1>typed, <2>2 DEF Reached, LateSteps
    <3>. QED  BY <3>1, <3>2 DEF RowsRight
  <2>. QED  BY <1>1, <2>1, <2>2
<1>12. CASE SitePrepared
  <2>1. /\ pc = "attach" /\ UNCHANGED <<glet, version, rows>>
        /\ \/ site' = site + 1 /\ pc' = "userdata"
           \/ site' = site /\ pc' = "dns"
    BY <1>12 DEF SitePrepared
  <2>2. \A h \in HostsOf[version] : Reached(h)' => Reached(h)
    BY <1>typed, <2>1 DEF Reached, LateSteps
  <2>. QED  BY <1>3, <2>1, <2>2
<1>13. ASSUME QuietStep, ~DestroyKey, ~CreateAuthorityKey, ~SitePrepared  PROVE RowsRight'
  <2>1. /\ pc \notin {"idle", "authority"} /\ UNCHANGED site
        /\ (pc' \in LateSteps => pc \in LateSteps)
    BY <1>13 DEF QuietStep, CreateUserDataKey, MarkBlock, CreateBlock, BlocksReady,
       CreateNetwork, NetworksReady, MarkServer, JoinAll, AttachKept, Detach, Attach,
       Publish, Published, Push, Goto, LateSteps
  <2>. QED  BY <1>4, <1>13, <2>1, QuietSteps
<1>14. ASSUME \/ \E s \in ServerIds : AssignAddress(s) \/ Boot(s) \/ PurgeServer(s)
              \/ \E b \in BlockIds : PurgeBlock(b)
              \/ UNCHANGED vars
       PROVE  RowsRight'
  <2>1. UNCHANGED <<version, rows, glet, site, pc>>
    BY <1>14 DEF AssignAddress, Boot, PurgeServer, PurgeBlock, CloudStep, session, vars
  <2>. QED  BY <1>1, <1>4, <2>1
<1>15. CASE SessionStep \/ Crash \/ CrashAmongRows
  BY <1>5, <1>6, <1>9, <1>10, <1>11, <1>12, <1>13, <1>15, SessionSteps DEF EndingStep
<1>. QED  BY <1>7, <1>8, <1>9, <1>14, <1>15 DEF Next, Greenlet

\* When configurations are about to be pushed, for any number of sites, versions
\* and attempts, and although addresses are given out again: whoever has the
\* address in a host's row is that host, unless its greenlet died. What follows
\* when it did is shown by the run stale_push.
THEOREM OnlyTheRightHost == Spec => []RightHost
<1>1. Init => RightInv
  <2>1. ASSUME Init  PROVE OwnAddress /\ CreatedRight /\ RowsRight
    BY <2>1 DEF Init, OwnAddress, Alive, ServerIds, CreatedRight, RowsRight
  <2>2. Init => Prepared
    BY DEF Init, Prepared
  <2>. QED  BY <2>1, <2>2, InitIInv DEF RightInv, PreparedInv
<1>2. RightInv /\ [Next]_vars => RightInv'
  <2>1. RightInv /\ [Next]_vars => PreparedInv'
    BY NextIInv, NextPrepared DEF RightInv, PreparedInv
  <2>2. RightInv /\ [Next]_vars => OwnAddress'
    BY NextOwnAddress DEF RightInv, PreparedInv, IInv
  <2>. QED  BY <2>1, <2>2, NextCreatedRight, NextRowsRight DEF RightInv
<1>3. ASSUME RightInv, pc = "push",
             NEW h \in HostsOf[version], NEW s \in ServersAt(rows[version][h].ip)
      PROVE  servers[s].host = h \/ glet[h] = "dead"
  <2>0. IInv
    BY <1>3 DEF RightInv, PreparedInv
  <2>1. h \in Hosts /\ version \in Versions /\ site \in Sites /\ SiteOf[h] \in Sites
    BY <1>3, <2>0, HostsAssumption, SitesAssumption DEF IInv, TypeOK
  <2>2. Reached(h)
    <3>1. site = NSites
      BY <1>3 DEF RightInv, PreparedInv, Prepared
    <3>. QED  BY <1>3, <2>1, <3>1, SitesAssumption DEF Sites, Reached, LateSteps
  <2>3. glet[h] \in {"none", "done", "dead"}
    BY <1>3, <2>0, <2>1 DEF IInv, GletSites, GletOver
  <2>4. Alive(s) /\ servers[s].ip = rows[version][h].ip /\ servers[s].ip # ZeroAddress
    BY <1>3 DEF ServersAt, Alive
  <2>5. CASE glet[h] = "none"
    <3>1. HostAt(rows[version][h].ip, h)
      BY <1>3, <2>2, <2>5 DEF RightInv, RowsRight
    <3>2. PICK t : Alive(t) /\ servers[t].host = h /\ servers[t].ip = rows[version][h].ip
      BY <2>4, <3>1 DEF HostAt
    <3>3. s = t
      BY <1>3, <2>4, <3>2 DEF RightInv, OwnAddress
    <3>. QED  BY <3>2, <3>3
  <2>6. CASE glet[h] = "done"
    <3>1. /\ Alive(created[h]) /\ servers[created[h]].host = h
          /\ servers[created[h]].ip = rows[version][h].ip
      BY <1>3, <2>0, <2>1, <2>6 DEF RightInv, CreatedRight, IInv, GletSeen
    <3>2. s = created[h]
      BY <1>3, <2>4, <3>1 DEF RightInv, OwnAddress
    <3>. QED  BY <3>1, <3>2
  <2>. QED  BY <2>3, <2>5, <2>6
<1>4. RightInv => RightHost
  BY <1>3 DEF RightHost
<1>. QED  BY <1>1, <1>2, <1>4, PTL DEF Spec
=============================================================================
