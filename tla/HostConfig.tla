------------------------------ MODULE HostConfig ------------------------------
(* What a host does with the archives that are pushed to it: configinit      *)
(* applies their steps in order (resources/firstboot/configinit), on the     *)
(* environment the host was booted with; jail-zfs-setup.sh and               *)
(* jail-zfs-skeleton build the datasets of its containers (resources/jail);  *)
(* the finishing commands make a boot environment of the result and boot it. *)
(* The connection may be lost and the host may crash between any two steps;  *)
(* the operator deploys any version at any time, in particular again.        *)
(*                                                                           *)
(* Assumption: what a host was last pushed has ended when the next push      *)
(* reaches it. The ssh that starts configinit has no terminal, and the       *)
(* scripts log to a file: without its connection it may end where it is      *)
(* (ConnectionLost) or run on to its end (as if nothing was lost: its exit   *)
(* status is not read). That it runs on beside the next push is left out.    *)
(*                                                                           *)
(* Abstraction: the content of a file is the version it is of. Releases of   *)
(* the operating system do not change, and the names of versions stay        *)
(* different as names of environments. Packages and pools have no state.     *)
(* ZFS, bectl, nullfs and rc are external: modelled from how the scripts use *)
(* them.                                                                     *)
EXTENDS ConfigArchive, FiniteSets

CONSTANTS
    Newest,      \* versions are 1..Newest, in the order they were made
    UnitOf,      \* the host as each version describes it
    FoundBy,     \* the containers whose dataset a container's name is found in
    MaxTrouble   \* bound on lost connections, crashes and failed downloads

ASSUME VersionsAssumption == Newest \in Nat \ {0} /\ MaxTrouble \in Nat

Versions == 1..Newest
ContainersOf(v) == ToSet(UnitOf[v].containers)
Containers == UNION {ContainersOf(v) : v \in Versions}

ASSUME NamesAssumption ==
    FoundBy \in [Containers -> SUBSET Containers] /\ \A c \in Containers : c \in FoundBy[c]

VARIABLES
    version,     \* the version that is pushed, or was last
    todo,        \* the steps of its archive that are left
    line,        \* where the script that is the first of them is
    landed,      \* the version whose push was carried through, and none since
    back,        \* a version was pushed after a newer one
    trouble,     \* how much went wrong so far
    envs,        \* the boot environments, each named for a version
    files,       \* the version each configuration file of an environment is of
    booted,      \* the environment that runs
    next,        \* the environment that is booted next
    datasets,    \* the datasets of the layers
    sentinels,   \* the layers that are marked done
    released,    \* there is a snapshot of RELEASE
    base,        \* the directories that are in BASE itself
    skeleton,    \* the directories that were moved to SKELETON
    snapshot,    \* the directories in SKELETON@skeleton; none without it
    thinjail,    \* the directories in a container's dataset; none without it
    mounted,     \* the containers that run, their dataset over their directory
    firstboot,   \* the containers that are to boot as if for the first time
    payload,     \* the configuration in a container's /root, 0 for none
    ran          \* the configuration a container was last given, 0 for none

push   == <<version, todo, line, landed, back, trouble>>
system == <<envs, files, booted, next>>
layers == <<datasets, sentinels, released, base, skeleton, snapshot>>
jails  == <<thinjail, mounted, firstboot, payload, ran>>
vars   == <<push, system, layers, jails>>
-----------------------------------------------------------------------------
Nothing == 0
Original == 0       \* the environment of the image
Idle == ""

Archives == [v \in Versions |-> generate(intermediate_representation(UnitOf[v]))]
Archive(v) == Archives[v]

\* The files of the host itself that a version writes.
FilesOf == [v \in Versions |->
    {e.key : e \in ToSet(intermediate_representation(UnitOf[v]))}
        \ (CommandLists \cup {Interpreter}
             \cup UNION {{jail_cmd(c), fstab(c), cfinit(c)} : c \in Containers})]
JailConf == OfHost("jail.conf")
ConfFiles == {JailConf} \cup UNION {FilesOf[v] : v \in Versions}

\* The finishing commands end the archive of a version, after every file and
\* every container of it. (With a custom package among the capabilities of the
\* host they do not: Assigned leaves them where its commands were.)
FinishesLast(v) ==
    LET a == Archive(v)
        n == Len(a)
        body == {a[i] : i \in 1..(n - 3)}
    IN  /\ a \in Seq(ToSet(a)) /\ n >= 3
        /\ a[n - 2] = bectl_create /\ a[n - 1] = bectl_activate /\ a[n] = shutdown
        /\ body \cap {bectl_create, bectl_activate, shutdown} = {}
        /\ FilesOf[v] \subseteq body
        /\ \A c \in ContainersOf(v) : {jail_cmd(c), cfinit(c)} \subseteq body

ASSUME ArchivesAssumption == \A v \in Versions : FinishesLast(v)

Datasets == {"jails", "release", "base", "skeleton", "thinjail"}
Dirs     == <<"etc", "usr/local", "tmp", "var", "root", "mnt">>
AllDirs  == ToSet(Dirs)
VarEmpty == "var/empty"

Init ==
    /\ version = Nothing /\ todo = << >> /\ line = Idle /\ landed = Nothing
    /\ back = FALSE /\ trouble = 0
    /\ envs = {Original} /\ files = [e \in {Original} \cup Versions |-> [f \in ConfFiles |-> Nothing]]
    /\ booted = Original /\ next = Original
    /\ datasets = {} /\ sentinels = {} /\ released = FALSE
    /\ base = {} /\ skeleton = {} /\ snapshot = {}
    /\ thinjail = [c \in Containers |-> {}] /\ mounted = {} /\ firstboot = {}
    /\ payload = [c \in Containers |-> Nothing] /\ ran = [c \in Containers |-> Nothing]
-----------------------------------------------------------------------------
(* deploy and configinit                                                     *)

Push(v) ==
    /\ todo = << >>
    /\ version' = v
    /\ todo' = Archive(v)
    /\ landed' = Nothing
    /\ back' = (back \/ v < version)
    /\ UNCHANGED <<line, trouble, system, layers, jails>>

At(step) == todo # << >> /\ Head(todo) = step /\ line = Idle

\* configinit goes on to the next step, whether this one failed or not.
StepOver ==
    /\ todo' = Tail(todo) /\ line' = Idle
    /\ UNCHANGED <<version, landed, back, trouble>>

\* A mutant: the environment that was activated is written to.
WriteFile_Activated(f) ==
    /\ At(f)
    /\ files' = [files EXCEPT ![next][f] = version]
    /\ StepOver /\ UNCHANGED <<envs, booted, next, layers, jails>>

\* ">/path": what follows becomes the content of the file.
WriteFile(f) ==
    /\ At(f)
    /\ files' = [files EXCEPT ![booted][f] = version]
    /\ StepOver /\ UNCHANGED <<envs, booted, next, layers, jails>>

\* Over the directory of a container that runs its own file system is mounted.
\* What is written there before is hidden as soon as it runs.
WriteCfinit(c) ==
    /\ At(cfinit(c))
    /\ payload' = IF c \in mounted THEN [payload EXCEPT ![c] = version] ELSE payload
    /\ StepOver /\ UNCHANGED <<system, layers, thinjail, mounted, firstboot, ran>>

\* Packages, pools and mounts change nothing that is modelled.
OtherStep ==
    /\ todo # << >> /\ line = Idle /\ Head(todo) \notin ConfFiles
    /\ Head(todo)[1] \in {"pkg install", "zpool", "fstab"}
    /\ StepOver /\ UNCHANGED <<system, layers, jails>>
-----------------------------------------------------------------------------
(* jail-zfs-setup.sh, under sh -e: a command that fails ends it.             *)

\* The script goes on at another line.
Goto(l) == line' = l /\ UNCHANGED <<version, todo, landed, back, trouble>>

SetupStarts ==
    /\ At(Interpreter)
    /\ Goto("layer 0") /\ UNCHANGED <<system, layers, jails>>

CreateDataset ==
    /\ line = "layer 0"
    /\ \E d \in Datasets \ datasets : datasets' = datasets \cup {d}
    /\ UNCHANGED <<push, system, sentinels, released, base, skeleton, snapshot, jails>>

LayerZeroDone ==
    /\ line = "layer 0" /\ datasets = Datasets
    /\ Goto("layer 1") /\ UNCHANGED <<system, layers, jails>>

LayerDone(n, l) == line = l /\ n \in sentinels /\ UNCHANGED <<system, layers, jails>>

\* Layer 1 is marked before the snapshot is taken: the mark is part of it, and
\* with it the directory in which layers 2 and 3 are marked.
FetchRelease ==
    /\ line = "layer 1" /\ 1 \notin sentinels
    /\ sentinels' = sentinels \cup {1}
    /\ Goto("snapshot release")
    /\ UNCHANGED <<system, datasets, released, base, skeleton, snapshot, jails>>

SnapshotRelease ==
    /\ line = "snapshot release"
    /\ released' = TRUE
    /\ Goto("layer 2")
    /\ UNCHANGED <<system, datasets, sentinels, base, skeleton, snapshot, jails>>

\* A mutant: what is there is cloned over.
DestroyStale_Keep ==
    /\ line = "layer 2" /\ 2 \notin sentinels
    /\ Goto("clone release")
    /\ UNCHANGED <<system, layers, jails>>

DestroyStale ==
    /\ line = "layer 2" /\ 2 \notin sentinels
    /\ datasets' = datasets \ {"base"}
    /\ base' = {}
    /\ Goto("clone release")
    /\ UNCHANGED <<system, sentinels, released, skeleton, snapshot, jails>>

CloneRelease ==
    /\ line = "clone release" /\ released /\ "base" \notin datasets
    /\ datasets' = datasets \cup {"base"}
    /\ base' = AllDirs \cup {VarEmpty}
    /\ Goto("update")
    /\ UNCHANGED <<system, sentinels, released, skeleton, snapshot, jails>>

UpdateBase ==
    /\ line = "update"
    /\ sentinels' = sentinels \cup {2}
    /\ Goto("layer 3")
    /\ UNCHANGED <<system, datasets, released, base, skeleton, snapshot, jails>>

RemoveEmpty ==
    /\ line = "layer 3" /\ 3 \notin sentinels /\ VarEmpty \in base
    /\ base' = base \ {VarEmpty}
    /\ Goto("move")
    /\ UNCHANGED <<system, datasets, sentinels, released, skeleton, snapshot, jails>>

Rank(d) == CHOOSE i \in DOMAIN Dirs : Dirs[i] = d

\* A mutant: the last directory is forgotten.
MoveDir_OneShort(d) ==
    /\ line = "move" /\ d \in base /\ \A x \in base : Rank(d) <= Rank(x)
    /\ base' = base \ {d}
    /\ skeleton' = skeleton \cup {d}
    /\ Goto(IF base = {d, "mnt"} THEN "snapshot skeleton" ELSE "move")
    /\ UNCHANGED <<system, datasets, sentinels, released, snapshot, jails>>

MoveDir(d) ==
    /\ line = "move" /\ d \in base /\ \A x \in base : Rank(d) <= Rank(x)
    /\ base' = base \ {d}
    /\ skeleton' = skeleton \cup {d}
    /\ Goto(IF base = {d} THEN "snapshot skeleton" ELSE "move")
    /\ UNCHANGED <<system, datasets, sentinels, released, snapshot, jails>>

SnapshotSkeleton ==
    /\ line = "snapshot skeleton"
    /\ snapshot' = skeleton
    /\ Goto("mark skeleton")
    /\ UNCHANGED <<system, datasets, sentinels, released, base, skeleton, jails>>

SetupEnds ==
    /\ line = "mark skeleton"
    /\ sentinels' = sentinels \cup {3}
    /\ StepOver
    /\ UNCHANGED <<system, datasets, released, base, skeleton, snapshot, jails>>

\* zfs clone has no snapshot, or a dataset in its way; chflags has no var/empty.
SetupFails ==
    /\ \/ line = "clone release" /\ (~released \/ "base" \in datasets)
       \/ line = "layer 3" /\ 3 \notin sentinels /\ VarEmpty \notin base
    /\ StepOver /\ UNCHANGED <<system, layers, jails>>

\* fetch or freebsd-update do.
DownloadFails ==
    /\ \/ line = "layer 1" /\ 1 \notin sentinels
       \/ line = "update"
    /\ trouble < MaxTrouble /\ trouble' = trouble + 1
    /\ todo' = Tail(todo) /\ line' = Idle
    /\ UNCHANGED <<version, landed, back, system, layers, jails>>

jail_zfs_setup ==
    \/ SetupStarts \/ CreateDataset \/ LayerZeroDone
    \/ LayerDone(1, "layer 1") /\ Goto("layer 2")
    \/ FetchRelease \/ SnapshotRelease
    \/ LayerDone(2, "layer 2") /\ Goto("layer 3")
    \/ DestroyStale \/ CloneRelease \/ UpdateBase
    \/ LayerDone(3, "layer 3") /\ StepOver
    \/ RemoveEmpty \/ (\E d \in AllDirs : MoveDir(d)) \/ SnapshotSkeleton \/ SetupEnds
    \/ SetupFails
-----------------------------------------------------------------------------
(* jail-zfs-skeleton, of each container                                      *)

HasDataset(c) == thinjail[c] # {}

\* zfs list | egrep: a dataset with a longer name is taken for it.
DatasetFound(c) ==
    /\ At(jail_cmd(c)) /\ \E d \in FoundBy[c] : HasDataset(d)
    /\ Goto("seed") /\ UNCHANGED <<system, layers, jails>>

CloneSkeleton(c) ==
    /\ At(jail_cmd(c)) /\ ~\E d \in FoundBy[c] : HasDataset(d)
    /\ snapshot # {}
    /\ thinjail' = [thinjail EXCEPT ![c] = snapshot]
    /\ Goto("seed")
    /\ UNCHANGED <<system, layers, mounted, firstboot, payload, ran>>

\* A mutant: what is done to a new dataset is done to new ones only.
Seed_NewOnly(c) ==
    /\ line = "seed" /\ Head(todo) = jail_cmd(c) /\ HasDataset(c)
    /\ firstboot' = IF ran[c] = Nothing /\ c \notin mounted THEN firstboot \cup {c} ELSE firstboot
    /\ StepOver /\ UNCHANGED <<system, layers, thinjail, mounted, payload, ran>>

Seed(c) ==
    /\ line = "seed" /\ Head(todo) = jail_cmd(c) /\ HasDataset(c)
    /\ firstboot' = firstboot \cup {c}
    /\ StepOver /\ UNCHANGED <<system, layers, thinjail, mounted, payload, ran>>

\* There is nothing to clone, or no /etc to touch firstboot in.
JailCmdFails(c) ==
    /\ \/ At(jail_cmd(c)) /\ snapshot = {} /\ ~\E d \in FoundBy[c] : HasDataset(d)
       \/ line = "seed" /\ Head(todo) = jail_cmd(c) /\ ~HasDataset(c)
    /\ StepOver /\ UNCHANGED <<system, layers, jails>>

jail_zfs_skeleton(c) == DatasetFound(c) \/ CloneSkeleton(c) \/ Seed(c) \/ JailCmdFails(c)
-----------------------------------------------------------------------------
(* The finishing commands and the boot                                       *)

\* A clone of the environment that runs; one of that name is not replaced.
CreateEnvironment ==
    /\ At(bectl_create)
    /\ envs' = envs \cup {version}
    /\ files' = IF version \in envs THEN files ELSE [files EXCEPT ![version] = files[booted]]
    /\ StepOver /\ UNCHANGED <<booted, next, layers, jails>>

ActivateEnvironment ==
    /\ At(bectl_activate)
    /\ next' = IF version \in envs THEN version ELSE next
    /\ StepOver /\ UNCHANGED <<envs, files, booted, layers, jails>>

\* The containers of jail.conf are started if there is something to mount. What
\* rc does at a first boot, frieze_configinit included, it does once, whether
\* /root/cfinit is there or not.
Boot ==
    LET conf == files[next][JailConf]
        starts == IF conf = Nothing THEN {} ELSE {c \in ContainersOf(conf) : HasDataset(c)}
    IN  /\ booted' = next
        /\ mounted' = starts
        /\ firstboot' = firstboot \ starts
        /\ ran' = [c \in Containers |->
                      IF c \in starts \cap firstboot /\ payload[c] # Nothing
                      THEN payload[c] ELSE ran[c]]
        /\ todo' = << >> /\ line' = Idle
        /\ UNCHANGED <<version, back, envs, files, next, layers, thinjail, payload>>

Shutdown ==
    /\ At(shutdown)
    /\ landed' = version
    /\ Boot /\ UNCHANGED trouble

Crash ==
    /\ trouble < MaxTrouble /\ trouble' = trouble + 1
    /\ landed' = Nothing
    /\ Boot

\* A mutant: the script that runs is forgotten and not its step.
ConnectionLost_MidScript ==
    /\ todo # << >>
    /\ trouble < MaxTrouble /\ trouble' = trouble + 1
    /\ todo' = << >>
    /\ UNCHANGED <<line, version, landed, back, system, layers, jails>>

\* configinit ends with the connection it was started from, or had no more of
\* its archive than this.
ConnectionLost ==
    /\ todo # << >>
    /\ trouble < MaxTrouble /\ trouble' = trouble + 1
    /\ todo' = << >> /\ line' = Idle
    /\ UNCHANGED <<version, landed, back, system, layers, jails>>
-----------------------------------------------------------------------------
configinit ==
    \/ \E f \in ConfFiles : WriteFile(f)
    \/ OtherStep
    \/ jail_zfs_setup
    \/ \E c \in Containers : WriteCfinit(c) \/ jail_zfs_skeleton(c)
    \/ CreateEnvironment \/ ActivateEnvironment \/ Shutdown

Next ==
    \/ \E v \in Versions : Push(v)
    \/ configinit
    \/ DownloadFails \/ Crash \/ ConnectionLost

Spec == Init /\ [][Next]_vars

\* A push that was begun is carried on with, and the newest version deployed
\* again and again.
FairSpec == Spec /\ WF_vars(configinit) /\ SF_vars(Push(Newest))
-----------------------------------------------------------------------------
Lines == {Idle, "layer 0", "layer 1", "snapshot release", "layer 2", "clone release",
          "update", "layer 3", "move", "snapshot skeleton", "mark skeleton", "seed"}

TypeOK ==
    /\ version \in 0..Newest /\ landed \in {Nothing, version}
    /\ \A i \in DOMAIN todo : todo[i] \in UNION {ToSet(Archive(v)) : v \in Versions}
    /\ line \in Lines /\ (line # Idle => todo # << >>)
    /\ back \in BOOLEAN /\ trouble \in 0..MaxTrouble
    /\ envs \subseteq 0..Newest /\ booted \in envs /\ next \in envs
    /\ files \in [0..Newest -> [ConfFiles -> 0..Newest]]
    /\ datasets \subseteq Datasets /\ sentinels \subseteq 1..3 /\ released \in BOOLEAN
    /\ base \subseteq AllDirs \cup {VarEmpty} /\ skeleton \subseteq AllDirs
    /\ snapshot \subseteq AllDirs /\ thinjail \in [Containers -> SUBSET AllDirs]
    /\ mounted \subseteq Containers /\ firstboot \subseteq Containers
    /\ payload \in [Containers -> 0..Newest] /\ ran \in [Containers -> 0..Newest]

\* "Mark version as deployed" (_core.py:965): when a push was carried through,
\* whatever was interrupted before and wherever the host crashed, the host was
\* booted with the whole configuration of that version, as long as versions are
\* deployed in the order they were made.
Lands ==
    landed # Nothing /\ ~back =>
        \A f \in FilesOf[landed] : files[booted][f] = landed

\* The files of a container are never replaced under it, and are all there from
\* the start: neither a second run of the scripts nor one that was interrupted
\* clones a part of the skeleton, or clones again.
ThinjailKept ==
    [][\A c \in Containers :
          IF HasDataset(c) THEN thinjail'[c] = thinjail[c] ELSE thinjail'[c] \in {{}, AllDirs}]_vars

\* A push that is carried through reaches the containers that ran all along:
\* they are booted with the configuration of its version.
RunningReached ==
    [][Shutdown => \A c \in mounted \cap ContainersOf(version) \cap mounted' :
                      ran'[c] = version]_vars

\* The two places where the script may not be stopped: it does not get past them
\* again.
Stuck ==
    \/ 1 \in sentinels /\ ~released /\ line # "snapshot release"
    \/ snapshot = {} /\ 2 \in sentinels /\ VarEmpty \notin base
       /\ line \notin {"move", "snapshot skeleton"}

\* Another container has the dataset that is found by the name of this one, which
\* never gets its own.
Shadowed(c) == ~HasDataset(c) /\ \E d \in FoundBy[c] : HasDataset(d)

\* Whatever else is interrupted or fails is made up for by later pushes: in the
\* end the containers of the newest version run with its configuration, but for
\* those whose name is part of one that was there before them.
EndsConfigured ==
    \/ <>back
    \/ <>[]Stuck
    \/ <>[](\A c \in ContainersOf(Newest) :
               Shadowed(c) \/ (c \in mounted /\ ran[c] = Newest))

\* "enable automatic system configuration from cloud user-data when the system
\* first boots", "from firstboot in root if not" on a host
\* (frieze_configinit:10-11, 23): a container that was booted was configured.
FirstBootConfigures == \A c \in mounted : ran[c] # Nothing
=============================================================================
