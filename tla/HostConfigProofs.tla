--------------------------- MODULE HostConfigProofs ---------------------------
(* Theorems about HostConfig, for every number of versions, every host and   *)
(* every number of interruptions: what is cloned for a container is whole    *)
(* and is never replaced; a push that is carried through boots the whole     *)
(* configuration of its version, and reaches the containers that run.        *)
EXTENDS HostConfig, TLAPS

\* BASE and SKELETON share the directories while they are moved, and a snapshot
\* is taken of all of them or not at all. It holds as the script goes on to the
\* snapshot from the last directory only, and as one that was stopped on the way
\* finds no var/empty and does not get to the moves again.
LayersInv ==
    /\ VarEmpty \in base => base = AllDirs \cup {VarEmpty}
    /\ line = "move" => VarEmpty \notin base /\ AllDirs \subseteq base \cup skeleton
    /\ line = "snapshot skeleton" => skeleton = AllDirs
    /\ skeleton \subseteq AllDirs
    /\ base \subseteq AllDirs \cup {VarEmpty}
    /\ snapshot \in {{}, AllDirs}

ThinjailInv ==
    /\ thinjail \in [Containers -> {{}, AllDirs}]

DataInv == LayersInv /\ ThinjailInv

\* The directories that are moved are not the one that is removed, and there are
\* some.
LEMMA DirsFacts == VarEmpty \notin AllDirs /\ AllDirs # {}
BY DEF AllDirs, VarEmpty, Dirs, ToSet

\* The steps of the setup script keep the layers consistent and touch no
\* container.
LEMMA SetupStep ==
    ASSUME DataInv, jail_zfs_setup
    PROVE  LayersInv' /\ UNCHANGED thinjail
<1>. USE DirsFacts
<1>1. ASSUME \/ SetupStarts \/ CreateDataset \/ LayerZeroDone
             \/ LayerDone(1, "layer 1") /\ Goto("layer 2")
             \/ FetchRelease \/ SnapshotRelease
             \/ LayerDone(2, "layer 2") /\ Goto("layer 3")
             \/ UpdateBase
             \/ LayerDone(3, "layer 3") /\ StepOver
             \/ SetupEnds \/ SetupFails
      PROVE  /\ UNCHANGED <<base, skeleton, snapshot, thinjail>>
             /\ line' \notin {"move", "snapshot skeleton"}
  BY <1>1 DEF SetupStarts, CreateDataset, LayerZeroDone, LayerDone, FetchRelease,
     SnapshotRelease, UpdateBase, SetupEnds, SetupFails, Goto, StepOver, Idle,
     system, layers, jails, push
<1>2. CASE DestroyStale
  BY <1>2 DEF DataInv, LayersInv, DestroyStale, Goto, jails
<1>3. CASE CloneRelease
  BY <1>3 DEF DataInv, LayersInv, CloneRelease, Goto, jails
<1>4. CASE RemoveEmpty
  BY <1>4 DEF DataInv, LayersInv, RemoveEmpty, Goto, jails
<1>5. CASE \E d \in AllDirs : MoveDir(d)
  <2>1. PICK d \in AllDirs : MoveDir(d)
    BY <1>5
  <2>2. /\ line = "move" /\ d \in base
        /\ base' = base \ {d} /\ skeleton' = skeleton \cup {d}
        /\ line' = IF base = {d} THEN "snapshot skeleton" ELSE "move"
        /\ UNCHANGED <<snapshot, thinjail>>
    BY <2>1 DEF MoveDir, Goto, jails
  <2>3. base \subseteq AllDirs /\ AllDirs \subseteq base \cup skeleton
    BY <2>2 DEF DataInv, LayersInv
  <2>. QED  BY <2>2, <2>3 DEF DataInv, LayersInv
<1>6. CASE SnapshotSkeleton
  BY <1>6 DEF DataInv, LayersInv, SnapshotSkeleton, Goto, jails
<1>. QED
  BY <1>1, <1>2, <1>3, <1>4, <1>5, <1>6 DEF jail_zfs_setup, DataInv, LayersInv

\* The steps of a container's script leave the layers alone; a dataset is cloned
\* for one that has none.
LEMMA ContainerStep ==
    ASSUME DataInv, NEW c \in Containers, jail_zfs_skeleton(c)
    PROVE  /\ UNCHANGED layers
           /\ line' \notin {"move", "snapshot skeleton"}
           /\ \/ UNCHANGED thinjail
              \/ /\ ~HasDataset(c)
                 /\ thinjail' = [thinjail EXCEPT ![c] = AllDirs]
<1>1. CASE CloneSkeleton(c)
  <2>1. ~HasDataset(c)
    BY <1>1, NamesAssumption DEF CloneSkeleton
  <2>2. snapshot = AllDirs
    BY <1>1 DEF CloneSkeleton, DataInv, LayersInv
  <2>. QED  BY <1>1, <2>1, <2>2 DEF CloneSkeleton, Goto
<1>2. CASE DatasetFound(c) \/ Seed(c) \/ JailCmdFails(c)
  BY <1>2 DEF DatasetFound, Seed, JailCmdFails, Goto, StepOver, Idle, jails
<1>. QED  BY <1>1, <1>2 DEF jail_zfs_skeleton

\* Every other step does neither, and leaves the script where it is or ends it.
LEMMA OtherSteps ==
    ASSUME \/ \E v \in Versions : Push(v)
           \/ \E f \in ConfFiles : WriteFile(f)
           \/ \E c \in Containers : WriteCfinit(c)
           \/ OtherStep \/ CreateEnvironment \/ ActivateEnvironment
           \/ Shutdown \/ DownloadFails \/ Crash \/ ConnectionLost
           \/ UNCHANGED vars
    PROVE  UNCHANGED <<layers, thinjail>> /\ line' \in {line, Idle}
<1>1. CASE \/ \E v \in Versions : Push(v)
           \/ \E f \in ConfFiles : WriteFile(f)
           \/ \E c \in Containers : WriteCfinit(c)
           \/ OtherStep \/ CreateEnvironment \/ ActivateEnvironment
           \/ DownloadFails \/ ConnectionLost \/ UNCHANGED vars
  BY <1>1 DEF Push, WriteFile, WriteCfinit, OtherStep, CreateEnvironment,
     ActivateEnvironment, DownloadFails, ConnectionLost, StepOver, vars, push, system, jails
<1>2. CASE Shutdown \/ Crash
  BY <1>2 DEF Shutdown, Crash, Boot
<1>. QED  BY <1>1, <1>2

LEMMA InitDataInv == Init => DataInv
<1>. SUFFICES ASSUME Init  PROVE DataInv
  OBVIOUS
<1>1. base = {} /\ skeleton = {} /\ snapshot = {} /\ line = Idle
  BY DEF Init
<1>2. thinjail \in [Containers -> {{}, AllDirs}]
  BY DEF Init
<1>. QED  BY <1>1, <1>2 DEF DataInv, LayersInv, ThinjailInv, Idle

\* The invariant is kept, and what it says of the containers is kept by steps.
LEMMA NextDataInv ==
    ASSUME DataInv, [Next]_vars
    PROVE  /\ DataInv'
           /\ \A c \in Containers :
                 IF HasDataset(c) THEN thinjail'[c] = thinjail[c]
                                  ELSE thinjail'[c] \in {{}, AllDirs}
<1>0. thinjail \in [Containers -> {{}, AllDirs}]
  BY DEF DataInv, ThinjailInv
<1>1. CASE jail_zfs_setup
  BY <1>0, <1>1, SetupStep DEF DataInv, ThinjailInv, HasDataset
<1>2. ASSUME NEW c \in Containers, jail_zfs_skeleton(c)
      PROVE  /\ DataInv'
             /\ \A x \in Containers :
                   IF HasDataset(x) THEN thinjail'[x] = thinjail[x]
                                    ELSE thinjail'[x] \in {{}, AllDirs}
  <2>1. LayersInv'
    BY <1>2, ContainerStep DEF DataInv, LayersInv, layers
  <2>2. CASE UNCHANGED thinjail
    BY <1>0, <2>1, <2>2 DEF DataInv, ThinjailInv, HasDataset
  <2>3. CASE ~HasDataset(c) /\ thinjail' = [thinjail EXCEPT ![c] = AllDirs]
    <3>1. thinjail' \in [Containers -> {{}, AllDirs}]
      BY <1>0, <2>3
    <3>. QED  BY <1>0, <2>1, <2>3, <3>1 DEF DataInv, ThinjailInv, HasDataset
  <2>. QED  BY <1>2, <2>2, <2>3, ContainerStep
<1>3. CASE \/ \E v \in Versions : Push(v)
           \/ \E f \in ConfFiles : WriteFile(f)
           \/ \E c \in Containers : WriteCfinit(c)
           \/ OtherStep \/ CreateEnvironment \/ ActivateEnvironment
           \/ Shutdown \/ DownloadFails \/ Crash \/ ConnectionLost
           \/ UNCHANGED vars
  <2>1. UNCHANGED <<layers, thinjail>> /\ line' \in {line, Idle}
    BY <1>3, OtherSteps
  <2>2. LayersInv'
    BY <2>1 DEF DataInv, LayersInv, layers, Idle
  <2>. QED  BY <1>0, <2>1, <2>2 DEF DataInv, ThinjailInv, HasDataset
<1>. QED  BY <1>1, <1>2, <1>3 DEF Next, configinit

\* The files of a container are never replaced under it, and are all there from
\* the start, whatever scripts were interrupted and run again
\* (jail-zfs-setup.sh, jail-zfs-skeleton:8-11).
THEOREM ThinjailIsKept == Spec => ThinjailKept
<1>1. Init => DataInv
  BY InitDataInv
<1>2. DataInv /\ [Next]_vars => DataInv'
  BY NextDataInv
<1>3. DataInv /\ [Next]_vars =>
          [\A c \in Containers :
              IF HasDataset(c) THEN thinjail'[c] = thinjail[c]
                               ELSE thinjail'[c] \in {{}, AllDirs}]_vars
  BY NextDataInv
<1>. QED  BY <1>1, <1>2, <1>3, PTL DEF Spec, ThinjailKept
-----------------------------------------------------------------------------
(* Pushes                                                                    *)

\* A step that is still to be applied.
Left(step) == \E j \in 1..Len(todo) : todo[j] = step

Full(e, v) == \A f \in FilesOf[v] : files[e][f] = v

\* todo is the end of the archive of the version.
RestOfArchive ==
    LET a == Archive(version)
    IN  /\ version \in Versions
        /\ todo \in Seq(ToSet(a)) /\ Len(todo) <= Len(a)
        /\ \A j \in 1..Len(todo) : todo[j] = a[Len(a) - Len(todo) + j]
        /\ line \notin {Idle, "seed"} => Head(todo) = Interpreter

Types ==
    /\ version \in 0..Newest /\ landed \in {Nothing, version}
    /\ back \in BOOLEAN /\ envs \subseteq 0..Newest /\ Original \in envs
    /\ booted \in envs /\ next \in envs
    /\ files \in [0..Newest -> [ConfFiles -> 0..Newest]]
    /\ payload \in [Containers -> 0..Newest] /\ ran \in [Containers -> 0..Newest]
    /\ mounted \subseteq Containers /\ firstboot \subseteq Containers
    /\ \A c \in mounted : HasDataset(c)

\* What the steps that are done have left behind.
InPush ==
    /\ RestOfArchive /\ landed = Nothing
    /\ \A f \in FilesOf[version] : ~Left(f) => files[booted][f] = version
    /\ \A c \in mounted \cap ContainersOf(version) :
          /\ ~Left(cfinit(c)) => payload[c] = version
          /\ ~Left(jail_cmd(c)) => c \in firstboot
    /\ ~Left(bectl_create) => version \in envs
    /\ ~Left(bectl_activate) => next = version

\* No environment is of a version newer than the last, and the one of the last
\* is whole: it was cloned when all of it was written, and only the same version
\* writes to it after that.
Environments ==
    ~back => /\ \A e \in envs : e <= version
             /\ version \in envs /\ version # Nothing => Full(version, version)

PushInv ==
    /\ Types
    /\ IF todo = << >> THEN line = Idle ELSE InPush
    /\ Environments
    /\ Lands

LEMMA ConstantFacts ==
    /\ \A v \in Versions : v \in 0..Newest /\ v # Nothing /\ FilesOf[v] \subseteq ConfFiles
    /\ \A v \in Versions : ContainersOf(v) \subseteq Containers
    /\ \A f \in ConfFiles, c \in Containers :
          /\ f # jail_cmd(c) /\ f # cfinit(c) /\ f # Interpreter
    /\ \A c, d : /\ jail_cmd(c) # cfinit(d) /\ jail_cmd(c) # Interpreter
                 /\ cfinit(c) # Interpreter
                 /\ jail_cmd(c) = jail_cmd(d) => c = d
                 /\ cfinit(c) = cfinit(d) => c = d
    /\ Newest \in Nat
<1>1. \A v \in Versions : v \in 0..Newest /\ v # Nothing /\ FilesOf[v] \subseteq ConfFiles
  BY VersionsAssumption DEF Versions, Nothing, ConfFiles
<1>2. \A v \in Versions : ContainersOf(v) \subseteq Containers
  BY DEF Containers
<1>3. \A f \in ConfFiles, c \in Containers :
         f # jail_cmd(c) /\ f # cfinit(c) /\ f # Interpreter
  <2>1. \A c : JailConf # jail_cmd(c) /\ JailConf # cfinit(c) /\ JailConf # Interpreter
    BY DEF JailConf, jail_cmd, cfinit, Interpreter, OfHost
  <2>. QED  BY <2>1 DEF ConfFiles, FilesOf
<1>4. \A c, d : /\ jail_cmd(c) # cfinit(d) /\ jail_cmd(c) # Interpreter
                /\ cfinit(c) # Interpreter
                /\ jail_cmd(c) = jail_cmd(d) => c = d
                /\ cfinit(c) = cfinit(d) => c = d
  BY DEF jail_cmd, cfinit, Interpreter, OfHost
<1>. QED  BY <1>1, <1>2, <1>3, <1>4, VersionsAssumption

\* What a step takes off the rest of the archive is its head.
LEMMA StepTaken ==
    ASSUME RestOfArchive, todo # << >>, UNCHANGED version,
           todo' = Tail(todo), line' = Idle
    PROVE  /\ RestOfArchive'
           /\ \A step : Left(step) /\ step # Head(todo) => Left(step)'
<1>. DEFINE a == Archive(version)
<1>1. /\ todo \in Seq(ToSet(a)) /\ Len(todo) \in Nat /\ Len(todo) > 0
      /\ Len(a) \in Nat
  <2>1. version \in Versions
    BY DEF RestOfArchive
  <2>2. a \in Seq(ToSet(a))
    BY <2>1, ArchivesAssumption DEF FinishesLast
  <2>. HIDE DEF a
  <2>3. todo \in Seq(ToSet(a))
    BY DEF RestOfArchive, a
  <2>. QED  BY <2>2, <2>3
<1>2. a' = a
  BY DEF Archive
<1>. HIDE DEF a
<1>3. /\ Len(todo') = Len(todo) - 1 /\ todo' \in Seq(ToSet(a))
      /\ \A j \in 1..Len(todo') : todo'[j] = todo[j + 1]
  BY <1>1
<1>4. \A j \in 1..Len(todo) : todo[j] = a[Len(a) - Len(todo) + j]
  BY DEF RestOfArchive, a
<1>5. \A j \in 1..Len(todo') : todo'[j] = a[Len(a) - Len(todo') + j]
  <2>. SUFFICES ASSUME NEW j \in 1..Len(todo')  PROVE todo'[j] = a[Len(a) - Len(todo') + j]
    OBVIOUS
  <2>1. j + 1 \in 1..Len(todo) /\ Len(a) - Len(todo) + (j + 1) = Len(a) - Len(todo') + j
    BY <1>1, <1>3
  <2>2. todo'[j] = todo[j + 1]
    BY <1>3
  <2>3. todo[j + 1] = a[Len(a) - Len(todo) + (j + 1)]
    BY <1>4, <2>1
  <2>. QED  BY <2>1, <2>2, <2>3
<1>6. RestOfArchive'
  <2>1. Len(todo) <= Len(a) /\ version \in Versions
    BY DEF RestOfArchive, a
  <2>2. Len(todo') <= Len(a)
    BY <1>1, <1>3, <2>1
  <2>. QED  BY <1>2, <1>3, <1>5, <2>1, <2>2 DEF RestOfArchive, a
<1>7. \A step : Left(step) /\ step # Head(todo) => Left(step)'
  <2>. SUFFICES ASSUME NEW step, Left(step), step # Head(todo)  PROVE Left(step)'
    OBVIOUS
  <2>1. PICK j \in 1..Len(todo) : todo[j] = step
    BY DEF Left
  <2>2. j # 1
    BY <1>1, <2>1
  <2>3. j - 1 \in 1..Len(todo') /\ todo'[j - 1] = step
    BY <1>1, <1>3, <2>1, <2>2
  <2>. QED  BY <2>3 DEF Left
<1>. QED  BY <1>6, <1>7

\* The finishing commands are the last three, in their order.
LEMMA LastSteps ==
    ASSUME RestOfArchive, todo # << >>
    PROVE  LET last == {bectl_create, bectl_activate, shutdown}
           IN  /\ Head(todo) \in last =>
                    /\ \A f \in FilesOf[version] : ~Left(f)
                    /\ \A c \in ContainersOf(version) : ~Left(jail_cmd(c)) /\ ~Left(cfinit(c))
               /\ Head(todo) \in {bectl_activate, shutdown} => ~Left(bectl_create)
               /\ Head(todo) = shutdown => ~Left(bectl_activate)
<1>. DEFINE a == Archive(version)
            n == Len(a)
            k == Len(todo)
            last == {bectl_create, bectl_activate, shutdown}
            body == {a[i] : i \in 1..(n - 3)}
<1>1. version \in Versions /\ todo \in Seq(ToSet(a)) /\ k <= n
      /\ \A j \in 1..k : todo[j] = a[n - k + j]
  BY DEF RestOfArchive
<1>2. /\ a \in Seq(ToSet(a)) /\ n >= 3
      /\ a[n - 2] = bectl_create /\ a[n - 1] = bectl_activate /\ a[n] = shutdown
      /\ body \cap last = {}
      /\ FilesOf[version] \subseteq body
      /\ \A c \in ContainersOf(version) : {jail_cmd(c), cfinit(c)} \subseteq body
  BY <1>1, ArchivesAssumption DEF FinishesLast
<1>3. n \in Nat /\ k \in Nat /\ k > 0 /\ Head(todo) = a[n - k + 1]
  <2>. HIDE DEF a
  <2>1. n \in Nat /\ k \in Nat /\ k > 0 /\ Head(todo) = todo[1]
    BY <1>1, <1>2
  <2>. QED  BY <1>1, <2>1
<1>4. /\ bectl_create # bectl_activate /\ bectl_create # shutdown
      /\ bectl_activate # shutdown
  BY DEF bectl_create, bectl_activate, shutdown
<1>. HIDE DEF a
<1>5. \A i \in 1..(n - 3) : a[i] \notin last
  BY <1>2
<1>6. Head(todo) \in last => k <= 3
  BY <1>1, <1>3, <1>5
<1>7. Head(todo) \in last => \A j \in 1..k : todo[j] \in last
  <2>. SUFFICES ASSUME k <= 3, NEW j \in 1..k  PROVE todo[j] \in last
    BY <1>6
  <2>1. n - k + j \in {n - 2, n - 1, n}
    BY <1>1, <1>3
  <2>. QED  BY <1>1, <1>2, <2>1
<1>8. Head(todo) \in {bectl_activate, shutdown} => k <= 2
  <2>1. k = 3 => Head(todo) = bectl_create
    <3>1. ASSUME k = 3  PROVE n - k + 1 = n - 2
      BY <1>3, <3>1
    <3>. QED  BY <1>2, <1>3, <3>1
  <2>2. Head(todo) \in {bectl_activate, shutdown} => k <= 3 /\ Head(todo) # bectl_create
    BY <1>4, <1>6
  <2>. HIDE DEF k
  <2>. QED  BY <1>3, <2>1, <2>2
<1>9. Head(todo) = shutdown => k <= 1
  <2>1. k = 2 => Head(todo) = bectl_activate
    <3>1. ASSUME k = 2  PROVE n - k + 1 = n - 1
      BY <1>3, <3>1
    <3>. QED  BY <1>2, <1>3, <3>1
  <2>2. Head(todo) = shutdown => k <= 2 /\ Head(todo) # bectl_activate
    BY <1>4, <1>8
  <2>. HIDE DEF k
  <2>. QED  BY <1>3, <2>1, <2>2
<1>10. ASSUME k <= 2  PROVE ~Left(bectl_create)
  <2>. SUFFICES ASSUME NEW j \in 1..k  PROVE todo[j] # bectl_create
    BY DEF Left
  <2>1. n - k + j \in {n - 1, n}
    BY <1>1, <1>3, <1>10
  <2>. QED  BY <1>1, <1>2, <1>4, <2>1
<1>11. ASSUME k <= 1  PROVE ~Left(bectl_activate)
  <2>. SUFFICES ASSUME NEW j \in 1..k  PROVE todo[j] # bectl_activate
    BY DEF Left
  <2>1. n - k + j = n
    BY <1>1, <1>3, <1>11
  <2>. QED  BY <1>1, <1>2, <1>4, <2>1
<1>12. ASSUME Head(todo) \in last, NEW step \in body  PROVE ~Left(step)
  BY <1>2, <1>7, <1>12 DEF Left
<1>. QED  BY <1>2, <1>8, <1>9, <1>10, <1>11, <1>12

\* No file is one of the finishing commands.
LEMMA FilesAreNoCommands ==
    ConfFiles \cap {bectl_create, bectl_activate, shutdown} = {}
<1>0. JailConf \notin {bectl_create, bectl_activate, shutdown}
  BY DEF JailConf, OfHost, bectl_create, bectl_activate, shutdown
<1>. SUFFICES ASSUME NEW v \in Versions, NEW f \in FilesOf[v]
              PROVE  f \notin {bectl_create, bectl_activate, shutdown}
  BY <1>0 DEF ConfFiles
<1>. DEFINE body == {Archive(v)[i] : i \in 1..(Len(Archive(v)) - 3)}
<1>1. body \cap {bectl_create, bectl_activate, shutdown} = {} /\ FilesOf[v] \subseteq body
  BY ArchivesAssumption DEF FinishesLast
<1>. QED  BY <1>1

\* A step that is taken off the archive keeps what the steps before it left
\* behind, and leaves behind what it is there for.
LEMMA StepKeepsPush ==
    ASSUME InPush, todo # << >>, UNCHANGED <<version, landed, booted, mounted>>,
           todo' = Tail(todo), line' = Idle,
           \A f \in FilesOf[version] :
              files[booted][f] = version \/ f = Head(todo) => files'[booted][f] = version,
           \A c \in mounted \cap ContainersOf(version) :
              /\ payload[c] = version \/ cfinit(c) = Head(todo) => payload'[c] = version
              /\ c \in firstboot \/ jail_cmd(c) = Head(todo) => c \in firstboot',
           version \in envs \/ bectl_create = Head(todo) => version \in envs',
           next = version \/ bectl_activate = Head(todo) => next' = version
    PROVE  InPush'
<1>1. RestOfArchive' /\ \A step : Left(step) /\ step # Head(todo) => Left(step)'
  BY StepTaken DEF InPush
<1>2. landed' = Nothing
  BY DEF InPush
<1>3. \A f \in FilesOf[version] : ~Left(f)' => files'[booted][f] = version
  BY <1>1 DEF InPush
<1>4. \A c \in mounted \cap ContainersOf(version) :
         /\ ~Left(cfinit(c))' => payload'[c] = version
         /\ ~Left(jail_cmd(c))' => c \in firstboot'
  BY <1>1 DEF InPush
<1>5. ~Left(bectl_create)' => version \in envs'
  BY <1>1 DEF InPush
<1>6. ~Left(bectl_activate)' => next' = version
  BY <1>1 DEF InPush
<1>. QED  BY <1>1, <1>2, <1>3, <1>4, <1>5, <1>6 DEF InPush, ContainersOf, Left

\* So does a step of a script that goes on.
LEMMA GotoKeepsPush ==
    ASSUME InPush, todo # << >>,
           UNCHANGED <<version, todo, landed, files, booted, next, envs, payload,
                       mounted, firstboot>>,
           line' = "seed" \/ line' = line \/ Head(todo) = Interpreter
    PROVE  InPush'
<1>1. RestOfArchive'
  BY DEF InPush, RestOfArchive, Archive, Idle
<1>. QED  BY <1>1 DEF InPush, Left, ContainersOf

\* A step of a script that leaves the environments alone: it goes on, or it is
\* over and leaves behind what it is there for.
LEMMA ScriptStep ==
    ASSUME PushInv, todo # << >>,
           UNCHANGED <<version, landed, back, system, mounted, payload, ran>>,
           firstboot \subseteq firstboot', firstboot' \subseteq Containers,
           \A c \in mounted : HasDataset(c)',
           \/ /\ todo' = todo
              /\ line' = "seed" \/ line' = line \/ Head(todo) = Interpreter
              /\ firstboot' = firstboot
           \/ /\ todo' = Tail(todo) /\ line' = Idle
              /\ Head(todo) \notin ConfFiles
              /\ Head(todo) \notin {bectl_create, bectl_activate}
              /\ \A c \in Containers : cfinit(c) # Head(todo)
              /\ \A c \in mounted : jail_cmd(c) = Head(todo) => c \in firstboot'
    PROVE  PushInv'
<1>. USE ConstantFacts
<1>1. InPush /\ Types
  BY DEF PushInv
<1>2. version \in Versions
  BY <1>1 DEF InPush, RestOfArchive
<1>3. UNCHANGED <<envs, files, booted, next>>
  BY DEF system
<1>4. InPush'
  <2>1. CASE /\ todo' = todo
             /\ line' = "seed" \/ line' = line \/ Head(todo) = Interpreter
             /\ firstboot' = firstboot
    BY <1>1, <1>3, <2>1, GotoKeepsPush
  <2>2. CASE /\ todo' = Tail(todo) /\ line' = Idle
             /\ Head(todo) \notin ConfFiles
             /\ Head(todo) \notin {bectl_create, bectl_activate}
             /\ \A c \in Containers : cfinit(c) # Head(todo)
             /\ \A c \in mounted : jail_cmd(c) = Head(todo) => c \in firstboot'
    <3>1. \A f \in FilesOf[version] : f # Head(todo)
      BY <1>2, <2>2
    <3>2. \A c \in mounted \cap ContainersOf(version) :
             /\ cfinit(c) # Head(todo)
             /\ c \in firstboot \/ jail_cmd(c) = Head(todo) => c \in firstboot'
      BY <1>2, <2>2
    <3>3. bectl_create # Head(todo) /\ bectl_activate # Head(todo)
      BY <2>2
    <3>. QED  BY <1>1, <1>3, <2>2, <3>1, <3>2, <3>3, StepKeepsPush
  <2>. QED  BY <2>1, <2>2
<1>5. Types'
  BY <1>1, <1>3 DEF Types
<1>6. Environments' /\ Lands'
  BY <1>3 DEF PushInv, Environments, Lands, Full
<1>7. todo' # << >> \/ line' = Idle
  OBVIOUS
<1>8. CASE todo' = << >>
  <2>1. line' = Idle
    BY <1>8
  <2>. QED  BY <1>5, <1>6, <1>8, <2>1 DEF PushInv
<1>9. CASE todo' # << >>
  BY <1>4, <1>5, <1>6, <1>9 DEF PushInv
<1>. QED  BY <1>8, <1>9

LEMMA SetupKeepsPush ==
    ASSUME PushInv, jail_zfs_setup \/ DownloadFails
    PROVE  PushInv'
<1>1. todo # << >> /\ Head(todo) = Interpreter
  <2>1. line \notin {Idle, "seed"} \/ At(Interpreter)
    BY DEF jail_zfs_setup, SetupStarts, CreateDataset, LayerZeroDone, LayerDone,
       FetchRelease, SnapshotRelease, DestroyStale, CloneRelease, UpdateBase,
       RemoveEmpty, MoveDir, SnapshotSkeleton, SetupEnds, SetupFails, DownloadFails, Idle
  <2>2. CASE line \notin {Idle, "seed"}
    BY <2>2 DEF PushInv, InPush, RestOfArchive
  <2>. QED  BY <2>1, <2>2 DEF At
<1>2. /\ UNCHANGED <<version, landed, back, system, mounted, payload, ran, firstboot, thinjail>>
      /\ todo' = todo \/ (todo' = Tail(todo) /\ line' = Idle)
  <2>1. CASE SetupStarts
    BY <2>1 DEF SetupStarts, Goto, jails
  <2>2. CASE CreateDataset
    BY <2>2 DEF CreateDataset, push, jails
  <2>3. CASE LayerZeroDone
    BY <2>3 DEF LayerZeroDone, Goto, jails
  <2>4. CASE LayerDone(1, "layer 1") /\ Goto("layer 2")
    BY <2>4 DEF LayerDone, Goto, jails
  <2>5. CASE FetchRelease \/ SnapshotRelease
    BY <2>5 DEF FetchRelease, SnapshotRelease, Goto, jails
  <2>6. CASE LayerDone(2, "layer 2") /\ Goto("layer 3")
    BY <2>6 DEF LayerDone, Goto, jails
  <2>7. CASE DestroyStale \/ CloneRelease \/ UpdateBase
    BY <2>7 DEF DestroyStale, CloneRelease, UpdateBase, Goto, jails
  <2>8. CASE LayerDone(3, "layer 3") /\ StepOver
    BY <2>8 DEF LayerDone, StepOver, jails
  <2>9. CASE RemoveEmpty \/ SnapshotSkeleton
    BY <2>9 DEF RemoveEmpty, SnapshotSkeleton, Goto, jails
  <2>10. CASE \E d \in AllDirs : MoveDir(d)
    BY <2>10 DEF MoveDir, Goto, jails
  <2>11. CASE SetupEnds \/ SetupFails
    BY <2>11 DEF SetupEnds, SetupFails, StepOver, jails
  <2>12. CASE DownloadFails
    BY <2>12 DEF DownloadFails, jails
  <2>. QED
    BY <2>1, <2>2, <2>3, <2>4, <2>5, <2>6, <2>7, <2>8, <2>9, <2>10, <2>11, <2>12 DEF jail_zfs_setup
<1>3. /\ Interpreter \notin ConfFiles \cup {bectl_create, bectl_activate}
      /\ \A c : cfinit(c) # Interpreter /\ jail_cmd(c) # Interpreter
  <2>1. Interpreter \notin {JailConf, bectl_create, bectl_activate}
    BY DEF Interpreter, JailConf, OfHost, bectl_create, bectl_activate
  <2>2. \A v \in Versions : Interpreter \notin FilesOf[v]
    BY DEF FilesOf
  <2>3. \A c : cfinit(c) # Interpreter /\ jail_cmd(c) # Interpreter
    BY DEF cfinit, jail_cmd, Interpreter, OfHost
  <2>. QED  BY <2>1, <2>2, <2>3 DEF ConfFiles
<1>4. firstboot \subseteq Containers /\ \A c \in mounted : HasDataset(c)'
  BY <1>2 DEF PushInv, Types, HasDataset
<1>. QED  BY <1>1, <1>2, <1>3, <1>4, ScriptStep

LEMMA ContainerKeepsPush ==
    ASSUME PushInv, DataInv, NEW c \in Containers, jail_zfs_skeleton(c)
    PROVE  PushInv'
<1>. USE ConstantFacts
<1>0. Types /\ thinjail \in [Containers -> {{}, AllDirs}]
  BY DEF PushInv, DataInv, ThinjailInv
<1>1. todo # << >> /\ Head(todo) = jail_cmd(c)
  <2>1. CASE line = "seed" /\ Head(todo) = jail_cmd(c)
    BY <2>1 DEF PushInv, Idle
  <2>2. CASE At(jail_cmd(c))
    BY <2>2 DEF At
  <2>. QED  BY <2>1, <2>2 DEF jail_zfs_skeleton, DatasetFound, CloneSkeleton, Seed, JailCmdFails
<1>2. \A x \in mounted : HasDataset(x)'
  <2>1. \A x \in mounted : HasDataset(x) /\ x \in Containers
    BY <1>0 DEF Types
  <2>. QED  BY <1>0, <2>1, ContainerStep, DirsFacts DEF HasDataset
<1>3. CASE DatasetFound(c) \/ CloneSkeleton(c)
  <2>1. /\ UNCHANGED <<version, landed, back, system, mounted, payload, ran, firstboot>>
        /\ todo' = todo /\ line' = "seed"
    BY <1>3 DEF DatasetFound, CloneSkeleton, Goto, jails
  <2>. QED  BY <1>0, <1>1, <1>2, <2>1, ScriptStep DEF Types
<1>4. CASE Seed(c) \/ JailCmdFails(c)
  <2>1. /\ UNCHANGED <<version, landed, back, system, mounted, payload, ran>>
        /\ todo' = Tail(todo) /\ line' = Idle
        /\ firstboot' \in {firstboot, firstboot \cup {c}}
    BY <1>4 DEF Seed, JailCmdFails, StepOver, jails
  <2>2. c \in mounted => c \in firstboot'
    <3>1. CASE Seed(c)
      BY <3>1 DEF Seed
    <3>2. CASE JailCmdFails(c)
      <4>1. ~HasDataset(c)
        BY <3>2, NamesAssumption DEF JailCmdFails
      <4>. QED  BY <1>0, <4>1 DEF Types
    <3>. QED  BY <1>4, <3>1, <3>2
  <2>3. /\ jail_cmd(c) \notin ConfFiles \cup {bectl_create, bectl_activate}
        /\ \A x \in Containers : cfinit(x) # jail_cmd(c)
    <3>1. jail_cmd(c) \notin {bectl_create, bectl_activate}
      BY DEF jail_cmd, bectl_create, bectl_activate
    <3>. QED  BY <3>1
  <2>4. \A x \in mounted : jail_cmd(x) = Head(todo) => x \in firstboot'
    BY <1>1, <2>2
  <2>5. firstboot \subseteq firstboot' /\ firstboot' \subseteq Containers
    BY <1>0, <2>1 DEF Types
  <2>. QED  BY <1>1, <1>2, <2>1, <2>3, <2>4, <2>5, ScriptStep
<1>. QED  BY <1>3, <1>4 DEF jail_zfs_skeleton

\* A push starts with all of the archive left.
LEMMA PushKeepsPush ==
    ASSUME PushInv, NEW v \in Versions, Push(v)
    PROVE  PushInv'
<1>. USE ConstantFacts
<1>1. /\ todo = << >> /\ line = Idle /\ line' = Idle
      /\ version' = v /\ todo' = Archive(v) /\ landed' = Nothing
      /\ back' = (back \/ v < version)
      /\ UNCHANGED <<system, layers, jails>>
  BY DEF Push, PushInv
<1>2. Types
  BY DEF PushInv
<1>3. UNCHANGED <<envs, files, booted, next, payload, ran, mounted, firstboot, thinjail>>
  BY <1>1 DEF system, jails
<1>4. Types'
  BY <1>1, <1>2, <1>3 DEF Types, HasDataset
<1>. DEFINE a == Archive(v)
            n == Len(a)
            body == {a[i] : i \in 1..(n - 3)}
<1>5. /\ a \in Seq(ToSet(a)) /\ n >= 3
      /\ a[n - 2] = bectl_create /\ a[n - 1] = bectl_activate
      /\ FilesOf[v] \subseteq body
      /\ \A c \in ContainersOf(v) : {jail_cmd(c), cfinit(c)} \subseteq body
  BY ArchivesAssumption DEF FinishesLast
<1>6. todo' = a
  BY <1>1
<1>7. Archive(version') = a
  BY <1>1
<1>. HIDE DEF a
<1>8. n \in Nat
  BY <1>5
<1>9. \A i \in 1..n : Left(a[i])'
  <2>. SUFFICES ASSUME NEW i \in 1..n  PROVE \E j \in 1..Len(todo') : todo'[j] = a[i]
    BY DEF Left
  <2>. QED  BY <1>6
<1>10. /\ Left(bectl_create)' /\ Left(bectl_activate)'
       /\ \A step \in body : Left(step)'
  <2>1. n - 2 \in 1..n /\ n - 1 \in 1..n /\ \A i \in 1..(n - 3) : i \in 1..n
    BY <1>5, <1>8
  <2>2. Left(a[n - 2])' /\ Left(a[n - 1])' /\ \A i \in 1..(n - 3) : Left(a[i])'
    BY <1>9, <2>1
  <2>. QED  BY <1>5, <2>2
<1>11. RestOfArchive'
  <2>1. Archive(version)' = a
    BY <1>7 DEF Archive
  <2>2. \A j \in 1..n : a[j] = a[n - n + j]
    BY <1>8
  <2>. QED  BY <1>1, <1>5, <1>6, <1>8, <2>1, <2>2 DEF RestOfArchive
<1>12. InPush'
  <2>1. \A f \in FilesOf[version'] : Left(f)'
    BY <1>1, <1>5, <1>10
  <2>2. \A c \in ContainersOf(version') : Left(cfinit(c))' /\ Left(jail_cmd(c))'
    BY <1>1, <1>5, <1>10
  <2>. QED  BY <1>1, <1>10, <1>11, <2>1, <2>2 DEF InPush, ContainersOf, Left
<1>13. Environments'
  <2>. SUFFICES ASSUME ~back'
                PROVE  /\ \A e \in envs : e <= v
                       /\ v \in envs => Full(v, v)'
    BY <1>1, <1>3 DEF Environments
  <2>0. ~(back \/ v < version)
    BY <1>1
  <2>1. ~back /\ v >= version
    <3>1. v \in 0..Newest /\ version \in 0..Newest /\ Newest \in Nat
      BY <1>2 DEF Types
    <3>. QED  BY <2>0, <3>1
  <2>2. \A e \in envs : e <= version /\ e \in 0..Newest
    BY <1>2, <2>1 DEF PushInv, Environments, Types
  <2>3. \A e \in envs : e <= v
    BY <1>2, <2>1, <2>2 DEF Types, Versions
  <2>4. ASSUME v \in envs  PROVE Full(v, v)'
    <3>1. v = version
      BY <1>2, <2>1, <2>2, <2>4 DEF Types, Versions
    <3>. QED  BY <1>3, <2>1, <2>4, <3>1 DEF PushInv, Environments, Full
  <2>. QED  BY <2>3, <2>4
<1>14. Lands'
  BY <1>1 DEF Lands
<1>15. todo' # << >>
  BY <1>5, <1>6, <1>8
<1>. QED  BY <1>4, <1>12, <1>13, <1>14, <1>15 DEF PushInv

\* Files, and the configurations of containers, are of the version that is pushed.
LEMMA WritesKeepPush ==
    ASSUME PushInv,
           \/ \E f \in ConfFiles : WriteFile(f)
           \/ \E c \in Containers : WriteCfinit(c)
           \/ OtherStep
    PROVE  PushInv'
<1>. USE ConstantFacts
<1>1. todo # << >> /\ InPush /\ Types /\ version \in Versions
  <2>1. todo # << >>
    BY DEF WriteFile, WriteCfinit, OtherStep, At
  <2>. QED  BY <2>1 DEF PushInv, InPush, RestOfArchive
<1>2. /\ UNCHANGED <<version, landed, back, booted, next, envs, mounted, firstboot, ran, thinjail>>
      /\ todo' = Tail(todo) /\ line' = Idle
  BY DEF WriteFile, WriteCfinit, OtherStep, StepOver, system, jails
<1>3. ASSUME InPush', Types', UNCHANGED files  PROVE PushInv'
  <2>1. Environments' /\ Lands'
    BY <1>2, <1>3 DEF PushInv, Environments, Lands, Full
  <2>2. todo' = << >> => line' = Idle
    BY <1>2
  <2>. QED  BY <1>3, <2>1, <2>2 DEF PushInv
<1>4. ASSUME NEW f \in ConfFiles, WriteFile(f)  PROVE PushInv'
  <2>1. /\ Head(todo) = f /\ files' = [files EXCEPT ![booted][f] = version]
        /\ payload' = payload
    BY <1>4 DEF WriteFile, At, jails
  <2>2. /\ files \in [0..Newest -> [ConfFiles -> 0..Newest]] /\ booted \in 0..Newest
        /\ version \in 0..Newest
    BY <1>1 DEF Types
  <2>3. /\ files' \in [0..Newest -> [ConfFiles -> 0..Newest]]
        /\ files'[booted][f] = version
        /\ \A e \in 0..Newest, g \in ConfFiles :
              files'[e][g] \in {files[e][g], version}
    BY <2>1, <2>2
  <2>4. InPush'
    <3>1. \A g \in FilesOf[version] :
             files[booted][g] = version \/ g = Head(todo) => files'[booted][g] = version
      BY <1>1, <2>1, <2>2, <2>3
    <3>2. \A c \in Containers : cfinit(c) # Head(todo) /\ jail_cmd(c) # Head(todo)
      BY <2>1
    <3>3. bectl_create # Head(todo) /\ bectl_activate # Head(todo)
      BY <2>1, FilesAreNoCommands
    <3>4. mounted \cap ContainersOf(version) \subseteq Containers
      BY <1>1
    <3>. QED  BY <1>1, <1>2, <2>1, <3>1, <3>2, <3>3, <3>4, StepKeepsPush
  <2>5. Types'
    BY <1>1, <1>2, <2>1, <2>3 DEF Types, HasDataset
  <2>6. Environments'
    <3>. SUFFICES ASSUME ~back, version \in envs, NEW g \in FilesOf[version]
                  PROVE  files'[version][g] = version
      BY <1>2 DEF PushInv, Environments, Full
    <3>1. files[version][g] = version
      BY <1>1 DEF PushInv, Environments, Full
    <3>. QED  BY <1>1, <2>2, <2>3, <3>1
  <2>7. Lands'
    BY <1>1, <1>2 DEF InPush, Lands
  <2>8. todo' = << >> => line' = Idle
    BY <1>2
  <2>. QED  BY <2>4, <2>5, <2>6, <2>7, <2>8 DEF PushInv
<1>5. ASSUME NEW c \in Containers, WriteCfinit(c)  PROVE PushInv'
  <2>1. /\ Head(todo) = cfinit(c) /\ UNCHANGED files
        /\ payload' = IF c \in mounted THEN [payload EXCEPT ![c] = version] ELSE payload
    BY <1>5 DEF WriteCfinit, At, system
  <2>2. payload \in [Containers -> 0..Newest] /\ version \in 0..Newest
    BY <1>1 DEF Types
  <2>3. /\ payload' \in [Containers -> 0..Newest]
        /\ c \in mounted => payload'[c] = version
        /\ \A d \in Containers : payload'[d] \in {payload[d], version}
    BY <2>1, <2>2
  <2>4. InPush'
    <3>1. \A f \in FilesOf[version] : f # Head(todo)
      BY <1>1, <2>1
    <3>2. \A d \in mounted \cap ContainersOf(version) :
             /\ payload[d] = version \/ cfinit(d) = Head(todo) => payload'[d] = version
             /\ jail_cmd(d) # Head(todo)
      BY <1>1, <2>1, <2>2, <2>3
    <3>3. bectl_create # Head(todo) /\ bectl_activate # Head(todo)
      <4>1. cfinit(c) # bectl_create /\ cfinit(c) # bectl_activate
        BY DEF cfinit, bectl_create, bectl_activate
      <4>. QED  BY <2>1, <4>1
    <3>. QED  BY <1>1, <1>2, <2>1, <3>1, <3>2, <3>3, StepKeepsPush
  <2>5. Types'
    BY <1>1, <1>2, <2>1, <2>3 DEF Types, HasDataset
  <2>. QED  BY <1>3, <2>1, <2>4, <2>5
<1>6. CASE OtherStep
  <2>1. UNCHANGED <<system, jails>>
    BY <1>6 DEF OtherStep
  <2>2. /\ Head(todo) \notin ConfFiles
        /\ Head(todo)[1] \in {"pkg install", "zpool", "fstab"}
    BY <1>6 DEF OtherStep
  <2>3. /\ Head(todo) \notin {bectl_create, bectl_activate}
        /\ \A c \in Containers : cfinit(c) # Head(todo) /\ jail_cmd(c) # Head(todo)
    <3>1. /\ bectl_create[1] = "bectl create" /\ bectl_activate[1] = "bectl activate"
          /\ \A c : cfinit(c)[1] = "cfinit" /\ jail_cmd(c)[1] = "jail_cmd"
      BY DEF bectl_create, bectl_activate, cfinit, jail_cmd
    <3>. QED  BY <2>2, <3>1
  <2>4. \A c \in mounted : HasDataset(c)' /\ c \in Containers
    BY <1>1, <1>2 DEF Types, HasDataset
  <2>5. UNCHANGED <<payload, files>> /\ firstboot \subseteq Containers
    BY <1>1, <2>1 DEF system, jails, Types
  <2>. QED  BY <1>1, <1>2, <2>1, <2>2, <2>3, <2>4, <2>5, ScriptStep
<1>. QED  BY <1>4, <1>5, <1>6

\* The environment that is made is whole, and it is the one activated.
LEMMA EnvironmentKeepsPush ==
    ASSUME PushInv, CreateEnvironment \/ ActivateEnvironment
    PROVE  PushInv'
<1>. USE ConstantFacts
<1>1. todo # << >> /\ InPush /\ Types /\ version \in Versions /\ RestOfArchive
  <2>1. todo # << >>
    BY DEF CreateEnvironment, ActivateEnvironment, At
  <2>. QED  BY <2>1 DEF PushInv, InPush, RestOfArchive
<1>2. /\ UNCHANGED <<version, landed, back, booted, payload, ran, mounted, firstboot, thinjail>>
      /\ todo' = Tail(todo) /\ line' = Idle
  BY DEF CreateEnvironment, ActivateEnvironment, StepOver, jails
<1>3. \A c \in Containers : cfinit(c) # Head(todo) /\ jail_cmd(c) # Head(todo)
  <2>1. Head(todo) \in {bectl_create, bectl_activate}
    BY DEF CreateEnvironment, ActivateEnvironment, At
  <2>2. \A c : /\ cfinit(c) \notin {bectl_create, bectl_activate}
               /\ jail_cmd(c) \notin {bectl_create, bectl_activate}
    BY DEF cfinit, jail_cmd, bectl_create, bectl_activate
  <2>. QED  BY <2>1, <2>2
<1>4. \A f \in FilesOf[version] : files[booted][f] = version /\ f # Head(todo)
  <2>1. Head(todo) \in {bectl_create, bectl_activate}
    BY DEF CreateEnvironment, ActivateEnvironment, At
  <2>2. \A f \in FilesOf[version] : ~Left(f)
    BY <1>1, <2>1, LastSteps
  <2>. QED  BY <1>1, <2>1, <2>2, FilesAreNoCommands DEF InPush
<1>5. Lands' /\ (todo' = << >> => line' = Idle)
  BY <1>1, <1>2 DEF InPush, Lands
<1>6. bectl_create # bectl_activate
  BY DEF bectl_create, bectl_activate
<1>7. files \in [0..Newest -> [ConfFiles -> 0..Newest]] /\ version \in 0..Newest
      /\ booted \in 0..Newest
  BY <1>1 DEF Types
<1>8. CASE CreateEnvironment
  <2>1. /\ Head(todo) = bectl_create /\ next' = next /\ envs' = envs \cup {version}
        /\ files' = IF version \in envs THEN files ELSE [files EXCEPT ![version] = files[booted]]
    BY <1>8 DEF CreateEnvironment, At
  <2>2. files' \in [0..Newest -> [ConfFiles -> 0..Newest]]
    BY <1>7, <2>1
  <2>3. \A f \in FilesOf[version] : files'[booted][f] = version
    BY <1>4, <1>7, <2>1
  <2>4. InPush'
    BY <1>1, <1>2, <1>3, <1>6, <2>1, <2>3, StepKeepsPush
  <2>5. Types'
    BY <1>1, <1>2, <1>7, <2>1, <2>2 DEF Types, HasDataset
  <2>6. Environments'
    <3>. SUFFICES ASSUME ~back
                  PROVE  (\A e \in envs' : e <= version) /\ Full(version, version)'
      BY <1>2 DEF Environments
    <3>1. \A e \in envs' : e <= version
      BY <1>7, <2>1 DEF PushInv, Environments
    <3>2. CASE version \in envs
      BY <1>1, <1>2, <2>1, <3>1, <3>2 DEF PushInv, Environments, Full
    <3>3. CASE version \notin envs
      BY <1>2, <1>4, <1>7, <2>1, <3>1, <3>3 DEF Full
    <3>. QED  BY <3>1, <3>2, <3>3
  <2>. QED  BY <1>5, <2>4, <2>5, <2>6 DEF PushInv
<1>9. CASE ActivateEnvironment
  <2>1. /\ Head(todo) = bectl_activate /\ UNCHANGED <<envs, files>>
        /\ next' = IF version \in envs THEN version ELSE next
    BY <1>9 DEF ActivateEnvironment, At
  <2>2. version \in envs
    BY <1>1, <2>1, LastSteps DEF InPush
  <2>3. InPush'
    BY <1>1, <1>2, <1>3, <1>4, <1>6, <2>1, <2>2, StepKeepsPush
  <2>4. Types'
    BY <1>1, <1>2, <2>1, <2>2 DEF Types, HasDataset
  <2>5. Environments'
    BY <1>2, <2>1 DEF PushInv, Environments, Full
  <2>. QED  BY <1>5, <2>3, <2>4, <2>5 DEF PushInv
<1>. QED  BY <1>8, <1>9

\* When the host is rebooted at the end of a push, all of it was done.
LEMMA AtShutdown ==
    ASSUME PushInv, Shutdown
    PROVE  /\ next = version /\ version \in envs /\ version \in Versions
           /\ \A c \in mounted \cap ContainersOf(version) :
                 payload[c] = version /\ c \in firstboot
<1>1. todo # << >> /\ Head(todo) = shutdown
  BY DEF Shutdown, At
<1>2. InPush /\ RestOfArchive
  BY <1>1 DEF PushInv, InPush
<1>. QED  BY <1>1, <1>2, LastSteps DEF InPush, RestOfArchive

LEMMA BootKeepsPush ==
    ASSUME PushInv, Shutdown \/ Crash \/ ConnectionLost
    PROVE  PushInv'
<1>. USE ConstantFacts
<1>1. Types /\ Environments /\ Lands
  BY DEF PushInv
<1>2. CASE ConnectionLost
  <2>1. /\ todo' = << >> /\ line' = Idle
        /\ UNCHANGED <<version, landed, back, envs, files, booted, next, thinjail, mounted,
                       firstboot, payload, ran>>
    BY <1>2 DEF ConnectionLost, system, jails
  <2>2. Types'
    BY <1>1, <2>1 DEF Types, HasDataset
  <2>3. Environments' /\ Lands'
    BY <1>1, <2>1 DEF Environments, Lands, Full
  <2>. QED  BY <2>1, <2>2, <2>3 DEF PushInv
<1>3. CASE Shutdown \/ Crash
  <2>. DEFINE starts == IF files[next][JailConf] = Nothing THEN {}
                        ELSE {c \in ContainersOf(files[next][JailConf]) : HasDataset(c)}
  <2>1. /\ todo' = << >> /\ line' = Idle /\ booted' = next /\ mounted' = starts
        /\ firstboot' = firstboot \ starts
        /\ ran' = [c \in Containers |->
                      IF c \in starts \cap firstboot /\ payload[c] # Nothing
                      THEN payload[c] ELSE ran[c]]
        /\ UNCHANGED <<version, back, envs, files, next, thinjail, payload>>
        /\ landed' \in {Nothing, version}
    BY <1>3 DEF Shutdown, Crash, Boot, layers
  <2>2. \A c \in starts : c \in Containers /\ HasDataset(c)
    <3>. SUFFICES ASSUME files[next][JailConf] # Nothing,
                         NEW c \in ContainersOf(files[next][JailConf]), HasDataset(c)
                  PROVE  c \in Containers
      OBVIOUS
    <3>1. next \in 0..Newest /\ JailConf \in ConfFiles
      BY <1>1 DEF Types, ConfFiles
    <3>2. files[next][JailConf] \in 0..Newest
      BY <1>1, <3>1 DEF Types
    <3>3. files[next][JailConf] \in Versions
      BY <3>2 DEF Versions, Nothing
    <3>. QED  BY <3>3
  <2>3. ran' \in [Containers -> 0..Newest]
    <3>. HIDE DEF starts
    <3>. QED  BY <1>1, <2>1 DEF Types
  <2>4. Types'
    <3>. HIDE DEF starts
    <3>. QED  BY <1>1, <2>1, <2>2, <2>3 DEF Types, HasDataset
  <2>5. Environments'
    BY <1>1, <2>1 DEF Environments, Full
  <2>6. Lands'
    <3>. SUFFICES ASSUME landed' # Nothing, ~back', NEW f \in FilesOf[version]
                  PROVE  files[next][f] = version
      BY <2>1 DEF Lands
    <3>1. Shutdown
      BY <1>3 DEF Crash
    <3>2. next = version /\ version \in envs /\ version \in Versions
      BY <3>1, AtShutdown
    <3>. QED  BY <1>1, <2>1, <3>2 DEF Environments, Full
  <2>. QED  BY <2>1, <2>4, <2>5, <2>6 DEF PushInv
<1>. QED  BY <1>2, <1>3

LEMMA InitPushInv == Init => PushInv
<1>. SUFFICES ASSUME Init  PROVE PushInv
  OBVIOUS
<1>1. /\ version = Nothing /\ todo = << >> /\ line = Idle /\ landed = Nothing /\ back = FALSE
      /\ envs = {Original} /\ booted = Original /\ next = Original
      /\ mounted = {} /\ firstboot = {}
  BY DEF Init
<1>2. /\ files \in [0..Newest -> [ConfFiles -> 0..Newest]]
      /\ payload \in [Containers -> 0..Newest] /\ ran \in [Containers -> 0..Newest]
  <2>1. Nothing \in 0..Newest /\ {Original} \cup Versions = 0..Newest
    BY VersionsAssumption DEF Nothing, Original, Versions
  <2>. QED  BY <2>1 DEF Init
<1>3. Nothing = 0 /\ Original = 0 /\ Newest \in Nat
  BY VersionsAssumption DEF Nothing, Original
<1>4. Types
  <2>1. /\ version \in 0..Newest /\ envs \subseteq 0..Newest
        /\ Original \in envs /\ booted \in envs /\ next \in envs
    BY <1>1, <1>3
  <2>2. /\ landed \in {Nothing, version} /\ back \in BOOLEAN /\ (line # Idle => todo # << >>)
    BY <1>1
  <2>3. mounted \subseteq Containers /\ firstboot \subseteq Containers /\ \A c \in mounted : HasDataset(c)
    BY <1>1
  <2>. QED  BY <1>2, <2>1, <2>2, <2>3 DEF Types
<1>5. Environments /\ Lands
  BY <1>1, <1>3 DEF Environments, Lands
<1>. QED  BY <1>1, <1>4, <1>5 DEF PushInv

LEMMA NextPushInv ==
    ASSUME PushInv, DataInv, [Next]_vars
    PROVE  PushInv'
<1>1. ASSUME NEW v \in Versions, Push(v)  PROVE PushInv'
  BY <1>1, PushKeepsPush
<1>2. CASE \/ \E f \in ConfFiles : WriteFile(f)
           \/ \E c \in Containers : WriteCfinit(c)
           \/ OtherStep
  BY <1>2, WritesKeepPush
<1>3. CASE jail_zfs_setup \/ DownloadFails
  BY <1>3, SetupKeepsPush
<1>4. ASSUME NEW c \in Containers, jail_zfs_skeleton(c)  PROVE PushInv'
  BY <1>4, ContainerKeepsPush
<1>5. CASE CreateEnvironment \/ ActivateEnvironment
  BY <1>5, EnvironmentKeepsPush
<1>6. CASE Shutdown \/ Crash \/ ConnectionLost
  BY <1>6, BootKeepsPush
<1>7. CASE UNCHANGED vars
  <2>1. UNCHANGED <<version, todo, line, landed, back, envs, files, booted, next,
                    thinjail, mounted, firstboot, payload, ran>>
    BY <1>7 DEF vars, push, system, jails
  <2>2. Types' /\ Environments' /\ Lands'
    BY <2>1 DEF PushInv, Types, Environments, Lands, Full, HasDataset
  <2>3. InPush' <=> InPush
    BY <2>1 DEF InPush, RestOfArchive, Archive, Left, ContainersOf
  <2>. QED  BY <2>1, <2>2, <2>3 DEF PushInv
<1>. QED  BY <1>1, <1>2, <1>3, <1>4, <1>5, <1>6, <1>7 DEF Next, configinit

\* Where the script is, what is counted and what the layers consist of.
ScriptTypes ==
    /\ line \in Lines /\ trouble \in 0..MaxTrouble
    /\ datasets \subseteq Datasets /\ sentinels \subseteq 1..3 /\ released \in BOOLEAN

LEMMA LayerNumbers == 1..3 = {1, 2, 3}
OBVIOUS

LEMMA SetupTypes ==
    ASSUME ScriptTypes, jail_zfs_setup
    PROVE  ScriptTypes'
<1>. USE DEF ScriptTypes, Lines, Idle
<1>1. CASE SetupStarts \/ LayerZeroDone \/ SetupFails
           \/ (LayerDone(1, "layer 1") /\ Goto("layer 2"))
           \/ (LayerDone(2, "layer 2") /\ Goto("layer 3"))
           \/ (LayerDone(3, "layer 3") /\ StepOver)
  BY <1>1 DEF SetupStarts, LayerZeroDone, SetupFails, LayerDone, Goto, StepOver, layers
<1>2. CASE CreateDataset
  BY <1>2 DEF CreateDataset, push
<1>3. CASE FetchRelease \/ UpdateBase \/ SetupEnds
  <2>1. \/ sentinels' = sentinels \cup {1}
        \/ sentinels' = sentinels \cup {2}
        \/ sentinels' = sentinels \cup {3}
    BY <1>3 DEF FetchRelease, UpdateBase, SetupEnds
  <2>2. line' \in Lines /\ UNCHANGED <<trouble, datasets, released>>
    BY <1>3 DEF FetchRelease, UpdateBase, SetupEnds, Goto, StepOver
  <2>3. sentinels' \subseteq 1..3
    <3>1. sentinels \subseteq 1..3
      OBVIOUS
    <3>. HIDE DEF ScriptTypes
    <3>. QED  BY <2>1, <3>1, LayerNumbers
  <2>. QED  BY <2>2, <2>3
<1>4. CASE SnapshotRelease
  BY <1>4 DEF SnapshotRelease, Goto
<1>5. CASE DestroyStale \/ CloneRelease
  BY <1>5 DEF DestroyStale, CloneRelease, Goto, Datasets
<1>6. CASE RemoveEmpty \/ SnapshotSkeleton
  BY <1>6 DEF RemoveEmpty, SnapshotSkeleton, Goto
<1>7. CASE \E d \in AllDirs : MoveDir(d)
  BY <1>7 DEF MoveDir, Goto
<1>. QED  BY <1>1, <1>2, <1>3, <1>4, <1>5, <1>6, <1>7 DEF jail_zfs_setup

LEMMA NextScriptTypes ==
    ASSUME ScriptTypes, [Next]_vars
    PROVE  ScriptTypes'
<1>1. ASSUME UNCHANGED layers, line' \in {line, Idle, "seed"},
             \/ trouble' = trouble
             \/ trouble < MaxTrouble /\ trouble' = trouble + 1
      PROVE  ScriptTypes'
  <2>1. trouble' \in 0..MaxTrouble
    BY <1>1, VersionsAssumption DEF ScriptTypes
  <2>2. line' \in Lines
    BY <1>1 DEF ScriptTypes, Lines, Idle
  <2>. QED  BY <1>1, <2>1, <2>2 DEF ScriptTypes, layers
<1>2. CASE jail_zfs_setup
  BY <1>2, SetupTypes
<1>3. ASSUME NEW c \in Containers, WriteCfinit(c) \/ jail_zfs_skeleton(c)  PROVE ScriptTypes'
  BY <1>1, <1>3 DEF WriteCfinit, jail_zfs_skeleton, DatasetFound, CloneSkeleton, Seed,
     JailCmdFails, Goto, StepOver
<1>4. CASE (\E f \in ConfFiles : WriteFile(f)) \/ (\E v \in Versions : Push(v))
  BY <1>1, <1>4 DEF WriteFile, Push, StepOver
<1>5. CASE OtherStep \/ CreateEnvironment \/ ActivateEnvironment
  BY <1>1, <1>5 DEF OtherStep, CreateEnvironment, ActivateEnvironment, StepOver
<1>6. CASE DownloadFails \/ ConnectionLost
  BY <1>1, <1>6 DEF DownloadFails, ConnectionLost
<1>7. CASE Shutdown \/ Crash
  BY <1>1, <1>7 DEF Shutdown, Crash, Boot
<1>8. CASE UNCHANGED vars
  BY <1>1, <1>8 DEF vars, push
<1>. QED
  BY <1>2, <1>3, <1>4, <1>5, <1>6, <1>7, <1>8 DEF Next, configinit

\* Host, archive and datasets stay well formed.
THEOREM HostTypes == Spec => []TypeOK
<1>1. Init => PushInv /\ DataInv /\ ScriptTypes
  <2>1. Init => ScriptTypes
    <3>. SUFFICES ASSUME Init  PROVE ScriptTypes
      OBVIOUS
    <3>1. trouble \in 0..MaxTrouble
      BY VersionsAssumption DEF Init
    <3>. QED  BY <3>1 DEF Init, ScriptTypes, Lines
  <2>. QED  BY <2>1, InitPushInv, InitDataInv
<1>2. PushInv /\ DataInv /\ ScriptTypes /\ [Next]_vars => (PushInv /\ DataInv /\ ScriptTypes)'
  BY NextPushInv, NextDataInv, NextScriptTypes
<1>3. PushInv /\ DataInv /\ ScriptTypes => TypeOK
  <2>. SUFFICES ASSUME PushInv, DataInv, ScriptTypes  PROVE TypeOK
    OBVIOUS
  <2>1. \A i \in DOMAIN todo : todo[i] \in UNION {ToSet(Archive(v)) : v \in Versions}
    <3>. SUFFICES ASSUME NEW i \in DOMAIN todo
                  PROVE  todo[i] \in UNION {ToSet(Archive(v)) : v \in Versions}
      OBVIOUS
    <3>1. InPush
      BY DEF PushInv
    <3>2. todo \in Seq(ToSet(Archive(version))) /\ version \in Versions
      BY <3>1 DEF InPush, RestOfArchive
    <3>3. todo[i] \in ToSet(Archive(version))
      BY <3>2
    <3>. QED  BY <3>2, <3>3
  <2>2. line # Idle => todo # << >>
    BY DEF PushInv
  <2>3. thinjail \in [Containers -> SUBSET AllDirs] /\ snapshot \subseteq AllDirs
    BY DEF DataInv, ThinjailInv, LayersInv
  <2>. QED
    BY <2>1, <2>2, <2>3 DEF TypeOK, PushInv, Types, ScriptTypes, DataInv, LayersInv
<1>. QED  BY <1>1, <1>2, <1>3, PTL DEF Spec

\* When a push was carried through the host runs the whole configuration of its
\* version, whatever was interrupted before (configinit.py:168-174,
\* resources/firstboot/configinit, _core.py:945-968).
THEOREM PushesLand == Spec => []Lands
<1>1. Init => PushInv /\ DataInv
  BY InitPushInv, InitDataInv
<1>2. PushInv /\ DataInv /\ [Next]_vars => (PushInv /\ DataInv)'
  BY NextPushInv, NextDataInv
<1>3. PushInv => Lands
  BY DEF PushInv
<1>. QED  BY <1>1, <1>2, <1>3, PTL DEF Spec

\* A push that is carried through boots the containers that ran all along with
\* the configuration of its version (base.py:220-227, jail-configinit,
\* jail-zfs-skeleton:14).
THEOREM RunningIsReached == Spec => RunningReached
<1>1. Init => PushInv /\ DataInv
  BY InitPushInv, InitDataInv
<1>2. PushInv /\ DataInv /\ [Next]_vars => (PushInv /\ DataInv)'
  BY NextPushInv, NextDataInv
<1>3. PushInv /\ [Next]_vars =>
         [Shutdown => \A c \in mounted \cap ContainersOf(version) \cap mounted' :
                         ran'[c] = version]_vars
  <2>. SUFFICES ASSUME PushInv, Shutdown,
                       NEW c \in mounted \cap ContainersOf(version) \cap mounted'
                PROVE  ran'[c] = version
    OBVIOUS
  <2>1. payload[c] = version /\ c \in firstboot /\ version \in Versions
    BY AtShutdown
  <2>2. version # Nothing /\ c \in Containers
    BY <2>1, ConstantFacts
  <2>. QED  BY <2>1, <2>2 DEF Shutdown, Boot
<1>. QED  BY <1>1, <1>2, <1>3, PTL DEF Spec, RunningReached
=============================================================================
