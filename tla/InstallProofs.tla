---------------------------- MODULE InstallProofs ----------------------------
(***************************************************************************)
(* Theorems about how an installation comes to be and changes: the changes *)
(* an agent asks for (module SelfMod), for any sessions, changes and       *)
(* budgets, and the setup wizard (modules Setup, ChannelFlows, Pairing),   *)
(* for any channels, adapters, codes and chats.  The two share no          *)
(* variable; Setup's specification is SetupSpec, SelfMod's is Spec.        *)
(***************************************************************************)
EXTENDS SelfMod, Setup, FiniteSetTheorems, SequenceTheorems, TLAPS

-----------------------------------------------------------------------------
(* The changes an agent asks for                                           *)

\* The part of TypeOK that a step of the containers can disturb.
BoxesOK ==
    /\ container \in [Sessions -> {"down", "spawning", "running"}]
    /\ plan \in [Sessions -> BOOLEAN] /\ json \subseteq Servers
    /\ has \in [Sessions -> SUBSET Changes] /\ fresh \in [Sessions -> BOOLEAN]
    /\ dying \in [Sessions -> {"no", "stop", "respawn"}]

\* And the part that a step of the builds can disturb.
ImagesOK ==
    /\ packages \subseteq Installs /\ servers \subseteq Servers /\ tagged \in BOOLEAN
    /\ image \subseteq Installs
    /\ dockerfile \subseteq SUBSET Installs /\ Cardinality(dockerfile) <= 1
    /\ build \in [Builders -> [at: {"idle", "written", "building", "over"}, reads: SUBSET Installs]]

NotesOK ==
    /\ notes \in [Sessions -> SUBSET Changes]
    /\ heard \subseteq Changes /\ failed \subseteq Changes /\ misled \subseteq Changes
    /\ overlapped \subseteq Changes /\ early \subseteq Changes /\ removed \subseteq Changes
    /\ lost \subseteq Changes

BudgetOK == budget \in [asked: SUBSET (Changes \union Rebuilds), ops: Nat, faults: Nat]

LEMMA TypeParts == TypeOK <=> BoxesOK /\ ImagesOK /\ NotesOK /\ BudgetOK
  BY Zenon DEF TypeOK, BoxesOK, ImagesOK, NotesOK, BudgetOK

LEMMA TypePartsNext == BoxesOK' /\ ImagesOK' /\ NotesOK' /\ BudgetOK' => TypeOK'
  BY Zenon DEF TypeOK, BoxesOK, ImagesOK, NotesOK, BudgetOK

LEMMA InitOK == Init => IInv
<1> SUFFICES ASSUME Init PROVE IInv
  OBVIOUS
<1>1. Cardinality({}) <= 1
  BY FS_EmptySet
<1>2. BoxesOK
  BY DEF Init, BoxesOK
<1>3. ImagesOK
  BY <1>1, Zenon DEF Init, ImagesOK, Idle
<1>4. NotesOK /\ BudgetOK
  BY SelfModAssumption DEF Init, NotesOK, BudgetOK
<1>5. ToldIsInstalled /\ ImageHasPackages /\ BuildsKeepUp /\ NotesAreTrue
  BY DEF Init, ToldIsInstalled, ImageHasPackages, BuildsKeepUp, NotesAreTrue, Idle, Builders
<1> QED
  BY <1>2, <1>3, <1>4, <1>5, TypeParts DEF IInv

LEMMA BudgetStays ==
    ASSUME BudgetOK, Fault \/ Command \/ (\E c : Asked(c)) \/ UNCHANGED budget
    PROVE  BudgetOK'
<1>1. CASE Fault
  BY <1>1 DEF Fault, BudgetOK
<1>2. CASE Command
  BY <1>2 DEF Command, BudgetOK
<1>3. CASE \E c : Asked(c)
  BY <1>3 DEF Asked, BudgetOK
<1>4. CASE UNCHANGED budget
  BY <1>4 DEF BudgetOK
<1> QED
  BY <1>1, <1>2, <1>3, <1>4

-----------------------------------------------------------------------------
(* The containers: what a note says stays true of whoever will read it.      *)

LEMMA SpawningOK ==
    ASSUME IInv, NEW s \in Sessions, Spawning(s),
           has' \in [Sessions -> SUBSET Changes], fresh' \in [Sessions -> BOOLEAN],
           \A t \in Sessions \ {s}: has'[t] = has[t] /\ fresh'[t] = fresh[t],
           dying' \in [Sessions -> {"no", "stop", "respawn"}],
           UNCHANGED <<config, building, notes, history>>, BudgetOK'
    PROVE  IInv'
<1>1. BoxesOK /\ ImagesOK /\ NotesOK
  BY TypeParts DEF IInv
<1>2. BoxesOK'
  BY <1>1 DEF BoxesOK, ImagesOK, Spawning, config
<1>3. ImagesOK' /\ NotesOK'
  BY <1>1 DEF ImagesOK, NotesOK, config, building, history
<1>4. ToldIsInstalled' /\ ImageHasPackages' /\ BuildsKeepUp'
  BY DEF IInv, ToldIsInstalled, ImageHasPackages, BuildsKeepUp, Active, config, building, history
<1>5. NotesAreTrue'
  <2> SUFFICES ASSUME NEW t \in Sessions, NEW c \in notes[t] \ (overlapped \union early \union removed)
               PROVE  /\ container'[t] = "spawning" => IF c \in Installs THEN plan'[t] ELSE c \in json'
                      /\ container'[t] = "running" /\ fresh'[t] => c \in has'[t]
    BY DEF IInv, NotesAreTrue, config, building, history
  <2>1. /\ c \in Installs => tagged
        /\ c \in Servers => c \in servers
        /\ c \in Changes
    BY <1>1 DEF IInv, NotesAreTrue, NotesOK
  <2>2. CASE t = s
    BY <1>1, <2>1, <2>2 DEF Spawning, BoxesOK, Changes
  <2>3. CASE t # s
    <3>1. container'[t] = container[t] /\ plan'[t] = plan[t] /\ json' = servers
      BY <1>1, <2>3 DEF Spawning, BoxesOK
    <3> QED
      BY <2>1, <2>3, <3>1 DEF IInv, NotesAreTrue, Changes
  <2> QED
    BY <2>2, <2>3
<1> QED
  BY <1>2, <1>3, <1>4, <1>5, TypePartsNext DEF IInv

\* A step that leaves the builds, the configuration and the histories alone.
LEMMA BoxStepOK ==
    ASSUME IInv, BoxesOK', BudgetOK', UNCHANGED <<config, building, notes, history>>,
           \A t \in Sessions: \A c \in notes[t] \ (overlapped \union early \union removed):
               /\ container'[t] = "spawning" => IF c \in Installs THEN plan'[t] ELSE c \in json'
               /\ container'[t] = "running" /\ fresh'[t] => c \in has'[t]
    PROVE  IInv'
<1>1. ImagesOK' /\ NotesOK'
  BY TypeParts, Zenon DEF IInv, ImagesOK, NotesOK, config, building, history
<1>2. ToldIsInstalled' /\ ImageHasPackages' /\ BuildsKeepUp'
  BY DEF IInv, ToldIsInstalled, ImageHasPackages, BuildsKeepUp, Active, config, building, history
<1>3. NotesAreTrue'
  BY DEF IInv, NotesAreTrue, config, building, history
<1> QED
  BY <1>1, <1>2, <1>3, TypePartsNext DEF IInv

LEMMA ContainersOK ==
    ASSUME IInv, NEW s \in Sessions, Wake(s) \/ SpawnFails(s) \/ Start(s) \/ Exit(s)
    PROVE  IInv'
<1>0. BoxesOK /\ ImagesOK /\ NotesOK /\ BudgetOK
  BY TypeParts DEF IInv
<1>1. CASE Wake(s)
  <2>1. BudgetOK'
    BY <1>0, <1>1, BudgetStays DEF Wake
  <2> QED
    BY <1>0, <1>1, <2>1, SpawningOK DEF Wake, BoxesOK
<1>2. CASE SpawnFails(s)
  <2>1. BudgetOK'
    BY <1>0, <1>2, BudgetStays DEF SpawnFails
  <2>2. BoxesOK'
    BY <1>0, <1>2 DEF SpawnFails, BoxesOK
  <2> QED
    BY <1>0, <1>2, <2>1, <2>2, BoxStepOK DEF SpawnFails, BoxesOK, IInv, NotesAreTrue
<1>3. CASE Start(s)
  <2>1. BudgetOK'
    BY <1>0, <1>3, BudgetStays DEF Start
  <2>2. BoxesOK'
    BY <1>0, <1>3 DEF Start, BoxesOK, ImagesOK, Changes
  <2>3. ASSUME NEW t \in Sessions, NEW c \in notes[t] \ (overlapped \union early \union removed)
        PROVE  /\ container'[t] = "spawning" => IF c \in Installs THEN plan'[t] ELSE c \in json'
               /\ container'[t] = "running" /\ fresh'[t] => c \in has'[t]
    <3>1. CASE t = s
      <4>1. IF c \in Installs THEN plan[s] /\ c \in image ELSE c \in json
        BY <1>3, <3>1 DEF Start, IInv, NotesAreTrue
      <4> QED
        BY <1>0, <1>3, <3>1, <4>1 DEF Start, BoxesOK
    <3>2. CASE t # s
      BY <1>0, <1>3, <3>2 DEF Start, BoxesOK, IInv, NotesAreTrue
    <3> QED
      BY <3>1, <3>2
  <2> QED
    BY <1>3, <2>1, <2>2, <2>3, BoxStepOK DEF Start
<1>4. CASE Exit(s)
  <2>1. BudgetOK'
    BY <1>0, <1>4, BudgetStays DEF Exit
  <2>2. /\ has' \in [Sessions -> SUBSET Changes] /\ fresh' \in [Sessions -> BOOLEAN]
        /\ dying' \in [Sessions -> {"no", "stop", "respawn"}]
        /\ \A t \in Sessions \ {s}: has'[t] = has[t] /\ fresh'[t] = fresh[t]
    BY <1>0, <1>4 DEF Exit, BoxesOK
  <2>3. CASE dying[s] = "respawn"
    BY <1>4, <2>1, <2>2, <2>3, SpawningOK DEF Exit
  <2>4. CASE dying[s] # "respawn"
    <3>1. /\ container' = [container EXCEPT ![s] = "down"] /\ UNCHANGED <<plan, json>>
          /\ UNCHANGED <<config, building, notes, history>>
      BY <1>4, <2>4 DEF Exit
    <3>2. BoxesOK'
      BY <1>0, <2>2, <3>1 DEF BoxesOK
    <3>3. \A t \in Sessions: \A c \in notes[t] \ (overlapped \union early \union removed):
               /\ container'[t] = "spawning" => IF c \in Installs THEN plan'[t] ELSE c \in json'
               /\ container'[t] = "running" /\ fresh'[t] => c \in has'[t]
      BY <1>0, <2>2, <3>1 DEF BoxesOK, IInv, NotesAreTrue
    <3> QED
      BY <2>1, <3>1, <3>2, <3>3, BoxStepOK
  <2> QED
    BY <2>3, <2>4
<1> QED
  BY <1>1, <1>2, <1>3, <1>4

\* The runner reads the notes at its first poll; each is true of its container.
LEMMA FirstPollOK ==
    ASSUME IInv, NEW s \in Sessions, FirstPoll(s)
    PROVE  IInv'
<1>0. BoxesOK /\ ImagesOK /\ NotesOK /\ BudgetOK
  BY TypeParts DEF IInv
<1>1. BoxesOK'
  BY <1>0 DEF FirstPoll, BoxesOK
<1>2. ImagesOK' /\ BudgetOK'
  BY <1>0, Zenon DEF FirstPoll, ImagesOK, BudgetOK, config, building
<1>3. notes' \in [Sessions -> SUBSET Changes] /\ \A t \in Sessions: notes'[t] \subseteq notes[t]
  BY <1>0 DEF FirstPoll, NotesOK
<1>4. NotesOK'
  BY <1>0, <1>3 DEF FirstPoll, NotesOK
<1>5. notes[s] \ has[s] \subseteq overlapped \union early \union removed
  BY DEF FirstPoll, IInv, NotesAreTrue
<1>6. ToldIsInstalled'
  BY <1>5 DEF FirstPoll, IInv, ToldIsInstalled
<1>7. ImageHasPackages' /\ BuildsKeepUp'
  BY DEF FirstPoll, IInv, ImageHasPackages, BuildsKeepUp, Active, config, building
<1>8. NotesAreTrue'
  BY <1>0, <1>3 DEF FirstPoll, IInv, NotesAreTrue, BoxesOK, config, building
<1> QED
  BY <1>1, <1>2, <1>4, <1>6, <1>7, <1>8, TypePartsNext DEF IInv

LEMMA RestartOK ==
    ASSUME IInv, NEW set, Restart(set)
    PROVE  IInv'
<1>0. BoxesOK /\ BudgetOK
  BY TypeParts DEF IInv
<1>1. BoxesOK'
  BY <1>0 DEF Restart, Killed, BoxesOK
<1>2. BudgetOK'
  BY <1>0, BudgetStays DEF Restart
<1> QED
  BY <1>1, <1>2, BoxStepOK DEF Restart, IInv, NotesAreTrue

-----------------------------------------------------------------------------
(* The builds.                                                               *)

\* A step that changes no container but for what it was told: the histories
\* only grow, what a note says is kept or excused, and a new note is true.
LEMMA BuildStepOK ==
    ASSUME IInv, ImagesOK', BudgetOK', UNCHANGED <<container, plan, json, has, fresh, heard, misled>>,
           dying' \in [Sessions -> {"no", "stop", "respawn"}],
           notes' \in [Sessions -> SUBSET Changes],
           overlapped \subseteq overlapped', overlapped' \subseteq Changes,
           early \subseteq early', early' \subseteq Changes,
           removed \subseteq removed', removed' \subseteq Changes,
           failed' \subseteq Changes, lost' \subseteq Changes,
           ImageHasPackages', BuildsKeepUp', tagged => tagged',
           \A c \in Installs \ (overlapped' \union removed'):
               build[c].at # "idle" => build'[c].at # "idle" /\ (c \in image => c \in image'),
           \A c \in Servers \ removed': c \in servers => c \in servers',
           \A s \in Sessions: \A c \in notes'[s] \ (notes[s] \union overlapped' \union early' \union removed'):
               /\ c \in Installs => build'[c].at # "idle" /\ tagged' /\ c \in image'
               /\ c \in Servers => c \in servers'
               /\ container[s] # "spawning" /\ ~(container[s] = "running" /\ fresh[s])
    PROVE  IInv'
<1>0. BoxesOK /\ ImagesOK /\ NotesOK /\ BudgetOK
  BY TypeParts DEF IInv
<1>1. BoxesOK'
  BY <1>0, Zenon DEF BoxesOK
<1>2. NotesOK'
  BY <1>0 DEF NotesOK
<1>3. ToldIsInstalled'
  BY DEF IInv, ToldIsInstalled
<1>4. NotesAreTrue'
  <2> SUFFICES ASSUME NEW s \in Sessions,
                      NEW c \in notes'[s] \ (overlapped' \union early' \union removed')
               PROVE  /\ c \in Installs => build'[c].at # "idle" /\ tagged' /\ c \in image'
                      /\ c \in Servers => c \in servers'
                      /\ container[s] = "spawning" => IF c \in Installs THEN plan[s] ELSE c \in json
                      /\ container[s] = "running" /\ fresh[s] => c \in has[s]
    BY DEF NotesAreTrue
  <2>1. CASE c \in notes[s]
    <3>1. /\ c \in Installs => build[c].at # "idle" /\ tagged /\ c \in image
          /\ c \in Servers => c \in servers
          /\ container[s] = "spawning" => IF c \in Installs THEN plan[s] ELSE c \in json
          /\ container[s] = "running" /\ fresh[s] => c \in has[s]
      BY <2>1 DEF IInv, NotesAreTrue
    <3> QED
      BY <3>1
  <2>2. CASE c \notin notes[s]
    BY <2>2
  <2> QED
    BY <2>1, <2>2
<1> QED
  BY <1>1, <1>2, <1>3, <1>4, TypePartsNext DEF IInv

LEMMA BeginOK ==
    ASSUME IInv, NEW b \in Builders, Begin(b), packages' \subseteq Installs,
           packages' = packages \union ({b} \intersect Installs)
    PROVE  /\ dockerfile' \subseteq SUBSET Installs /\ Cardinality(dockerfile') <= 1
           /\ build' \in [Builders -> [at: {"idle", "written", "building", "over"}, reads: SUBSET Installs]]
           /\ \A c \in Builders: build[c].at # "idle" => build'[c].at # "idle"
           /\ overlapped \subseteq overlapped' /\ overlapped' \subseteq Changes
           /\ Active \subseteq Active' /\ b \in Active'
           /\ (image' = image /\ removed' = removed) => BuildsKeepUp'
<1>0. ImagesOK /\ NotesOK
  BY TypeParts DEF IInv
<1>1. Cardinality({packages'}) = 1
  BY FS_Singleton, Zenon
<1>2. /\ build' \in [Builders -> [at: {"idle", "written", "building", "over"}, reads: SUBSET Installs]]
      /\ \A c \in Builders \ {b}: build'[c] = build[c]
      /\ build'[b].at = "written"
  BY <1>0 DEF Begin, ImagesOK
<1>3. overlapped \subseteq overlapped' /\ overlapped' \subseteq Changes
  BY <1>0 DEF Begin, NotesOK, Changes
<1>4. Active \subseteq Active' /\ b \in Active'
  BY <1>2 DEF Active
<1>5. ASSUME removed' = removed PROVE BuildsKeepUp'
  <2>1. \A c \in packages': build'[c].at # "idle"
    BY <1>0, <1>2 DEF IInv, BuildsKeepUp, ImagesOK, Builders
  <2>2. ASSUME NEW c \in Installs \ (overlapped' \union removed'), build'[c].at # "idle"
        PROVE  /\ c \in packages'
               /\ \A file \in dockerfile': c \in file
               /\ \A x \in Builders: build'[x].at = "building" => c \in build'[x].reads
    <3>1. CASE c = b
      <4>1. Active = {}
        BY <2>2, <3>1 DEF Begin
      <4>2. \A x \in Builders: build'[x].at # "building"
        BY <1>2, <4>1 DEF Active
      <4> QED
        BY <3>1, <4>2, <2>2 DEF Begin
    <3>2. CASE c # b
      <4>1. c \in Builders /\ build[c].at # "idle" /\ c \notin overlapped /\ c \notin removed
        BY <1>2, <1>3, <1>5, <2>2, <3>2 DEF Builders
      <4>2. /\ c \in packages
            /\ \A x \in Builders: build[x].at = "building" => c \in build[x].reads
        BY <2>2, <4>1 DEF IInv, BuildsKeepUp
      <4> QED
        BY <1>2, <4>2 DEF Begin
    <3> QED
      BY <3>1, <3>2
  <2> QED
    BY <2>1, <2>2 DEF BuildsKeepUp
<1>6. dockerfile' = {packages'} /\ dockerfile' \subseteq SUBSET Installs
  BY DEF Begin
<1>7. Cardinality(dockerfile') <= 1
  BY <1>1, <1>6
<1> QED
  BY <1>2, <1>3, <1>4, <1>5, <1>6, <1>7

\* A new build hides no package that is missing.
LEMMA NewBuildOK ==
    ASSUME IInv, NEW b \in Builders, Begin(b), packages' \subseteq Installs,
           packages' = packages \union ({b} \intersect Installs), BudgetOK',
           UNCHANGED <<servers, tagged, image, running, notes, heard, failed, misled, early, removed, lost>>
    PROVE  IInv'
<1>0. BoxesOK /\ ImagesOK /\ NotesOK
  BY TypeParts DEF IInv
<1>1. /\ dockerfile' \subseteq SUBSET Installs /\ Cardinality(dockerfile') <= 1
      /\ build' \in [Builders -> [at: {"idle", "written", "building", "over"}, reads: SUBSET Installs]]
      /\ \A x \in Builders: build[x].at # "idle" => build'[x].at # "idle"
      /\ overlapped \subseteq overlapped' /\ overlapped' \subseteq Changes
      /\ Active \subseteq Active' /\ b \in Active' /\ BuildsKeepUp'
  BY BeginOK
<1>2. ImagesOK'
  BY <1>0, <1>1, Zenon DEF ImagesOK
<1>3. ImageHasPackages'
  BY <1>1 DEF IInv, ImageHasPackages
<1>4. dying' \in [Sessions -> {"no", "stop", "respawn"}] /\ notes' \in [Sessions -> SUBSET Changes]
  BY <1>0 DEF BoxesOK, NotesOK, running
<1>5. early' \subseteq Changes /\ removed' \subseteq Changes /\ failed' \subseteq Changes /\ lost' \subseteq Changes
  BY <1>0 DEF NotesOK
<1> QED
  BY <1>1, <1>2, <1>3, <1>4, <1>5, BuildStepOK DEF Builders, running

LEMMA BegunOK ==
    ASSUME IInv, (\E c \in Installs: Install(c)) \/ (\E b \in Rebuilds: Rebuild(b))
    PROVE  IInv'
<1>0. ImagesOK /\ BudgetOK
  BY TypeParts DEF IInv
<1>1. CASE \E c \in Installs: Install(c)
  <2> PICK c \in Installs: Install(c)
    BY <1>1
  <2>1. BudgetOK'
    BY <1>0, BudgetStays DEF Install
  <2>2. packages' \subseteq Installs /\ packages' = packages \union ({c} \intersect Installs)
    BY <1>0 DEF Install, ImagesOK
  <2> QED
    BY <2>1, <2>2, NewBuildOK DEF Install, Builders
<1>2. CASE \E b \in Rebuilds: Rebuild(b)
  <2> PICK b \in Rebuilds: Rebuild(b)
    BY <1>2
  <2>1. BudgetOK'
    BY <1>0, BudgetStays DEF Rebuild
  <2>2. packages' \subseteq Installs /\ packages' = packages \union ({b} \intersect Installs)
    BY <1>0, SelfModAssumption DEF Rebuild, ImagesOK, config, Changes
  <2> QED
    BY <2>1, <2>2, NewBuildOK DEF Rebuild, Builders, config
<1> QED
  BY <1>1, <1>2

LEMMA DockerReadsOK ==
    ASSUME IInv, NEW b \in Builders, DockerReads(b)
    PROVE  IInv'
<1>0. BoxesOK /\ ImagesOK /\ NotesOK /\ BudgetOK
  BY TypeParts DEF IInv
<1> PICK file \in dockerfile: build' = [build EXCEPT ![b] = [at |-> "building", reads |-> file]]
  BY DEF DockerReads
<1>1. file \subseteq Installs
  BY <1>0 DEF ImagesOK
<1>2. /\ build' \in [Builders -> [at: {"idle", "written", "building", "over"}, reads: SUBSET Installs]]
      /\ \A x \in Builders \ {b}: build'[x] = build[x]
      /\ build'[b].at = "building" /\ build'[b].reads = file /\ build[b].at = "written"
  BY <1>0, <1>1 DEF ImagesOK, DockerReads
<1>3. ImagesOK' /\ BudgetOK'
  BY <1>0, <1>2, Zenon DEF DockerReads, ImagesOK, BudgetOK, config
<1>4. Active' = Active
  BY <1>2 DEF Active
<1>5. ImageHasPackages'
  BY <1>4 DEF DockerReads, IInv, ImageHasPackages, config, history
<1>6. BuildsKeepUp'
  BY <1>0, <1>2 DEF DockerReads, IInv, BuildsKeepUp, config, history, ImagesOK, Builders
<1>7. dying' \in [Sessions -> {"no", "stop", "respawn"}] /\ notes' \in [Sessions -> SUBSET Changes]
  BY <1>0 DEF DockerReads, BoxesOK, NotesOK, running
<1>8. /\ overlapped' \subseteq Changes /\ early' \subseteq Changes /\ removed' \subseteq Changes
      /\ failed' \subseteq Changes /\ lost' \subseteq Changes
  BY <1>0 DEF DockerReads, NotesOK, history
<1> QED
  BY <1>2, <1>3, <1>5, <1>6, <1>7, <1>8, BuildStepOK
    DEF DockerReads, config, history, running, Builders

\* The end of a build, well or not: the image it leaves has every package that
\* was asked for before, and if its own is not there the failure is noted.
LEMMA EndedOK ==
    ASSUME IInv, NEW b \in Active, Ended(b), dockerfile' = {},
           UNCHANGED <<packages, servers, overlapped, removed, lost>>,
           image' = image \/ (build[b].at = "building" /\ image' = build[b].reads),
           tagged' \in BOOLEAN, tagged => tagged', failed \subseteq failed',
           \/ b \in Installs => b \in failed'
           \/ tagged' /\ build[b].at = "building" /\ image' = build[b].reads
    PROVE  /\ ImagesOK' /\ ImageHasPackages' /\ BuildsKeepUp'
           /\ build'[b].at = "over"
           /\ \A c \in Installs \ (overlapped \union removed): build[c].at # "idle" =>
                  build'[c].at # "idle" /\ (c \in image => c \in image')
<1>0. ImagesOK
  BY TypeParts DEF IInv
<1>1. b \in Builders
  BY DEF Active
<1>2. /\ build' \in [Builders -> [at: {"idle", "written", "building", "over"}, reads: SUBSET Installs]]
      /\ \A x \in Builders \ {b}: build'[x] = build[x]
      /\ build'[b].at = "over"
  BY <1>0, <1>1 DEF Ended, ImagesOK
<1>3. image' \subseteq Installs
  BY <1>0, <1>1 DEF ImagesOK
<1>4. Cardinality({}) <= 1
  BY FS_EmptySet
<1>5. ImagesOK'
  <2>1. dockerfile' \subseteq SUBSET Installs /\ Cardinality(dockerfile') <= 1
    BY <1>4
  <2>2. packages' \subseteq Installs /\ servers' \subseteq Servers
    BY <1>0 DEF ImagesOK
  <2> QED
    BY <1>2, <1>3, <2>1, <2>2, Zenon DEF ImagesOK
<1>6. BuildsKeepUp'
  <2>1. \A x \in Builders: build[x].at # "idle" <=> build'[x].at # "idle"
    BY <1>1, <1>2 DEF Active
  <2>2. \A x \in Builders: build'[x].at = "building" => build'[x] = build[x]
    BY <1>1, <1>2
  <2>3. packages \subseteq Builders
    BY <1>0 DEF ImagesOK, Builders
  <2> QED
    BY <2>1, <2>2, <2>3 DEF IInv, BuildsKeepUp, Builders
<1>7. ASSUME NEW c \in Installs \ (overlapped \union removed), build[c].at # "idle"
      PROVE  build'[c].at # "idle" /\ (c \in image => c \in image')
  BY <1>1, <1>2, <1>7 DEF IInv, BuildsKeepUp, Builders
<1>8. ImageHasPackages'
  <2> SUFFICES ASSUME NEW c \in packages \ (Active' \union failed' \union lost \union overlapped \union removed)
               PROVE  tagged' /\ c \in image'
    BY DEF ImageHasPackages
  <2>1. c \in Installs /\ build[c].at # "idle"
    BY <1>0 DEF IInv, BuildsKeepUp, ImagesOK
  <2>2. CASE c = b
    <3>1. tagged' /\ build[b].at = "building" /\ image' = build[b].reads
      BY <2>1, <2>2
    <3>2. c \in build[b].reads
      BY <1>1, <2>1, <3>1 DEF IInv, BuildsKeepUp
    <3> QED
      BY <3>1, <3>2
  <2>3. CASE c # b
    <3>1. c \notin Active
      BY <1>2, <2>3 DEF Active
    <3>2. tagged /\ c \in image
      BY <3>1 DEF IInv, ImageHasPackages
    <3> QED
      BY <1>7, <2>1, <3>2
  <2> QED
    BY <2>2, <2>3
<1> QED
  BY <1>2, <1>5, <1>6, <1>7, <1>8

LEMMA FailedOK ==
    ASSUME IInv, NEW b \in Builders, BuildFails(b) \/ BuiltUnseen(b)
    PROVE  IInv'
<1>0. BoxesOK /\ NotesOK /\ BudgetOK
  BY TypeParts DEF IInv
<1>1. /\ b \in Active /\ Ended(b) /\ dockerfile' = {} /\ Failed(b)
      /\ UNCHANGED <<config, running, notes, heard, misled, overlapped, early, removed, lost>>
      /\ image' = image \/ (build[b].at = "building" /\ image' = build[b].reads)
  BY DEF BuildFails, BuiltUnseen, Active
<1>2. BudgetOK'
  BY <1>0, BudgetStays DEF BuildFails, BuiltUnseen
<1>3. failed \subseteq failed' /\ failed' \subseteq Changes /\ (b \in Installs => b \in failed')
  BY <1>0, <1>1 DEF Failed, NotesOK, Changes
<1>4. tagged' \in BOOLEAN /\ tagged' = tagged
  BY <1>1, TypeParts DEF IInv, ImagesOK, config
<1>5. /\ ImagesOK' /\ ImageHasPackages' /\ BuildsKeepUp'
      /\ \A c \in Installs \ (overlapped \union removed): build[c].at # "idle" =>
             build'[c].at # "idle" /\ (c \in image => c \in image')
  BY <1>1, <1>3, <1>4, EndedOK DEF config
<1>6. dying' \in [Sessions -> {"no", "stop", "respawn"}] /\ notes' \in [Sessions -> SUBSET Changes]
  BY <1>0, <1>1 DEF BoxesOK, NotesOK, running
<1>7. /\ overlapped' \subseteq Changes /\ early' \subseteq Changes /\ removed' \subseteq Changes
      /\ lost' \subseteq Changes
  BY <1>0, <1>1 DEF NotesOK
<1> QED
  BY <1>1, <1>2, <1>3, <1>4, <1>5, <1>6, <1>7, BuildStepOK DEF config, running

\* A kill, and the note and the kill of an applied change.
LEMMA KilledOK ==
    ASSUME BoxesOK, NEW set, NEW on \in {"stop", "respawn"}, Killed(set, on)
    PROVE  dying' \in [Sessions -> {"no", "stop", "respawn"}]
  BY DEF Killed, BoxesOK

LEMMA TellOK ==
    ASSUME BoxesOK, NotesOK, NEW c \in Changes, Tell(c)
    PROVE  /\ dying' \in [Sessions -> {"no", "stop", "respawn"}]
           /\ notes' \in [Sessions -> SUBSET Changes]
           /\ early \subseteq early' /\ early' \subseteq Changes
           /\ \A s \in Sessions: notes'[s] \ notes[s] \subseteq {c}
           /\ \A s \in Sessions: \A x \in notes'[s] \ (notes[s] \union early'):
                  container[s] # "spawning" /\ ~(container[s] = "running" /\ fresh[s])
<1> DEFINE s == SessionOf[c]
<1>1. s \in Sessions
  BY SelfModAssumption
<1> HIDE DEF s
<1>2. /\ notes' = [notes EXCEPT ![s] = @ \union {c}] /\ Killed({s}, "respawn")
      /\ early' = IF container[s] = "spawning" \/ (container[s] = "running" /\ fresh[s])
                   THEN early \union {c} ELSE early
  BY DEF Tell, s
<1>3. dying' \in [Sessions -> {"no", "stop", "respawn"}]
  BY <1>2, KilledOK
<1>4. /\ notes' \in [Sessions -> SUBSET Changes]
      /\ notes'[s] \subseteq notes[s] \union {c}
      /\ \A t \in Sessions \ {s}: notes'[t] = notes[t]
  BY <1>1, <1>2 DEF NotesOK
<1>5. early \subseteq early' /\ early' \subseteq Changes
  BY <1>2 DEF NotesOK
<1>6. ASSUME NEW t \in Sessions, NEW x \in notes'[t] \ (notes[t] \union early')
      PROVE  container[t] # "spawning" /\ ~(container[t] = "running" /\ fresh[t])
  <2>1. t = s /\ x = c
    BY <1>4
  <2> QED
    BY <1>2, <2>1
<1> QED
  BY <1>3, <1>4, <1>5, <1>6

LEMMA BuiltOK ==
    ASSUME IInv, NEW b \in Builders, Built(b)
    PROVE  IInv'
<1>0. BoxesOK /\ NotesOK /\ BudgetOK
  BY TypeParts DEF IInv
<1>1. /\ b \in Active /\ Ended(b) /\ dockerfile' = {} /\ build[b].at = "building"
      /\ image' = build[b].reads /\ tagged' = TRUE /\ UNCHANGED <<packages, servers>>
      /\ UNCHANGED <<container, plan, json, has, fresh, heard, failed, misled, overlapped,
                     removed, lost, budget>>
  BY DEF Built, Active
<1>2. BudgetOK'
  BY <1>0, <1>1, BudgetStays
<1>3. /\ ImagesOK' /\ ImageHasPackages' /\ BuildsKeepUp' /\ build'[b].at = "over"
      /\ \A c \in Installs \ (overlapped \union removed): build[c].at # "idle" =>
             build'[c].at # "idle" /\ (c \in image => c \in image')
  BY <1>1, EndedOK
<1>4. /\ dying' \in [Sessions -> {"no", "stop", "respawn"}]
      /\ notes' \in [Sessions -> SUBSET Changes]
      /\ early \subseteq early' /\ early' \subseteq Changes
      /\ \A s \in Sessions: notes'[s] \ notes[s] \subseteq {b} \intersect Installs
      /\ \A s \in Sessions: \A x \in notes'[s] \ (notes[s] \union early'):
             container[s] # "spawning" /\ ~(container[s] = "running" /\ fresh[s])
  <2>1. CASE b \in Installs
    BY <1>0, <2>1, TellOK DEF Built, Changes
  <2>2. CASE b \notin Installs
    <3>1. PICK on \in {"stop", "respawn"}: Killed({SessionOf[b]}, on) /\ UNCHANGED <<notes, early>>
      BY <2>2 DEF Built
    <3>2. dying' \in [Sessions -> {"no", "stop", "respawn"}]
      BY <1>0, <3>1, KilledOK
    <3> QED
      BY <1>0, <3>1, <3>2 DEF NotesOK
  <2> QED
    BY <2>1, <2>2
<1>5. /\ overlapped' \subseteq Changes /\ removed' \subseteq Changes /\ failed' \subseteq Changes
      /\ lost' \subseteq Changes
  BY <1>0, <1>1 DEF NotesOK
<1>6. b \in Installs \ (overlapped \union removed) => b \in image'
  BY <1>1 DEF IInv, BuildsKeepUp
<1>7. ASSUME NEW s \in Sessions,
             NEW c \in notes'[s] \ (notes[s] \union overlapped' \union early' \union removed')
      PROVE  /\ c \in Installs => build'[c].at # "idle" /\ tagged' /\ c \in image'
             /\ c \in Servers => c \in servers'
             /\ container[s] # "spawning" /\ ~(container[s] = "running" /\ fresh[s])
  <2>1. c = b /\ c \in Installs
    BY <1>4
  <2>2. c \notin Servers
    BY <2>1, SelfModAssumption
  <2> QED
    BY <1>1, <1>3, <1>4, <1>6, <2>1, <2>2
<1>8. \A c \in Servers \ removed': c \in servers => c \in servers'
  BY <1>1
<1> QED
  BY <1>1, <1>2, <1>3, <1>4, <1>5, <1>7, <1>8, BuildStepOK
-----------------------------------------------------------------------------
(* The configuration alone, and the crash.                                   *)

LEMMA AddMcpServerOK ==
    ASSUME IInv, NEW c \in Servers, AddMcpServer(c)
    PROVE  IInv'
<1>0. BoxesOK /\ ImagesOK /\ NotesOK /\ BudgetOK
  BY TypeParts DEF IInv
<1>1. BudgetOK'
  BY <1>0, BudgetStays DEF AddMcpServer
<1>2. ImagesOK'
  BY <1>0, Zenon DEF AddMcpServer, ImagesOK, building
<1>3. /\ dying' \in [Sessions -> {"no", "stop", "respawn"}]
      /\ notes' \in [Sessions -> SUBSET Changes]
      /\ early \subseteq early' /\ early' \subseteq Changes
      /\ \A s \in Sessions: notes'[s] \ notes[s] \subseteq {c}
      /\ \A s \in Sessions: \A x \in notes'[s] \ (notes[s] \union early'):
             container[s] # "spawning" /\ ~(container[s] = "running" /\ fresh[s])
  BY <1>0, TellOK DEF AddMcpServer, Changes
<1>4. c \notin Installs /\ c \in servers' /\ servers \subseteq servers'
  BY SelfModAssumption DEF AddMcpServer
<1>5. ImageHasPackages' /\ BuildsKeepUp'
  BY DEF AddMcpServer, IInv, ImageHasPackages, BuildsKeepUp, Active, building
<1>6. /\ overlapped' \subseteq Changes /\ removed' \subseteq Changes /\ failed' \subseteq Changes
      /\ lost' \subseteq Changes
  BY <1>0 DEF AddMcpServer, NotesOK
<1>7. ASSUME NEW s \in Sessions, NEW x \in notes'[s] \ (notes[s] \union early')
      PROVE  x \notin Installs /\ x \in servers'
  BY <1>3, <1>4
<1> QED
  BY <1>1, <1>2, <1>3, <1>4, <1>5, <1>6, <1>7, BuildStepOK DEF AddMcpServer, building

LEMMA RemoveOK ==
    ASSUME IInv, NEW c \in Changes, Remove(c)
    PROVE  IInv'
<1>0. BoxesOK /\ ImagesOK /\ NotesOK /\ BudgetOK
  BY TypeParts DEF IInv
<1>1. BudgetOK'
  BY <1>0, BudgetStays DEF Remove
<1>2. packages' \subseteq Installs /\ servers' \subseteq Servers
  BY <1>0 DEF Remove, ImagesOK
<1>3. ImagesOK'
  BY <1>0, <1>2, Zenon DEF Remove, ImagesOK, building
<1>4. ImageHasPackages' /\ BuildsKeepUp'
  BY DEF Remove, IInv, ImageHasPackages, BuildsKeepUp, Active, building
<1>5. dying' \in [Sessions -> {"no", "stop", "respawn"}] /\ notes' \in [Sessions -> SUBSET Changes]
  BY <1>0 DEF Remove, BoxesOK, NotesOK, running
<1>6. /\ overlapped' \subseteq Changes /\ removed' \subseteq Changes /\ failed' \subseteq Changes
      /\ lost' \subseteq Changes /\ early' \subseteq Changes
  BY <1>0 DEF Remove, NotesOK
<1>7. \A x \in Servers \ removed': x \in servers => x \in servers'
  BY DEF Remove
<1> QED
  BY <1>1, <1>3, <1>4, <1>5, <1>6, <1>7, BuildStepOK DEF Remove, building, running

\* No container outlives the host, so that no note can mislead one; a build that
\* docker has finished may have left its image.
LEMMA HostCrashOK ==
    ASSUME IInv, HostCrash
    PROVE  IInv'
<1>0. BoxesOK /\ ImagesOK /\ NotesOK /\ BudgetOK
  BY TypeParts DEF IInv
<1>1. BudgetOK'
  BY <1>0, BudgetStays DEF HostCrash
<1>2. BoxesOK'
  BY <1>0 DEF HostCrash, BoxesOK
<1>3. /\ build' \in [Builders -> [at: {"idle", "written", "building", "over"}, reads: SUBSET Installs]]
      /\ \A b \in Builders: build'[b].at = IF b \in Active THEN "over" ELSE build[b].at
      /\ Active' = {}
  BY <1>0 DEF HostCrash, ImagesOK, Active
<1>4. image' = image \/ \E b \in Builders: build[b].at = "building" /\ image' = build[b].reads
  BY DEF HostCrash, Active
<1>5. image' \subseteq Installs
  BY <1>0, <1>4 DEF ImagesOK
<1>6. ImagesOK'
  BY <1>0, <1>3, <1>5, Zenon DEF HostCrash, ImagesOK, config
<1>7. NotesOK'
  BY <1>0 DEF HostCrash, NotesOK, Changes
<1>8. \A c \in Installs \ (overlapped \union removed):
         build[c].at # "idle" /\ c \in image => c \in image'
  BY <1>4 DEF IInv, BuildsKeepUp
<1>9. ToldIsInstalled'
  BY DEF HostCrash, IInv, ToldIsInstalled
<1>10. BuildsKeepUp'
  BY <1>0, <1>3 DEF HostCrash, IInv, BuildsKeepUp, config, ImagesOK, Builders, Active
<1>11. ImageHasPackages'
  <2> SUFFICES ASSUME NEW c \in packages \ (failed \union lost' \union overlapped \union removed)
               PROVE  tagged /\ c \in image'
    BY DEF HostCrash, ImageHasPackages, config
  <2>1. c \in Installs /\ build[c].at # "idle"
    BY <1>0 DEF IInv, BuildsKeepUp, ImagesOK
  <2>2. c \notin Active /\ c \notin lost
    BY <2>1 DEF HostCrash
  <2>3. tagged /\ c \in image
    BY <2>2 DEF IInv, ImageHasPackages
  <2> QED
    BY <1>8, <2>1, <2>3
<1>12. NotesAreTrue'
  <2> SUFFICES ASSUME NEW s \in Sessions, NEW c \in notes[s] \ (overlapped \union early \union removed)
               PROVE  /\ c \in Installs => build'[c].at # "idle" /\ tagged /\ c \in image'
                      /\ c \in Servers => c \in servers
    BY DEF HostCrash, NotesAreTrue, config
  <2>1. /\ c \in Installs => build[c].at # "idle" /\ tagged /\ c \in image
        /\ c \in Servers => c \in servers
    BY DEF IInv, NotesAreTrue
  <2> QED
    BY <1>3, <1>8, <2>1 DEF Builders
<1> QED
  BY <1>1, <1>2, <1>6, <1>7, <1>9, <1>10, <1>11, <1>12, TypePartsNext DEF IInv
-----------------------------------------------------------------------------
LEMMA NextOK == IInv /\ [Next]_vars => IInv'
<1> SUFFICES ASSUME IInv, [Next]_vars PROVE IInv'
  OBVIOUS
<1>1. CASE \E s \in Sessions: Wake(s) \/ SpawnFails(s) \/ Start(s) \/ FirstPoll(s) \/ Exit(s)
  BY <1>1, ContainersOK, FirstPollOK
<1>2. CASE (\E c \in Installs: Install(c)) \/ (\E b \in Rebuilds: Rebuild(b))
  BY <1>2, BegunOK
<1>3. CASE \E b \in Builders: DockerReads(b) \/ BuildFails(b) \/ BuiltUnseen(b) \/ Built(b)
  BY <1>3, DockerReadsOK, FailedOK, BuiltOK
<1>4. CASE \E c \in Servers: AddMcpServer(c)
  BY <1>4, AddMcpServerOK
<1>5. CASE \E c \in Changes: Remove(c)
  BY <1>5, RemoveOK
<1>6. CASE \E set \in {Sessions} \union {{s}: s \in Sessions}: Restart(set)
  BY <1>6, RestartOK
<1>7. CASE HostCrash
  BY <1>7, HostCrashOK
<1>8. CASE UNCHANGED vars
  BY <1>8 DEF vars, IInv, TypeOK, ToldIsInstalled, ImageHasPackages, BuildsKeepUp, NotesAreTrue,
       Active
<1> QED
  BY <1>1, <1>2, <1>3, <1>4, <1>5, <1>6, <1>7, <1>8 DEF Next

(* An agent that is told that its change is in place has it, and every       *)
(* configured package is in the image in use, but for the named exceptions.  *)
THEOREM SelfModInvariance == Spec => []IInv
<1>1. Init => IInv
  BY InitOK
<1>2. IInv /\ [Next]_vars => IInv'
  BY NextOK
<1> QED
  BY <1>1, <1>2, PTL DEF Spec

(* In particular no container misleads its agent (ToldIsInstalled).          *)
THEOREM TellsTheTruth == Spec => []ToldIsInstalled
<1>1. IInv => ToldIsInstalled
  BY DEF IInv
<1> QED
  BY <1>1, SelfModInvariance, PTL

-----------------------------------------------------------------------------
(* The pairing of a Telegram chat                                          *)

\* A record as drawn.
LEMMA InvalidatedIs ==
    ASSUME NEW records \in Seq(Record)
    PROVE  /\ Invalidated(records) \in Seq(Record)
           /\ Len(Invalidated(records)) = Len(records)
           /\ DOMAIN Invalidated(records) = DOMAIN records
           /\ \A i \in DOMAIN records :
                /\ Invalidated(records)[i].code = records[i].code
                /\ Invalidated(records)[i].chat = records[i].chat
                /\ Invalidated(records)[i].status # "pending"
                /\ Invalidated(records)[i].status = "consumed" => records[i].status = "consumed"
  <1> DEFINE void(r) == [r EXCEPT !.status = "invalidated"]
  <1>1. \A r \in Record : /\ void(r) \in Record /\ void(r).status = "invalidated"
                          /\ void(r).code = r.code /\ void(r).chat = r.chat
    BY DEF Record
  <1>2. /\ Len(records) \in Nat /\ DOMAIN records = 1..Len(records)
        /\ \A i \in DOMAIN records : records[i] \in Record
    BY LenProperties
  <1>3. /\ DOMAIN Invalidated(records) = DOMAIN records
        /\ \A i \in DOMAIN records :
             Invalidated(records)[i] = IF records[i].status = "pending" THEN void(records[i]) ELSE records[i]
    BY DEF Invalidated
  <1> HIDE DEF void
  <1>4. \A i \in DOMAIN records : Invalidated(records)[i] \in Record
    BY <1>1, <1>2, <1>3
  <1>5. Invalidated(records) \in [1..Len(records) -> Record]
    BY <1>2, <1>4 DEF Invalidated
  <1>6. Invalidated(records) \in Seq(Record) /\ Len(Invalidated(records)) = Len(records)
    BY <1>2, <1>5
  <1> QED
    BY <1>1, <1>2, <1>3, <1>6

LEMMA NonePending ==
    ASSUME NEW records \in Seq(Record)
    PROVE  Pending(Invalidated(records)) = {}
  BY InvalidatedIs DEF Pending

\* Writing records back keeps them vouched for.
LEMMA InvalidatedVouched ==
    ASSUME NEW records \in Seq(Record), Vouched(records)
    PROVE  Vouched(Invalidated(records)) /\ Single(Invalidated(records))
  BY InvalidatedIs, NonePending DEF Vouched, Single

\* A code is drawn.
LEMMA Draws ==
    ASSUME PairingInv, NEW code \in Codes, CreatePairing(code), regens' \in 0..MaxRegenerations
    PROVE  PairingInv'
  <1> DEFINE rest == Invalidated(store)
             new == [code |-> code, status |-> "pending", chat |-> NoChat]
  <1> USE DEF PairingInv
  <1>1. store \in Seq(Record) /\ new \in Record
    BY DEF PairingTypeOK, Record
  <1>2. /\ rest \in Seq(Record) /\ Len(rest) = Len(store) /\ DOMAIN rest = DOMAIN store
        /\ \A i \in DOMAIN store :
             /\ rest[i].code = store[i].code /\ rest[i].status # "pending"
    BY <1>1, InvalidatedIs
  <1>3. store' = Append(rest, new)
    BY DEF CreatePairing
  <1> HIDE DEF rest, new
  <1>4. /\ store' \in Seq(Record) /\ Len(store') = Len(rest) + 1
        /\ \A i \in 1..Len(rest) : store'[i] = rest[i]
        /\ store'[Len(rest) + 1] = new
        /\ DOMAIN store' = 1..(Len(rest) + 1) /\ DOMAIN rest = 1..Len(rest)
    BY <1>1, <1>2, <1>3, AppendProperties
  <1>5. PairingTypeOK'
    BY <1>4 DEF PairingTypeOK, CreatePairing
  <1>6. OneCode'
    <2>1. Single(store')
      BY <1>2, <1>4 DEF Single, Pending
    <2> QED
      BY <2>1 DEF OneCode, CreatePairing
  <1>7. RecordsAreVouched'
    <2>1. ASSUME ~again', NEW i \in DOMAIN store', store'[i].code = code
          PROVE  i = Len(rest) + 1
      <3>1. code \notin Known
        BY <2>1 DEF CreatePairing
      <3> QED
        BY <2>1, <3>1, <1>2, <1>4 DEF Known
    <2>2. ASSUME ~again', NEW p \in peek, NEW i \in DOMAIN p.store
          PROVE  p.store[i].code # code
      <3>1. code \notin Known
        BY <2>2 DEF CreatePairing
      <3> QED
        BY <2>2, <3>1 DEF Known
    <2>3. new.status = "pending"
      BY DEF new
    <2>4. shown' = {code} /\ peek' = peek
      BY DEF CreatePairing
    <2>5. Vouched(store)'
      BY <2>1, <2>3, <2>4, <1>4 DEF Vouched
    <2>6. ASSUME NEW p \in peek
          PROVE  /\ Vouched(p.store)'
                 /\ p.text \in shown' /\ (\E i \in DOMAIN p.store : p.store[i].code = p.text)
                      => p.chat \in rightful' \/ again'
      BY <2>2, <2>4, <2>6 DEF Vouched
    <2> QED
      BY <2>4, <2>5, <2>6 DEF RecordsAreVouched
  <1>8. PairedIsAsker'
    BY <1>7 DEF PairedIsAsker, Consumed, Found, RecordsAreVouched, Vouched
  <1> QED
    BY <1>5, <1>6, <1>7, <1>8

LEMMA PairingStarts == ASSUME PairingInit PROVE PairingInv
  <1>1. store = <<>> /\ DOMAIN store = {} /\ shown = {} /\ peek = {}
    BY DEF PairingInit
  <1> QED
    <2>1. PairingTypeOK
      <3>1. store \in Seq(Record)
        BY <1>1, EmptySeq
      <3>2. regens \in 0..MaxRegenerations
        BY PairingAssumption DEF PairingInit
      <3>3. again \in BOOLEAN
        BY DEF PairingInit
      <3>4. peek \subseteq [store : Seq(Record), text : Codes, chat : Chats]
        BY <1>1
      <3>5. owner \in Chats \cup {NoChat} /\ rightful = {} /\ registered = {}
        BY DEF PairingInit
      <3> QED
        BY <1>1, <3>1, <3>2, <3>3, <3>4, <3>5 DEF PairingTypeOK
    <2>2. OneCode /\ RecordsAreVouched
      BY <1>1 DEF OneCode, Single, Pending, RecordsAreVouched, Vouched
    <2>3. PairedIsAsker
      BY <1>1 DEF PairedIsAsker
    <2> QED
      BY <2>1, <2>2, <2>3 DEF PairingInv

LEMMA PairingEnds == ASSUME PairingInv, EndPairing PROVE PairingInv'
  <1>1. shown' = {} /\ rightful' = {} /\ again' = FALSE /\ regens' = 0
        /\ UNCHANGED <<store, peek, registered, owner>>
    BY DEF EndPairing
  <1>2. PairingTypeOK'
    <2>1. regens' \in 0..MaxRegenerations
      BY <1>1, PairingAssumption
    <2> QED
      BY <1>1, <2>1 DEF PairingInv, PairingTypeOK
  <1>3. OneCode'
    BY <1>1 DEF PairingInv, OneCode, Single, Pending
  <1>4. RecordsAreVouched' /\ PairedIsAsker'
    BY <1>1 DEF RecordsAreVouched, Vouched, PairedIsAsker
  <1> QED
    BY <1>2, <1>3, <1>4 DEF PairingInv

\* The service reads the file.
LEMMA Intercepts ==
    ASSUME PairingInv, NEW text \in Codes, NEW chat \in Chats, Intercept(text, chat)
    PROVE  PairingInv'
  <1> USE DEF PairingInv
  <1> DEFINE read == [store |-> store, text |-> text, chat |-> chat]
  <1>1. peek' = {read} /\ rightful \subseteq rightful' /\ (text \in shown => chat \in rightful')
    BY DEF Intercept
  <1>2. read.store = store /\ read.text = text /\ read.chat = chat
    OBVIOUS
  <1>3. read \in [store : Seq(Record), text : Codes, chat : Chats]
    BY DEF PairingTypeOK
  <1> HIDE DEF read
  <1>4. PairingTypeOK'
    BY <1>1, <1>3 DEF PairingTypeOK, Intercept
  <1>5. OneCode'
    BY <1>1, <1>2 DEF OneCode, Intercept
  <1>6. RecordsAreVouched'
    <2>1. UNCHANGED <<store, shown, again>>
      BY DEF Intercept
    <2>2. Vouched(store)'
      BY <1>1, <2>1 DEF RecordsAreVouched, Vouched
    <2> QED
      BY <1>1, <1>2, <2>1, <2>2 DEF RecordsAreVouched, Vouched
  <1>7. PairedIsAsker'
    BY <1>6 DEF PairedIsAsker, Consumed, Found, RecordsAreVouched, Vouched
  <1> QED
    BY <1>4, <1>5, <1>6, <1>7

\* It writes the file back.
LEMMA Consumes == ASSUME PairingInv, TryConsume PROVE PairingInv'
  <1> USE DEF PairingInv
  <1>1. PICK p \in peek : TryConsume!(p)
    BY DEF TryConsume
  <1>2. /\ p.store \in Seq(Record) /\ p.text \in Codes /\ p.chat \in Chats
        /\ Vouched(p.store) /\ Single(p.store)
        /\ DOMAIN p.store = 1..Len(p.store) /\ Len(p.store) \in Nat
    BY DEF PairingTypeOK, RecordsAreVouched, OneCode
  <1>3. peek' = {} /\ UNCHANGED <<shown, regens, rightful, again>>
    BY <1>1
  <1>4. /\ store' \in Seq(Record) /\ Single(store') /\ Vouched(store')
        /\ registered' \subseteq Chats /\ owner' \in Chats \cup {NoChat}
    <2>1. CASE Matching(p) = {}
      BY <1>1, <1>2, <2>1, InvalidatedVouched, InvalidatedIs DEF PairingTypeOK
    <2>2. CASE Matching(p) # {}
      <3> DEFINE i == CHOOSE j \in Matching(p) : \A l \in Matching(p) : j <= l
      <3>1. \A j, l \in Matching(p) : j = l
        BY <1>2 DEF Matching, Single
      <3>2. Matching(p) \subseteq Nat
        BY <1>2 DEF Matching, Pending
      <3>3. i \in Matching(p)
        BY <2>2, <3>1, <3>2
      <3>4. /\ store' = [p.store EXCEPT ![i].status = "consumed", ![i].chat = p.chat]
            /\ registered' = registered \cup {p.chat}
            /\ owner' = IF owner = NoChat THEN p.chat ELSE owner
        BY <1>1, <2>2
      <3> HIDE DEF i
      <3>5. i \in DOMAIN p.store /\ p.store[i].code = p.text /\ p.store[i].status = "pending"
        BY <3>3 DEF Matching, Pending
      <3>6. p.store[i] \in Record
        BY <1>2, <3>5
      <3> DEFINE done == [p.store[i] EXCEPT !.status = "consumed", !.chat = p.chat]
      <3>8. store' = [p.store EXCEPT ![i] = done]
        BY <3>4, <3>5, <1>2
      <3>9. done \in Record /\ done.code = p.text /\ done.status = "consumed" /\ done.chat = p.chat
        BY <1>2, <3>5, <3>6 DEF Record
      <3> HIDE DEF done
      <3>10. /\ store' \in Seq(Record) /\ DOMAIN store' = DOMAIN p.store
             /\ \A j \in DOMAIN store' : store'[j] = IF j = i THEN done ELSE p.store[j]
        BY <1>2, <3>5, <3>8, <3>9, ExceptSeq
      <3>11. Single(store')
        BY <1>2, <3>9, <3>10 DEF Single, Pending
      <3>12. p.text \in shown => p.chat \in rightful \/ again
        BY <3>5 DEF RecordsAreVouched
      <3>13. Vouched(store')
        BY <1>2, <3>9, <3>10, <3>12 DEF Vouched
      <3> QED
        BY <1>2, <3>4, <3>10, <3>11, <3>13 DEF PairingTypeOK
    <2> QED
      BY <2>1, <2>2
  <1>5. PairingTypeOK'
    BY <1>3, <1>4 DEF PairingTypeOK
  <1>6. OneCode' /\ RecordsAreVouched'
    BY <1>3, <1>4 DEF OneCode, Single, RecordsAreVouched, Vouched
  <1>7. PairedIsAsker'
    BY <1>6 DEF PairedIsAsker, Consumed, Found, RecordsAreVouched, Vouched
  <1> QED
    BY <1>5, <1>6, <1>7

LEMMA PairingRests == ASSUME PairingInv, UNCHANGED pairingVars PROVE PairingInv'
  BY DEF PairingInv, pairingVars, PairingTypeOK, OneCode, Single, RecordsAreVouched, Vouched,
         PairedIsAsker, Consumed, Found, Pending

-----------------------------------------------------------------------------
(* The flows of the channels, as sequences of stages                       *)

\* A sequence of stages that uses the values of from and collects those of to.
Takes(stages, from, to) ==
    /\ stages \in Seq(Stages)
    /\ OrderedFrom(stages, from)
    /\ to \subseteq Collected(stages)

Provides(c, stages) == \E i \in DOMAIN stages : stages[i].does = Provider(c)

LEMMA Then ==
    ASSUME NEW a, NEW b, NEW F, NEW G, NEW N, NEW H, NEW K,
           Takes(a, F, G), Takes(b, N, H), N \subseteq F \cup G, K \subseteq G \cup H
    PROVE  Takes(a \o b, F, K)
  <1> DEFINE c == a \o b
  <1>1. /\ a \in Seq(Stages) /\ Len(a) \in Nat /\ DOMAIN a = 1..Len(a)
        /\ b \in Seq(Stages) /\ Len(b) \in Nat /\ DOMAIN b = 1..Len(b)
    BY DEF Takes
  <1>2. /\ c \in Seq(Stages) /\ Len(c) = Len(a) + Len(b) /\ DOMAIN c = 1..Len(c)
        /\ \A i \in 1..(Len(a) + Len(b)) : c[i] = IF i <= Len(a) THEN a[i] ELSE b[i - Len(a)]
    BY <1>1, ConcatProperties
  <1> HIDE DEF c
  <1>3. /\ \A i \in 1..Len(a) : i \in DOMAIN c /\ c[i] = a[i]
        /\ \A i \in 1..Len(b) : Len(a) + i \in DOMAIN c /\ c[Len(a) + i] = b[i]
    <2>1. ASSUME NEW i \in 1..Len(a) PROVE i \in DOMAIN c /\ c[i] = a[i]
      BY <1>1, <1>2
    <2>2. ASSUME NEW i \in 1..Len(b) PROVE Len(a) + i \in DOMAIN c /\ c[Len(a) + i] = b[i]
      <3>1. /\ i \in Nat /\ Len(a) + i \in 1..(Len(a) + Len(b)) /\ ~(Len(a) + i <= Len(a))
            /\ Len(a) + i - Len(a) = i
        BY <1>1
      <3> QED
        BY <1>2, <3>1
    <2> QED
      BY <2>1, <2>2
  <1>4. Collected(a) \subseteq Collected(c)
    <2>1. ASSUME NEW i \in DOMAIN a PROVE a[i].gives \subseteq Collected(c)
      BY <1>1, <1>3, <2>1 DEF Collected
    <2> QED
      BY <2>1 DEF Collected
  <1>5. Collected(b) \subseteq Collected(c)
    <2>1. ASSUME NEW i \in DOMAIN b PROVE b[i].gives \subseteq Collected(c)
      BY <1>1, <1>3, <2>1 DEF Collected
    <2> QED
      BY <2>1 DEF Collected
  <1>6. ASSUME NEW i \in DOMAIN c
        PROVE  c[i].needs \subseteq F \cup UNION {c[j].gives : j \in 1..(i - 1)}
    <2>1. CASE i <= Len(a)
      <3>1. c[i] = a[i] /\ i \in DOMAIN a
        BY <1>1, <1>2, <2>1
      <3>2. a[i].needs \subseteq F \cup UNION {a[j].gives : j \in 1..(i - 1)}
        BY <3>1 DEF Takes, OrderedFrom
      <3>3. \A j \in 1..(i - 1) : c[j] = a[j]
        BY <1>1, <1>2, <2>1, <1>3
      <3> QED
        BY <3>1, <3>2, <3>3
    <2>2. CASE i > Len(a)
      <3> DEFINE k == i - Len(a)
      <3>1. c[i] = b[k] /\ k \in DOMAIN b /\ k \in 1..Len(b) /\ i \in Nat
        BY <1>1, <1>2, <2>2
      <3>2. b[k].needs \subseteq N \cup UNION {b[j].gives : j \in 1..(k - 1)}
        BY <3>1 DEF Takes, OrderedFrom
      <3>3. ASSUME NEW j \in 1..(k - 1)
            PROVE  b[j].gives \subseteq UNION {c[l].gives : l \in 1..(i - 1)}
        <4>1. Len(a) + j \in 1..(i - 1) /\ c[Len(a) + j] = b[j]
          BY <1>1, <1>3, <3>1
        <4> QED
          BY <4>1
      <3>4. G \subseteq UNION {c[l].gives : l \in 1..(i - 1)}
        <4>1. ASSUME NEW j \in DOMAIN a
              PROVE  a[j].gives \subseteq UNION {c[l].gives : l \in 1..(i - 1)}
          <5>1. j \in 1..(i - 1) /\ c[j] = a[j]
            BY <1>1, <1>2, <1>3, <2>2
          <5> QED
            BY <5>1
        <4> QED
          BY <4>1 DEF Takes, Collected
      <3> QED
        BY <3>1, <3>2, <3>3, <3>4
    <2> QED
      BY <1>1, <1>2, <2>1, <2>2
  <1> QED
    BY <1>2, <1>4, <1>5, <1>6 DEF Takes, OrderedFrom, c

\* What else the end of a flow has from its parts.
LEMMA Extends ==
    ASSUME NEW c, NEW a, NEW b, a \in Seq(Stages), b \in Seq(Stages)
    PROVE  /\ Provides(c, a) \/ Provides(c, b) => Provides(c, a \o b)
           /\ Refreshing(c, a, FALSE) /\ ~Altering(b) => Refreshing(c, a \o b, FALSE)
           /\ Refreshing(c, b, FALSE) => Refreshing(c, a \o b, FALSE)
           /\ Refreshing(c, b, TRUE) /\ Provides(c, a) => Refreshing(c, a \o b, FALSE)
           /\ Wiring(b) => Wiring(a \o b)
  <1> DEFINE s == a \o b
  <1>1. /\ Len(a) \in Nat /\ DOMAIN a = 1..Len(a) /\ Len(b) \in Nat /\ DOMAIN b = 1..Len(b)
    OBVIOUS
  <1>2. /\ s \in Seq(Stages) /\ Len(s) = Len(a) + Len(b) /\ DOMAIN s = 1..Len(s)
        /\ \A i \in 1..(Len(a) + Len(b)) : s[i] = IF i <= Len(a) THEN a[i] ELSE b[i - Len(a)]
    BY <1>1, ConcatProperties
  <1> HIDE DEF s
  <1>3. /\ \A i \in 1..Len(a) : i \in DOMAIN s /\ s[i] = a[i]
        /\ \A i \in 1..Len(b) : Len(a) + i \in DOMAIN s /\ s[Len(a) + i] = b[i]
        /\ \A k \in DOMAIN s : k > Len(a) => k - Len(a) \in DOMAIN b /\ s[k] = b[k - Len(a)]
    <2>1. ASSUME NEW i \in 1..Len(a) PROVE i \in DOMAIN s /\ s[i] = a[i]
      BY <1>1, <1>2
    <2>2. ASSUME NEW i \in 1..Len(b) PROVE Len(a) + i \in DOMAIN s /\ s[Len(a) + i] = b[i]
      <3>1. /\ i \in Nat /\ Len(a) + i \in 1..(Len(a) + Len(b)) /\ ~(Len(a) + i <= Len(a))
            /\ Len(a) + i - Len(a) = i
        BY <1>1
      <3> QED
        BY <1>2, <3>1
    <2>3. ASSUME NEW k \in DOMAIN s, k > Len(a) PROVE k - Len(a) \in DOMAIN b /\ s[k] = b[k - Len(a)]
      <3>1. /\ k \in Nat /\ k - Len(a) \in 1..Len(b) /\ ~(k <= Len(a))
            /\ k \in 1..(Len(a) + Len(b))
        BY <1>1, <1>2, <2>3
      <3> QED
        BY <1>1, <1>2, <3>1
    <2> QED
      BY <2>1, <2>2, <2>3
  <1>4. Provides(c, a) \/ Provides(c, b) => Provides(c, s)
    <2>1. ASSUME NEW i \in DOMAIN a, a[i].does = Provider(c) PROVE Provides(c, s)
      BY <1>1, <1>3, <2>1 DEF Provides
    <2>2. ASSUME NEW i \in DOMAIN b, b[i].does = Provider(c) PROVE Provides(c, s)
      BY <1>1, <1>3, <2>2 DEF Provides
    <2> QED
      BY <2>1, <2>2 DEF Provides
  <1>5. Wiring(b) => Wiring(s)
    BY <1>1, <1>3 DEF Wiring
  <1>6. ASSUME Refreshing(c, a, FALSE), ~Altering(b) PROVE Refreshing(c, s, FALSE)
    <2>1. PICK i \in DOMAIN a :
            /\ Refresher(c, a[i])
            /\ \A k \in DOMAIN a : k > i => ~Alters(a[k])
            /\ a[i].does = "install" \/ \E j \in 1..(i - 1) : a[j].does = Provider(c)
      BY <1>6 DEF Refreshing
    <2>2. i \in DOMAIN s /\ s[i] = a[i]
      BY <1>1, <1>3
    <2>3. ASSUME NEW k \in DOMAIN s, k > i PROVE ~Alters(s[k])
      BY <1>1, <1>2, <1>3, <1>6, <2>1, <2>3 DEF Altering
    <2>4. \A j \in 1..(i - 1) : s[j] = a[j]
      BY <1>1, <1>3
    <2> QED
      BY <2>1, <2>2, <2>3, <2>4 DEF Refreshing
  <1>7. ASSUME NEW provided \in BOOLEAN, Refreshing(c, b, provided), provided => Provides(c, a)
        PROVE  Refreshing(c, s, FALSE)
    <2>1. PICK i \in DOMAIN b :
            /\ Refresher(c, b[i])
            /\ \A k \in DOMAIN b : k > i => ~Alters(b[k])
            /\ \/ b[i].does = "install" \/ provided
               \/ \E j \in 1..(i - 1) : b[j].does = Provider(c)
      BY <1>7 DEF Refreshing
    <2> DEFINE n == Len(a) + i
    <2>2. n \in DOMAIN s /\ s[n] = b[i] /\ i \in 1..Len(b) /\ n \in Nat
      BY <1>1, <1>2, <1>3
    <2>3. ASSUME NEW k \in DOMAIN s, k > n PROVE ~Alters(s[k])
      <3>1. k > Len(a) /\ k - Len(a) > i
        BY <1>1, <1>2, <2>3
      <3> QED
        BY <1>3, <2>1, <3>1
    <2>4. CASE b[i].does = "install"
      BY <2>1, <2>2, <2>3, <2>4 DEF Refreshing
    <2>5. CASE provided
      <3>1. PICK j \in DOMAIN a : a[j].does = Provider(c)
        BY <1>7, <2>5 DEF Provides
      <3>2. j \in 1..(n - 1) /\ s[j] = a[j]
        BY <1>1, <1>3, <2>2
      <3> QED
        BY <2>1, <2>2, <2>3, <3>1, <3>2 DEF Refreshing
    <2>6. ASSUME NEW j \in 1..(i - 1), b[j].does = Provider(c) PROVE Refreshing(c, s, FALSE)
      <3>1. j \in 1..Len(b) /\ Len(a) + j \in 1..(n - 1)
        BY <1>1, <2>2
      <3>2. s[Len(a) + j] = b[j]
        BY <1>3, <3>1
      <3> QED
        BY <2>1, <2>2, <2>3, <2>6, <3>1, <3>2 DEF Refreshing
    <2> QED
      BY <2>1, <2>4, <2>5, <2>6
  <1> QED
    BY <1>4, <1>5, <1>6, <1>7 DEF s

\* A single stage, and what the constructors of stages build.
LEMMA One ==
    ASSUME NEW stage \in Stages
    PROVE  /\ Takes(<<stage>>, stage.needs, stage.gives)
           /\ Altering(<<stage>>) <=> Alters(stage)
           /\ Wiring(<<stage>>) <=> stage.does = "init"
           /\ \A c : Provides(c, <<stage>>) <=> stage.does = Provider(c)
           /\ \A c : Refreshing(c, <<stage>>, TRUE) <=> Refresher(c, stage)
           /\ \A c : Refreshing(c, <<stage>>, FALSE) <=> Refresher(c, stage) /\ stage.does = "install"
  <1> DEFINE s == <<stage>>
  <1>1. s \in Seq(Stages) /\ Len(s) = 1 /\ DOMAIN s = {1} /\ s[1] = stage
    OBVIOUS
  <1> HIDE DEF s
  <1>2. Takes(s, stage.needs, stage.gives)
    BY <1>1 DEF Takes, OrderedFrom, Collected
  <1>3. ASSUME NEW c, NEW provided \in BOOLEAN
        PROVE  Refreshing(c, s, provided) <=> Refresher(c, stage) /\ (stage.does = "install" \/ provided)
    <2>1. ~ \E j \in 1..(1 - 1) : s[j].does = Provider(c)
      OBVIOUS
    <2>2. \A k \in DOMAIN s : ~(k > 1)
      BY <1>1
    <2> QED
      BY <1>1, <2>1, <2>2 DEF Refreshing
  <1> QED
    BY <1>1, <1>2, <1>3 DEF Altering, Wiring, Provides, s

\* What a sequence of stages does, apart from the values.
LEMMA SingleStage ==
    ASSUME NEW step \in Names, NEW does \in Kinds, NEW needs \in SUBSET Values, NEW gives \in SUBSET Values
    PROVE  /\ Takes(<<Stage(step, does, needs, gives)>>, needs, gives)
           /\ does \notin {"settings", "install"} => ~Altering(<<Stage(step, does, needs, gives)>>)
           /\ does = "init" => Wiring(<<Stage(step, does, needs, gives)>>)
           /\ \A c : /\ does = Provider(c) => Provides(c, <<Stage(step, does, needs, gives)>>)
                     /\ does = "install" /\ Runs(c, "restart") /\ Runs(c, "env")
                          => Refreshing(c, <<Stage(step, does, needs, gives)>>, FALSE)
                     /\ does = "restart" => Refreshing(c, <<Stage(step, does, needs, gives)>>, TRUE)
  <1> DEFINE stage == Stage(step, does, needs, gives)
  <1>1. stage \in Stages /\ stage.needs = needs /\ stage.gives = gives /\ stage.does = does
    BY DEF Stage, Stages
  <1> HIDE DEF stage
  <1>2. /\ Takes(<<stage>>, needs, gives)
        /\ Altering(<<stage>>) <=> does \in {"settings", "install"}
        /\ Wiring(<<stage>>) <=> does = "init"
    BY <1>1, One DEF Alters
  <1>3. ASSUME NEW c
        PROVE  /\ does = Provider(c) => Provides(c, <<stage>>)
               /\ does = "install" /\ Runs(c, "restart") /\ Runs(c, "env") => Refreshing(c, <<stage>>, FALSE)
               /\ does = "restart" => Refreshing(c, <<stage>>, TRUE)
    <2>1. /\ Provides(c, <<stage>>) <=> stage.does = Provider(c)
          /\ Refreshing(c, <<stage>>, TRUE) <=> Refresher(c, stage)
          /\ Refreshing(c, <<stage>>, FALSE) <=> Refresher(c, stage) /\ stage.does = "install"
      BY <1>1, One
    <2> QED
      BY <1>1, <2>1 DEF Refresher
  <1> QED
    BY <1>2, <1>3 DEF stage

\* Traits of a stage that its values and its deed do not depend on.
LEMMA Same ==
    ASSUME NEW a, NEW b, a \in Seq(Stages), b \in Seq(Stages), Len(a) = Len(b),
           \A i \in DOMAIN a : a[i].needs = b[i].needs /\ a[i].gives = b[i].gives /\ a[i].does = b[i].does
    PROVE  /\ \A F, G : Takes(a, F, G) => Takes(b, F, G)
           /\ Altering(b) => Altering(a)
           /\ Wiring(a) => Wiring(b)
           /\ \A c : Provides(c, a) => Provides(c, b)
           /\ \A c : Refreshing(c, a, FALSE) => Refreshing(c, b, FALSE)
  <1>1. DOMAIN a = DOMAIN b /\ DOMAIN a = 1..Len(a)
    OBVIOUS
  <1>2. ASSUME NEW F, NEW G, Takes(a, F, G) PROVE Takes(b, F, G)
    <2>1. Collected(a) = Collected(b)
      BY <1>1 DEF Collected
    <2>2. ASSUME NEW i \in DOMAIN a
          PROVE  UNION {a[j].gives : j \in 1..(i - 1)} = UNION {b[j].gives : j \in 1..(i - 1)}
      <3>1. \A j \in 1..(i - 1) : a[j].gives = b[j].gives
        BY <1>1
      <3> QED
        BY <3>1
    <2> QED
      BY <1>1, <1>2, <2>1, <2>2 DEF Takes, OrderedFrom
  <1>3. (Altering(b) => Altering(a)) /\ (Wiring(a) => Wiring(b))
    BY <1>1 DEF Altering, Alters, Wiring
  <1>4. \A c : Provides(c, a) => Provides(c, b)
    BY <1>1 DEF Provides
  <1>5. ASSUME NEW c, Refreshing(c, a, FALSE) PROVE Refreshing(c, b, FALSE)
    <2>1. PICK i \in DOMAIN a :
            /\ Refresher(c, a[i])
            /\ \A k \in DOMAIN a : k > i => ~Alters(a[k])
            /\ a[i].does = "install" \/ \E j \in 1..(i - 1) : a[j].does = Provider(c)
      BY <1>5 DEF Refreshing
    <2>2. \A j \in 1..(i - 1) : a[j].does = b[j].does
      BY <1>1
    <2> QED
      BY <1>1, <2>1, <2>2 DEF Refreshing, Refresher, Alters
  <1> QED
    BY <1>2, <1>3, <1>4, <1>5

LEMMA UnawaitedSame ==
    ASSUME NEW a \in Seq(Stages)
    PROVE  /\ \A F, G : Takes(a, F, G) => Takes(Unawaited(a), F, G)
           /\ Altering(Unawaited(a)) => Altering(a)
           /\ Wiring(a) => Wiring(Unawaited(a))
           /\ \A c : Provides(c, a) => Provides(c, Unawaited(a))
           /\ \A c : Refreshing(c, a, FALSE) => Refreshing(c, Unawaited(a), FALSE)
  <1> DEFINE u(stage) == [stage EXCEPT !.awaited = FALSE]
  <1>1. \A stage \in Stages : /\ u(stage) \in Stages /\ u(stage).needs = stage.needs
                              /\ u(stage).gives = stage.gives /\ u(stage).does = stage.does
    BY DEF Stages
  <1>2. /\ Len(a) \in Nat /\ DOMAIN a = 1..Len(a)
        /\ \A i \in DOMAIN a : a[i] \in Stages
    OBVIOUS
  <1>3. DOMAIN Unawaited(a) = DOMAIN a /\ \A i \in DOMAIN a : Unawaited(a)[i] = u(a[i])
    BY DEF Unawaited
  <1> HIDE DEF u
  <1>4. Unawaited(a) \in [1..Len(a) -> Stages]
    BY <1>1, <1>2, <1>3 DEF Unawaited
  <1>5. Unawaited(a) \in Seq(Stages) /\ Len(Unawaited(a)) = Len(a)
    BY <1>2, <1>4
  <1> QED
    BY <1>1, <1>2, <1>3, <1>5, Same

LEMMA StrictSame ==
    ASSUME NEW a \in Seq(Stages)
    PROVE  /\ \A F, G : Takes(a, F, G) => Takes(Strict(a), F, G)
           /\ Altering(Strict(a)) => Altering(a)
  <1> DEFINE u(stage) == [stage EXCEPT !.strict = TRUE]
  <1>1. \A stage \in Stages : /\ u(stage) \in Stages /\ u(stage).needs = stage.needs
                              /\ u(stage).gives = stage.gives /\ u(stage).does = stage.does
    BY DEF Stages
  <1>2. /\ Len(a) \in Nat /\ DOMAIN a = 1..Len(a)
        /\ \A i \in DOMAIN a : a[i] \in Stages
    OBVIOUS
  <1>3. DOMAIN Strict(a) = DOMAIN a /\ \A i \in DOMAIN a : Strict(a)[i] = u(a[i])
    BY DEF Strict
  <1> HIDE DEF u
  <1>4. Strict(a) \in [1..Len(a) -> Stages]
    BY <1>1, <1>2, <1>3 DEF Strict
  <1>5. Strict(a) \in Seq(Stages) /\ Len(Strict(a)) = Len(a)
    BY <1>2, <1>4
  <1> QED
    BY <1>1, <1>2, <1>3, <1>5, Same

\* A piece of a flow that changes nothing the service must read.
Quiet(stages, from, to) == Takes(stages, from, to) /\ ~Altering(stages)

LEMMA Asks ==
    ASSUME NEW gives \in SUBSET Values
    PROVE  Quiet(Ask(gives), {}, gives) /\ Quiet(AskOrBack(gives), {}, gives)
  <1>1. Quiet(Ask(gives), {}, gives)
    BY ZenonT(60), SingleStage DEF Ask, Quiet, Kinds, Names
  <1>2. Quiet(AskOrBack(gives), {}, gives)
    <2> DEFINE stage == [Stage("prompt", "ask", {}, gives) EXCEPT !.back = TRUE]
    <2>1. stage \in Stages /\ stage.needs = {} /\ stage.gives = gives /\ stage.does = "ask"
      BY DEF Stage, Stages, Kinds, Names
    <2> HIDE DEF stage
    <2>2. Takes(<<stage>>, {}, gives) /\ ~Altering(<<stage>>)
      BY <2>1, One DEF Alters
    <2> QED
      BY <2>2 DEF AskOrBack, Quiet, stage
  <1> QED
    BY <1>1, <1>2

LEMMA AsksKnowing ==
    ASSUME NEW needs \in SUBSET Values, NEW gives \in SUBSET Values
    PROVE  Quiet(AskKnowing(needs, gives), needs, gives)
  BY ZenonT(60), SingleStage DEF AskKnowing, Quiet, Kinds, Names

LEMMA Checks ==
    ASSUME NEW step \in Names, NEW needs \in SUBSET Values, NEW gives \in SUBSET Values
    PROVE  Quiet(Check(step, needs, gives), needs, gives)
  BY ZenonT(60), SingleStage DEF Check, Quiet, Kinds

LEMMA InstallTakes ==
    ASSUME NEW step \in Names, NEW needs \in SUBSET Values
    PROVE  /\ Takes(Installing(step, needs), needs, {})
           /\ \A c : Runs(c, "restart") /\ Runs(c, "env") => Refreshing(c, Installing(step, needs), FALSE)
  BY ZenonT(60), SingleStage DEF Installing, Quiet, Kinds

LEMMA Restartings == Quiet(Restarting, {}, {}) /\ \A c : Refreshing(c, Restarting, TRUE)
  BY ZenonT(60), SingleStage DEF Restarting, Quiet, Kinds, Names

LEMMA Writings ==
    ASSUME NEW needs \in SUBSET Values
    PROVE  /\ Takes(Settings(needs), needs, {})
           /\ \A c : Provider(c) = "settings" => Provides(c, Settings(needs))
  BY ZenonT(60), SingleStage DEF Settings, Kinds, Names

LEMMA LastPiece ==
    /\ Quiet(InitFirstAgent, {"user", "chat", "role", "name"}, {}) /\ Wiring(InitFirstAgent)
    /\ Quiet(Unawaited(InitFirstAgent), {"user", "chat", "role", "name"}, {})
    /\ Wiring(Unawaited(InitFirstAgent))
  <1>1. Quiet(InitFirstAgent, {"user", "chat", "role", "name"}, {}) /\ Wiring(InitFirstAgent)
    BY ZenonT(60), SingleStage DEF InitFirstAgent, Quiet, Kinds, Names, Values
  <1>2. InitFirstAgent \in Seq(Stages)
    BY <1>1 DEF Quiet, Takes
  <1> QED
    BY <1>1, <1>2, UnawaitedSame DEF Quiet

LEMMA QuietBoth ==
    ASSUME NEW a, NEW b, NEW G, NEW H, NEW K, Quiet(a, {}, G), Quiet(b, G, H), K \subseteq G \cup H
    PROVE  Quiet(a \o b, {}, K)
  <1>1. Takes(a \o b, {}, K)
    BY Then DEF Quiet
  <1>2. ~Altering(a \o b)
    <2>1. /\ a \in Seq(Stages) /\ DOMAIN a = 1..Len(a) /\ Len(a) \in Nat
          /\ b \in Seq(Stages) /\ DOMAIN b = 1..Len(b) /\ Len(b) \in Nat
      BY DEF Quiet, Takes
    <2>2. ASSUME NEW i \in DOMAIN (a \o b) PROVE ~Alters((a \o b)[i])
      <3>1. /\ i \in 1..(Len(a) + Len(b))
            /\ (a \o b)[i] = IF i <= Len(a) THEN a[i] ELSE b[i - Len(a)]
        BY <2>1, ConcatProperties
      <3>2. CASE i <= Len(a)
        BY <2>1, <3>1, <3>2 DEF Quiet, Altering
      <3>3. CASE i > Len(a)
        <4>1. i - Len(a) \in DOMAIN b
          BY <2>1, <3>1, <3>3
        <4> QED
          BY <2>1, <3>1, <3>3, <4>1 DEF Quiet, Altering
      <3> QED
        BY <2>1, <3>1, <3>2, <3>3
    <2> QED
      BY <2>2 DEF Altering
  <1> QED
    BY <1>1, <1>2 DEF Quiet

\* The start of a flow: what it has collected, whether the channel's credentials
\* are provided for, whether the service is started anew after that.
Begins(c, stages, values, provided, refreshed) ==
    /\ Takes(stages, {}, values)
    /\ provided => Provides(c, stages)
    /\ refreshed => Refreshing(c, stages, FALSE)

LEMMA Wider ==
    ASSUME NEW s, NEW N, NEW H, NEW G, N \subseteq G
    PROVE  /\ Takes(s, N, H) => Takes(s, G, H)
           /\ Quiet(s, N, H) => Quiet(s, G, H)
  BY DEF Takes, Quiet, OrderedFrom

LEMMA Regardless ==
    ASSUME NEW s, NEW H, NEW G
    PROVE  /\ Takes(s, {}, H) => Takes(s, G, H)
           /\ Quiet(s, {}, H) => Quiet(s, G, H)
  BY Wider

LEMMA GoesOn ==
    ASSUME NEW c, NEW a, NEW b, NEW G, NEW H, NEW p, NEW r,
           Begins(c, a, G, p, r), Quiet(b, G, H)
    PROVE  Begins(c, a \o b, G \cup H, p, r)
  BY Then, Extends DEF Begins, Quiet, Takes

LEMMA GoesOnFirst ==
    ASSUME NEW c, NEW a, NEW b, NEW H, NEW p, NEW r,
           Begins(c, a, {}, p, r), Quiet(b, {}, H)
    PROVE  Begins(c, a \o b, H, p, r)
  <1>1. {} \cup H = H
    OBVIOUS
  <1> QED
    BY <1>1, GoesOn

LEMMA GoesOnAlike ==
    ASSUME NEW c, NEW a, NEW b, NEW G, NEW p, NEW r,
           Begins(c, a, G, p, r), Quiet(b, G, {})
    PROVE  Begins(c, a \o b, G, p, r)
  <1>1. Takes(a \o b, {}, G)
    BY Then DEF Begins, Quiet
  <1> QED
    BY <1>1, Extends DEF Begins, Quiet, Takes

LEMMA GoesOnRefreshing ==
    ASSUME NEW c, NEW a, NEW b, NEW G, NEW p, NEW r,
           Begins(c, a, G, p, r), Takes(b, G, {}),
           Refreshing(c, b, FALSE) \/ (p /\ Refreshing(c, b, TRUE))
    PROVE  Begins(c, a \o b, G, p, TRUE)
  <1>1. Takes(a \o b, {}, G)
    BY Then DEF Begins
  <1> QED
    BY <1>1, Extends DEF Begins, Takes

LEMMA GoesOnProviding ==
    ASSUME NEW c, NEW a, NEW b, NEW G, NEW p,
           Begins(c, a, G, p, FALSE), Takes(b, G, {}), Provides(c, b)
    PROVE  Begins(c, a \o b, G, TRUE, FALSE)
  <1>1. Takes(a \o b, {}, G)
    BY Then DEF Begins
  <1> QED
    BY <1>1, Extends DEF Begins, Takes

LEMMA GoesOnWriting ==
    ASSUME NEW c, NEW a, NEW b, NEW G, NEW p,
           Begins(c, a, G, p, FALSE), Takes(b, G, {})
    PROVE  Begins(c, a \o b, G, p, FALSE)
  <1>1. Takes(a \o b, {}, G)
    BY Then DEF Begins
  <1> QED
    BY <1>1, Extends DEF Begins, Takes

\* A whole flow.
FlowIsSound(c, path) ==
    /\ path \in Seq(Stages) /\ OrderedFrom(path, {})
    /\ Refreshing(c, path, FALSE)
    /\ c = "teams" \/ Wiring(path)

LEMMA GoesToTheEnd ==
    ASSUME NEW c, NEW a, NEW b, NEW G, NEW p,
           Begins(c, a, G, p, TRUE), Quiet(b, G, {}), c = "teams" \/ Wiring(b)
    PROVE  FlowIsSound(c, a \o b)
  BY Then, Extends DEF Begins, Quiet, Takes, FlowIsSound

-----------------------------------------------------------------------------
(* The flows of the seven channels.                                        *)

LEMMA EmptyPiece == Quiet(<<>>, {}, {}) /\ \A c : Begins(c, <<>>, {}, FALSE, FALSE)
  <1>1. <<>> \in Seq(Stages) /\ DOMAIN <<>> = {}
    BY EmptySeq
  <1> QED
    BY <1>1 DEF Quiet, Begins, Takes, OrderedFrom, Altering, Collected

LEMMA FirstPiece ==
    ASSUME NEW c, NEW a, NEW G, Takes(a, {}, G)
    PROVE  Begins(c, a, G, FALSE, FALSE)
  BY DEF Begins

LEMMA TelegramFlow == \A path \in RunTelegramChannel : FlowIsSound("telegram", path)
  <1> DEFINE a1 == CollectTelegramToken
             a2 == a1 \o ValidateTelegramToken
             a3 == a2 \o Installing("telegram-install", {"token"})
             a4 == a3 \o RunPairTelegram
             a5 == a4 \o AskOperatorRole
             a6 == a5 \o TelegramAgentName
             a7 == a6 \o InitFirstAgent
  <1>1. Begins("telegram", a1, {"token"}, FALSE, FALSE)
    <2>1. Quiet(CollectTelegramToken, {}, {"token"})
      BY Asks DEF Values, CollectTelegramToken
    <2> QED
      BY <2>1, FirstPiece DEF Quiet
  <1>2. Begins("telegram", a2, {"token"} \cup {"bot"}, FALSE, FALSE)
    <2>1. Quiet(ValidateTelegramToken, {"token"}, {"bot"})
      BY Checks DEF Values, ValidateTelegramToken, Names
    <2> QED
      BY <1>1, <2>1, GoesOn
  <1>3. Begins("telegram", a3, {"token"} \cup {"bot"}, FALSE, TRUE)
    <2>1. /\ Takes(Installing("telegram-install", {"token"}), {"token"}, {})
          /\ Refreshing("telegram", Installing("telegram-install", {"token"}), FALSE)
      BY InstallTakes DEF Values, Names, Quiet, Runs, ScriptOf, AddTelegram, Script
    <2>2. Takes(Installing("telegram-install", {"token"}), {"token"} \cup {"bot"}, {})
      BY <2>1, Wider
    <2> QED
      BY <1>2, <2>1, <2>2, GoesOnRefreshing
  <1>4. Begins("telegram", a4, {"token"} \cup {"bot"} \cup {"user", "chat"}, FALSE, TRUE)
    <2>1. Quiet(RunPairTelegram, {"bot"}, {"user", "chat"})
      BY ZenonT(60), SingleStage DEF Values, RunPairTelegram, Names, Kinds, Quiet
    <2>2. Quiet(RunPairTelegram, {"token"} \cup {"bot"}, {"user", "chat"})
      BY <2>1, Wider
    <2> QED
      BY <1>3, <2>2, GoesOn
  <1>5. Begins("telegram", a5, {"token"} \cup {"bot"} \cup {"user", "chat"} \cup {"role"}, FALSE, TRUE)
    <2>1. Quiet(AskOperatorRole, {}, {"role"})
      BY Asks DEF Values, AskOperatorRole
    <2>2. Quiet(AskOperatorRole, {"token"} \cup {"bot"} \cup {"user", "chat"}, {"role"})
      BY <2>1, Regardless
    <2> QED
      BY <1>4, <2>2, GoesOn
  <1>6. Begins("telegram", a6, {"token"} \cup {"bot"} \cup {"user", "chat"} \cup {"role"} \cup {"name"}, FALSE, TRUE)
    <2>1. Quiet(TelegramAgentName, {}, {"name"})
      BY Asks DEF Values, TelegramAgentName
    <2>2. Quiet(TelegramAgentName, {"token"} \cup {"bot"} \cup {"user", "chat"} \cup {"role"}, {"name"})
      BY <2>1, Regardless
    <2> QED
      BY <1>5, <2>2, GoesOn
  <1>7. FlowIsSound("telegram", a7)
    <2>2. Quiet(InitFirstAgent, {"token"} \cup {"bot"} \cup {"user", "chat"} \cup {"role"} \cup {"name"}, {})
      BY LastPiece, Wider
    <2> QED
      BY <1>6, <2>2, LastPiece, GoesToTheEnd
  <1> QED
    BY <1>7 DEF RunTelegramChannel

LEMMA DiscordFlow == \A path \in RunDiscordChannel : FlowIsSound("discord", path)
  <1> SUFFICES ASSUME NEW bot \in {<<>>, WalkThroughBotCreation}
               PROVE  FlowIsSound("discord", AskHasBotToken \o bot \o CollectDiscordToken
                        \o ValidateDiscordToken \o FetchApplicationInfo \o ResolveOwnerUserId
                        \o AskHasDiscordServer \o WalkThroughServerCreation \o PromptInviteBot
                        \o Installing("discord-install", {"token", "app"}) \o DiscordOpenDm
                        \o AskOperatorRole \o DiscordAgentName \o InitFirstAgent)
    BY DEF RunDiscordChannel
  <1>a. Quiet(bot, {}, {})
    BY EmptyPiece, Asks DEF Values, WalkThroughBotCreation
  <1> DEFINE a1 == AskHasBotToken
             a2 == a1 \o bot
             a3 == a2 \o CollectDiscordToken
             a4 == a3 \o ValidateDiscordToken
             a5 == a4 \o FetchApplicationInfo
             a6 == a5 \o ResolveOwnerUserId
             a7 == a6 \o AskHasDiscordServer
             a8 == a7 \o WalkThroughServerCreation
             a9 == a8 \o PromptInviteBot
             a10 == a9 \o Installing("discord-install", {"token", "app"})
             a11 == a10 \o DiscordOpenDm
             a12 == a11 \o AskOperatorRole
             a13 == a12 \o DiscordAgentName
             a14 == a13 \o InitFirstAgent
  <1>1. Begins("discord", a1, {}, FALSE, FALSE)
    <2>1. Quiet(AskHasBotToken, {}, {})
      BY Asks DEF Values, AskHasBotToken
    <2> QED
      BY <2>1, FirstPiece DEF Quiet
  <1>2. Begins("discord", a2, {}, FALSE, FALSE)
    <2>1. Quiet(bot, {}, {})
      BY <1>a
    <2> QED
      BY <1>1, <2>1, GoesOnAlike
  <1>3. Begins("discord", a3, {"token"}, FALSE, FALSE)
    <2>1. Quiet(CollectDiscordToken, {}, {"token"})
      BY Asks DEF Values, CollectDiscordToken
    <2> QED
      BY <1>2, <2>1, GoesOnFirst
  <1>4. Begins("discord", a4, {"token"} \cup {"bot"}, FALSE, FALSE)
    <2>1. Quiet(ValidateDiscordToken, {"token"}, {"bot"})
      BY Checks DEF Values, ValidateDiscordToken, Names
    <2>2. Quiet(ValidateDiscordToken, {"token"}, {"bot"})
      BY <2>1, Wider
    <2> QED
      BY <1>3, <2>2, GoesOn
  <1>5. Begins("discord", a5, {"token"} \cup {"bot"} \cup {"app"}, FALSE, FALSE)
    <2>1. Quiet(FetchApplicationInfo, {"token"}, {"app"})
      BY Checks DEF Values, FetchApplicationInfo, Names
    <2>2. Quiet(FetchApplicationInfo, {"token"} \cup {"bot"}, {"app"})
      BY <2>1, Wider
    <2> QED
      BY <1>4, <2>2, GoesOn
  <1>6. Begins("discord", a6, {"token"} \cup {"bot"} \cup {"app"} \cup {"user"}, FALSE, FALSE)
    <2>1. Quiet(ResolveOwnerUserId, {"app"}, {"user"})
      BY AsksKnowing DEF Values, ResolveOwnerUserId
    <2>2. Quiet(ResolveOwnerUserId, {"token"} \cup {"bot"} \cup {"app"}, {"user"})
      BY <2>1, Wider
    <2> QED
      BY <1>5, <2>2, GoesOn
  <1>7. Begins("discord", a7, {"token"} \cup {"bot"} \cup {"app"} \cup {"user"}, FALSE, FALSE)
    <2>1. Quiet(AskHasDiscordServer, {}, {})
      BY Asks DEF Values, AskHasDiscordServer
    <2>2. Quiet(AskHasDiscordServer, {"token"} \cup {"bot"} \cup {"app"} \cup {"user"}, {})
      BY <2>1, Regardless
    <2> QED
      BY <1>6, <2>2, GoesOnAlike
  <1>8. Begins("discord", a8, {"token"} \cup {"bot"} \cup {"app"} \cup {"user"}, FALSE, FALSE)
    <2>1. Quiet(WalkThroughServerCreation, {}, {})
      BY Asks DEF Values, WalkThroughServerCreation
    <2>2. Quiet(WalkThroughServerCreation, {"token"} \cup {"bot"} \cup {"app"} \cup {"user"}, {})
      BY <2>1, Regardless
    <2> QED
      BY <1>7, <2>2, GoesOnAlike
  <1>9. Begins("discord", a9, {"token"} \cup {"bot"} \cup {"app"} \cup {"user"}, FALSE, FALSE)
    <2>1. Quiet(PromptInviteBot, {"app", "bot"}, {})
      BY AsksKnowing DEF Values, PromptInviteBot
    <2>2. Quiet(PromptInviteBot, {"token"} \cup {"bot"} \cup {"app"} \cup {"user"}, {})
      BY <2>1, Wider
    <2> QED
      BY <1>8, <2>2, GoesOnAlike
  <1>10. Begins("discord", a10, {"token"} \cup {"bot"} \cup {"app"} \cup {"user"}, FALSE, TRUE)
    <2>1. /\ Takes(Installing("discord-install", {"token", "app"}), {"token", "app"}, {})
          /\ Refreshing("discord", Installing("discord-install", {"token", "app"}), FALSE)
      BY InstallTakes DEF Values, Names, Quiet, Runs, ScriptOf, AddDiscord, Script
    <2>2. Takes(Installing("discord-install", {"token", "app"}), {"token"} \cup {"bot"} \cup {"app"} \cup {"user"}, {})
      BY <2>1, Wider
    <2> QED
      BY <1>9, <2>1, <2>2, GoesOnRefreshing
  <1>11. Begins("discord", a11, {"token"} \cup {"bot"} \cup {"app"} \cup {"user"} \cup {"chat"}, FALSE, TRUE)
    <2>1. Quiet(DiscordOpenDm, {"token", "user"}, {"chat"})
      BY Checks DEF Values, DiscordOpenDm, Names
    <2>2. Quiet(DiscordOpenDm, {"token"} \cup {"bot"} \cup {"app"} \cup {"user"}, {"chat"})
      BY <2>1, Wider
    <2> QED
      BY <1>10, <2>2, GoesOn
  <1>12. Begins("discord", a12, {"token"} \cup {"bot"} \cup {"app"} \cup {"user"} \cup {"chat"} \cup {"role"}, FALSE, TRUE)
    <2>1. Quiet(AskOperatorRole, {}, {"role"})
      BY Asks DEF Values, AskOperatorRole
    <2>2. Quiet(AskOperatorRole, {"token"} \cup {"bot"} \cup {"app"} \cup {"user"} \cup {"chat"}, {"role"})
      BY <2>1, Regardless
    <2> QED
      BY <1>11, <2>2, GoesOn
  <1>13. Begins("discord", a13, {"token"} \cup {"bot"} \cup {"app"} \cup {"user"} \cup {"chat"} \cup {"role"} \cup {"name"}, FALSE, TRUE)
    <2>1. Quiet(DiscordAgentName, {}, {"name"})
      BY Asks DEF Values, DiscordAgentName
    <2>2. Quiet(DiscordAgentName, {"token"} \cup {"bot"} \cup {"app"} \cup {"user"} \cup {"chat"} \cup {"role"}, {"name"})
      BY <2>1, Regardless
    <2> QED
      BY <1>12, <2>2, GoesOn
  <1>14. FlowIsSound("discord", a14)
    <2>2. Quiet(InitFirstAgent, {"token"} \cup {"bot"} \cup {"app"} \cup {"user"} \cup {"chat"} \cup {"role"} \cup {"name"}, {})
      BY LastPiece, Wider
    <2> QED
      BY <1>13, <2>2, LastPiece, GoesToTheEnd
  <1> QED
    BY <1>14

LEMMA SlackFlow == \A path \in RunSlackChannel : FlowIsSound("slack", path)
  <1> SUFFICES ASSUME NEW how \in {<<CollectAppToken, {"app"}>>, <<CollectSigningSecret, {"secret"}>>}
               PROVE  FlowIsSound("slack", AskSlackMode \o WalkThroughAppCreation \o CollectBotToken
                        \o how[1] \o ValidateSlackToken \o Installing("slack-install", {"token"} \cup how[2])
                        \o CollectSlackUserId \o SlackOpenDm \o AskOperatorRole \o SlackAgentName
                        \o InitFirstAgent)
    BY DEF RunSlackChannel
  <1>a. Quiet(how[1], {}, how[2]) /\ how[2] \subseteq Values
    <2>1. Quiet(CollectAppToken, {}, {"app"}) /\ Quiet(CollectSigningSecret, {}, {"secret"})
      BY Asks DEF Values, CollectAppToken, CollectSigningSecret
    <2> QED
      BY <2>1 DEF Values
  <1> DEFINE a1 == AskSlackMode
             a2 == a1 \o WalkThroughAppCreation
             a3 == a2 \o CollectBotToken
             a4 == a3 \o how[1]
             a5 == a4 \o ValidateSlackToken
             a6 == a5 \o Installing("slack-install", {"token"} \cup how[2])
             a7 == a6 \o CollectSlackUserId
             a8 == a7 \o SlackOpenDm
             a9 == a8 \o AskOperatorRole
             a10 == a9 \o SlackAgentName
             a11 == a10 \o InitFirstAgent
  <1>1. Begins("slack", a1, {"mode"}, FALSE, FALSE)
    <2>1. Quiet(AskSlackMode, {}, {"mode"})
      BY Asks DEF Values, AskSlackMode
    <2> QED
      BY <2>1, FirstPiece DEF Quiet
  <1>2. Begins("slack", a2, {"mode"}, FALSE, FALSE)
    <2>1. Quiet(WalkThroughAppCreation, {}, {})
      BY Asks DEF Values, WalkThroughAppCreation
    <2>2. Quiet(WalkThroughAppCreation, {"mode"}, {})
      BY <2>1, Regardless
    <2> QED
      BY <1>1, <2>2, GoesOnAlike
  <1>3. Begins("slack", a3, {"mode"} \cup {"token"}, FALSE, FALSE)
    <2>1. Quiet(CollectBotToken, {}, {"token"})
      BY Asks DEF Values, CollectBotToken
    <2>2. Quiet(CollectBotToken, {"mode"}, {"token"})
      BY <2>1, Regardless
    <2> QED
      BY <1>2, <2>2, GoesOn
  <1>4. Begins("slack", a4, {"mode"} \cup {"token"} \cup how[2], FALSE, FALSE)
    <2>1. Quiet(how[1], {}, how[2])
      BY <1>a
    <2>2. Quiet(how[1], {"mode"} \cup {"token"}, how[2])
      BY <2>1, Regardless
    <2> QED
      BY <1>3, <2>2, GoesOn
  <1>5. Begins("slack", a5, {"mode"} \cup {"token"} \cup how[2] \cup {"bot"}, FALSE, FALSE)
    <2>1. Quiet(ValidateSlackToken, {"token"}, {"bot"})
      BY Checks DEF Values, ValidateSlackToken, Names
    <2>2. Quiet(ValidateSlackToken, {"mode"} \cup {"token"} \cup how[2], {"bot"})
      BY <2>1, Wider
    <2> QED
      BY <1>4, <2>2, GoesOn
  <1>6. Begins("slack", a6, {"mode"} \cup {"token"} \cup how[2] \cup {"bot"}, FALSE, TRUE)
    <2>1. /\ Takes(Installing("slack-install", {"token"} \cup how[2]), {"token"} \cup how[2], {})
          /\ Refreshing("slack", Installing("slack-install", {"token"} \cup how[2]), FALSE)
      BY <1>a, InstallTakes DEF Values, Names, Quiet, Runs, ScriptOf, AddSlack, Script
    <2>2. Takes(Installing("slack-install", {"token"} \cup how[2]), {"mode"} \cup {"token"} \cup how[2] \cup {"bot"}, {})
      BY <2>1, Wider
    <2> QED
      BY <1>5, <2>1, <2>2, GoesOnRefreshing
  <1>7. Begins("slack", a7, {"mode"} \cup {"token"} \cup how[2] \cup {"bot"} \cup {"user"}, FALSE, TRUE)
    <2>1. Quiet(CollectSlackUserId, {}, {"user"})
      BY Asks DEF Values, CollectSlackUserId
    <2>2. Quiet(CollectSlackUserId, {"mode"} \cup {"token"} \cup how[2] \cup {"bot"}, {"user"})
      BY <2>1, Regardless
    <2> QED
      BY <1>6, <2>2, GoesOn
  <1>8. Begins("slack", a8, {"mode"} \cup {"token"} \cup how[2] \cup {"bot"} \cup {"user"} \cup {"chat"}, FALSE, TRUE)
    <2>1. Quiet(SlackOpenDm, {"token", "user"}, {"chat"})
      BY Checks DEF Values, SlackOpenDm, Names
    <2>2. Quiet(SlackOpenDm, {"mode"} \cup {"token"} \cup how[2] \cup {"bot"} \cup {"user"}, {"chat"})
      BY <2>1, Wider
    <2> QED
      BY <1>7, <2>2, GoesOn
  <1>9. Begins("slack", a9, {"mode"} \cup {"token"} \cup how[2] \cup {"bot"} \cup {"user"} \cup {"chat"} \cup {"role"}, FALSE, TRUE)
    <2>1. Quiet(AskOperatorRole, {}, {"role"})
      BY Asks DEF Values, AskOperatorRole
    <2>2. Quiet(AskOperatorRole, {"mode"} \cup {"token"} \cup how[2] \cup {"bot"} \cup {"user"} \cup {"chat"}, {"role"})
      BY <2>1, Regardless
    <2> QED
      BY <1>8, <2>2, GoesOn
  <1>10. Begins("slack", a10, {"mode"} \cup {"token"} \cup how[2] \cup {"bot"} \cup {"user"} \cup {"chat"} \cup {"role"} \cup {"name"}, FALSE, TRUE)
    <2>1. Quiet(SlackAgentName, {}, {"name"})
      BY Asks DEF Values, SlackAgentName
    <2>2. Quiet(SlackAgentName, {"mode"} \cup {"token"} \cup how[2] \cup {"bot"} \cup {"user"} \cup {"chat"} \cup {"role"}, {"name"})
      BY <2>1, Regardless
    <2> QED
      BY <1>9, <2>2, GoesOn
  <1>11. FlowIsSound("slack", a11)
    <2>2. Quiet(InitFirstAgent, {"mode"} \cup {"token"} \cup how[2] \cup {"bot"} \cup {"user"} \cup {"chat"} \cup {"role"} \cup {"name"}, {})
      BY LastPiece, Wider
    <2> QED
      BY <1>10, <2>2, LastPiece, GoesToTheEnd
  <1> QED
    BY <1>11

LEMMA IMessageFlow == \A path \in RunIMessageChannel : FlowIsSound("imessage", path)
  <1> SUFFICES ASSUME NEW how \in {WalkThroughFullDiskAccess, CollectRemoteCreds}
               PROVE  FlowIsSound("imessage", AskMode \o how \o AskOperatorHandle
                        \o Installing("imessage-install", {"mode", "creds"}) \o AskOperatorRole
                        \o IMessageAgentName \o InitFirstAgent)
    BY DEF RunIMessageChannel
  <1>a. Quiet(how, {}, {"creds"})
    BY Asks DEF Values, WalkThroughFullDiskAccess, CollectRemoteCreds
  <1> DEFINE a1 == AskMode
             a2 == a1 \o how
             a3 == a2 \o AskOperatorHandle
             a4 == a3 \o Installing("imessage-install", {"mode", "creds"})
             a5 == a4 \o AskOperatorRole
             a6 == a5 \o IMessageAgentName
             a7 == a6 \o InitFirstAgent
  <1>1. Begins("imessage", a1, {"mode"}, FALSE, FALSE)
    <2>1. Quiet(AskMode, {}, {"mode"})
      BY Asks DEF Values, AskMode
    <2> QED
      BY <2>1, FirstPiece DEF Quiet
  <1>2. Begins("imessage", a2, {"mode"} \cup {"creds"}, FALSE, FALSE)
    <2>1. Quiet(how, {}, {"creds"})
      BY <1>a
    <2>2. Quiet(how, {"mode"}, {"creds"})
      BY <2>1, Regardless
    <2> QED
      BY <1>1, <2>2, GoesOn
  <1>3. Begins("imessage", a3, {"mode"} \cup {"creds"} \cup {"user", "chat"}, FALSE, FALSE)
    <2>1. Quiet(AskOperatorHandle, {}, {"user", "chat"})
      BY Asks DEF Values, AskOperatorHandle
    <2>2. Quiet(AskOperatorHandle, {"mode"} \cup {"creds"}, {"user", "chat"})
      BY <2>1, Regardless
    <2> QED
      BY <1>2, <2>2, GoesOn
  <1>4. Begins("imessage", a4, {"mode"} \cup {"creds"} \cup {"user", "chat"}, FALSE, TRUE)
    <2>1. /\ Takes(Installing("imessage-install", {"mode", "creds"}), {"mode", "creds"}, {})
          /\ Refreshing("imessage", Installing("imessage-install", {"mode", "creds"}), FALSE)
      BY InstallTakes DEF Values, Names, Quiet, Runs, ScriptOf, AddIMessage, Script
    <2>2. Takes(Installing("imessage-install", {"mode", "creds"}), {"mode"} \cup {"creds"} \cup {"user", "chat"}, {})
      BY <2>1, Wider
    <2> QED
      BY <1>3, <2>1, <2>2, GoesOnRefreshing
  <1>5. Begins("imessage", a5, {"mode"} \cup {"creds"} \cup {"user", "chat"} \cup {"role"}, FALSE, TRUE)
    <2>1. Quiet(AskOperatorRole, {}, {"role"})
      BY Asks DEF Values, AskOperatorRole
    <2>2. Quiet(AskOperatorRole, {"mode"} \cup {"creds"} \cup {"user", "chat"}, {"role"})
      BY <2>1, Regardless
    <2> QED
      BY <1>4, <2>2, GoesOn
  <1>6. Begins("imessage", a6, {"mode"} \cup {"creds"} \cup {"user", "chat"} \cup {"role"} \cup {"name"}, FALSE, TRUE)
    <2>1. Quiet(IMessageAgentName, {}, {"name"})
      BY Asks DEF Values, IMessageAgentName
    <2>2. Quiet(IMessageAgentName, {"mode"} \cup {"creds"} \cup {"user", "chat"} \cup {"role"}, {"name"})
      BY <2>1, Regardless
    <2> QED
      BY <1>5, <2>2, GoesOn
  <1>7. FlowIsSound("imessage", a7)
    <2>2. Quiet(InitFirstAgent, {"mode"} \cup {"creds"} \cup {"user", "chat"} \cup {"role"} \cup {"name"}, {})
      BY LastPiece, Wider
    <2> QED
      BY <1>6, <2>2, LastPiece, GoesToTheEnd
  <1> QED
    BY <1>7

LEMMA SignalAuthPiece == Quiet(RunSignalAuth, {"cli"}, {"bot", "user", "chat"})
  <1> DEFINE first == Stage("signal-auth", "auth", {"cli"}, {})
             second == Stage("signal-auth", "account", {}, {"bot", "user", "chat"})
  <1>1. Quiet(<<first>>, {"cli"}, {})
    BY ZenonT(60), SingleStage DEF Names, Kinds, Values, Quiet
  <1>2. Quiet(<<second>>, {}, {"bot", "user", "chat"})
    BY ZenonT(60), SingleStage DEF Names, Kinds, Values, Quiet
  <1>3. first \in Stages /\ second \in Stages /\ first.does = "auth" /\ second.does = "account"
    BY DEF Stage, Stages, Names, Kinds, Values
  <1>4. RunSignalAuth = <<first>> \o <<second>>
    BY DEF RunSignalAuth
  <1> HIDE DEF first, second
  <1>5. Takes(RunSignalAuth, {"cli"}, {"bot", "user", "chat"})
    BY <1>1, <1>2, <1>4, Then DEF Quiet
  <1>6. ~Altering(RunSignalAuth)
    BY <1>3 DEF RunSignalAuth, Altering, Alters, first, second
  <1> QED
    BY <1>5, <1>6 DEF Quiet

LEMMA SignalFlow == \A path \in RunSignalChannel : FlowIsSound("signal", path)
  <1> DEFINE a1 == AskOrBack({})
             a2 == a1 \o EnsureSignalCli
             a3 == a2 \o Installing("signal-install", {})
             a4 == a3 \o RunSignalAuth
             a5 == a4 \o WriteSignalAccount
             a6 == a5 \o SignalRestart
             a7 == a6 \o AskOperatorRole
             a8 == a7 \o SignalAgentName
             a9 == a8 \o InitFirstAgent
  <1>1. Begins("signal", a1, {}, FALSE, FALSE)
    <2>1. Quiet(AskOrBack({}), {}, {})
      BY Asks DEF Values
    <2> QED
      BY <2>1, FirstPiece DEF Quiet
  <1>2. Begins("signal", a2, {"cli"}, FALSE, FALSE)
    <2>1. Quiet(EnsureSignalCli, {}, {"cli"})
      BY Checks DEF Values, EnsureSignalCli, Names
    <2> QED
      BY <1>1, <2>1, GoesOnFirst
  <1>3. Begins("signal", a3, {"cli"}, FALSE, FALSE)
    <2>1. Takes(Installing("signal-install", {}), {}, {})
      BY InstallTakes DEF Values, Names
    <2>2. Takes(Installing("signal-install", {}), {"cli"}, {})
      BY <2>1, Regardless
    <2> QED
      BY <1>2, <2>1, <2>2, GoesOnWriting
  <1>4. Begins("signal", a4, {"cli"} \cup {"bot", "user", "chat"}, FALSE, FALSE)
    <2>1. Quiet(RunSignalAuth, {"cli"}, {"bot", "user", "chat"})
      BY SignalAuthPiece DEF Values
    <2>2. Quiet(RunSignalAuth, {"cli"}, {"bot", "user", "chat"})
      BY <2>1, Wider
    <2> QED
      BY <1>3, <2>2, GoesOn
  <1>5. Begins("signal", a5, {"cli"} \cup {"bot", "user", "chat"}, TRUE, FALSE)
    <2>1. Takes(WriteSignalAccount, {"bot"}, {}) /\ Provides("signal", WriteSignalAccount)
      BY Writings DEF Values, WriteSignalAccount, Provider
    <2>2. Takes(WriteSignalAccount, {"cli"} \cup {"bot", "user", "chat"}, {})
      BY <2>1, Wider
    <2> QED
      BY <1>4, <2>1, <2>2, GoesOnProviding
  <1>6. Begins("signal", a6, {"cli"} \cup {"bot", "user", "chat"}, TRUE, TRUE)
    <2>1. Takes(SignalRestart, {}, {}) /\ Refreshing("signal", SignalRestart, TRUE)
      BY Restartings DEF Values, SignalRestart, Quiet
    <2>2. Takes(SignalRestart, {"cli"} \cup {"bot", "user", "chat"}, {})
      BY <2>1, Regardless
    <2> QED
      BY <1>5, <2>1, <2>2, GoesOnRefreshing
  <1>7. Begins("signal", a7, {"cli"} \cup {"bot", "user", "chat"} \cup {"role"}, TRUE, TRUE)
    <2>1. Quiet(AskOperatorRole, {}, {"role"})
      BY Asks DEF Values, AskOperatorRole
    <2>2. Quiet(AskOperatorRole, {"cli"} \cup {"bot", "user", "chat"}, {"role"})
      BY <2>1, Regardless
    <2> QED
      BY <1>6, <2>2, GoesOn
  <1>8. Begins("signal", a8, {"cli"} \cup {"bot", "user", "chat"} \cup {"role"} \cup {"name"}, TRUE, TRUE)
    <2>1. Quiet(SignalAgentName, {}, {"name"})
      BY Asks DEF Values, SignalAgentName
    <2>2. Quiet(SignalAgentName, {"cli"} \cup {"bot", "user", "chat"} \cup {"role"}, {"name"})
      BY <2>1, Regardless
    <2> QED
      BY <1>7, <2>2, GoesOn
  <1>9. FlowIsSound("signal", a9)
    <2>2. Quiet(InitFirstAgent, {"cli"} \cup {"bot", "user", "chat"} \cup {"role"} \cup {"name"}, {})
      BY LastPiece, Wider
    <2> QED
      BY <1>8, <2>2, LastPiece, GoesToTheEnd
  <1> QED
    BY <1>9 DEF RunSignalChannel

LEMMA InstallsUnawaited ==
    ASSUME NEW step \in Names, NEW needs \in SUBSET Values
    PROVE  /\ Takes(Unawaited(Installing(step, needs)), needs, {})
           /\ \A c : Runs(c, "restart") /\ Runs(c, "env")
                     => Refreshing(c, Unawaited(Installing(step, needs)), FALSE)
  <1>1. Installing(step, needs) \in Seq(Stages)
    BY InstallTakes DEF Takes
  <1> QED
    BY <1>1, InstallTakes, UnawaitedSame

LEMMA WhatsAppLinks ==
    ASSUME NEW how \in {"qr", "pairing-code"}
    PROVE  Takes(RunWhatsAppAuth(how), {}, {}) /\ Provides("whatsapp", RunWhatsAppAuth(how))
  <1> DEFINE s == <<Stage(how, "auth", {}, {})>>
  <1>1. Takes(s, {}, {}) /\ Provides("whatsapp", s)
    BY ZenonT(60), SingleStage DEF Names, Kinds, Provider
  <1> HIDE DEF s
  <1>2. s \in Seq(Stages)
    BY <1>1 DEF Takes
  <1>3. Takes(Unawaited(s), {}, {}) /\ Provides("whatsapp", Unawaited(s))
    BY <1>1, <1>2, UnawaitedSame
  <1> QED
    BY <1>3 DEF RunWhatsAppAuth, s

LEMMA ReadsAccount ==
    ASSUME NEW gives \in SUBSET Values
    PROVE  Quiet(ReadAuthedPhone(gives), {}, gives)
  <1> DEFINE s == <<Stage("whatsapp-auth", "account", {}, gives)>>
  <1>1. Quiet(s, {}, gives)
    BY ZenonT(60), SingleStage DEF Names, Kinds, Quiet
  <1> HIDE DEF s
  <1>2. s \in Seq(Stages)
    BY <1>1 DEF Quiet, Takes
  <1>3. Quiet(Unawaited(s), {}, gives)
    BY <1>1, <1>2, UnawaitedSame DEF Quiet
  <1> QED
    BY <1>3 DEF ReadAuthedPhone, s

\* The three ways to say whose number is wired.
LEMMA WhatsAppNumbers ==
    ASSUME NEW number \in WhatsAppNumber
    PROVE  /\ Quiet(number[1], {}, {})
           /\ Quiet(number[2], {}, {"bot", "user", "chat"})
           /\ Quiet(number[3], {"name"}, {})
  <1> DEFINE whole == ReadAuthedPhone({"bot", "user", "chat"})
             other == ReadAuthedPhone({"bot"}) \o AskChatPhone
             same == other \o ConfirmSharedNumber
  <1>1. Quiet(ConfirmSharedNumber, {}, {}) /\ Quiet(<<>>, {}, {})
    BY Asks, EmptyPiece DEF ConfirmSharedNumber
  <1>2. Quiet(whole, {}, {"bot", "user", "chat"})
    BY ReadsAccount DEF Values
  <1>3. Quiet(other, {}, {"bot", "user", "chat"})
    <2>1. Quiet(ReadAuthedPhone({"bot"}), {}, {"bot"})
      BY ReadsAccount DEF Values
    <2>2. Quiet(AskChatPhone, {"bot"}, {"user", "chat"})
      BY AsksKnowing DEF AskChatPhone, Values
    <2>3. {"bot", "user", "chat"} \subseteq {"bot"} \cup {"user", "chat"}
      OBVIOUS
    <2> QED
      BY <2>1, <2>2, <2>3, QuietBoth
  <1>4. Quiet(same, {}, {"bot", "user", "chat"})
    <2>1. Quiet(ConfirmSharedNumber, {"bot", "user", "chat"}, {})
      BY <1>1, Regardless
    <2> QED
      BY <2>1, <1>3, QuietBoth
  <1>5. Quiet(AskSelfChatEngage, {"name"}, {}) /\ Quiet(<<>>, {"name"}, {})
    <2>1. Quiet(AskSelfChatEngage, {"name"}, {})
      BY AsksKnowing DEF AskSelfChatEngage, Values
    <2> QED
      BY <2>1, <1>1, Regardless
  <1> HIDE DEF whole, other, same
  <1>6. \/ number = <<ConfirmSharedNumber, whole, AskSelfChatEngage>>
        \/ number = <<<<>>, other, <<>>>>
        \/ number = <<<<>>, same, AskSelfChatEngage>>
    BY DEF WhatsAppNumber, whole, other, same
  <1> QED
    BY <1>1, <1>2, <1>3, <1>4, <1>5, <1>6

LEMMA WhatsAppFlow == \A path \in RunWhatsAppChannel : FlowIsSound("whatsapp", path)
  <1> SUFFICES ASSUME NEW number \in WhatsAppNumber,
                      NEW method \in {<<<<>>, "qr">>, <<AskPhoneNumber, "pairing-code">>}
               PROVE  FlowIsSound("whatsapp", WhatsAppPath(number, method))
    BY DEF RunWhatsAppChannel
  <1>a. Quiet(number[1], {}, {}) /\ Quiet(number[2], {}, {"bot", "user", "chat"}) /\ Quiet(number[3], {"name"}, {})
    BY WhatsAppNumbers
  <1>b. Quiet(method[1], {}, {}) /\ method[2] \in {"qr", "pairing-code"}
    <2>1. Quiet(AskPhoneNumber, {}, {"phone"})
      BY Asks DEF AskPhoneNumber, Values
    <2>2. Quiet(AskPhoneNumber, {}, {})
      BY <2>1 DEF Quiet, Takes
    <2> QED
      BY <2>2, EmptyPiece
  <1> DEFINE a1 == AskNumberOwnership
             a2 == a1 \o number[1]
             a3 == a2 \o AskAuthMethod
             a4 == a3 \o method[1]
             a5 == a4 \o Unawaited(Installing("whatsapp-install", {}))
             a6 == a5 \o RunWhatsAppAuth(method[2])
             a7 == a6 \o number[2]
             a8 == a7 \o WriteEnvVar({"mode"})
             a9 == a8 \o AskOperatorRole
             a10 == a9 \o WhatsAppAgentName
             a11 == a10 \o WriteEnvVar({"name"})
             a12 == a11 \o number[3]
             a13 == a12 \o WhatsAppRestart
             a14 == a13 \o Unawaited(InitFirstAgent)
  <1>1. Begins("whatsapp", a1, {"mode"}, FALSE, FALSE)
    <2>1. Quiet(AskNumberOwnership, {}, {"mode"})
      BY Asks DEF Values, AskNumberOwnership
    <2> QED
      BY <2>1, FirstPiece DEF Quiet
  <1>2. Begins("whatsapp", a2, {"mode"}, FALSE, FALSE)
    <2>1. Quiet(number[1], {}, {})
      BY <1>a, <1>b
    <2>2. Quiet(number[1], {"mode"}, {})
      BY <2>1, Regardless
    <2> QED
      BY <1>1, <2>2, GoesOnAlike
  <1>3. Begins("whatsapp", a3, {"mode"} \cup {"method"}, FALSE, FALSE)
    <2>1. Quiet(AskAuthMethod, {}, {"method"})
      BY Asks DEF Values, AskAuthMethod
    <2>2. Quiet(AskAuthMethod, {"mode"}, {"method"})
      BY <2>1, Regardless
    <2> QED
      BY <1>2, <2>2, GoesOn
  <1>4. Begins("whatsapp", a4, {"mode"} \cup {"method"}, FALSE, FALSE)
    <2>1. Quiet(method[1], {}, {})
      BY <1>a, <1>b
    <2>2. Quiet(method[1], {"mode"} \cup {"method"}, {})
      BY <2>1, Regardless
    <2> QED
      BY <1>3, <2>2, GoesOnAlike
  <1>5. Begins("whatsapp", a5, {"mode"} \cup {"method"}, FALSE, FALSE)
    <2>1. Takes(Unawaited(Installing("whatsapp-install", {})), {}, {})
      BY InstallsUnawaited DEF Values, Names
    <2>2. Takes(Unawaited(Installing("whatsapp-install", {})), {"mode"} \cup {"method"}, {})
      BY <2>1, Regardless
    <2> QED
      BY <1>4, <2>1, <2>2, GoesOnWriting
  <1>6. Begins("whatsapp", a6, {"mode"} \cup {"method"}, TRUE, FALSE)
    <2>1. Takes(RunWhatsAppAuth(method[2]), {}, {}) /\ Provides("whatsapp", RunWhatsAppAuth(method[2]))
      BY <1>b, WhatsAppLinks DEF Values, Provider
    <2>2. Takes(RunWhatsAppAuth(method[2]), {"mode"} \cup {"method"}, {})
      BY <2>1, Regardless
    <2> QED
      BY <1>5, <2>1, <2>2, GoesOnProviding
  <1>7. Begins("whatsapp", a7, {"mode"} \cup {"method"} \cup {"bot", "user", "chat"}, TRUE, FALSE)
    <2>1. Quiet(number[2], {}, {"bot", "user", "chat"})
      BY <1>a, <1>b
    <2>2. Quiet(number[2], {"mode"} \cup {"method"}, {"bot", "user", "chat"})
      BY <2>1, Regardless
    <2> QED
      BY <1>6, <2>2, GoesOn
  <1>8. Begins("whatsapp", a8, {"mode"} \cup {"method"} \cup {"bot", "user", "chat"}, TRUE, FALSE)
    <2>1. Takes(WriteEnvVar({"mode"}), {"mode"}, {})
      BY Writings DEF Values, WriteEnvVar
    <2>2. Takes(WriteEnvVar({"mode"}), {"mode"} \cup {"method"} \cup {"bot", "user", "chat"}, {})
      BY <2>1, Wider
    <2> QED
      BY <1>7, <2>1, <2>2, GoesOnWriting
  <1>9. Begins("whatsapp", a9, {"mode"} \cup {"method"} \cup {"bot", "user", "chat"} \cup {"role"}, TRUE, FALSE)
    <2>1. Quiet(AskOperatorRole, {}, {"role"})
      BY Asks DEF Values, AskOperatorRole
    <2>2. Quiet(AskOperatorRole, {"mode"} \cup {"method"} \cup {"bot", "user", "chat"}, {"role"})
      BY <2>1, Regardless
    <2> QED
      BY <1>8, <2>2, GoesOn
  <1>10. Begins("whatsapp", a10, {"mode"} \cup {"method"} \cup {"bot", "user", "chat"} \cup {"role"} \cup {"name"}, TRUE, FALSE)
    <2>1. Quiet(WhatsAppAgentName, {}, {"name"})
      BY Asks DEF Values, WhatsAppAgentName
    <2>2. Quiet(WhatsAppAgentName, {"mode"} \cup {"method"} \cup {"bot", "user", "chat"} \cup {"role"}, {"name"})
      BY <2>1, Regardless
    <2> QED
      BY <1>9, <2>2, GoesOn
  <1>11. Begins("whatsapp", a11, {"mode"} \cup {"method"} \cup {"bot", "user", "chat"} \cup {"role"} \cup {"name"}, TRUE, FALSE)
    <2>1. Takes(WriteEnvVar({"name"}), {"name"}, {})
      BY Writings DEF Values, WriteEnvVar
    <2>2. Takes(WriteEnvVar({"name"}), {"mode"} \cup {"method"} \cup {"bot", "user", "chat"} \cup {"role"} \cup {"name"}, {})
      BY <2>1, Wider
    <2> QED
      BY <1>10, <2>1, <2>2, GoesOnWriting
  <1>12. Begins("whatsapp", a12, {"mode"} \cup {"method"} \cup {"bot", "user", "chat"} \cup {"role"} \cup {"name"}, TRUE, FALSE)
    <2>1. Quiet(number[3], {"name"}, {})
      BY <1>a, <1>b
    <2>2. Quiet(number[3], {"mode"} \cup {"method"} \cup {"bot", "user", "chat"} \cup {"role"} \cup {"name"}, {})
      BY <2>1, Wider
    <2> QED
      BY <1>11, <2>2, GoesOnAlike
  <1>13. Begins("whatsapp", a13, {"mode"} \cup {"method"} \cup {"bot", "user", "chat"} \cup {"role"} \cup {"name"}, TRUE, TRUE)
    <2>1. Takes(WhatsAppRestart, {}, {}) /\ Refreshing("whatsapp", WhatsAppRestart, TRUE)
      BY Restartings DEF Values, WhatsAppRestart, Quiet
    <2>2. Takes(WhatsAppRestart, {"mode"} \cup {"method"} \cup {"bot", "user", "chat"} \cup {"role"} \cup {"name"}, {})
      BY <2>1, Regardless
    <2> QED
      BY <1>12, <2>1, <2>2, GoesOnRefreshing
  <1>14. FlowIsSound("whatsapp", a14)
    <2>2. Quiet(Unawaited(InitFirstAgent), {"mode"} \cup {"method"} \cup {"bot", "user", "chat"} \cup {"role"} \cup {"name"}, {})
      BY LastPiece, Wider
    <2> QED
      BY <1>13, <2>2, LastPiece, GoesToTheEnd
  <1> QED
    BY <1>14 DEF WhatsAppPath

\* The steps of Teams that are more than one prompt.
LEMMA TeamsPieces ==
    /\ Quiet(StepAppRegistration, {}, {"type", "app"})
    /\ Quiet(StepClientSecret, {}, {"secret"})
    /\ Quiet(StepAzureBot, {"url", "type", "app"}, {})
    /\ Quiet(StepGenerateManifest, {"app", "url"}, {"zip"})
    /\ Quiet(StepSideload, {"zip"}, {})
  <1>1. Quiet(StepAppRegistration, {}, {"type", "app"})
    <2>1. /\ Quiet(AskAppType, {}, {"type"}) /\ Quiet(Ask({"app"}), {}, {"app"})
          /\ Quiet(AskOrBack({}), {}, {})
      BY Asks DEF AskAppType, Values
    <2>2. Quiet(Ask({"app"}), {"type"}, {"app"}) /\ Quiet(AskOrBack({}), {"type", "app"}, {})
      BY <2>1, Wider
    <2>3. Quiet(AskAppType \o Ask({"app"}), {}, {"type", "app"})
      BY <2>1, <2>2, QuietBoth
    <2> QED
      BY <2>2, <2>3, QuietBoth DEF StepAppRegistration
  <1>2. Quiet(StepClientSecret, {}, {"secret"})
    <2>1. Quiet(Ask({"secret"}), {}, {"secret"}) /\ Quiet(AskOrBack({}), {}, {})
      BY Asks DEF Values
    <2>2. Quiet(AskOrBack({}), {"secret"}, {})
      BY <2>1, Wider
    <2> QED
      BY <2>1, <2>2, QuietBoth DEF StepClientSecret
  <1>3. Quiet(StepAzureBot, {"url", "type", "app"}, {})
    <2> DEFINE stage == [Stage("prompt", "ask", {"url", "type", "app"}, {}) EXCEPT !.back = TRUE]
    <2>1. /\ stage \in Stages /\ stage.needs = {"url", "type", "app"} /\ stage.gives = {}
          /\ stage.does = "ask"
      BY DEF Stage, Stages, Kinds, Names, Values
    <2> HIDE DEF stage
    <2>2. Takes(<<stage>>, {"url", "type", "app"}, {}) /\ ~Altering(<<stage>>)
      BY <2>1, One DEF Alters
    <2> QED
      BY <2>2 DEF StepAzureBot, Quiet, stage
  <1>4. Quiet(StepGenerateManifest, {"app", "url"}, {"zip"})
    <2> DEFINE s == Check("teams-manifest", {"app", "url"}, {"zip"})
    <2>1. Quiet(s, {"app", "url"}, {"zip"})
      BY Checks DEF Names, Values
    <2> HIDE DEF s
    <2>2. s \in Seq(Stages)
      BY <2>1 DEF Quiet, Takes
    <2>3. Quiet(Unawaited(s), {"app", "url"}, {"zip"})
      BY <2>1, <2>2, UnawaitedSame DEF Quiet
    <2> QED
      BY <2>3 DEF StepGenerateManifest, s
  <1>5. Quiet(StepSideload, {"zip"}, {})
    <2> DEFINE stage == [Stage("prompt", "ask", {"zip"}, {}) EXCEPT !.back = TRUE]
    <2>1. stage \in Stages /\ stage.needs = {"zip"} /\ stage.gives = {} /\ stage.does = "ask"
      BY DEF Stage, Stages, Kinds, Names, Values
    <2> HIDE DEF stage
    <2>2. Takes(<<stage>>, {"zip"}, {}) /\ ~Altering(<<stage>>) /\ <<stage>> \in Seq(Stages)
      BY <2>1, One DEF Takes, Alters
    <2>3. Quiet(Strict(<<stage>>), {"zip"}, {})
      BY <2>2, StrictSame DEF Quiet
    <2> QED
      BY <2>3 DEF StepSideload, stage
  <1> QED
    BY <1>1, <1>2, <1>3, <1>4, <1>5

LEMMA TeamsReuse ==
    FlowIsSound("teams", ReuseTeamsCredentials \o InstallAdapter \o FinishWithHandoff)
  <1>a. Quiet(FinishWithHandoff, {}, {})
    BY Asks DEF FinishWithHandoff
  <1> DEFINE a1 == ReuseTeamsCredentials
             a2 == a1 \o InstallAdapter
             a3 == a2 \o FinishWithHandoff
  <1>1. Begins("teams", a1, {"app", "secret", "type"}, FALSE, FALSE)
    <2>1. Quiet(ReuseTeamsCredentials, {}, {"app", "secret", "type"})
      BY Asks DEF Values, ReuseTeamsCredentials
    <2> QED
      BY <2>1, FirstPiece DEF Quiet
  <1>2. Begins("teams", a2, {"app", "secret", "type"}, FALSE, TRUE)
    <2>1. /\ Takes(InstallAdapter, {"app", "secret", "type"}, {})
          /\ Refreshing("teams", InstallAdapter, FALSE)
      BY InstallsUnawaited DEF Values, Names, Quiet, Runs, ScriptOf, AddTeams, Script,
           InstallAdapter
    <2> QED
      BY <1>1, <2>1, GoesOnRefreshing
  <1>3. FlowIsSound("teams", a3)
    <2>2. Quiet(FinishWithHandoff, {"app", "secret", "type"}, {})
      BY <1>a, Wider
    <2> QED
      BY <1>2, <2>2, <1>a, GoesToTheEnd
  <1> QED
    BY <1>3

LEMMA TeamsPortal ==
    FlowIsSound("teams", ConfirmPrereqs \o StepPublicUrl \o StepAppRegistration \o StepClientSecret
                           \o StepAzureBot \o StepEnableTeamsChannel \o StepGenerateManifest
                           \o StepSideload \o InstallAdapter \o FinishWithHandoff)
  <1>a. Quiet(FinishWithHandoff, {}, {})
    BY Asks DEF FinishWithHandoff
  <1> DEFINE a1 == ConfirmPrereqs
             a2 == a1 \o StepPublicUrl
             a3 == a2 \o StepAppRegistration
             a4 == a3 \o StepClientSecret
             a5 == a4 \o StepAzureBot
             a6 == a5 \o StepEnableTeamsChannel
             a7 == a6 \o StepGenerateManifest
             a8 == a7 \o StepSideload
             a9 == a8 \o InstallAdapter
             a10 == a9 \o FinishWithHandoff
  <1>1. Begins("teams", a1, {}, FALSE, FALSE)
    <2>1. Quiet(ConfirmPrereqs, {}, {})
      BY Asks DEF Values, ConfirmPrereqs
    <2> QED
      BY <2>1, FirstPiece DEF Quiet
  <1>2. Begins("teams", a2, {"url"}, FALSE, FALSE)
    <2>1. Quiet(StepPublicUrl, {}, {"url"})
      BY Asks DEF Values, StepPublicUrl
    <2> QED
      BY <1>1, <2>1, GoesOnFirst
  <1>3. Begins("teams", a3, {"url"} \cup {"type", "app"}, FALSE, FALSE)
    <2>1. Quiet(StepAppRegistration, {}, {"type", "app"})
      BY TeamsPieces
    <2>2. Quiet(StepAppRegistration, {"url"}, {"type", "app"})
      BY <2>1, Regardless
    <2> QED
      BY <1>2, <2>2, GoesOn
  <1>4. Begins("teams", a4, {"url"} \cup {"type", "app"} \cup {"secret"}, FALSE, FALSE)
    <2>1. Quiet(StepClientSecret, {}, {"secret"})
      BY TeamsPieces
    <2>2. Quiet(StepClientSecret, {"url"} \cup {"type", "app"}, {"secret"})
      BY <2>1, Regardless
    <2> QED
      BY <1>3, <2>2, GoesOn
  <1>5. Begins("teams", a5, {"url"} \cup {"type", "app"} \cup {"secret"}, FALSE, FALSE)
    <2>1. Quiet(StepAzureBot, {"url", "type", "app"}, {})
      BY TeamsPieces
    <2>2. Quiet(StepAzureBot, {"url"} \cup {"type", "app"} \cup {"secret"}, {})
      BY <2>1, Wider
    <2> QED
      BY <1>4, <2>2, GoesOnAlike
  <1>6. Begins("teams", a6, {"url"} \cup {"type", "app"} \cup {"secret"}, FALSE, FALSE)
    <2>1. Quiet(StepEnableTeamsChannel, {}, {})
      BY Asks DEF Values, StepEnableTeamsChannel
    <2>2. Quiet(StepEnableTeamsChannel, {"url"} \cup {"type", "app"} \cup {"secret"}, {})
      BY <2>1, Regardless
    <2> QED
      BY <1>5, <2>2, GoesOnAlike
  <1>7. Begins("teams", a7, {"url"} \cup {"type", "app"} \cup {"secret"} \cup {"zip"}, FALSE, FALSE)
    <2>1. Quiet(StepGenerateManifest, {"app", "url"}, {"zip"})
      BY TeamsPieces
    <2>2. Quiet(StepGenerateManifest, {"url"} \cup {"type", "app"} \cup {"secret"}, {"zip"})
      BY <2>1, Wider
    <2> QED
      BY <1>6, <2>2, GoesOn
  <1>8. Begins("teams", a8, {"url"} \cup {"type", "app"} \cup {"secret"} \cup {"zip"}, FALSE, FALSE)
    <2>1. Quiet(StepSideload, {"zip"}, {})
      BY TeamsPieces
    <2>2. Quiet(StepSideload, {"url"} \cup {"type", "app"} \cup {"secret"} \cup {"zip"}, {})
      BY <2>1, Wider
    <2> QED
      BY <1>7, <2>2, GoesOnAlike
  <1>9. Begins("teams", a9, {"url"} \cup {"type", "app"} \cup {"secret"} \cup {"zip"}, FALSE, TRUE)
    <2>1. /\ Takes(InstallAdapter, {"app", "secret", "type"}, {})
          /\ Refreshing("teams", InstallAdapter, FALSE)
      BY InstallsUnawaited DEF Values, Names, Quiet, Runs, ScriptOf, AddTeams, Script,
           InstallAdapter
    <2>2. Takes(InstallAdapter, {"url"} \cup {"type", "app"} \cup {"secret"} \cup {"zip"}, {})
      BY <2>1, Wider
    <2> QED
      BY <1>8, <2>1, <2>2, GoesOnRefreshing
  <1>10. FlowIsSound("teams", a10)
    <2>2. Quiet(FinishWithHandoff, {"url"} \cup {"type", "app"} \cup {"secret"} \cup {"zip"}, {})
      BY <1>a, Wider
    <2> QED
      BY <1>9, <2>2, <1>a, GoesToTheEnd
  <1> QED
    BY <1>10

\* Every path of every channel's flow collects a value before it uses it, starts the
\* service anew after its last setting and, but for Teams, wires the chat.
LEMMA FlowsAreSound ==
    ASSUME NEW c \in AllChannels, NEW path \in FlowOf(c)
    PROVE  FlowIsSound(c, path)
  <1>1. \A p \in RunTeamsChannel : FlowIsSound("teams", p)
    BY TeamsReuse, TeamsPortal DEF RunTeamsChannel
  <1> QED
    BY <1>1, TelegramFlow, DiscordFlow, SlackFlow, WhatsAppFlow, SignalFlow, IMessageFlow
    DEF FlowOf, AllChannels

-----------------------------------------------------------------------------
(* The steps of the wizard. *)

LEMMA StepsAre ==
    Steps = {"environment", "container", "onecli", "auth", "fallback", "mounts", "service",
             "cli-agent", "timezone", "channel", "verify"}
  BY DEF Steps, Order

LEMMA FollowsIs ==
    /\ Follows("environment") => at' = "container"
    /\ Follows("container") => at' = "onecli"
    /\ Follows("onecli") => at' = "auth"
    /\ Follows("auth") => at' = "fallback"
    /\ Follows("fallback") => at' = "mounts"
    /\ Follows("mounts") => at' = "service"
    /\ Follows("service") => at' = "cli-agent"
    /\ Follows("cli-agent") => at' = "timezone"
    /\ Follows("timezone") => at' = "channel"
    /\ Follows("channel") => at' = "verify"
    /\ ~Follows("verify")
  <1>1. Len(Order) = 11 /\ \A i \in 1..10 : i \in {1, 2, 3, 4, 5, 6, 7, 8, 9, 10}
    BY DEF Order
  <1>2. ASSUME NEW step, Follows(step)
        PROVE  \E i \in {1, 2, 3, 4, 5, 6, 7, 8, 9, 10} : Order[i] = step /\ at' = Order[i + 1]
    BY <1>1, <1>2 DEF Follows
  <1> QED
    BY <1>2 DEF Order

\* Where a step leads from.
LEMMA SkipLeads ==
    ASSUME at \in Steps, Follows(at)
    PROVE  at' \in Steps /\ at' # "environment" /\ at # "verify"
  BY StepsAre, FollowsIs

LEMMA Budget ==
    ASSUME SetupTypeOK, Mishap \/ NoMishap
    PROVE  runs' \in 1..MaxRuns /\ mishaps' \in 0..MaxMishaps
  BY SetupAssumption DEF SetupTypeOK, Mishap, NoMishap, budgetVars

\* The chosen channel.
LEMMA ThisIs ==
    ASSUME SetupTypeOK, NEW c \in channel
    PROVE  This = c /\ channel = {This} /\ This \in Channels
  BY DEF This, SetupTypeOK

-----------------------------------------------------------------------------
(* Types. *)

ProcessTypeOK ==
    /\ at \in Steps \cup Parts \cup Ends
    /\ skip \subseteq Steps /\ logged \subseteq Steps
    /\ offered \in BOOLEAN
    /\ channel \subseteq Channels /\ \A c, d \in channel : c = d
    /\ todo \in Seq(Stages)

MachineTypeOK ==
    /\ made \subseteq {"image", "mounts", "vault"}
    /\ secret \in {"none", "held", "later"}
    /\ zone \in {"none", "saved", "unsaved"}
    /\ env \subseteq Channels \cup {"onecli", "fallback", "settings"}
    /\ stale \subseteq env \cup {"fallback"}
    /\ svc \in {"none", "script", "down", "up"}
    /\ live \subseteq dist /\ dist \subseteq marks /\ marks \subseteq Channels
    /\ deps \subseteq marks
    /\ missed \in BOOLEAN
    /\ creds \subseteq {"whatsapp", "half", "signal"}
    /\ agents \subseteq {"cli", "dm"} /\ wired \subseteq Channels

LEMMA TypesAre ==
    SetupTypeOK <=> /\ ProcessTypeOK /\ MachineTypeOK
                    /\ runs \in 1..MaxRuns /\ mishaps \in 0..MaxMishaps
  BY DEF SetupTypeOK, ProcessTypeOK, MachineTypeOK

\* The ways the process moves on.
LEMMA Leaves ==
    ASSUME ProcessTypeOK, LeaveFlow
    PROVE  /\ channel' = {} /\ todo' = <<>>
           /\ channel' \subseteq Channels /\ (\A c, d \in channel' : c = d) /\ todo' \in Seq(Stages)
  <1>1. channel' = {} /\ todo' = <<>>
    BY DEF LeaveFlow
  <1>2. <<>> \in Seq(Stages)
    BY EmptySeq
  <1> QED
    BY <1>1, <1>2

LEMMA DoneTypes ==
    ASSUME ProcessTypeOK, NEW step \in Steps, Done(step) \/ DoneUnlogged(step)
    PROVE  ProcessTypeOK'
  <1>1. at' \in Steps
    BY StepsAre, FollowsIs DEF Done, DoneUnlogged
  <1> QED
    BY <1>1 DEF ProcessTypeOK, Done, DoneUnlogged, Log, InFlow

LEMMA FailsTypes ==
    ASSUME ProcessTypeOK, Fails
    PROVE  ProcessTypeOK'
  BY Leaves DEF ProcessTypeOK, Fails, Parts

LEMMA NewProcessTypes ==
    ASSUME SetupTypeOK, NEW steps, steps \subseteq Steps, NewProcess(steps)
    PROVE  SetupTypeOK'
  <1>1. ProcessTypeOK'
    BY TypesAre, Leaves, StepsAre DEF ProcessTypeOK, NewProcess
  <1>2. MachineTypeOK'
    BY TypesAre DEF MachineTypeOK, NewProcess, machineVars, serviceVars, buildVars, agentVars
  <1>3. runs' \in 1..MaxRuns /\ mishaps' \in 0..MaxMishaps
    BY SetupAssumption DEF SetupTypeOK, NewProcess
  <1> QED
    BY <1>1, <1>2, <1>3 DEF SetupTypeOK, ProcessTypeOK, MachineTypeOK

LEMMA TailTypes ==
    ASSUME NEW s \in Seq(Stages), s # <<>>
    PROVE  /\ Tail(s) \in Seq(Stages) /\ Len(Tail(s)) = Len(s) - 1 /\ Len(s) \in Nat \ {0}
           /\ DOMAIN s = 1..Len(s) /\ DOMAIN Tail(s) = 1..(Len(s) - 1)
           /\ \A i \in 1..(Len(s) - 1) : Tail(s)[i] = s[i + 1]
           /\ Head(s) = s[1] /\ 1 \in DOMAIN s /\ s[1] \in Stages
  BY HeadTailProperties, LenProperties, EmptySeq

LEMMA StageTypes ==
    ASSUME ProcessTypeOK, todo # <<>>, Passes \/ StageFails
    PROVE  ProcessTypeOK'
  <1>1. Tail(todo) \in Seq(Stages)
    BY TailTypes DEF ProcessTypeOK
  <1>2. CASE Passes
    BY <1>1, <1>2 DEF ProcessTypeOK, Passes
  <1>3. CASE StageFails
    BY <1>1, <1>3, FailsTypes DEF ProcessTypeOK, StageFails
  <1> QED
    BY <1>2, <1>3

\* The service.
LEMMA StartedTypes ==
    ASSUME NEW built, NEW pkgs, NEW items, NEW linked, Started(built, pkgs, items, linked)
    PROVE  /\ svc' \in {"down", "up"} /\ live' \subseteq built /\ stale' = {} /\ missed' = FALSE
           /\ \A c \in built : Credentialed(c, items, linked) => c \in live' \/ svc' # "up"
  <1>1. /\ svc' = IF Builds(built, pkgs) THEN "up" ELSE "down"
        /\ live' = {c \in built : Builds(built, pkgs) /\ Credentialed(c, items, linked)}
        /\ stale' = {} /\ missed' = FALSE
    BY DEF Started
  <1> QED
    BY <1>1

LEMMA MissedTypes ==
    ASSUME NEW written, Missed(written)
    PROVE  /\ missed' = TRUE /\ stale \subseteq stale' /\ stale' \subseteq stale \cup written
           /\ svc # "up" => stale' = stale
           /\ UNCHANGED <<svc, live>>
  BY DEF Missed

LEMMA RestartsTypes ==
    ASSUME MachineTypeOK, NEW built, NEW pkgs, NEW items, NEW linked, NEW written,
           Restarts(built, pkgs, items, linked, written),
           env \subseteq items, written \subseteq items, dist \subseteq built
    PROVE  /\ svc' \in {"none", "script", "down", "up"} /\ live' \subseteq built
           /\ stale' \subseteq items \cup {"fallback"} /\ missed' \in BOOLEAN
           /\ Mishap \/ NoMishap
  <1>1. CASE Missed(written) /\ (NoMishap \/ Mishap)
    BY <1>1, MissedTypes DEF MachineTypeOK
  <1>2. CASE Started(built, pkgs, items, linked) /\ NoMishap
    BY <1>2, StartedTypes
  <1> QED
    BY <1>1, <1>2 DEF Restarts

LEMMA WritesTypes ==
    ASSUME NEW items, Writes(items)
    PROVE  /\ stale \subseteq stale' /\ stale' \subseteq stale \cup items
           /\ svc # "up" => stale' = stale
           /\ UNCHANGED <<svc, live, missed>>
  BY DEF Writes

-----------------------------------------------------------------------------

\* The three parts together.
LEMMA TypesTogether ==
    ASSUME SetupTypeOK, ProcessTypeOK', MachineTypeOK', Mishap \/ NoMishap
    PROVE  SetupTypeOK'
  BY Budget DEF SetupTypeOK, ProcessTypeOK, MachineTypeOK

LEMMA StepTypes ==
    ASSUME SetupTypeOK, Step
    PROVE  SetupTypeOK'
  <1> USE DEF NoMishap
  <1>1. ProcessTypeOK /\ MachineTypeOK
    BY TypesAre
  <1>2. Steps = {"environment", "container", "onecli", "auth", "fallback", "mounts", "service",
                 "cli-agent", "timezone", "channel", "verify"}
    BY StepsAre
  <1>3. ASSUME MachineTypeOK
        PROVE  UNCHANGED machineVars => MachineTypeOK'
    BY <1>3 DEF MachineTypeOK, machineVars, serviceVars, buildVars, agentVars
  <1>4. CASE Skip
    <2>1. at \in Steps /\ (NoMishap \/ Mishap)
      BY <1>1, <1>2, <1>4 DEF Skip, ProcessTypeOK
    <2>2. ProcessTypeOK'
      BY <1>1, <2>1, <1>4, DoneTypes DEF Skip
    <2> QED
      BY <1>1, <1>3, <1>4, <2>1, <2>2, TypesTogether DEF Skip
  <1>5. CASE Environment
    <2>1. ProcessTypeOK'
      BY <1>1, <1>2, <1>5, DoneTypes, FailsTypes DEF Environment
    <2> QED
      BY <1>1, <1>3, <1>5, <2>1, TypesTogether DEF Environment
  <1>6. CASE Container
    <2>1. ProcessTypeOK'
      BY <1>1, <1>2, <1>6, DoneTypes, FailsTypes DEF Container
    <2>2. MachineTypeOK'
      BY <1>1, <1>6 DEF Container, BuildImage, MachineTypeOK, serviceVars, buildVars, agentVars
    <2> QED
      BY <1>6, <2>1, <2>2, TypesTogether DEF Container
  <1>7. CASE MaybeReexecUnderSg
    BY <1>7, NewProcessTypes DEF MaybeReexecUnderSg, SetupTypeOK
  <1>8. CASE OneCli
    <2>1. ProcessTypeOK'
      BY <1>1, <1>2, <1>8, DoneTypes, FailsTypes DEF OneCli
    <2>2. MachineTypeOK' /\ (Mishap \/ NoMishap)
      <3>1. CASE ConnectVault
        BY <1>1, <1>8, <3>1, WritesTypes
        DEF OneCli, ConnectVault, PollHealth, MachineTypeOK, serviceVars, buildVars, agentVars
      <3>2. CASE Mishap /\ UNCHANGED <<env, made, serviceVars>>
        BY <1>1, <1>8, <3>2 DEF OneCli, MachineTypeOK, serviceVars, buildVars, agentVars
      <3> QED
        BY <1>8, <3>1, <3>2 DEF OneCli
    <2> QED
      BY <2>1, <2>2, TypesTogether
  <1>9. CASE RunAuthStep
    <2>1. Done("auth") \/ DoneUnlogged("auth") \/ Fails
      BY <1>9 DEF RunAuthStep, RunSubscriptionAuth, RunPasteAuth, ConnectLater, SaveFails
    <2>2. ProcessTypeOK'
      BY <1>1, <1>2, <2>1, DoneTypes, FailsTypes
    <2>3. secret' \in {"none", "held", "later"} /\ (Mishap \/ NoMishap)
      BY <1>1, <1>9 DEF MachineTypeOK, RunAuthStep, RunSubscriptionAuth, RunPasteAuth, ConnectLater,
                        Saves, SaveFails
    <2>4. MachineTypeOK'
      BY <1>1, <1>9, <2>3 DEF RunAuthStep, MachineTypeOK, serviceVars, buildVars, agentVars
    <2> QED
      BY <2>2, <2>3, <2>4, TypesTogether
  <1>10. CASE Backup
    <2>1. ProcessTypeOK'
      BY <1>1, <1>2, <1>10, DoneTypes DEF Backup
    <2>2. MachineTypeOK'
      <3>1. CASE WriteBackup \/ RemoveBackup
        BY <1>1, <1>10, <3>1, WritesTypes
        DEF Backup, WriteBackup, RemoveBackup, MachineTypeOK, buildVars, agentVars
      <3>2. CASE KeepBackup
        BY <1>1, <1>10, <3>2 DEF Backup, KeepBackup, MachineTypeOK, serviceVars, buildVars,
             agentVars
      <3> QED
        BY <1>10, <3>1, <3>2 DEF Backup, RunFallbackWizard, SetupOpenCode, SetupOllama
    <2> QED
      BY <1>10, <2>1, <2>2, TypesTogether DEF Backup
  <1>11. CASE Mounts
    <2>1. ProcessTypeOK'
      BY <1>1, <1>2, <1>11, DoneTypes, FailsTypes DEF Mounts
    <2>2. MachineTypeOK'
      BY <1>1, <1>11 DEF Mounts, WriteAllowlist, MachineTypeOK, serviceVars, buildVars, agentVars
    <2> QED
      BY <1>11, <2>1, <2>2, TypesTogether DEF Mounts
  <1>12. CASE Service
    <2>1. ProcessTypeOK'
      BY <1>1, <1>2, <1>12, DoneTypes, FailsTypes DEF Service, BuildAndInstall
    <2>2. MachineTypeOK' /\ (Mishap \/ NoMishap)
      <3>1. dist' = marks /\ UNCHANGED <<made, secret, zone, env, creds, marks, deps, agentVars>>
        BY <1>12 DEF Service, BuildAndInstall
      <3>2. CASE Started(marks, deps, env, creds) /\ NoMishap
        BY <1>1, <3>1, <3>2, StartedTypes DEF MachineTypeOK, agentVars
      <3>3. CASE svc' = "down" /\ live' = {} /\ stale' = {} /\ missed' = TRUE /\ Mishap
        BY <1>1, <3>1, <3>3 DEF MachineTypeOK, agentVars
      <3>4. CASE SetupNohupFallback
        BY <1>1, <3>1, <3>4 DEF SetupNohupFallback, MachineTypeOK, agentVars
      <3>5. CASE NoMishap /\ UNCHANGED serviceVars
        BY <1>1, <3>1, <3>5 DEF MachineTypeOK, serviceVars, agentVars
      <3> QED
        BY <1>12, <3>2, <3>3, <3>4, <3>5 DEF Service, BuildAndInstall, SetupSystemd
    <2> QED
      BY <2>1, <2>2, TypesTogether
  <1>13. CASE InitCliAgent
    <2>1. ProcessTypeOK'
      <3>1. CASE at' = "ping" /\ Log("cli-agent") /\ InFlow
        BY <1>1, <1>2, <3>1 DEF ProcessTypeOK, Log, InFlow, Parts
      <3> QED
        BY <1>1, <1>13, <3>1, FailsTypes DEF InitCliAgent
    <2>2. MachineTypeOK'
      BY <1>1, <1>13 DEF InitCliAgent, CreateCliAgent, MachineTypeOK, serviceVars, buildVars
    <2> QED
      BY <1>13, <2>1, <2>2, TypesTogether DEF InitCliAgent
  <1>14. CASE ConfirmAssistantResponds
    <2>1. ProcessTypeOK'
      BY <1>1, <1>2, <1>14 DEF ConfirmAssistantResponds, ProcessTypeOK, InFlow, Parts
    <2>2. MachineTypeOK'
      BY <1>1, <1>14 DEF ConfirmAssistantResponds, DeleteCliAgent, MachineTypeOK, serviceVars,
           buildVars
    <2> QED
      BY <1>14, <2>1, <2>2, TypesTogether DEF ConfirmAssistantResponds
  <1>15. CASE FirstChat
    <2>1. ProcessTypeOK'
      <3>1. CASE at' = "timezone" /\ InFlow /\ UNCHANGED <<skip, logged, offered>>
        BY <1>1, <1>2, <3>1 DEF ProcessTypeOK, InFlow
      <3> QED
        BY <1>1, <1>15, <3>1, FailsTypes DEF FirstChat
    <2>2. MachineTypeOK'
      BY <1>1, <1>15 DEF FirstChat, CreateCliAgent, MachineTypeOK, serviceVars, buildVars
    <2> QED
      BY <1>15, <2>1, <2>2, TypesTogether DEF FirstChat
  <1>16. CASE DetectTimezone
    <2>1. ProcessTypeOK'
      <3>1. CASE at' = "where" /\ InFlow /\ (Log("timezone") \/ UNCHANGED <<skip, logged, offered>>)
        BY <1>1, <1>2, <3>1 DEF ProcessTypeOK, InFlow, Log, Parts
      <3> QED
        BY <1>1, <1>16, <3>1, FailsTypes DEF DetectTimezone
    <2>2. MachineTypeOK'
      BY <1>1, <1>16 DEF DetectTimezone, SaveZone, MachineTypeOK, serviceVars, buildVars, agentVars
    <2> QED
      BY <1>16, <2>1, <2>2, TypesTogether DEF DetectTimezone
  <1>17. CASE ConfirmTimezone
    <2>1. ProcessTypeOK'
      <3>1. CASE at' = "channel" /\ InFlow /\ (Log("timezone") \/ UNCHANGED <<skip, logged, offered>>)
        BY <1>1, <1>2, <3>1 DEF ProcessTypeOK, InFlow, Log
      <3> QED
        BY <1>1, <1>17, <3>1, FailsTypes DEF ConfirmTimezone
    <2>2. MachineTypeOK'
      BY <1>1, <1>17 DEF ConfirmTimezone, SaveZone, MachineTypeOK, serviceVars, buildVars, agentVars
    <2> QED
      BY <1>17, <2>1, <2>2, TypesTogether DEF ConfirmTimezone
  <1>18. CASE Verify
    <2>1. ProcessTypeOK'
      BY <1>1, <1>2, <1>18 DEF Verify, ProcessTypeOK, InFlow, Ends
    <2> QED
      BY <1>1, <1>3, <1>18, <2>1, TypesTogether DEF Verify
  <1> QED
    BY <1>4, <1>5, <1>6, <1>7, <1>8, <1>9, <1>10, <1>11, <1>12, <1>13, <1>14, <1>15, <1>16, <1>17,
         <1>18
    DEF Step

-----------------------------------------------------------------------------

\* The prompts that come next are answered.
LEMMA RestTypes ==
    ASSUME NEW s \in Seq(Stages), NEW n \in DOMAIN s
    PROVE  /\ SubSeq(s, n + 1, Len(s)) \in Seq(Stages)
           /\ n \in Nat \ {0} /\ Len(s) \in Nat /\ n <= Len(s) /\ DOMAIN s = 1..Len(s)
           /\ Len(SubSeq(s, n + 1, Len(s))) = Len(s) - n
           /\ DOMAIN SubSeq(s, n + 1, Len(s)) = 1..(Len(s) - n)
           /\ \A i \in 1..(Len(s) - n) : SubSeq(s, n + 1, Len(s))[i] = s[n + i]
  <1>1. n \in Nat \ {0} /\ Len(s) \in Nat /\ n <= Len(s) /\ DOMAIN s = 1..Len(s)
    OBVIOUS
  <1> DEFINE rest == SubSeq(s, n + 1, Len(s))
  <1>2. \A i \in (n + 1)..Len(s) : s[i] \in Stages
    BY <1>1
  <1>3. /\ rest \in Seq(Stages)
        /\ Len(rest) = IF n + 1 <= Len(s) THEN Len(s) - (n + 1) + 1 ELSE 0
        /\ \A i \in 1..(Len(s) - (n + 1) + 1) : rest[i] = s[(n + 1) + i - 1]
    BY <1>1, <1>2, SubSeqProperties
  <1> HIDE DEF rest
  <1>4. Len(rest) = Len(s) - n /\ DOMAIN rest = 1..Len(rest)
    BY <1>1, <1>3
  <1>5. ASSUME NEW i \in 1..(Len(s) - n) PROVE rest[i] = s[n + i]
    <2>1. rest[i] = s[(n + 1) + i - 1] /\ (n + 1) + i - 1 = n + i
      BY <1>1, <1>3
    <2> QED
      BY <2>1
  <1> QED
    BY <1>1, <1>3, <1>4, <1>5 DEF rest

\* The stages of a flow are of its channel.
LEMMA InStageHas ==
    ASSUME SetupTypeOK, NEW kinds, InStage(kinds)
    PROVE  /\ at = "channel" /\ todo # <<>> /\ Now = todo[1] /\ Now \in Stages /\ Now.does \in kinds
           /\ This \in channel /\ channel = {This} /\ This \in Channels
  <1>1. PICK c \in channel : TRUE
    BY DEF InStage
  <1>2. This = c /\ channel = {This} /\ This \in Channels
    BY <1>1, ThisIs
  <1>3. todo \in Seq(Stages) /\ todo # <<>>
    BY DEF SetupTypeOK, InStage
  <1> QED
    BY <1>2, <1>3, TailTypes DEF InStage, Now

LEMMA StageLeads ==
    ASSUME SetupTypeOK, NEW kinds, InStage(kinds), Passes \/ StageFails
    PROVE  ProcessTypeOK'
  BY InStageHas, StageTypes, TypesAre

LEMMA SameMachine ==
    ASSUME MachineTypeOK, UNCHANGED machineVars
    PROVE  MachineTypeOK'
  BY DEF MachineTypeOK, machineVars, serviceVars, buildVars, agentVars

LEMMA LeaveTypes ==
    ASSUME ProcessTypeOK, LeaveFlow, at' \in Steps \cup Parts \cup Ends, UNCHANGED <<skip, logged, offered>>
    PROVE  ProcessTypeOK'
  BY Leaves DEF ProcessTypeOK

LEMMA InstallTypes ==
    ASSUME SetupTypeOK, InstallAdapterStage
    PROVE  ProcessTypeOK' /\ MachineTypeOK' /\ (Mishap \/ NoMishap)
  <1>1. ProcessTypeOK'
    BY StageLeads DEF InstallAdapterStage, InstallSucceeds, InstallStops, InstallBreaks
  <1>2. MachineTypeOK /\ This \in Channels
    BY InStageHas, TypesAre DEF InstallAdapterStage
  <1>3. /\ UNCHANGED <<made, secret, zone, creds, agents, wired>>
        /\ made' \subseteq {"image", "mounts", "vault"} /\ creds' \subseteq {"whatsapp", "half", "signal"}
        /\ agents' \subseteq {"cli", "dm"} /\ wired' \subseteq Channels
        /\ secret' \in {"none", "held", "later"} /\ zone' \in {"none", "saved", "unsaved"}
    BY <1>2 DEF InstallAdapterStage, MachineTypeOK, agentVars
  <1>4. ASSUME InstallSucceeds PROVE MachineTypeOK'
    <2> DEFINE sources == marks \cup {This}
               pkgs == IF NeedInstall(This) THEN deps \cup {This} ELSE deps
               built == IF BuildsFor(This) THEN sources ELSE dist
               items == IF Runs(This, "env") THEN env \cup {This} ELSE env
    <2>1. /\ marks' = sources /\ deps' = pkgs /\ dist' = built /\ env' = items
          /\ IF Runs(This, "restart") THEN Restarts(built, pkgs, items, creds, {This})
             ELSE NoMishap /\ UNCHANGED serviceVars
      BY <1>4 DEF InstallSucceeds
    <2>2. /\ sources \subseteq Channels /\ pkgs \subseteq sources /\ built \subseteq sources
          /\ dist \subseteq built /\ env \subseteq items
          /\ items \subseteq Channels \cup {"onecli", "fallback", "settings"}
      BY <1>2 DEF MachineTypeOK, NeedInstall
    <2> HIDE DEF sources, pkgs, built, items
    <2>3. /\ svc' \in {"none", "script", "down", "up"} /\ live' \subseteq built
          /\ stale' \subseteq items \cup {"fallback"} /\ missed' \in BOOLEAN
          /\ Mishap \/ NoMishap
      <3>1. CASE ~Runs(This, "restart")
        BY <1>2, <2>1, <2>2, <3>1 DEF MachineTypeOK, serviceVars
      <3>2. CASE Runs(This, "restart")
        <4>1. Restarts(built, pkgs, items, creds, {This})
          BY <2>1, <3>2
        <4>2. CASE Missed({This})
          <5>1. stale' \subseteq stale \cup (IF svc = "up" THEN {This} ELSE {})
            BY <4>2 DEF Missed
          <5>2. This \in items \/ ~Runs(This, "env")
            BY DEF items
          <5>3. Runs(This, "env")
            BY <1>2, <3>2, SetupAssumption
            DEF Runs, ScriptOf, AllChannels, Script, AddTelegram, AddDiscord, AddSlack, AddTeams, AddIMessage,
                AddWhatsApp, AddSignal
          <5> QED
            BY <1>2, <2>2, <4>1, <4>2, <5>1, <5>2, <5>3, RestartsTypes DEF MachineTypeOK
        <4>3. CASE Started(built, pkgs, items, creds) /\ NoMishap
          BY <4>3, StartedTypes
        <4> QED
          BY <4>1, <4>2, <4>3 DEF Restarts
      <3> QED
        BY <3>1, <3>2
    <2>4. /\ marks' \subseteq Channels /\ deps' \subseteq marks' /\ dist' \subseteq marks'
          /\ env' \subseteq Channels \cup {"onecli", "fallback", "settings"}
          /\ live' \subseteq dist' /\ stale' \subseteq env' \cup {"fallback"}
      BY <2>1, <2>2, <2>3
    <2> QED
      BY <1>3, <2>1, <2>3, <2>4 DEF MachineTypeOK
  <1>5. ASSUME InstallStops \/ InstallBreaks PROVE MachineTypeOK'
    <2>1. UNCHANGED <<env, stale, svc, live, missed>>
      BY <1>5 DEF InstallStops, InstallBreaks, serviceVars
    <2>2. /\ marks' = marks \/ marks' = marks \cup {This}
          /\ deps' = deps \/ (deps' = deps \cup {This} /\ marks' = marks \cup {This})
          /\ dist' = dist \/ dist' = marks'
      BY <1>5 DEF InstallStops, InstallBreaks, buildVars
    <2>3. marks' \subseteq Channels /\ deps' \subseteq marks' /\ dist \subseteq dist' /\ dist' \subseteq marks'
      BY <1>2, <2>2 DEF MachineTypeOK
    <2>4. /\ env' \subseteq Channels \cup {"onecli", "fallback", "settings"}
          /\ live' \subseteq dist' /\ stale' \subseteq env' \cup {"fallback"}
          /\ svc' \in {"none", "script", "down", "up"} /\ missed' \in BOOLEAN
      BY <1>2, <2>1, <2>3 DEF MachineTypeOK
    <2> QED
      BY <1>3, <2>3, <2>4 DEF MachineTypeOK
  <1>7. Mishap \/ NoMishap
    BY DEF InstallAdapterStage, InstallSucceeds, InstallStops, InstallBreaks, Restarts
  <1> QED
    BY <1>1, <1>4, <1>5, <1>7 DEF InstallAdapterStage

LEMMA AuthTypes ==
    ASSUME SetupTypeOK, Authenticate
    PROVE  ProcessTypeOK' /\ MachineTypeOK' /\ (Mishap \/ NoMishap)
  <1>1. Passes \/ StageFails
    BY DEF Authenticate, LinkWhatsApp, LinkSignal, LinkFails
  <1>2. ProcessTypeOK'
    BY <1>1, StageLeads DEF Authenticate
  <1>3. creds' \subseteq {"whatsapp", "half", "signal"} /\ (Mishap \/ NoMishap)
    BY DEF SetupTypeOK, Authenticate, LinkWhatsApp, LinkSignal, LinkFails
  <1> QED
    BY <1>2, <1>3, TypesAre DEF Authenticate, MachineTypeOK, serviceVars, buildVars, agentVars

LEMMA FlowTypes ==
    ASSUME SetupTypeOK, Flow
    PROVE  SetupTypeOK'
  <1>1. ProcessTypeOK /\ MachineTypeOK
    BY TypesAre
  <1>4. CASE AskChannelChoice
    <2>1. ProcessTypeOK'
      <3>1. ASSUME NEW c \in Channels, NEW path \in FlowOf(c), channel' = {c}, todo' = path, UNCHANGED at
            PROVE  ProcessTypeOK'
        <4>1. path \in Seq(Stages)
          BY <3>1, FlowsAreSound, SetupAssumption DEF FlowIsSound
        <4> QED
          BY <1>1, <1>4, <3>1, <4>1 DEF AskChannelChoice, ProcessTypeOK
      <3>2. CASE at' = "verify" /\ InFlow
        BY <1>1, <1>4, <3>2, StepsAre DEF AskChannelChoice, ProcessTypeOK, InFlow
      <3> QED
        BY <1>4, <3>1, <3>2 DEF AskChannelChoice
    <2> QED
      BY <1>1, <1>4, <2>1, SameMachine, TypesTogether DEF AskChannelChoice, NoMishap
  <1>5. CASE Throws
    <2>1. ProcessTypeOK'
      BY <1>1, <1>5, LeaveTypes DEF Throws, Ends
    <2> QED
      BY <1>1, <1>5, <2>1, SameMachine, TypesTogether DEF Throws, NoMishap
  <1>6. CASE Answer
    <2>1. PICK n \in DOMAIN todo : todo' = SubSeq(todo, n + 1, Len(todo))
      BY <1>6 DEF Answer
    <2>2. todo' \in Seq(Stages)
      BY <1>1, <2>1, RestTypes DEF ProcessTypeOK
    <2>3. ProcessTypeOK'
      BY <1>1, <1>6, <2>2 DEF Answer, ProcessTypeOK
    <2> QED
      BY <1>1, <1>6, <2>3, SameMachine, TypesTogether DEF Answer, NoMishap
  <1>7. CASE GoBack
    <2>1. ProcessTypeOK'
      BY <1>1, <1>7, LeaveTypes DEF GoBack, ProcessTypeOK
    <2> QED
      BY <1>1, <1>7, <2>1, SameMachine, TypesTogether DEF GoBack, NoMishap
  <1>8. CASE CallPlatform
    BY <1>1, <1>8, StageLeads, SameMachine, TypesTogether DEF CallPlatform
  <1>9. CASE InstallAdapterStage
    BY <1>9, InstallTypes, TypesTogether
  <1>10. CASE Authenticate
    BY <1>10, AuthTypes, TypesTogether
  <1>11. CASE ReadAccount
    <2>1. ProcessTypeOK'
      BY <1>11, StageLeads DEF ReadAccount
    <2> QED
      BY <1>1, <1>11, <2>1, SameMachine, TypesTogether DEF ReadAccount, NoMishap
  <1>12. CASE WriteSettings
    <2>1. ProcessTypeOK'
      BY <1>12, StageLeads DEF WriteSettings
    <2>2. PICK item \in {"signal", "settings"} :
            /\ item = "signal" => This = "signal"
            /\ env' = env \cup {item} /\ Writes({item})
      BY <1>12 DEF WriteSettings
    <2>3. This \in Channels
      BY <1>12, InStageHas DEF WriteSettings
    <2>4. UNCHANGED <<made, secret, zone, creds, buildVars, agentVars>> /\ NoMishap
      BY <1>12 DEF WriteSettings, NoMishap
    <2>5. MachineTypeOK'
      BY <1>1, <2>2, <2>3, <2>4, WritesTypes DEF MachineTypeOK, buildVars, agentVars
    <2> QED
      BY <2>1, <2>4, <2>5, TypesTogether
  <1>13. CASE RestartService
    <2>1. ProcessTypeOK'
      BY <1>13, StageLeads DEF RestartService
    <2>2. /\ svc' \in {"none", "script", "down", "up"} /\ live' \subseteq dist
          /\ stale' \subseteq env \cup {"fallback"} /\ missed' \in BOOLEAN
          /\ Mishap \/ NoMishap
      BY <1>1, <1>13, RestartsTypes DEF RestartService
    <2>3. MachineTypeOK'
      BY <1>1, <1>13, <2>2 DEF RestartService, MachineTypeOK, buildVars, agentVars
    <2> QED
      BY <2>1, <2>2, <2>3, TypesTogether
  <1>14. CASE InitFirstAgentStage
    <2>1. ProcessTypeOK'
      BY <1>14, StageLeads DEF InitFirstAgentStage, SendWelcome
    <2>2. agents' \subseteq {"cli", "dm"} /\ wired' \subseteq Channels /\ (Mishap \/ NoMishap)
      BY <1>1, <1>14, InStageHas
      DEF InitFirstAgentStage, WiresChat, SendWelcome, MachineTypeOK, agentVars
    <2>3. MachineTypeOK'
      BY <1>1, <1>14, <2>2 DEF InitFirstAgentStage, MachineTypeOK, serviceVars, buildVars
    <2> QED
      BY <2>1, <2>2, <2>3, TypesTogether
  <1>15. CASE LeaveChannel
    <2>1. ProcessTypeOK'
      BY <1>1, <1>15, StepsAre DEF LeaveChannel, ProcessTypeOK
    <2> QED
      BY <1>1, <1>15, <2>1, SameMachine, TypesTogether DEF LeaveChannel, NoMishap
  <1> QED
    BY <1>4, <1>5, <1>6, <1>7, <1>8, <1>9, <1>10, <1>11, <1>12, <1>13, <1>14, <1>15 DEF Flow

LEMMA PairTypes ==
    ASSUME SetupTypeOK, Pair
    PROVE  SetupTypeOK'
  <1>1. ProcessTypeOK /\ MachineTypeOK
    BY TypesAre
  <1>2. UNCHANGED machineVars /\ (Mishap \/ NoMishap)
    BY DEF Pair, BeginPairing, SendCode, MatchCode, AnotherCode, Paired, NotPaired, Oddly, NoMishap
  <1>3. CASE UNCHANGED processVars
    BY <1>1, <1>2, <1>3, SameMachine, TypesTogether DEF ProcessTypeOK, processVars
  <1>4. CASE Paired \/ NotPaired
    <2>1. ProcessTypeOK'
      BY <1>4, StageLeads DEF Paired, NotPaired, PairingStage
    <2> QED
      BY <1>1, <1>2, <2>1, SameMachine, TypesTogether
  <1> QED
    BY <1>3, <1>4 DEF Pair, BeginPairing, SendCode, MatchCode, AnotherCode

LEMMA TypesStay ==
    ASSUME SetupTypeOK, [SetupNext]_setupVars
    PROVE  SetupTypeOK'
  <1>1. ProcessTypeOK /\ MachineTypeOK
    BY TypesAre
  <1>2. skip \subseteq Steps /\ logged \subseteq Steps /\ skip \cup logged \subseteq Steps /\ {} \subseteq Steps
    BY DEF SetupTypeOK
  <1>3. CASE Retry
    BY <1>2, <1>3, NewProcessTypes DEF Retry
  <1>4. CASE Again
    BY <1>2, <1>4, NewProcessTypes DEF Again
  <1>5. CASE Abort
    <2>1. ProcessTypeOK'
      BY <1>1, <1>5, LeaveTypes DEF Abort, Ends
    <2> QED
      BY <1>1, <1>5, <2>1, SameMachine, TypesTogether DEF Abort, NoMishap
  <1>6. CASE Cancel
    <2>1. ProcessTypeOK'
      BY <1>1, <1>6, LeaveTypes DEF Cancel, Ends
    <2> QED
      BY <1>1, <1>6, <2>1, SameMachine, TypesTogether DEF Cancel
  <1>7. CASE UNCHANGED setupVars
    BY <1>7 DEF setupVars, processVars, budgetVars, machineVars, serviceVars, buildVars, agentVars,
         SetupTypeOK
  <1> QED
    BY <1>3, <1>4, <1>5, <1>6, <1>7, StepTypes, FlowTypes, PairTypes DEF SetupNext

-----------------------------------------------------------------------------

\* The pairing, whatever the wizard does.
LEMMA PairingStays ==
    ASSUME PairingInv, [SetupNext]_setupVars
    PROVE  PairingInv'
  <1>1. CASE UNCHANGED pairingVars
    BY <1>1, PairingRests
  <1>2. CASE EndPairing
    BY <1>2, PairingEnds
  <1>3. CASE BeginPairing
    <2>1. PICK code \in Codes : CreatePairing(code) /\ regens' = 0
      BY <1>3 DEF BeginPairing, StartPairing
    <2>2. regens' \in 0..MaxRegenerations
      BY <2>1, PairingAssumption
    <2> QED
      BY <2>1, <2>2, Draws
  <1>4. CASE AnotherCode
    <2>1. PICK code \in Codes : CreatePairing(code) /\ regens < MaxRegenerations /\ regens' = regens + 1
      BY <1>4 DEF AnotherCode, Regenerate
    <2>2. regens' \in 0..MaxRegenerations
      BY <2>1, PairingAssumption DEF PairingInv, PairingTypeOK
    <2> QED
      BY <2>1, <2>2, Draws
  <1>5. CASE SendCode
    BY <1>5, Intercepts DEF SendCode
  <1>6. CASE MatchCode
    BY <1>6, Consumes DEF MatchCode
  <1>7. CASE Step
    BY <1>1, <1>2, <1>7
    DEF Step, Skip, Environment, Container, MaybeReexecUnderSg, NewProcess, OneCli, RunAuthStep, Backup, Mounts,
        Service, InitCliAgent, ConfirmAssistantResponds, FirstChat, DetectTimezone, ConfirmTimezone, Verify
  <1>8. CASE Flow
    BY <1>1, <1>8
    DEF Flow, AskChannelChoice, Throws, Answer, GoBack, CallPlatform, InstallAdapterStage, Authenticate,
        ReadAccount, WriteSettings, RestartService, InitFirstAgentStage, LeaveChannel
  <1>9. CASE Pair
    BY <1>2, <1>3, <1>4, <1>5, <1>6, <1>9 DEF Pair, Paired, NotPaired
  <1>10. CASE Retry \/ Abort \/ Cancel \/ Again
    BY <1>2, <1>10 DEF Retry, Abort, Cancel, Again, NewProcess
  <1> QED
    BY <1>1, <1>7, <1>8, <1>9, <1>10 DEF SetupNext, setupVars
-----------------------------------------------------------------------------
(* What the process has passed is done, and in order. *)

ProcessInv == SkippedIsDone /\ StepsAreOrdered /\ ServiceIsCurrent

\* The parts of the machine that the steps have made stay made.
Kept ==
    /\ "image" \in made => "image" \in made'
    /\ "mounts" \in made => "mounts" \in made'
    /\ "onecli" \in env => "onecli" \in env'
    /\ secret # "none" => secret' # "none"
    /\ svc # "none" => svc' # "none"
    /\ zone # "none" => zone' # "none"
    /\ svc' \in {"none", "script"} => svc \in {"none", "script"}

LEMMA KeptUnchanged == UNCHANGED machineVars => Kept
  BY DEF Kept, machineVars, serviceVars

\* What the process remembers does not change.
LEMMA SkippedStays ==
    ASSUME SkippedIsDone, Kept, UNCHANGED <<skip, logged>>
    PROVE  SkippedIsDone'
  BY DEF SkippedIsDone, Kept, Passed

LEMMA SkippedForgets ==
    ASSUME SkippedIsDone, Kept, skip' \cup logged' \subseteq skip \cup logged
    PROVE  SkippedIsDone'
  BY DEF SkippedIsDone, Kept, Passed

\* The service keeps its readings, except for what changed.
LEMMA CurrentStays ==
    ASSUME ServiceIsCurrent, SetupTypeOK, UNCHANGED <<svc, stale, missed>>,
           skip' \cup logged' \subseteq skip \cup logged, logged' \subseteq logged
    PROVE  ServiceIsCurrent'
  BY DEF ServiceIsCurrent, Passed

\* A new process.
LEMMA NewProcessInv ==
    ASSUME SetupTypeOK, ProcessInv, NEW steps, steps \subseteq skip \cup logged, NewProcess(steps),
           "verify" \notin logged, "channel" \notin logged,
           "service" \in steps => "onecli" \in steps
    PROVE  ProcessInv'
  <1>1. /\ at' = "environment" /\ skip' = steps /\ logged' = {} /\ channel' = {} /\ todo' = <<>>
        /\ UNCHANGED <<svc, stale, missed>> /\ Kept
    BY KeptUnchanged DEF NewProcess, LeaveFlow, machineVars, serviceVars
  <1>2. SkippedIsDone'
    BY <1>1, SkippedForgets DEF ProcessInv
  <1>3. ServiceIsCurrent'
    BY <1>1, CurrentStays DEF ProcessInv
  <1>4. StepsAreOrdered'
    <2>1. "channel" \notin steps /\ "verify" \notin steps
      BY DEF ProcessInv, StepsAreOrdered
    <2> QED
      BY <1>1, <2>1, StepsAre DEF StepsAreOrdered, BeforeService, AfterService, Passed
  <1> QED
    BY <1>2, <1>3, <1>4 DEF ProcessInv

\* The process fails, aborts or is left.
LEMMA LeavesInv ==
    ASSUME SetupTypeOK, ProcessInv, LeaveFlow, at' \in {"failed", "aborted", "cancelled", "channel"},
           UNCHANGED <<skip, logged, svc, stale, missed>>, Kept,
           "verify" \notin logged, at' = "channel" => at = "channel"
    PROVE  ProcessInv'
  <1>1. SkippedIsDone'
    BY SkippedStays DEF ProcessInv
  <1>2. ServiceIsCurrent'
    BY CurrentStays DEF ProcessInv
  <1>3. StepsAreOrdered'
    BY StepsAre DEF ProcessInv, StepsAreOrdered, BeforeService, AfterService, Passed, LeaveFlow
  <1> QED
    BY <1>1, <1>2, <1>3 DEF ProcessInv

-----------------------------------------------------------------------------

\* A step that ended well, or is passed over.
LEMMA DoneOrdered ==
    ASSUME SetupTypeOK, StepsAreOrdered,
           NEW step \in {"environment", "container", "onecli", "auth", "fallback", "mounts", "service",
                         "cli-agent", "timezone"},
           at = step,
           \/ Done(step)
           \/ DoneUnlogged(step) /\ (step \in {"onecli", "service"} => step \in skip)
    PROVE  StepsAreOrdered'
  <1>1. channel = {} /\ todo = <<>> /\ "verify" \notin logged /\ UNCHANGED <<channel, todo, skip>>
    BY DEF StepsAreOrdered, Done, DoneUnlogged, InFlow, Log
  <1>2. logged' = logged \/ (logged' = logged \cup {step} /\ Done(step))
    BY DEF Done, DoneUnlogged, Log
  <1>3. CASE step \in {"environment", "container", "onecli", "auth", "fallback", "mounts"}
    <2>1. at' \in {"container", "onecli", "auth", "fallback", "mounts", "service"}
          /\ (at' \in {"auth", "fallback", "mounts", "service"} <=> step \notin {"environment", "container"})
      BY <1>3, FollowsIs DEF Done, DoneUnlogged
    <2>2. "service" \notin logged /\ "service" \notin logged'
      BY <1>2, <1>3 DEF StepsAreOrdered, BeforeService
    <2>3. at' \in {"auth", "fallback", "mounts", "service"} => "onecli" \in skip' \cup logged'
      BY <1>1, <1>2, <1>3, <2>1, StepsAre DEF StepsAreOrdered, Passed, Done, DoneUnlogged, Log
    <2> QED
      BY <1>1, <1>2, <1>3, <2>1, <2>2, <2>3, StepsAre
        DEF StepsAreOrdered, BeforeService, AfterService, Passed
  <1>4. CASE step \in {"service", "cli-agent", "timezone"}
    <2>1. at' \in {"cli-agent", "timezone", "channel"}
      BY <1>4, FollowsIs DEF Done, DoneUnlogged
    <2>2. "service" \in skip' \cup logged'
      BY <1>1, <1>2, <1>4, StepsAre DEF StepsAreOrdered, Passed, AfterService, BeforeService, Done,
           DoneUnlogged, Log
    <2>3. "onecli" \in skip \cup logged
      BY <1>4, StepsAre DEF StepsAreOrdered, Passed
    <2> QED
      BY <1>1, <1>2, <1>4, <2>1, <2>2, <2>3, StepsAre
        DEF StepsAreOrdered, BeforeService, AfterService, Passed
  <1> QED
    BY <1>3, <1>4

\* The process goes on among the parts of the later steps.
LEMMA LaterOrdered ==
    ASSUME SetupTypeOK, StepsAreOrdered,
           at \in {"cli-agent", "ping", "first-chat", "timezone", "where"},
           at' \in {"ping", "first-chat", "timezone", "where", "channel"},
           UNCHANGED <<channel, todo, skip>>, logged' \subseteq logged \cup {"cli-agent", "timezone"},
           logged \subseteq logged'
    PROVE  StepsAreOrdered'
  <1>1. channel = {} /\ todo = <<>> /\ "verify" \notin logged
    BY DEF StepsAreOrdered
  <1>2. "service" \in skip \cup logged
    BY StepsAre DEF StepsAreOrdered, BeforeService, AfterService, Passed
  <1>3. "onecli" \in skip \cup logged
    BY <1>2 DEF StepsAreOrdered, Passed
  <1> QED
    BY <1>1, <1>2, <1>3, StepsAre DEF StepsAreOrdered, BeforeService, AfterService, Passed

\* A step is logged with its effect.
LEMMA SkippedGrows ==
    ASSUME SkippedIsDone, Kept, NEW step, skip' = skip, logged' \subseteq logged \cup {step},
           step = "container" => "image" \in made',
           step = "onecli" => "onecli" \in env',
           step = "auth" => secret' # "none",
           step = "mounts" => "mounts" \in made',
           step = "service" => svc' # "none",
           step = "timezone" => zone' # "none"
    PROVE  SkippedIsDone'
  <1>1. Passed' \subseteq Passed \cup {step}
    BY DEF Passed
  <1> HIDE DEF Passed
  <1> QED
    BY <1>1 DEF SkippedIsDone, Kept

\* What the service has read is still so, or the changes are allowed.
LEMMA CurrentGrows ==
    ASSUME SetupTypeOK, ServiceIsCurrent, NEW new,
           stale' \subseteq stale \cup new, svc \in {"none", "script"} => stale' = {},
           svc' \in {"none", "script"} => svc \in {"none", "script"},
           skip' = skip, "service" \in logged' => "service" \in logged,
           "onecli" \notin new, "fallback" \in new => "service" \notin logged,
           missed => missed'
    PROVE  ServiceIsCurrent'
  BY DEF ServiceIsCurrent, Passed

LEMMA CurrentAnew ==
    ASSUME stale' = {}
    PROVE  ServiceIsCurrent'
  BY DEF ServiceIsCurrent

-----------------------------------------------------------------------------

LEMMA StepInv ==
    ASSUME SetupTypeOK, ProcessInv, Step
    PROVE  ProcessInv'
  <1> USE DEF ProcessInv
  <1>1. at \in Steps \cup Parts \cup Ends /\ skip \subseteq Steps
    BY DEF SetupTypeOK
  <1>2. at \in Steps \cup Parts => "verify" \notin logged
    BY StepsAre DEF StepsAreOrdered, Parts
  <1>3. ASSUME Fails, UNCHANGED <<svc, stale, missed>>, Kept, at \in Steps \cup Parts
        PROVE  ProcessInv'
    BY <1>2, <1>3, LeavesInv DEF Fails
  <1>4. CASE Skip
    <2>1. (at \in skip /\ at \in Steps) \/ at = "cli-agent"
      BY <1>1, <1>4 DEF Skip
    <2>2. /\ at \in {"environment", "container", "onecli", "auth", "fallback", "mounts", "service",
                    "cli-agent", "timezone"}
          /\ at \in {"onecli", "service"} => at \in skip
      BY <1>1, <2>1, StepsAre DEF StepsAreOrdered
    <2>3. UNCHANGED <<skip, logged, svc, stale, missed>> /\ Kept /\ DoneUnlogged(at)
      BY <1>4, KeptUnchanged DEF Skip, DoneUnlogged, machineVars, serviceVars
    <2>4. StepsAreOrdered'
      BY <2>2, <2>3, DoneOrdered
    <2> QED
      BY <2>3, <2>4, SkippedStays, CurrentStays
  <1>5. CASE Environment
    <2>1. UNCHANGED <<svc, stale, missed>> /\ Kept
      BY <1>5, KeptUnchanged DEF Environment, machineVars, serviceVars
    <2>2. CASE Done("environment")
      <3>1. StepsAreOrdered'
        BY <1>5, <2>2, DoneOrdered DEF Environment, Running
      <3>2. SkippedIsDone'
        BY <2>1, <2>2, SkippedGrows DEF Done, Log
      <3>3. ServiceIsCurrent'
        BY <2>1, <2>2 DEF ServiceIsCurrent, Passed, Done, Log
      <3> QED
        BY <3>1, <3>2, <3>3
    <2> QED
      BY <1>3, <1>5, <2>1, <2>2, StepsAre DEF Environment, Running
  <1>6. CASE Container
    <2>1. UNCHANGED <<svc, stale, missed>> /\ Kept
      BY <1>6 DEF Container, BuildImage, Kept, serviceVars
    <2>2. CASE Done("container") /\ BuildImage
      <3>1. StepsAreOrdered'
        BY <1>6, <2>2, DoneOrdered DEF Container, Running
      <3>2. SkippedIsDone'
        BY <2>1, <2>2, SkippedGrows DEF Done, Log, BuildImage
      <3>3. ServiceIsCurrent'
        BY <2>1, <2>2 DEF ServiceIsCurrent, Passed, Done, Log
      <3> QED
        BY <3>1, <3>2, <3>3
    <2> QED
      BY <1>3, <1>6, <2>1, <2>2, StepsAre DEF Container, Running
  <1>7. CASE MaybeReexecUnderSg
    <2>1. at = "onecli" /\ NewProcess(skip \cup logged)
      BY <1>7 DEF MaybeReexecUnderSg
    <2>2. "service" \in skip \cup logged => "onecli" \in skip \cup logged
      BY DEF StepsAreOrdered, Passed
    <2> QED
      BY <1>2, <2>1, <2>2, NewProcessInv, StepsAre DEF StepsAreOrdered
  <1>8. CASE OneCli
    <2>1. CASE Done("onecli") /\ ConnectVault
      <3>1. StepsAreOrdered'
        BY <1>8, <2>1, DoneOrdered DEF OneCli, Running
      <3>2. Kept
        BY <1>8, <2>1 DEF OneCli, ConnectVault, PollHealth, Writes, Kept
      <3>3. SkippedIsDone'
        BY <2>1, <3>2, SkippedGrows DEF Done, Log, ConnectVault
      <3>4. ServiceIsCurrent'
        <4>1. "service" \notin logged /\ "service" \notin skip
          BY <1>8 DEF OneCli, Running, StepsAreOrdered, BeforeService
        <4>2. "service" \notin logged' /\ "service" \notin skip'
          BY <2>1, <4>1 DEF Done, Log
        <4>3. svc' = svc /\ (svc # "up" => stale' = stale)
          BY <2>1, WritesTypes DEF ConnectVault
        <4> QED
          BY <4>2, <4>3 DEF ServiceIsCurrent, Passed
      <3> QED
        BY <3>1, <3>3, <3>4
    <2>2. CASE Fails /\ UNCHANGED <<env, made, serviceVars>>
      <3>1. UNCHANGED <<svc, stale, missed>> /\ Kept
        BY <1>8, <2>2 DEF OneCli, Kept, serviceVars
      <3> QED
        BY <1>3, <1>8, <2>2, <3>1, StepsAre DEF OneCli, Running
    <2> QED
      BY <1>8, <2>1, <2>2 DEF OneCli
  <1>9. CASE RunAuthStep
    <2>1. at = "auth" /\ UNCHANGED <<svc, stale, missed, made, env, zone>>
      BY <1>9 DEF RunAuthStep, Running, serviceVars
    <2>2. CASE Fails
      <3>1. secret' = secret
        BY <1>9, <2>1, <2>2, FollowsIs
        DEF RunAuthStep, RunSubscriptionAuth, RunPasteAuth, ConnectLater, SaveFails, Saves, Done, DoneUnlogged, Fails
      <3> QED
        BY <1>3, <2>1, <2>2, <3>1, StepsAre DEF Kept
    <2>3. CASE Done("auth") \/ DoneUnlogged("auth")
      <3>1. secret' # "none"
        BY <1>9, <2>3, FollowsIs
        DEF RunAuthStep, RunSubscriptionAuth, RunPasteAuth, ConnectLater, SaveFails, Saves, Done, DoneUnlogged, Fails,
            AnthropicSecretExists
      <3>2. StepsAreOrdered'
        BY <2>1, <2>3, DoneOrdered
      <3>3. SkippedIsDone'
        BY <2>1, <2>3, <3>1, SkippedGrows DEF Kept, Done, DoneUnlogged, Log
      <3>4. ServiceIsCurrent'
        BY <2>1, <2>3 DEF ServiceIsCurrent, Passed, Done, DoneUnlogged, Log
      <3> QED
        BY <3>2, <3>3, <3>4
    <2> QED
      BY <1>9, <2>2, <2>3 DEF RunAuthStep, RunSubscriptionAuth, RunPasteAuth, ConnectLater,
           SaveFails
  <1>10. CASE Backup
    <2>1. at = "fallback" /\ DoneUnlogged("fallback") /\ UNCHANGED <<made, secret, zone>>
      BY <1>10 DEF Backup, Running
    <2>2. UNCHANGED <<skip, logged>>
      BY <2>1 DEF DoneUnlogged
    <2>3. /\ "onecli" \in env => "onecli" \in env'
          /\ UNCHANGED <<svc, missed>> /\ stale' \subseteq stale \cup {"fallback"}
          /\ svc # "up" => stale' = stale
      BY <1>10, WritesTypes
      DEF Backup, RunFallbackWizard, SetupOpenCode, SetupOllama, WriteBackup, RemoveBackup, KeepBackup, serviceVars
    <2>4. SkippedIsDone'
      BY <2>1, <2>2, <2>3, SkippedStays DEF Kept
    <2>5. ServiceIsCurrent'
      <3>1. "service" \notin logged
        BY <2>1 DEF StepsAreOrdered, BeforeService
      <3> QED
        BY <2>2, <2>3, <3>1 DEF ServiceIsCurrent, Passed
    <2>6. StepsAreOrdered'
      BY <2>1, DoneOrdered
    <2> QED
      BY <2>4, <2>5, <2>6
  <1>11. CASE Mounts
    <2>1. UNCHANGED <<svc, stale, missed>> /\ Kept
      BY <1>11 DEF Mounts, WriteAllowlist, Kept, serviceVars
    <2>2. CASE Done("mounts") /\ WriteAllowlist
      <3>1. StepsAreOrdered'
        BY <1>11, <2>2, DoneOrdered DEF Mounts, Running
      <3>2. SkippedIsDone'
        BY <2>1, <2>2, SkippedGrows DEF Done, Log, WriteAllowlist
      <3>3. ServiceIsCurrent'
        BY <2>1, <2>2 DEF ServiceIsCurrent, Passed, Done, Log
      <3> QED
        BY <3>1, <3>2, <3>3
    <2> QED
      BY <1>3, <1>11, <2>1, <2>2, StepsAre DEF Mounts, Running
  <1>12. CASE Service
    <2>1. at = "service" /\ UNCHANGED <<made, secret, zone, env>>
      BY <1>12 DEF Service, Running
    <2>2. CASE Done("service") /\ (SetupSystemd \/ SetupNohupFallback)
      <3>1. stale' = {} /\ svc' \in {"script", "down", "up"} /\ (svc' = "script" => svc \in {"none", "script"})
        <4>1. CASE Started(marks, deps, env, creds)
          BY <4>1, StartedTypes
        <4>2. CASE SetupNohupFallback
          BY <4>2 DEF SetupNohupFallback, ServiceIsCurrent
        <4> QED
          BY <2>2, <4>1, <4>2 DEF SetupSystemd
      <3>2. StepsAreOrdered'
        BY <2>1, <2>2, DoneOrdered
      <3>3. SkippedIsDone'
        BY <2>1, <2>2, <3>1, SkippedGrows DEF Kept, Done, Log
      <3> QED
        BY <3>1, <3>2, <3>3, CurrentAnew
    <2>3. CASE Fails /\ UNCHANGED serviceVars
      BY <1>3, <2>1, <2>3, StepsAre DEF Kept, serviceVars
    <2> QED
      BY <1>12, <2>2, <2>3 DEF Service, BuildAndInstall
  <1>13. CASE InitCliAgent
    <2>1. at = "cli-agent" /\ UNCHANGED <<svc, stale, missed>> /\ Kept
      BY <1>13 DEF InitCliAgent, Running, serviceVars, Kept
    <2>2. CASE at' = "ping" /\ Log("cli-agent") /\ InFlow
      <3>1. StepsAreOrdered'
        BY <2>1, <2>2, LaterOrdered DEF Log, InFlow
      <3>2. SkippedIsDone'
        BY <2>1, <2>2, SkippedGrows DEF Log
      <3>3. ServiceIsCurrent'
        BY <2>1, <2>2 DEF ServiceIsCurrent, Passed, Log
      <3> QED
        BY <3>1, <3>2, <3>3
    <2> QED
      BY <1>3, <1>13, <2>1, <2>2, StepsAre DEF InitCliAgent
  <1>14. CASE ConfirmAssistantResponds
    <2>1. /\ at = "ping" /\ at' \in {"first-chat", "timezone"} /\ InFlow
          /\ UNCHANGED <<skip, logged, svc, stale, missed>> /\ Kept
      BY <1>14 DEF ConfirmAssistantResponds, serviceVars, Kept
    <2>2. StepsAreOrdered'
      BY <2>1, LaterOrdered DEF InFlow
    <2> QED
      BY <2>1, <2>2, SkippedStays, CurrentStays
  <1>15. CASE FirstChat
    <2>1. at = "first-chat" /\ UNCHANGED <<svc, stale, missed>> /\ Kept
      BY <1>15 DEF FirstChat, serviceVars, Kept
    <2>2. CASE at' = "timezone" /\ InFlow /\ UNCHANGED <<skip, logged, offered>>
      <3>1. StepsAreOrdered'
        BY <2>1, <2>2, LaterOrdered DEF InFlow
      <3> QED
        BY <2>1, <2>2, <3>1, SkippedStays, CurrentStays
    <2> QED
      BY <1>3, <1>15, <2>1, <2>2 DEF FirstChat, Parts
  <1>16. CASE DetectTimezone
    <2>1. at = "timezone" /\ UNCHANGED <<svc, stale, missed>> /\ Kept
      BY <1>16 DEF DetectTimezone, Running, SaveZone, serviceVars, Kept
    <2>2. ASSUME at' = "where", InFlow, skip' = skip,
                 logged' = logged \/ (logged' = logged \cup {"timezone"} /\ zone' = "saved")
          PROVE  ProcessInv'
      <3>1. StepsAreOrdered'
        BY <2>1, <2>2, LaterOrdered DEF InFlow
      <3>2. SkippedIsDone'
        BY <2>1, <2>2, SkippedGrows, SkippedStays
      <3>3. ServiceIsCurrent'
        BY <2>1, <2>2 DEF ServiceIsCurrent, Passed
      <3> QED
        BY <3>1, <3>2, <3>3
    <2> QED
      BY <1>3, <1>16, <2>1, <2>2, StepsAre DEF DetectTimezone, SaveZone, Log
  <1>17. CASE ConfirmTimezone
    <2>1. at = "where" /\ UNCHANGED <<svc, stale, missed>> /\ Kept
      BY <1>17 DEF ConfirmTimezone, SaveZone, serviceVars, Kept
    <2>2. ASSUME at' = "channel", InFlow, skip' = skip,
                 logged' = logged \/ (logged' = logged \cup {"timezone"} /\ zone' = "saved")
          PROVE  ProcessInv'
      <3>1. StepsAreOrdered'
        BY <2>1, <2>2, LaterOrdered DEF InFlow
      <3>2. SkippedIsDone'
        BY <2>1, <2>2, SkippedGrows, SkippedStays
      <3>3. ServiceIsCurrent'
        BY <2>1, <2>2 DEF ServiceIsCurrent, Passed
      <3> QED
        BY <3>1, <3>2, <3>3
    <2> QED
      BY <1>3, <1>17, <2>1, <2>2 DEF ConfirmTimezone, SaveZone, Log, Parts
  <1>18. CASE Verify
    <2>1. /\ at = "verify" /\ at' \in {"left", "set", "ready"} /\ InFlow /\ skip' = skip
          /\ UNCHANGED <<svc, stale, missed>> /\ Kept
          /\ logged' = logged \/ (logged' = logged \cup {"verify"} /\ at' \in {"set", "ready"})
          /\ at' = "ready" => channel = {}
      BY <1>18, KeptUnchanged DEF Verify, Running, machineVars, serviceVars
    <2>2. StepsAreOrdered'
      <3>1. "service" \in skip \cup logged /\ "verify" \notin logged /\ todo = <<>>
        BY <2>1, StepsAre DEF StepsAreOrdered, AfterService, BeforeService, Passed
      <3> QED
        BY <2>1, <3>1, StepsAre DEF StepsAreOrdered, AfterService, BeforeService, Passed, InFlow
    <2>3. SkippedIsDone'
      BY <2>1, SkippedGrows, SkippedStays
    <2>4. ServiceIsCurrent'
      BY <2>1 DEF ServiceIsCurrent, Passed
    <2> QED
      BY <2>2, <2>3, <2>4
  <1> QED
    BY <1>4, <1>5, <1>6, <1>7, <1>8, <1>9, <1>10, <1>11, <1>12, <1>13, <1>14, <1>15, <1>16, <1>17,
         <1>18
    DEF Step

-----------------------------------------------------------------------------

\* The process is at the channel.
LEMMA ChannelOrdered ==
    ASSUME SetupTypeOK, StepsAreOrdered, at = "channel", UNCHANGED <<skip, logged>>,
           \/ at' = "channel" /\ channel' # {}
           \/ at' \in {"channel", "failed", "aborted"} /\ channel' = {} /\ todo' = <<>>
           \/ at' = "verify" /\ todo' = <<>>
    PROVE  StepsAreOrdered'
  <1>1. "service" \in skip \cup logged /\ "onecli" \in skip \cup logged /\ "verify" \notin logged
    BY StepsAre DEF StepsAreOrdered, AfterService, BeforeService, Passed
  <1> QED
    BY <1>1, StepsAre DEF StepsAreOrdered, AfterService, BeforeService, Passed

\* A stage ends.
LEMMA StageOrdered ==
    ASSUME SetupTypeOK, StepsAreOrdered, NEW kinds, InStage(kinds), Passes \/ StageFails
    PROVE  StepsAreOrdered' /\ UNCHANGED <<skip, logged>>
  <1>1. at = "channel" /\ channel # {}
    BY DEF InStage
  <1>2. CASE Fails
    BY <1>1, <1>2, ChannelOrdered DEF Fails, LeaveFlow
  <1>3. CASE UNCHANGED <<at, skip, logged, channel>>
    BY <1>1, <1>3, ChannelOrdered
  <1> QED
    BY <1>2, <1>3 DEF Passes, StageFails

\* A restart, wherever it stands.
LEMMA RestartsInv ==
    ASSUME SetupTypeOK, ServiceIsCurrent, UNCHANGED <<skip, logged>>,
           NEW built, NEW pkgs, NEW items, NEW linked, NEW written,
           Restarts(built, pkgs, items, linked, written), "onecli" \notin written, "fallback" \notin written
    PROVE  /\ ServiceIsCurrent'
           /\ svc' = svc \/ (svc \notin {"none", "script"} /\ svc' \in {"down", "up"})
  <1>1. CASE Missed(written)
    <2>1. svc' = svc /\ missed' = TRUE /\ stale' \subseteq stale \cup written /\ (svc # "up" => stale' = stale)
      BY <1>1, MissedTypes
    <2>2. svc \in {"none", "script"} => stale' = {}
      BY <2>1 DEF ServiceIsCurrent
    <2> QED
      BY <2>1, <2>2, CurrentGrows DEF ServiceIsCurrent
  <1>2. CASE Started(built, pkgs, items, linked) /\ svc \notin {"none", "script"}
    BY <1>2, StartedTypes, CurrentAnew
  <1> QED
    BY <1>1, <1>2 DEF Restarts

LEMMA FlowProcess ==
    ASSUME SetupTypeOK, ProcessInv, Flow
    PROVE  ProcessInv'
  <1> USE DEF ProcessInv
  <1>1. /\ "onecli" \notin Channels /\ "fallback" \notin Channels
        /\ "onecli" \notin {"signal", "settings"} /\ "fallback" \notin {"signal", "settings"}
    BY SetupAssumption DEF AllChannels
  <1>2. ASSUME UNCHANGED machineVars, UNCHANGED <<skip, logged>>, StepsAreOrdered'
        PROVE  ProcessInv'
    BY <1>2, KeptUnchanged, SkippedStays, CurrentStays DEF machineVars, serviceVars
  <1>3. ASSUME Kept, UNCHANGED <<svc, stale, missed, skip, logged>>, StepsAreOrdered'
        PROVE  ProcessInv'
    BY <1>3, SkippedStays, CurrentStays
  <1>4. CASE AskChannelChoice
    <2>1. at = "channel" /\ UNCHANGED <<skip, logged>> /\ UNCHANGED machineVars
      BY <1>4 DEF AskChannelChoice
    <2>2. \/ at' = "channel" /\ channel' # {}
          \/ at' = "verify" /\ todo' = <<>>
      BY <1>4 DEF AskChannelChoice, InFlow, StepsAreOrdered
    <2> QED
      BY <1>2, <2>1, <2>2, ChannelOrdered
  <1>5. CASE Throws \/ GoBack
    <2>1. at = "channel" /\ at' \in {"channel", "aborted"} /\ channel' = {} /\ todo' = <<>>
          /\ UNCHANGED <<skip, logged>> /\ UNCHANGED machineVars
      BY <1>5 DEF Throws, GoBack, AsksAt, InStage, LeaveFlow
    <2> QED
      BY <1>2, <2>1, ChannelOrdered
  <1>6. CASE Answer
    <2>1. at = "channel" /\ channel # {} /\ UNCHANGED <<at, skip, logged, channel>> /\ UNCHANGED machineVars
      BY <1>6 DEF Answer, AsksAt, InStage
    <2> QED
      BY <1>2, <2>1, ChannelOrdered
  <1>7. CASE LeaveChannel
    <2>1. at = "channel" /\ at' = "verify" /\ todo' = <<>> /\ UNCHANGED <<skip, logged>> /\ UNCHANGED machineVars
      BY <1>7 DEF LeaveChannel
    <2> QED
      BY <1>2, <2>1, ChannelOrdered
  <1>8. CASE CallPlatform
    BY <1>2, <1>8, StageOrdered DEF CallPlatform
  <1>9. CASE ReadAccount
    BY <1>2, <1>9, StageOrdered DEF ReadAccount
  <1>10. CASE Authenticate
    <2>1. Passes \/ StageFails
      BY <1>10 DEF Authenticate, LinkWhatsApp, LinkSignal, LinkFails
    <2>2. Kept /\ UNCHANGED <<svc, stale, missed>>
      BY <1>10 DEF Authenticate, Kept, serviceVars
    <2> QED
      BY <1>3, <1>10, <2>1, <2>2, StageOrdered DEF Authenticate
  <1>11. CASE InitFirstAgentStage
    <2>1. Passes \/ StageFails
      BY <1>11 DEF InitFirstAgentStage, SendWelcome
    <2>2. Kept /\ UNCHANGED <<svc, stale, missed>>
      BY <1>11 DEF InitFirstAgentStage, Kept, serviceVars
    <2> QED
      BY <1>3, <1>11, <2>1, <2>2, StageOrdered DEF InitFirstAgentStage
  <1>12. CASE InstallAdapterStage
    <2>1. Passes \/ StageFails
      BY <1>12 DEF InstallAdapterStage, InstallSucceeds, InstallStops, InstallBreaks
    <2>2. StepsAreOrdered' /\ UNCHANGED <<skip, logged>>
      BY <1>12, <2>1, StageOrdered DEF InstallAdapterStage
    <2>3. UNCHANGED <<made, secret, zone>> /\ This \in Channels
      BY <1>12, InStageHas DEF InstallAdapterStage
    <2>4. CASE InstallSucceeds
      <3>1. "onecli" \in env => "onecli" \in env'
        BY <2>4 DEF InstallSucceeds
      <3>2. CASE UNCHANGED serviceVars
        BY <1>3, <2>2, <2>3, <3>1, <3>2 DEF Kept, serviceVars
      <3>3. ASSUME NEW built, NEW pkgs, NEW items, Restarts(built, pkgs, items, creds, {This})
            PROVE  ProcessInv'
        <4>1. ServiceIsCurrent' /\ (svc' = svc \/ (svc \notin {"none", "script"} /\ svc' \in {"down", "up"}))
          BY <1>1, <2>2, <2>3, <3>3, RestartsInv
        <4>2. Kept
          BY <2>3, <3>1, <4>1 DEF Kept
        <4> QED
          BY <2>2, <4>1, <4>2, SkippedStays
      <3> QED
        BY <2>4, <3>2, <3>3 DEF InstallSucceeds
    <2>5. CASE InstallStops \/ InstallBreaks
      <3>1. UNCHANGED <<env, svc, stale, missed>>
        BY <2>5 DEF InstallStops, InstallBreaks, serviceVars
      <3> QED
        BY <1>3, <2>2, <2>3, <3>1 DEF Kept
    <2> QED
      BY <1>12, <2>4, <2>5 DEF InstallAdapterStage
  <1>13. CASE WriteSettings
    <2>1. StepsAreOrdered' /\ UNCHANGED <<skip, logged>>
      BY <1>13, StageOrdered DEF WriteSettings
    <2>2. PICK item \in {"signal", "settings"} : env' = env \cup {item} /\ Writes({item})
      BY <1>13 DEF WriteSettings
    <2>3. UNCHANGED <<svc, missed>> /\ stale' \subseteq stale \cup {item} /\ (svc # "up" => stale' = stale)
      BY <2>2, WritesTypes
    <2>4. Kept
      BY <1>13, <2>2, <2>3 DEF WriteSettings, Kept
    <2>5. svc \in {"none", "script"} => stale' = {}
      BY <2>3 DEF ServiceIsCurrent
    <2>6. ServiceIsCurrent'
      BY <1>1, <2>1, <2>3, <2>5, CurrentGrows
    <2> QED
      BY <2>1, <2>4, <2>6, SkippedStays
  <1>14. CASE RestartService
    <2>1. StepsAreOrdered' /\ UNCHANGED <<skip, logged>>
      BY <1>14, StageOrdered DEF RestartService
    <2>2. ServiceIsCurrent' /\ (svc' = svc \/ (svc \notin {"none", "script"} /\ svc' \in {"down", "up"}))
      BY <1>14, <2>1, RestartsInv DEF RestartService
    <2>3. Kept
      BY <1>14, <2>2 DEF RestartService, Kept
    <2> QED
      BY <2>1, <2>2, <2>3, SkippedStays
  <1> QED
    BY <1>4, <1>5, <1>6, <1>7, <1>8, <1>9, <1>10, <1>11, <1>12, <1>13, <1>14 DEF Flow

LEMMA ProcessStays ==
    ASSUME SetupTypeOK, ProcessInv, [SetupNext]_setupVars
    PROVE  ProcessInv'
  <1>1. ASSUME UNCHANGED processVars, UNCHANGED machineVars
        PROVE  ProcessInv'
    BY <1>1 DEF ProcessInv, processVars, machineVars, serviceVars, SkippedIsDone, StepsAreOrdered,
         Passed,
                ServiceIsCurrent
  <1>2. CASE Pair
    <2>1. CASE Paired \/ NotPaired
      <3>1. UNCHANGED machineVars /\ StepsAreOrdered' /\ UNCHANGED <<skip, logged>>
        BY <2>1, StageOrdered DEF Paired, NotPaired, PairingStage, ProcessInv
      <3> QED
        BY <3>1, KeptUnchanged, SkippedStays, CurrentStays DEF ProcessInv, machineVars, serviceVars
    <2> QED
      BY <1>1, <1>2, <2>1 DEF Pair, BeginPairing, SendCode, MatchCode, AnotherCode
  <1>3. CASE Retry
    <2>1. NewProcess(skip \cup logged) /\ at \notin {"set", "ready"}
      BY <1>3 DEF Retry, Offering, Ends
    <2>2. "verify" \notin logged /\ "channel" \notin logged
          /\ ("service" \in skip \cup logged => "onecli" \in skip \cup logged)
      BY <2>1 DEF ProcessInv, StepsAreOrdered, Passed
    <2> QED
      BY <2>1, <2>2, NewProcessInv
  <1>4. CASE Again
    <2>1. NewProcess({}) /\ at \notin {"set", "ready"}
      BY <1>4 DEF Again
    <2>2. "verify" \notin logged /\ "channel" \notin logged
      BY <2>1 DEF ProcessInv, StepsAreOrdered
    <2> QED
      BY <2>1, <2>2, NewProcessInv
  <1>5. CASE Abort \/ Cancel
    <2>1. /\ at \notin {"set", "ready"} /\ at' \in {"aborted", "cancelled"} /\ LeaveFlow
          /\ UNCHANGED <<skip, logged>> /\ UNCHANGED machineVars
      BY <1>5 DEF Abort, Cancel, Offering, Ends, Prompts
    <2>2. "verify" \notin logged
      BY <2>1 DEF ProcessInv, StepsAreOrdered
    <2> QED
      BY <2>1, <2>2, KeptUnchanged, LeavesInv DEF machineVars, serviceVars
  <1> QED
    BY <1>1, <1>2, <1>3, <1>4, <1>5, StepInv, FlowProcess DEF SetupNext, setupVars

-----------------------------------------------------------------------------
(* The flow keeps what it needs, and the service is started anew. *)

FlowInv == FlowStaysOrdered /\ WiredInTheEnd /\ RefreshedInTheEnd

\* What is left of a flow after its first n stages.
IsRest(rest, s, n) ==
    /\ s \in Seq(Stages) /\ rest \in Seq(Stages) /\ n \in 1..Len(s)
    /\ DOMAIN rest = 1..(Len(s) - n)
    /\ \A i \in 1..(Len(s) - n) : rest[i] = s[n + i]

LEMMA TailIsRest ==
    ASSUME NEW s \in Seq(Stages), s # <<>>
    PROVE  IsRest(Tail(s), s, 1) /\ Head(s) = s[1]
  <1>1. \A i \in 1..(Len(s) - 1) : Tail(s)[i] = s[1 + i]
    BY TailTypes
  <1> QED
    BY <1>1, TailTypes DEF IsRest

LEMMA SubSeqIsRest ==
    ASSUME NEW s \in Seq(Stages), NEW n \in DOMAIN s
    PROVE  IsRest(SubSeq(s, n + 1, Len(s)), s, n)
  BY RestTypes DEF IsRest

LEMMA RestOrdered ==
    ASSUME NEW rest, NEW s, NEW n, IsRest(rest, s, n), NEW values, OrderedFrom(s, values)
    PROVE  OrderedFrom(rest, values \cup UNION {s[i].gives : i \in 1..n})
  <1>1. /\ n \in Nat \ {0} /\ Len(s) \in Nat /\ n <= Len(s) /\ DOMAIN s = 1..Len(s)
        /\ DOMAIN rest = 1..(Len(s) - n)
    BY DEF IsRest
  <1> DEFINE passed == UNION {s[i].gives : i \in 1..n}
  <1>2. ASSUME NEW i \in DOMAIN rest
        PROVE  rest[i].needs \subseteq values \cup passed \cup UNION {rest[j].gives : j \in 1..(i - 1)}
    <2> DEFINE k == n + i
    <2>1. rest[i] = s[k] /\ k \in DOMAIN s /\ i \in Nat /\ k = n + i
      BY <1>1 DEF IsRest
    <2> HIDE DEF k
    <2>2. s[k].needs \subseteq values \cup UNION {s[j].gives : j \in 1..(k - 1)}
      BY <2>1 DEF OrderedFrom
    <2>3. ASSUME NEW j \in 1..(k - 1)
          PROVE  s[j].gives \subseteq passed \cup UNION {rest[l].gives : l \in 1..(i - 1)}
      <3>1. CASE j <= n
        <4>1. j \in 1..n
          BY <1>1, <2>1, <3>1
        <4> QED
          BY <4>1
      <3>2. CASE j > n
        <4>1. j - n \in 1..(i - 1) /\ j - n \in 1..(Len(s) - n) /\ n + (j - n) = j
          BY <1>1, <2>1, <3>2
        <4>2. rest[j - n] = s[j]
          <5>1. rest[j - n] = s[n + (j - n)]
            BY <4>1 DEF IsRest
          <5> QED
            BY <4>1, <5>1
        <4> QED
          BY <4>1, <4>2
      <3> QED
        BY <1>1, <2>1, <3>1, <3>2
    <2> QED
      BY <2>1, <2>2, <2>3
  <1> QED
    BY <1>2 DEF OrderedFrom

LEMMA RestWires ==
    ASSUME NEW rest, NEW s, NEW n, IsRest(rest, s, n), \A i \in 1..n : s[i].does # "init", Wiring(s)
    PROVE  Wiring(rest)
  <1>1. PICK i \in DOMAIN s : s[i].does = "init"
    BY DEF Wiring
  <1>2. /\ n \in Nat \ {0} /\ Len(s) \in Nat /\ n <= Len(s) /\ i \in 1..Len(s)
        /\ DOMAIN rest = 1..(Len(s) - n)
    BY DEF IsRest
  <1>3. i > n
    BY <1>1, <1>2
  <1>4. i - n \in DOMAIN rest /\ n + (i - n) = i
    BY <1>2, <1>3
  <1>5. rest[i - n] = s[n + (i - n)]
    BY <1>2, <1>4 DEF IsRest
  <1> QED
    BY <1>1, <1>4, <1>5 DEF Wiring

LEMMA RestChanges ==
    ASSUME NEW rest, NEW s, NEW n, IsRest(rest, s, n), Altering(rest)
    PROVE  \E k \in DOMAIN s : k > n /\ Alters(s[k])
  <1>1. PICK i \in DOMAIN rest : Alters(rest[i])
    BY DEF Altering
  <1>2. /\ n \in Nat \ {0} /\ Len(s) \in Nat /\ n <= Len(s) /\ DOMAIN s = 1..Len(s)
        /\ i \in 1..(Len(s) - n) /\ rest[i] = s[n + i]
    BY DEF IsRest
  <1>3. n + i \in DOMAIN s /\ n + i > n
    BY <1>2
  <1> QED
    BY <1>1, <1>2, <1>3

\* The stages that pass were not the ones that start the service anew, or were
\* the last changes.
LEMMA RestRefreshes ==
    ASSUME NEW c, NEW rest, NEW s, NEW n, IsRest(rest, s, n),
           Refreshing(c, s, Provided(c)), Provided(c) => Provided(c)',
           (\E j \in 1..n : s[j].does = Provider(c)) => Provided(c)'
    PROVE  \/ Refreshing(c, rest, Provided(c)')
           \/ /\ ~Altering(rest)
              /\ \E i \in 1..n : /\ Refresher(c, s[i])
                                 /\ \/ s[i].does = "install" \/ Provided(c)
                                    \/ \E j \in 1..(i - 1) : s[j].does = Provider(c)
  <1>1. PICK i \in DOMAIN s :
          /\ Refresher(c, s[i])
          /\ \A k \in DOMAIN s : k > i => ~Alters(s[k])
          /\ \/ s[i].does = "install" \/ Provided(c)
             \/ \E j \in 1..(i - 1) : s[j].does = Provider(c)
    BY DEF Refreshing
  <1>2. /\ n \in Nat \ {0} /\ Len(s) \in Nat /\ n <= Len(s) /\ i \in 1..Len(s) /\ DOMAIN s = 1..Len(s)
        /\ DOMAIN rest = 1..(Len(s) - n)
    BY DEF IsRest
  <1>3. CASE i <= n
    <2>1. i \in 1..n
      BY <1>2, <1>3
    <2>2. ~Altering(rest)
      BY <1>1, <1>2, <1>3, RestChanges
    <2> QED
      BY <1>1, <2>1, <2>2
  <1>4. CASE i > n
    <2> DEFINE m == i - n
    <2>1. m \in DOMAIN rest /\ n + m = i /\ m \in Nat \ {0}
      BY <1>2, <1>4
    <2>2. rest[m] = s[i]
      <3>1. rest[m] = s[n + m]
        BY <1>2, <2>1 DEF IsRest
      <3> QED
        BY <2>1, <3>1
    <2>3. ASSUME NEW k \in DOMAIN rest, k > m PROVE ~Alters(rest[k])
      <3>1. rest[k] = s[n + k] /\ n + k \in DOMAIN s /\ n + k > i
        BY <1>2, <2>1, <2>3 DEF IsRest
      <3> QED
        BY <1>1, <3>1
    <2>4. \/ rest[m].does = "install" \/ Provided(c)'
          \/ \E j \in 1..(m - 1) : rest[j].does = Provider(c)
      <3>1. ASSUME NEW j \in 1..(i - 1), s[j].does = Provider(c), ~Provided(c)'
            PROVE  \E l \in 1..(m - 1) : rest[l].does = Provider(c)
        <4>1. j > n
          BY <1>2, <3>1
        <4>2. j - n \in 1..(m - 1) /\ j - n \in 1..(Len(s) - n) /\ n + (j - n) = j
          BY <1>2, <1>4, <4>1
        <4>3. rest[j - n] = s[n + (j - n)]
          BY <4>2 DEF IsRest
        <4> QED
          BY <3>1, <4>2, <4>3
      <3> QED
        BY <1>1, <2>2, <3>1
    <2> HIDE DEF m
    <2> QED
      BY <1>1, <2>1, <2>2, <2>3, <2>4 DEF Refreshing
  <1> QED
    BY <1>2, <1>3, <1>4

LEMMA RefreshingWider ==
    ASSUME NEW c, NEW s, NEW provided, Refreshing(c, s, FALSE)
    PROVE  Refreshing(c, s, provided)
  BY DEF Refreshing

\* Without a flow there is nothing to keep.
LEMMA NoFlow ==
    ASSUME todo' = <<>>, channel' = {}
    PROVE  FlowInv'
  BY DEF FlowInv, FlowStaysOrdered, OrderedFrom, WiredInTheEnd, RefreshedInTheEnd

\* The flow stands still, and so does what it has made.
LEMMA FlowRests ==
    ASSUME FlowInv, UNCHANGED <<channel, todo, offered, wired, svc, stale, live, missed, dist, creds, env>>,
           got' = got \/ todo = <<>>
    PROVE  FlowInv'
  <1>1. FlowStaysOrdered'
    BY DEF FlowInv, FlowStaysOrdered, OrderedFrom
  <1>2. WiredInTheEnd'
    BY DEF FlowInv, WiredInTheEnd, Wiring
  <1>3. RefreshedInTheEnd'
    <2>1. \A c : /\ AtHand(c)' = AtHand(c)
                 /\ Refreshed(c)' = Refreshed(c)
      BY DEF AtHand, Refreshed
    <2>2. \A c : Provided(c)' = Provided(c)
      BY <2>1 DEF Provided
    <2>3. Altering(todo)' = Altering(todo)
      BY DEF Altering
    <2>4. ASSUME NEW c PROVE Refreshing(c, todo, Provided(c))' = Refreshing(c, todo, Provided(c))
      BY <2>2 DEF Refreshing
    <2> QED
      BY <2>1, <2>3, <2>4 DEF FlowInv, RefreshedInTheEnd
  <1> QED
    BY <1>1, <1>2, <1>3 DEF FlowInv

-----------------------------------------------------------------------------

\* Stages pass, and the machine has what they owe it.
LEMMA FlowAdvances ==
    ASSUME FlowInv, NEW c, channel = {c}, NEW n, IsRest(todo', todo, n),
           got' = got \cup UNION {todo[i].gives : i \in 1..n},
           UNCHANGED <<channel, offered>>, wired \subseteq wired',
           (\E i \in 1..n : todo[i].does = "init") => offered \/ c \in wired' \cup {"teams"},
           AtHand(c) => AtHand(c)',
           (\E i \in 1..n : todo[i].does = Provider(c)) => Provided(c)',
           Refreshed(c) /\ (\A i \in 1..n : ~Alters(todo[i])) => Refreshed(c)',
           (\E i \in 1..n : /\ Refresher(c, todo[i])
                            /\ \/ todo[i].does = "install" \/ Provided(c)
                               \/ \E j \in 1..(i - 1) : todo[j].does = Provider(c)) => Refreshed(c)'
    PROVE  FlowInv'
  <1>1. CASE offered
    BY <1>1 DEF FlowInv, FlowStaysOrdered, WiredInTheEnd, RefreshedInTheEnd
  <1>2. CASE ~offered
    <2>1. FlowStaysOrdered'
      <3>1. OrderedFrom(todo, got)
        BY <1>2 DEF FlowInv, FlowStaysOrdered
      <3>2. OrderedFrom(todo', got \cup UNION {todo[i].gives : i \in 1..n})
        BY <3>1, RestOrdered
      <3>3. OrderedFrom(todo', got')
        BY <3>2
      <3> QED
        BY <3>3 DEF FlowStaysOrdered, OrderedFrom
    <2>2. WiredInTheEnd'
      <3>1. c \in wired \cup {"teams"} \/ Wiring(todo)
        BY <1>2 DEF FlowInv, WiredInTheEnd
      <3>2. c \in wired' \cup {"teams"} \/ Wiring(todo')
        BY <1>2, <3>1, RestWires
      <3> QED
        BY <3>2 DEF WiredInTheEnd, Wiring
    <2>3. RefreshedInTheEnd'
      <3>1. Provided(c) => Provided(c)'
        BY DEF Provided
      <3>2. (Refreshed(c)' /\ ~Altering(todo')) \/ Refreshing(c, todo', Provided(c)')
        <4>1. CASE Refreshed(c) /\ ~Altering(todo)
          <5>1. /\ DOMAIN todo = 1..Len(todo) /\ n \in 1..Len(todo) /\ Len(todo) \in Nat
            BY DEF IsRest
          <5>2. \A i \in 1..n : ~Alters(todo[i])
            BY <4>1, <5>1 DEF Altering
          <5>3. ~Altering(todo')
            BY <4>1, RestChanges DEF Altering
          <5> QED
            BY <4>1, <5>2, <5>3
        <4>2. CASE Refreshing(c, todo, Provided(c))
          BY <3>1, <4>2, RestRefreshes
        <4> QED
          BY <1>2, <4>1, <4>2 DEF FlowInv, RefreshedInTheEnd
      <3>3. (Altering(todo)' <=> Altering(todo'))
            /\ (Refreshing(c, todo, Provided(c))' <=> Refreshing(c, todo', Provided(c)'))
        BY DEF Altering, Refreshing
      <3> QED
        BY <3>2, <3>3 DEF RefreshedInTheEnd
    <2> QED
      BY <2>1, <2>2, <2>3 DEF FlowInv
  <1> QED
    BY <1>1, <1>2 DEF FlowInv, FlowStaysOrdered

\* One stage passes.
LEMMA FlowPasses ==
    ASSUME SetupTypeOK, FlowInv, NEW c, channel = {c}, todo # <<>>, Passes, wired \subseteq wired',
           Now.does = "init" => offered \/ c \in wired' \cup {"teams"},
           AtHand(c) => AtHand(c)',
           Now.does = Provider(c) => Provided(c)',
           Refreshed(c) /\ ~Alters(Now) => Refreshed(c)',
           Refresher(c, Now) /\ (Now.does = "install" \/ Provided(c)) => Refreshed(c)'
    PROVE  FlowInv'
  <1>1. IsRest(Tail(todo), todo, 1) /\ Now = todo[1]
    BY TailIsRest DEF SetupTypeOK, Now
  <1>2. todo' = Tail(todo) /\ got' = got \cup Now.gives /\ UNCHANGED <<channel, offered>>
    BY DEF Passes
  <1>3. IsRest(todo', todo, 1)
    BY <1>1, <1>2
  <1>4. (\A i \in 1..1 : i = 1) /\ 1 \in 1..1 /\ 1..(1 - 1) = {}
    OBVIOUS
  <1>5. got' = got \cup UNION {todo[i].gives : i \in 1..1}
    BY <1>1, <1>2, <1>4
  <1> QED
    BY <1>1, <1>2, <1>3, <1>4, <1>5, FlowAdvances

\* A stage fails.
LEMMA FlowFails ==
    ASSUME StageFails
    PROVE  FlowInv'
  <1>1. CASE Fails
    BY <1>1, NoFlow DEF Fails, LeaveFlow
  <1>2. CASE offered'
    BY <1>2 DEF FlowInv, FlowStaysOrdered, WiredInTheEnd, RefreshedInTheEnd
  <1> QED
    BY <1>1, <1>2 DEF StageFails

LEMMA ProviderIs ==
    ASSUME NEW c
    PROVE  /\ Provider(c) \in {"auth", "settings", "none"}
           /\ Provider(c) = "auth" <=> c = "whatsapp"
           /\ Provider(c) = "settings" <=> c = "signal"
  BY DEF Provider

\* A stage that leaves the machine as it is.
LEMMA FlowIdles ==
    ASSUME SetupTypeOK, FlowInv, InStage({"check", "account", "pair"}), Passes, UNCHANGED machineVars
    PROVE  FlowInv'
  <1>1. Now.does \in {"check", "account", "pair"} /\ channel = {This} /\ todo # <<>>
    BY InStageHas
  <1> PICK c : channel = {c}
    BY <1>1
  <1>2. UNCHANGED <<env, creds, stale, live, missed, svc, dist, wired>>
    BY DEF machineVars, serviceVars, buildVars, agentVars
  <1>3. (AtHand(c) => AtHand(c)') /\ (Refreshed(c) => Refreshed(c)')
    BY <1>2 DEF AtHand, Refreshed
  <1> QED
    BY <1>1, <1>2, <1>3, FlowPasses, ProviderIs DEF Refresher

\* The service is started anew with the channel's credentials at hand.
LEMMA RestartsRefresh ==
    ASSUME NEW c, NEW pkgs, NEW written,
           Restarts(dist', pkgs, env', creds', written), AtHand(c)'
    PROVE  Refreshed(c)'
  <1>1. CASE Missed(written)
    BY <1>1, MissedTypes DEF Refreshed
  <1>2. CASE Started(dist', pkgs, env', creds')
    <2>1. stale' = {} /\ \A d \in dist' : Credentialed(d, env', creds') => d \in live' \/ svc' # "up"
      BY <1>2, StartedTypes
    <2>2. Credentialed(c, env', creds') \/ (c = "whatsapp" /\ "half" \in creds')
      BY DEF AtHand, Credentialed
    <2> QED
      BY <2>1, <2>2 DEF Refreshed
  <1> QED
    BY <1>1, <1>2 DEF Restarts

-----------------------------------------------------------------------------

LEMMA InstallFlow ==
    ASSUME SetupTypeOK, FlowInv, InstallAdapterStage
    PROVE  FlowInv'
  <1>1. Now.does = "install" /\ channel = {This} /\ todo # <<>> /\ This \in Channels
    BY InStageHas DEF InstallAdapterStage
  <1>2. CASE StageFails
    BY <1>2, FlowFails
  <1>3. CASE InstallSucceeds
    <2> PICK c : c = This /\ channel = {c} /\ c \in Channels
      BY <1>1
    <2>1. /\ Passes /\ UNCHANGED <<creds, wired>> /\ env \subseteq env'
          /\ Runs(c, "env") => c \in env'
          /\ ~Runs(c, "env") => env' = env
      BY <1>3 DEF InstallAdapterStage, InstallSucceeds, agentVars
    <2>2. AtHand(c) => AtHand(c)'
      BY <2>1 DEF AtHand
    <2>3. Refresher(c, Now) => c # "whatsapp" /\ Runs(c, "restart") /\ Runs(c, "env")
      BY <1>1 DEF Refresher, Runs, ScriptOf, AddWhatsApp, Script
    <2>4. ASSUME Refresher(c, Now)
          PROVE  Refreshed(c)'
      <3>1. Runs(This, "restart")
        BY <2>3, <2>4
      <3>2. \E pkgs : Restarts(dist', pkgs, env', creds, {This})
        BY <1>3, <3>1 DEF InstallSucceeds
      <3>3. PICK pkgs, written : Restarts(dist', pkgs, env', creds', written)
        BY <2>1, <3>2
      <3>4. AtHand(c)'
        BY <2>1, <2>3, <2>4 DEF AtHand
      <3> QED
        BY <3>3, <3>4, RestartsRefresh
    <2>5. Alters(Now) /\ Now.does # Provider(c) /\ Now.does # "init"
      BY <1>1, ProviderIs DEF Alters
    <2> QED
      BY <1>1, <2>1, <2>2, <2>4, <2>5, FlowPasses
  <1> QED
    BY <1>2, <1>3 DEF InstallAdapterStage, InstallStops, InstallBreaks

LEMMA AuthFlow ==
    ASSUME SetupTypeOK, FlowInv, Authenticate
    PROVE  FlowInv'
  <1>1. Now.does = "auth" /\ channel = {This} /\ todo # <<>>
    BY InStageHas DEF Authenticate
  <1>2. CASE StageFails
    BY <1>2, FlowFails
  <1>3. CASE Passes /\ ~StageFails
    <2> PICK c : c = This /\ channel = {c}
      BY <1>1
    <2>1. UNCHANGED <<env, stale, svc, live, missed, dist, wired>> /\ creds \subseteq creds'
      BY <1>3 DEF Authenticate, LinkWhatsApp, LinkSignal, LinkFails, serviceVars, buildVars,
           agentVars
    <2>2. (AtHand(c) => AtHand(c)') /\ (Refreshed(c) => Refreshed(c)')
      BY <2>1 DEF AtHand, Refreshed
    <2>3. c = "whatsapp" => Provided(c)'
      <3>1. c = "whatsapp" => creds' \cap {"whatsapp", "half"} # {}
        BY <1>3 DEF Authenticate, Authenticated, Linked, LinkWhatsApp, LinkSignal, LinkFails
      <3> QED
        BY <3>1 DEF Provided, AtHand
    <2>4. Now.does = Provider(c) => c = "whatsapp"
      BY <1>1, ProviderIs
    <2>5. ~Refresher(c, Now) /\ Now.does # "init"
      BY <1>1 DEF Refresher
    <2> QED
      BY <1>1, <1>3, <2>1, <2>2, <2>3, <2>4, <2>5, FlowPasses
  <1> QED
    BY <1>2, <1>3 DEF Authenticate, LinkWhatsApp, LinkSignal, LinkFails

LEMMA SettingsFlow ==
    ASSUME SetupTypeOK, FlowInv, WriteSettings
    PROVE  FlowInv'
  <1>1. Now.does = "settings" /\ channel = {This} /\ todo # <<>>
    BY InStageHas DEF WriteSettings
  <1> PICK c : c = This /\ channel = {c}
    BY <1>1
  <1>2. Passes /\ UNCHANGED <<creds, wired>> /\ env \subseteq env' /\ (c = "signal" => c \in env')
    BY DEF WriteSettings, agentVars
  <1>3. (AtHand(c) => AtHand(c)') /\ (c = "signal" => Provided(c)')
    BY <1>2 DEF AtHand, Provided
  <1>4. Now.does = Provider(c) => c = "signal"
    BY <1>1, ProviderIs
  <1>5. Alters(Now) /\ ~Refresher(c, Now) /\ Now.does # "init"
    BY <1>1 DEF Alters, Refresher
  <1> QED
    BY <1>1, <1>2, <1>3, <1>4, <1>5, FlowPasses

LEMMA RestartFlow ==
    ASSUME SetupTypeOK, FlowInv, RestartService
    PROVE  FlowInv'
  <1>1. Now.does = "restart" /\ channel = {This} /\ todo # <<>>
    BY InStageHas DEF RestartService
  <1> PICK c : c = This /\ channel = {c}
    BY <1>1
  <1>2. Passes /\ UNCHANGED <<creds, wired, env, dist>> /\ Restarts(dist, deps, env, creds, {})
    BY DEF RestartService, agentVars, buildVars
  <1>3. PICK pkgs, written : Restarts(dist', pkgs, env', creds', written)
    BY <1>2
  <1>4. AtHand(c) => AtHand(c)'
    BY <1>2 DEF AtHand
  <1>5. AtHand(c) => Refreshed(c)'
    BY <1>3, <1>4, RestartsRefresh
  <1>6. Now.does # Provider(c) /\ Now.does # "init" /\ Now.does # "install"
    BY <1>1, ProviderIs
  <1>7. (Refreshed(c) => AtHand(c)) /\ (Provided(c) => AtHand(c))
    BY DEF Refreshed, Provided
  <1> QED
    BY <1>1, <1>2, <1>4, <1>5, <1>6, <1>7, FlowPasses

LEMMA WelcomeFlow ==
    ASSUME SetupTypeOK, FlowInv, InitFirstAgentStage
    PROVE  FlowInv'
  <1>1. Now.does = "init" /\ channel = {This} /\ todo # <<>>
    BY InStageHas DEF InitFirstAgentStage
  <1>2. CASE StageFails
    BY <1>2, FlowFails
  <1>3. CASE Passes /\ WiresChat
    <2> PICK c : c = This /\ channel = {c}
      BY <1>1
    <2>1. UNCHANGED <<env, creds, stale, svc, live, missed, dist>> /\ wired \subseteq wired'
      BY <1>3 DEF InitFirstAgentStage, WiresChat, serviceVars, buildVars
    <2>2. (AtHand(c) => AtHand(c)') /\ (Refreshed(c) => Refreshed(c)')
      BY <2>1 DEF AtHand, Refreshed
    <2>3. offered \/ Usable
      <3>1. IsRest(Tail(todo), todo, 1) /\ Now = todo[1] /\ 1 \in DOMAIN todo /\ 1..(1 - 1) = {}
        BY <1>1, TailIsRest, TailTypes DEF SetupTypeOK, Now
      <3>2. OrderedFrom(todo, got) => Now.needs \subseteq got
        BY <3>1 DEF OrderedFrom
      <3> QED
        BY <3>2 DEF FlowInv, FlowStaysOrdered, Usable
    <2>4. offered \/ c \in wired'
      BY <1>3, <2>3 DEF WiresChat
    <2>5. ~Refresher(c, Now) /\ Now.does # Provider(c)
      BY <1>1, ProviderIs DEF Refresher
    <2> QED
      BY <1>1, <1>3, <2>1, <2>2, <2>4, <2>5, FlowPasses
  <1> QED
    BY <1>2, <1>3 DEF InitFirstAgentStage, SendWelcome

LEMMA AnswerFlow ==
    ASSUME SetupTypeOK, FlowInv, Answer
    PROVE  FlowInv'
  <1>1. PICK n \in DOMAIN todo :
          /\ AsksAt(n) /\ todo' = SubSeq(todo, n + 1, Len(todo))
          /\ got' = got \cup UNION {todo[i].gives : i \in 1..n}
    BY DEF Answer
  <1>2. IsRest(todo', todo, n)
    BY <1>1, SubSeqIsRest DEF SetupTypeOK
  <1>3. \A i \in 1..n : todo[i].does = "ask"
    BY <1>1 DEF AsksAt
  <1>4. channel = {This}
    BY <1>1, InStageHas DEF AsksAt
  <1> PICK c : channel = {c}
    BY <1>4
  <1>5. UNCHANGED <<env, creds, stale, live, missed, svc, dist, wired, channel, offered>>
    BY DEF Answer, machineVars, serviceVars, buildVars, agentVars
  <1>6. (AtHand(c) => AtHand(c)') /\ (Refreshed(c) => Refreshed(c)')
    BY <1>5 DEF AtHand, Refreshed
  <1>7. \A i \in 1..n : todo[i].does # "init" /\ todo[i].does # Provider(c) /\ ~Refresher(c, todo[i])
    BY <1>3, ProviderIs DEF Refresher
  <1> QED
    BY <1>1, <1>2, <1>5, <1>6, <1>7, FlowAdvances

LEMMA ChoiceFlow ==
    ASSUME SetupTypeOK, FlowInv, StepsAreOrdered, AskChannelChoice
    PROVE  FlowInv'
  <1>1. ASSUME NEW c \in Channels, NEW path \in FlowOf(c), channel' = {c}, todo' = path
        PROVE  FlowInv'
    <2>1. FlowIsSound(c, path)
      BY FlowsAreSound, SetupAssumption
    <2>2. FlowStaysOrdered'
      <3>1. OrderedFrom(path, {}) => OrderedFrom(path, got')
        BY DEF OrderedFrom
      <3> QED
        BY <1>1, <2>1, <3>1 DEF FlowStaysOrdered, OrderedFrom, FlowIsSound
    <2>3. WiredInTheEnd'
      BY <1>1, <2>1 DEF WiredInTheEnd, Wiring, FlowIsSound
    <2>4. RefreshedInTheEnd'
      <3>1. Refreshing(c, path, FALSE)
        BY <2>1 DEF FlowIsSound
      <3>2. Refreshing(c, todo, Provided(c))'
        BY <1>1, <3>1 DEF Refreshing
      <3> QED
        BY <1>1, <3>2 DEF RefreshedInTheEnd
    <2> QED
      BY <2>2, <2>3, <2>4 DEF FlowInv
  <1>2. CASE at' = "verify" /\ InFlow
    <2>1. channel = {} /\ todo = <<>>
      BY DEF AskChannelChoice, StepsAreOrdered
    <2> QED
      BY <1>2, <2>1, NoFlow DEF InFlow
  <1> QED
    BY <1>1, <1>2 DEF AskChannelChoice

LEMMA FlowStays ==
    ASSUME SetupTypeOK, StepsAreOrdered, FlowInv, [SetupNext]_setupVars
    PROVE  FlowInv'
  <1>1. ASSUME UNCHANGED <<channel, todo, offered>>, UNCHANGED machineVars, got' = got \/ todo = <<>>
        PROVE  FlowInv'
    BY <1>1, FlowRests DEF machineVars, serviceVars, buildVars, agentVars
  <1>2. ASSUME at \notin {"channel", "verify", "left", "set"}, InFlow
        PROVE  FlowInv'
    <2>1. channel = {} /\ todo = <<>>
      BY <1>2 DEF StepsAreOrdered
    <2> QED
      BY <1>2, <2>1, NoFlow DEF InFlow
  <1>3. CASE LeaveFlow
    BY <1>3, NoFlow DEF LeaveFlow
  <1>4. CASE Step
    <2>1. CASE Skip
      BY <1>1, <2>1 DEF Skip, DoneUnlogged, InFlow
    <2>2. CASE Verify
      BY <1>1, <2>2 DEF Verify, InFlow
    <2>3. CASE Environment
      BY <1>2, <1>3, <2>3 DEF Environment, Running, Done, Fails
    <2>4. CASE Container
      BY <1>2, <1>3, <2>4 DEF Container, Running, Done, Fails
    <2>5. CASE MaybeReexecUnderSg
      BY <1>3, <2>5 DEF MaybeReexecUnderSg, NewProcess
    <2>6. CASE OneCli
      BY <1>2, <1>3, <2>6 DEF OneCli, Running, Done, Fails
    <2>7. CASE RunAuthStep
      <3>1. at = "auth" /\ (InFlow \/ LeaveFlow)
        BY <2>7 DEF RunAuthStep, Running, RunSubscriptionAuth, RunPasteAuth, ConnectLater,
             SaveFails, Done,
                    DoneUnlogged, Fails
      <3> QED
        BY <1>2, <1>3, <3>1
    <2>8. CASE Backup
      BY <1>2, <2>8 DEF Backup, Running, DoneUnlogged
    <2>9. CASE Mounts
      BY <1>2, <1>3, <2>9 DEF Mounts, Running, Done, Fails
    <2>10. CASE Service
      BY <1>2, <1>3, <2>10 DEF Service, BuildAndInstall, Running, Done, Fails
    <2>11. CASE InitCliAgent
      BY <1>2, <1>3, <2>11 DEF InitCliAgent, Running, Fails
    <2>12. CASE ConfirmAssistantResponds
      BY <1>2, <2>12 DEF ConfirmAssistantResponds
    <2>13. CASE FirstChat
      BY <1>2, <1>3, <2>13 DEF FirstChat, Fails
    <2>14. CASE DetectTimezone
      BY <1>2, <1>3, <2>14 DEF DetectTimezone, Running, Fails
    <2>15. CASE ConfirmTimezone
      BY <1>2, <1>3, <2>15 DEF ConfirmTimezone, Fails
    <2> QED
      BY <1>4, <2>1, <2>2, <2>3, <2>4, <2>5, <2>6, <2>7, <2>8, <2>9, <2>10, <2>11, <2>12, <2>13,
           <2>14, <2>15
      DEF Step
  <1>5. CASE Flow
    <2>1. CASE Throws \/ GoBack
      BY <1>3, <2>1 DEF Throws, GoBack
    <2>2. CASE LeaveChannel
      BY <1>1, <2>2 DEF LeaveChannel
    <2>3. CASE CallPlatform
      <3>1. InStage({"check", "account", "pair"}) /\ UNCHANGED machineVars
        BY <2>3 DEF CallPlatform, InStage
      <3> QED
        BY <2>3, <3>1, FlowIdles, FlowFails DEF CallPlatform
    <2>4. CASE ReadAccount
      <3>1. InStage({"check", "account", "pair"}) /\ UNCHANGED machineVars
        BY <2>4 DEF ReadAccount, InStage
      <3> QED
        BY <2>4, <3>1, FlowIdles, FlowFails DEF ReadAccount
    <2> QED
      BY <1>5, <2>1, <2>2, <2>3, <2>4, ChoiceFlow, AnswerFlow, InstallFlow, AuthFlow, SettingsFlow,
           RestartFlow,
         WelcomeFlow DEF Flow
  <1>6. CASE Pair
    <2>1. CASE UNCHANGED <<processVars, machineVars>>
      BY <1>1, <2>1 DEF processVars
    <2>2. CASE Paired
      <3>1. InStage({"check", "account", "pair"}) /\ UNCHANGED machineVars
        BY <2>2 DEF Paired, PairingStage, InStage
      <3> QED
        BY <2>2, <3>1, FlowIdles DEF Paired
    <2>3. CASE NotPaired
      BY <2>3, FlowFails DEF NotPaired
    <2> QED
      BY <1>6, <2>1, <2>2, <2>3 DEF Pair, BeginPairing, SendCode, MatchCode, AnotherCode
  <1>7. CASE Retry \/ Abort \/ Cancel \/ Again
    BY <1>3, <1>7 DEF Retry, Abort, Cancel, Again, NewProcess
  <1>8. CASE UNCHANGED setupVars
    BY <1>1, <1>8 DEF setupVars, processVars
  <1> QED
    BY <1>4, <1>5, <1>6, <1>7, <1>8 DEF SetupNext

-----------------------------------------------------------------------------

\* Only the last step ends setup well, and nothing follows it.
LEMMA SeenStays ==
    ASSUME SetupTypeOK, SeenInTheEnd, [SetupNext]_setupVars
    PROVE  SeenInTheEnd'
  <1>1. CASE UNCHANGED <<at, channel, svc>>
    BY <1>1 DEF SeenInTheEnd
  <1>2. CASE at' \notin {"set", "ready"}
    BY <1>2 DEF SeenInTheEnd
  <1>3. CASE Step
    <2>1. CASE Verify
      <3>1. svc' = svc /\ channel' = channel
        BY <2>1 DEF Verify, InFlow, machineVars, serviceVars
      <3> QED
        BY <2>1, <3>1 DEF Verify, VerifyPasses, SeenInTheEnd
    <2>2. ASSUME NEW step, Follows(step)
          PROVE  at' \notin {"set", "ready"}
      <3>1. PICK i \in 1..(Len(Order) - 1) : at' = Order[i + 1]
        BY <2>2 DEF Follows
      <3>2. at' \in Steps
        BY <3>1 DEF Steps, Order
      <3> QED
        BY <3>2, StepsAre
    <2>3. ASSUME Fails
          PROVE  at' \notin {"set", "ready"}
      BY <2>3 DEF Fails
    <2> QED
      BY <1>2, <1>3, <2>1, <2>2, <2>3
      DEF Step, Skip, Environment, Container, MaybeReexecUnderSg, OneCli, RunAuthStep, Backup, Mounts, Service,
          InitCliAgent, ConfirmAssistantResponds, FirstChat, DetectTimezone, ConfirmTimezone, Done, DoneUnlogged,
          NewProcess, RunSubscriptionAuth, RunPasteAuth, ConnectLater, SaveFails, BuildAndInstall
  <1>4. CASE Flow
    <2>1. at = "channel" /\ at' \in {at, "failed", "aborted", "verify"}
      BY <1>4
      DEF Flow, AskChannelChoice, Throws, Answer, AsksAt, GoBack, InStage, CallPlatform, InstallAdapterStage,
          InstallSucceeds, InstallStops, InstallBreaks, Authenticate, LinkWhatsApp, LinkSignal, LinkFails,
          ReadAccount, WriteSettings, RestartService, InitFirstAgentStage, SendWelcome, LeaveChannel,
          Passes, StageFails, Fails
    <2> QED
      BY <1>2, <2>1
  <1>5. CASE Pair
    <2>1. CASE Paired \/ NotPaired
      BY <1>2, <2>1 DEF Paired, NotPaired, PairingStage, InStage, Passes, StageFails, Fails
    <2> QED
      BY <1>1, <1>5, <2>1
      DEF Pair, BeginPairing, SendCode, MatchCode, AnotherCode, processVars, machineVars, serviceVars
  <1>6. CASE Retry \/ Abort \/ Cancel \/ Again
    BY <1>2, <1>6 DEF Retry, Abort, Cancel, Again, NewProcess
  <1> QED
    BY <1>1, <1>3, <1>4, <1>5, <1>6 DEF SetupNext, setupVars, processVars, machineVars, serviceVars

LEMMA SetupStarts ==
    ASSUME SetupInit
    PROVE  SetupInv
  <1>1. PairingInv
    BY PairingStarts DEF SetupInit
  <1>2. todo \in Seq(Stages) /\ todo = <<>> /\ DOMAIN todo = {}
    BY EmptySeq DEF SetupInit
  <1>3. SetupTypeOK
    <2>1. runs \in 1..MaxRuns /\ mishaps \in 0..MaxMishaps
      BY SetupAssumption DEF SetupInit
    <2>2. Bundled \subseteq Channels
      BY SetupAssumption
    <2>3. at \in Steps
      BY StepsAre DEF SetupInit
    <2> QED
      BY <1>2, <2>1, <2>2, <2>3 DEF SetupInit, SetupTypeOK
  <1>4. SkippedIsDone /\ ServiceIsCurrent /\ StepsAreOrdered
    BY <1>2, StepsAre DEF SetupInit, SkippedIsDone, ServiceIsCurrent, StepsAreOrdered,
         BeforeService, AfterService,
                          Passed
  <1>5. FlowIsOrdered /\ FlowStaysOrdered /\ WiredInTheEnd /\ RefreshedInTheEnd /\ SeenInTheEnd
    BY <1>2 DEF SetupInit, FlowIsOrdered, FlowStaysOrdered, OrderedFrom, WiredInTheEnd,
         RefreshedInTheEnd,
                SeenInTheEnd
  <1> QED
    BY <1>1, <1>3, <1>4, <1>5 DEF SetupInv

\* The stage that comes next needs what no stage before it can give.
LEMMA NextIsOrdered ==
    ASSUME SetupTypeOK', FlowStaysOrdered'
    PROVE  FlowIsOrdered'
  <1>1. ASSUME todo' # <<>>, OrderedFrom(todo', got')
        PROVE  Now.needs' \subseteq got'
    <2>1. todo' \in Seq(Stages)
      BY DEF SetupTypeOK
    <2>2. Now' = todo'[1] /\ 1 \in DOMAIN todo' /\ 1..(1 - 1) = {}
      BY <1>1, <2>1, TailTypes DEF Now
    <2> QED
      BY <1>1, <2>2 DEF OrderedFrom
  <1> QED
    BY <1>1 DEF FlowIsOrdered, FlowStaysOrdered, OrderedFrom

LEMMA SetupStays ==
    ASSUME SetupInv, [SetupNext]_setupVars
    PROVE  SetupInv'
  <1>1. SetupTypeOK'
    BY TypesStay DEF SetupInv
  <1>2. PairingInv'
    BY PairingStays DEF SetupInv
  <1>3. ProcessInv'
    BY ProcessStays DEF SetupInv, ProcessInv
  <1>4. FlowInv'
    BY FlowStays DEF SetupInv, FlowInv
  <1>5. SeenInTheEnd'
    BY SeenStays DEF SetupInv
  <1>6. FlowIsOrdered'
    BY <1>1, <1>4, NextIsOrdered DEF FlowInv
  <1> QED
    BY <1>1, <1>2, <1>3, <1>4, <1>5, <1>6 DEF SetupInv, ProcessInv, FlowInv

(* What the wizard keeps, for any channels, adapters, codes and chats and  *)
(* any number of processes and mishaps: a step that is passed over has     *)
(* been done; a stage of a channel's flow uses no value that its earlier   *)
(* stages have not collected, unless a failure was not awaited; one code   *)
(* is pending at most, and the pairing reports the chat of one who sent it.*)
THEOREM SetupSafety == SetupSpec => []SetupInv
  <1>1. SetupInit => SetupInv
    BY SetupStarts
  <1>2. SetupInv /\ [SetupNext]_setupVars => SetupInv'
    BY SetupStays
  <1> QED
    BY <1>1, <1>2, PTL DEF SetupSpec

(* When setup ends well with a channel, a chat of that channel is wired    *)
(* and the running service has its adapter, but for the exceptions the     *)
(* property names.                                                         *)
THEOREM ReachableIsTrue == SetupSpec => []AnnouncedIsReachable
  <1>1. SetupInv => AnnouncedIsReachable
    <2> SUFFICES ASSUME SetupInv, at = "set"
                 PROVE  /\ This \in wired \cup {"teams"} \/ offered
                        /\ \/ This \in live \/ missed \/ offered \/ This \notin dist
                           \/ This = "whatsapp" /\ "half" \in creds
      BY DEF AnnouncedIsReachable, AnnouncedIsWired, AnnouncedIsLive
    <2>1. todo = <<>> /\ DOMAIN todo = {} /\ svc = "up" /\ channel # {}
      BY DEF SetupInv, SetupTypeOK, StepsAreOrdered, SeenInTheEnd
    <2>2. PICK c \in channel : c = This
      BY <2>1, ThisIs DEF SetupInv
    <2>3. offered \/ c \in wired \cup {"teams"}
      BY <2>1 DEF SetupInv, WiredInTheEnd, Wiring
    <2>4. offered \/ Refreshed(c)
      BY <2>1 DEF SetupInv, RefreshedInTheEnd, Refreshing
    <2> QED
      BY <2>1, <2>2, <2>3, <2>4 DEF Refreshed
  <1> QED
    BY <1>1, SetupSafety, PTL

(* When setup ends well, the service has read the vault's address, the     *)
(* backup provider and the credentials or settings of the channel, but for *)
(* the exceptions the property names.                                      *)
THEOREM CurrentIsTrue == SetupSpec => []AnnouncedIsCurrent
  <1>1. SetupInv => AnnouncedIsCurrent
    <2> SUFFICES ASSUME SetupInv, at \in {"set", "ready"}, ~missed, ~offered,
                        NEW item \in stale, item \in Chosen
                 PROVE  "service" \in skip /\ item = "fallback"
      BY DEF AnnouncedIsCurrent
    <2>1. todo = <<>> /\ DOMAIN todo = {} /\ "service" \in skip \cup logged
      BY DEF SetupInv, SetupTypeOK, StepsAreOrdered, AfterService, BeforeService, Passed
    <2>2. item # "onecli"
      BY <2>1 DEF SetupInv, ServiceIsCurrent, Passed
    <2>3. ASSUME NEW c \in channel
          PROVE  c \notin stale /\ (c = "whatsapp" => "settings" \notin stale)
      BY <2>1, <2>3 DEF SetupInv, RefreshedInTheEnd, Refreshing, Refreshed
    <2>4. item \notin channel /\ (channel = {"whatsapp"} => item # "settings")
      BY <2>3
    <2>5. item = "fallback"
      BY <2>2, <2>4 DEF Chosen
    <2>6. "service" \notin logged
      BY <2>5 DEF SetupInv, ServiceIsCurrent
    <2> QED
      BY <2>1, <2>5, <2>6
  <1> QED
    BY <1>1, SetupSafety, PTL
=============================================================================
