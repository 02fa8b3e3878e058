------------------------------ MODULE SelfMod -------------------------------
(***************************************************************************)
(* How an agent changes its own container: install_packages and            *)
(* add_mcp_server (src/modules/self-mod), `ncl groups restart` and         *)
(* `ncl groups config` (src/cli/resources/groups.ts), the image build and  *)
(* the spawn of src/container-runner.ts.  One agent group with several     *)
(* sessions.                                                               *)
(*                                                                         *)
(* An approved package is written to the configuration, the image of the   *)
(* group is built again from one Dockerfile and under one tag, and then a  *)
(* note for the first poll of a fresh container tells the agent that the   *)
(* package is there, while the running container is killed.                *)
(***************************************************************************)
EXTENDS Integers, FiniteSets

CONSTANTS
    Sessions,
    Installs,     \* approved requests of install_packages
    Servers,      \* approved requests of add_mcp_server
    Rebuilds,     \* runs of ncl groups restart --rebuild
    SessionOf,    \* the session a change or a rebuild comes from
    Budgets       \* bounds: the changes and builds, the commands and the faults of a scenario

Changes == Installs \union Servers
Builders == Installs \union Rebuilds

ASSUME SelfModAssumption ==
    /\ Installs \intersect Servers = {} /\ Rebuilds \intersect Changes = {}
    /\ SessionOf \in [Changes \union Rebuilds -> Sessions]
    /\ Budgets \subseteq [asked: SUBSET (Changes \union Rebuilds), ops: Nat, faults: Nat]

VARIABLES
    packages, servers,  \* container_configs
    tagged,      \* image_tag is set: the image of the group is used
    image,       \* the packages in the image the tag names
    dockerfile,  \* DATA_DIR/Dockerfile.<group>: none, or the packages it installs
    build,       \* the builds: how far, and the packages docker has read
    container,   \* of each session
    plan,        \* tagged, as the spawn under way has read it
    json,        \* container.json: the servers it lists, shared by the sessions
    has,         \* what the container was started with
    fresh,       \* it has not polled yet
    dying,       \* it was told to stop: the way it goes on after its exit
    notes,       \* on_wake rows: the changes they say are in place
    heard, failed,               \* what the agents were told (history)
    misled,                      \* told by a container without the change (history)
    overlapped, early, removed,  \* what happened to a change (history)
    lost,                        \* changes a crash interrupted (history)
    budget       \* what is left of it

vars == <<packages, servers, tagged, image, dockerfile, build, container, plan, json, has, fresh,
          dying, notes, heard, failed, misled, overlapped, early, removed, lost, budget>>

Idle == [at |-> "idle", reads |-> {}]

TypeOK ==
    /\ packages \subseteq Installs /\ servers \subseteq Servers /\ tagged \in BOOLEAN
    /\ image \subseteq Installs
    /\ dockerfile \subseteq SUBSET Installs /\ Cardinality(dockerfile) <= 1
    /\ build \in [Builders -> [at: {"idle", "written", "building", "over"}, reads: SUBSET Installs]]
    /\ container \in [Sessions -> {"down", "spawning", "running"}]
    /\ plan \in [Sessions -> BOOLEAN] /\ json \subseteq Servers
    /\ has \in [Sessions -> SUBSET Changes] /\ fresh \in [Sessions -> BOOLEAN]
    /\ dying \in [Sessions -> {"no", "stop", "respawn"}]
    /\ notes \in [Sessions -> SUBSET Changes]
    /\ heard \subseteq Changes /\ failed \subseteq Changes /\ misled \subseteq Changes
    /\ overlapped \subseteq Changes /\ early \subseteq Changes /\ removed \subseteq Changes
    /\ lost \subseteq Changes
    /\ budget \in [asked: SUBSET (Changes \union Rebuilds), ops: Nat, faults: Nat]

Init ==
    /\ packages = {} /\ servers = {} /\ tagged = FALSE /\ image = {} /\ dockerfile = {}
    /\ build = [b \in Builders |-> Idle]
    /\ container = [s \in Sessions |-> "down"]
    /\ plan = [s \in Sessions |-> FALSE] /\ json = {}
    /\ has = [s \in Sessions |-> {}] /\ fresh = [s \in Sessions |-> FALSE]
    /\ dying = [s \in Sessions |-> "no"] /\ notes = [s \in Sessions |-> {}]
    /\ heard = {} /\ failed = {} /\ misled = {}
    /\ overlapped = {} /\ early = {} /\ removed = {} /\ lost = {}
    /\ budget \in Budgets

config == <<packages, servers, tagged>>
building == <<image, dockerfile, build>>
running == <<container, plan, json, has, fresh, dying>>
history == <<heard, failed, misled, overlapped, early, removed, lost>>
Fault == budget.faults > 0 /\ budget' = [budget EXCEPT !.faults = @ - 1]
Command == budget.ops > 0 /\ budget' = [budget EXCEPT !.ops = @ - 1]
Asked(c) == c \in budget.asked /\ budget' = [budget EXCEPT !.asked = @ \ {c}]
-----------------------------------------------------------------------------
(* Containers.                                                               *)

\* wakeContainer, up to the awaits of the gateway: materializeContainerJson.
Spawning(s) ==
    /\ container' = [container EXCEPT ![s] = "spawning"]
    /\ plan' = [plan EXCEPT ![s] = tagged]
    /\ json' = servers

Wake(s) ==
    /\ container[s] = "down"
    /\ Spawning(s)
    /\ UNCHANGED <<config, building, has, fresh, dying, notes, history, budget>>

SpawnFails(s) ==
    /\ container[s] = "spawning" /\ Fault
    /\ container' = [container EXCEPT ![s] = "down"]
    /\ UNCHANGED <<config, building, plan, json, has, fresh, dying, notes, history>>

\* docker run: the tag names an image now; the runner reads container.json.
Start(s) ==
    /\ container[s] = "spawning"
    /\ container' = [container EXCEPT ![s] = "running"]
    /\ has' = [has EXCEPT ![s] = json \union (IF plan[s] THEN image ELSE {})]
    /\ fresh' = [fresh EXCEPT ![s] = TRUE]
    /\ UNCHANGED <<config, building, plan, json, dying, notes, history, budget>>

\* A row that a container in its last seconds has claimed may come again.
FirstPoll(s) ==
    /\ container[s] = "running" /\ fresh[s]
    /\ fresh' = [fresh EXCEPT ![s] = FALSE]
    /\ heard' = heard \union notes[s]
    /\ misled' = misled \union (notes[s] \ has[s])
    /\ \/ notes' = [notes EXCEPT ![s] = {}]
       \/ dying[s] # "no" /\ UNCHANGED notes
    /\ UNCHANGED <<config, building, container, plan, json, has, dying, failed, overlapped, early,
                   removed, lost, budget>>

\* close: the entry is deleted, then onExit wakes.  A container that was not
\* told to stop ends by itself once it is past its first poll.
Exit(s) ==
    /\ container[s] = "running" /\ (dying[s] # "no" \/ ~fresh[s])
    /\ has' = [has EXCEPT ![s] = {}] /\ fresh' = [fresh EXCEPT ![s] = FALSE]
    /\ dying' = [dying EXCEPT ![s] = "no"]
    /\ IF dying[s] = "respawn" THEN Spawning(s)
       ELSE container' = [container EXCEPT ![s] = "down"] /\ UNCHANGED <<plan, json>>
    /\ UNCHANGED <<config, building, notes, history, budget>>

\* killContainer: nothing to do for a spawn under way.
Killed(set, on) ==
    dying' = [s \in Sessions |->
                 IF s \in set /\ container[s] = "running" /\ dying[s] # "respawn" THEN on ELSE dying[s]]

\* What an applied change leaves behind: an on_wake note and a kill with a wake.
Tell(c) ==
    LET s == SessionOf[c] IN
    /\ notes' = [notes EXCEPT ![s] = @ \union {c}]
    /\ Killed({s}, "respawn")
    /\ early' = IF container[s] = "spawning" \/ (container[s] = "running" /\ fresh[s])
                THEN early \union {c} ELSE early
-----------------------------------------------------------------------------
(* buildAgentGroupImage, awaited by whoever asked for it.                    *)

Active == {b \in Builders: build[b].at \in {"written", "building"}}

\* The Dockerfile is written for the packages of now.
Begin(b) ==
    /\ dockerfile' = {packages'}
    /\ build' = [build EXCEPT ![b].at = "written"]
    /\ overlapped' = IF Active = {} THEN overlapped
                     ELSE overlapped \union ((Active \union {b}) \intersect Installs)

\* applyInstallPackages.
Install(c) ==
    /\ Asked(c)
    /\ packages' = packages \union {c}
    /\ Begin(c)
    /\ UNCHANGED <<servers, tagged, image, running, notes, heard, failed, misled, early, removed, lost>>

\* ncl groups restart --rebuild; without packages it throws.
Rebuild(b) ==
    /\ packages # {} /\ Asked(b)
    /\ UNCHANGED config
    /\ Begin(b)
    /\ UNCHANGED <<image, running, notes, heard, failed, misled, early, removed, lost>>

\* docker build reads the file some time after it was started.
DockerReads(b) ==
    /\ build[b].at = "written"
    /\ \E file \in dockerfile: build' = [build EXCEPT ![b] = [at |-> "building", reads |-> file]]
    /\ UNCHANGED <<config, image, dockerfile, running, notes, history, budget>>

Ended(b) == build' = [build EXCEPT ![b] = [at |-> "over", reads |-> {}]]
Failed(b) == failed' = IF b \in Installs THEN failed \union {b} ELSE failed

\* Mutant of BuildFails: the error is only logged.
BuildFailsSilently(b) ==
    /\ \/ build[b].at = "written" /\ dockerfile = {} /\ UNCHANGED budget
       \/ b \in Active /\ Fault
    /\ Ended(b)
    /\ dockerfile' = {}
    /\ UNCHANGED <<config, image, running, notes, heard, failed, misled, overlapped, early, removed, lost>>

\* Docker fails or finds no file; the agent is notified of it.
BuildFails(b) ==
    /\ \/ build[b].at = "written" /\ dockerfile = {} /\ UNCHANGED budget
       \/ b \in Active /\ Fault
    /\ Ended(b)
    /\ dockerfile' = {}
    /\ Failed(b)
    /\ UNCHANGED <<config, image, running, notes, heard, misled, overlapped, early, removed, lost>>

\* Docker succeeds, but another build has removed the file: unlinkSync throws.
BuiltUnseen(b) ==
    /\ build[b].at = "building" /\ dockerfile = {}
    /\ image' = build[b].reads
    /\ Ended(b)
    /\ Failed(b)
    /\ UNCHANGED <<config, dockerfile, running, notes, heard, misled, overlapped, early, removed,
                   lost, budget>>

\* Mutant of Built: the tag is not stored.
BuiltUntagged(b) ==
    /\ build[b].at = "building" /\ dockerfile # {}
    /\ image' = build[b].reads /\ dockerfile' = {}
    /\ UNCHANGED config
    /\ Ended(b)
    /\ IF b \in Installs THEN Tell(b)
       ELSE \E on \in {"stop", "respawn"}: Killed({SessionOf[b]}, on) /\ UNCHANGED <<notes, early>>
    /\ UNCHANGED <<container, plan, json, has, fresh, heard, failed, misled, overlapped,
                   removed, lost, budget>>

\* A rebuild kills the calling session, with a wake if it leaves a message.
Built(b) ==
    /\ build[b].at = "building" /\ dockerfile # {}
    /\ image' = build[b].reads /\ dockerfile' = {}
    /\ tagged' = TRUE /\ UNCHANGED <<packages, servers>>
    /\ Ended(b)
    /\ IF b \in Installs THEN Tell(b)
       ELSE \E on \in {"stop", "respawn"}: Killed({SessionOf[b]}, on) /\ UNCHANGED <<notes, early>>
    /\ UNCHANGED <<container, plan, json, has, fresh, heard, failed, misled, overlapped,
                   removed, lost, budget>>
-----------------------------------------------------------------------------
(* Changes without a build, the operator, and a crash of the host.           *)

AddMcpServer(c) ==
    /\ Asked(c)
    /\ servers' = servers \union {c}
    /\ Tell(c)
    /\ UNCHANGED <<packages, tagged, building, container, plan, json, has, fresh, heard, failed,
                   misled, overlapped, removed, lost>>

\* config remove-package and remove-mcp-server: the configuration only.
Remove(c) ==
    /\ c \in packages \union servers /\ Command
    /\ packages' = packages \ {c} /\ servers' = servers \ {c}
    /\ removed' = removed \union {c}
    /\ UNCHANGED <<tagged, building, running, notes, heard, failed, misled, overlapped, early, lost>>

\* restartAgentGroupContainers, and ncl groups restart of one session.
Restart(set) ==
    /\ \E s \in set: container[s] = "running" /\ dying[s] = "no"
    /\ Command
    /\ \E on \in {"stop", "respawn"}: Killed(set, on)
    /\ UNCHANGED <<config, building, container, plan, json, has, fresh, notes, history>>

\* cleanupOrphans stops what a crashed host has left; docker may have been done.
HostCrash ==
    /\ Fault
    /\ lost' = lost \union (Active \intersect Installs)
    /\ image' \in {image} \union {build[b].reads: b \in {x \in Active: build[x].at = "building"}}
    /\ build' = [b \in Builders |-> IF b \in Active THEN [at |-> "over", reads |-> {}] ELSE build[b]]
    /\ container' = [s \in Sessions |-> "down"]
    /\ has' = [s \in Sessions |-> {}] /\ fresh' = [s \in Sessions |-> FALSE]
    /\ dying' = [s \in Sessions |-> "no"]
    /\ UNCHANGED <<config, dockerfile, plan, json, notes, heard, failed, misled, overlapped, early,
                   removed>>
-----------------------------------------------------------------------------
Next ==
    \/ \E s \in Sessions: Wake(s) \/ SpawnFails(s) \/ Start(s) \/ FirstPoll(s) \/ Exit(s)
    \/ \E c \in Installs: Install(c)
    \/ \E b \in Rebuilds: Rebuild(b)
    \/ \E b \in Builders: DockerReads(b) \/ BuildFails(b) \/ BuiltUnseen(b) \/ Built(b)
    \/ \E c \in Servers: AddMcpServer(c)
    \/ \E c \in Changes: Remove(c)
    \/ \E set \in {Sessions} \union {{s}: s \in Sessions}: Restart(set)
    \/ HostCrash

\* The sweep wakes a session with a note; docker build has a timeout; a stopped
\* container ends.
Fairness ==
    /\ \A s \in Sessions: WF_vars(\/ notes[s] # {} /\ Wake(s)
                                  \/ Start(s) \/ FirstPoll(s) \/ (dying[s] # "no" /\ Exit(s)))
    /\ \A b \in Builders: WF_vars(DockerReads(b) \/ BuildFails(b) \/ BuiltUnseen(b) \/ Built(b))

Spec == Init /\ [][Next]_vars /\ Fairness
-----------------------------------------------------------------------------
(* An agent that is told that its change is in place runs in a container     *)
(* that has it: the image was built with the package and tagged, or the      *)
(* server listed, before the container that reads the note was started.      *)
(* What the code does not order is left out by name: two builds at a time    *)
(* share the Dockerfile and the tag (overlapped), a container that has not   *)
(* polled yet when the note is written takes it (early), and the operator    *)
(* may take the change back (removed).                                       *)
ToldIsInstalled == misled \subseteq overlapped \union early \union removed

\* And every configured package is in the image that is in use: it is only
\* missing while its build runs, after it failed, or as above.
ImageHasPackages ==
    packages \ (Active \union failed \union lost \union overlapped \union removed)
        \subseteq IF tagged THEN image ELSE {}

\* Why: a package that was asked for is in every Dockerfile and every build from
\* then on, and in the image once its own build went well.
BuildsKeepUp ==
    /\ \A c \in packages: build[c].at # "idle"
    /\ \A c \in Installs \ (overlapped \union removed): build[c].at # "idle" =>
           /\ c \in packages
           /\ \A file \in dockerfile: c \in file
           /\ \A b \in Builders: build[b].at = "building" => c \in build[b].reads

\* And a note is true of the configuration, and of a container that will read it.
NotesAreTrue ==
    \A s \in Sessions: \A c \in notes[s] \ (overlapped \union early \union removed):
        /\ c \in Installs => build[c].at # "idle" /\ tagged /\ c \in image
        /\ c \in Servers => c \in servers
        /\ container[s] = "spawning" => IF c \in Installs THEN plan[s] ELSE c \in json
        /\ container[s] = "running" /\ fresh[s] => c \in has[s]

IInv == TypeOK /\ ToldIsInstalled /\ ImageHasPackages /\ BuildsKeepUp /\ NotesAreTrue

(* Every approved change is reported to its agent, as in place or as failed, *)
(* unless a crash of the host interrupts the build.                          *)
Reported ==
    /\ \A c \in Installs: (c \in packages) ~> (c \in heard \union failed \union lost)
    /\ \A c \in Servers: (c \in servers) ~> (c \in heard)
=============================================================================
