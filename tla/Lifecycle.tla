----------------------------- MODULE Lifecycle -----------------------------
(***************************************************************************)
(* The life of one installation on one machine: the service manager that   *)
(* starts the host and starts it again (setup/service.ts), the host's      *)
(* start-up with its circuit breaker and its shutdown (src/index.ts,       *)
(* src/circuit-breaker.ts, src/upgrade-state.ts), and the uninstaller      *)
(* (setup/uninstall), which scans, asks group by group, and removes in a   *)
(* fixed order while the host may still be running.                        *)
(*                                                                         *)
(* The files of a group that are removed in the same way stand for each    *)
(* other: "data" for data/ (with v2.db, the upgrade marker and the         *)
(* breaker's file), logs/ and the start script, "groups" for groups/ and   *)
(* store/.                                                                 *)
(***************************************************************************)
EXTENDS Integers, FiniteSets

CONSTANTS
    Own, Late,      \* agents of the vault: this copy's, and those it may register later
    Others,         \* those of other copies on the machine
    Settings,       \* how the host is kept running, whether the uninstaller is root, its runs, the faults
    MaxRuns,        \* runs of the uninstaller (bound of the model)
    MaxVersions,    \* installations, each with an .env of its own (bound)
    MaxAttempt,     \* starts the breaker may count (bound)
    MaxFaults       \* crashes and failing commands (bound)

Agents == Own \union Late \union Others

ASSUME LifecycleAssumption ==
    /\ Own \intersect Late = {} /\ (Own \union Late) \intersect Others = {}
    /\ Settings \subseteq [flavor: {"user", "system", "nohup"}, root: BOOLEAN,
                           runs: 0..MaxRuns, faults: 0..MaxFaults]
    /\ MaxRuns \in Nat /\ MaxVersions \in Nat \ {0}
    /\ MaxAttempt \in Nat \ {0} /\ MaxFaults \in Nat

ServicePaths == {"unit", "image", "link"}
DataPaths == {"data", "pid"}
RuntimePaths == {"dist", "node_modules"}
Paths == ServicePaths \union DataPaths \union {"groups"} \union RuntimePaths
Groups == {"service", "data", "user", "mine", "orphans"}
Steps == {"killpid", "pkill", "containers", "env"} \union Paths
ASSUME AgentsAreNoSteps == Agents \intersect Steps = {}

VARIABLES
    setting,          \* the kind of service; whether the uninstaller runs as root; bounds
    loaded,           \* the manager holds the service and restarts the host
    host,             \* the host's process
    breaker, recent,  \* circuit-breaker.json: its attempt, 0 without the file; under an hour old
    streak,           \* starts in a row that did not end in a clean stop (history)
    spawning, containers,    \* a spawn in flight, containers that run
    disk, db,         \* what is installed; data/ holds v2.db and the marker
    env, bak, stamped, version,   \* .env, .env.bak, .env.bak.<time>: versions of the secrets
    own, vault,       \* the agents that v2.db names; the agents in the vault
    phase, inv, toAsk, answers, yes, todo,    \* the uninstaller
    missed,           \* actions of this run that did not do what they are for (history)
    excused,          \* own agents that this run was not asked, or was unable, to delete (history)
    runs, faults

vars == <<setting, loaded, host, breaker, recent, streak, spawning, containers, disk, db,
          env, bak, stamped, version, own, vault, phase, inv, toAsk, answers, yes, todo,
          missed, excused, runs, faults>>

process == <<host, breaker, recent, streak, spawning, containers>>
secrets == <<env, bak, stamped, version>>
agents == <<own, vault>>
flow == <<phase, inv, toAsk, answers, yes, todo, missed, excused, runs>>

Inventory == [paths: SUBSET Paths, containers: BOOLEAN, env: BOOLEAN,
              mine: SUBSET Agents, orphans: SUBSET Agents]
Empty == [paths |-> {}, containers |-> FALSE, env |-> FALSE, mine |-> {}, orphans |-> {}]

TypeOK ==
    /\ setting \in Settings /\ loaded \in BOOLEAN
    /\ host \in {"down", "waiting", "starting", "running", "stopping"}
    /\ breaker \in 0..MaxAttempt /\ recent \in BOOLEAN /\ streak \in Nat
    /\ spawning \in BOOLEAN /\ containers \in BOOLEAN
    /\ disk \subseteq Paths /\ db \in BOOLEAN
    /\ version \in 1..MaxVersions /\ env \in 0..version /\ bak \in 0..version
    /\ stamped \subseteq 1..version
    /\ own \subseteq Own \union Late /\ vault \subseteq Agents
    /\ phase \in {"idle", "asking", "removing", "done"} /\ inv \in Inventory
    /\ toAsk \subseteq Groups /\ answers \subseteq Groups /\ yes \in BOOLEAN
    /\ todo \subseteq Steps \union Agents /\ missed \subseteq Steps \union Agents
    /\ excused \subseteq Agents
    /\ runs \in 0..MaxRuns /\ faults \in 0..MaxFaults

Managed == setting.flavor # "nohup"
Installed == (Paths \ {"unit", "pid"}) \union IF Managed THEN {"unit"} ELSE {"pid"}

Init ==
    /\ setting \in Settings /\ loaded = Managed /\ host = "down"
    /\ breaker = 0 /\ recent = FALSE /\ streak = 0
    /\ spawning = FALSE /\ containers = FALSE
    /\ disk = Installed /\ db = TRUE
    /\ env = 1 /\ bak = 0 /\ stamped = {} /\ version = 1
    /\ own = Own /\ vault = Own \union Others
    /\ phase = "idle" /\ inv = Empty /\ toAsk = {} /\ answers = {} /\ yes = FALSE /\ todo = {}
    /\ missed = {} /\ excused = {} /\ runs = 0 /\ faults = 0

Fault == faults < setting.faults /\ faults' = faults + 1
-----------------------------------------------------------------------------
(* The host.                                                                 *)

\* The manager restarts it always; without one the operator does, by hand, and
\* not while things are being removed.
MayStart == host = "down" /\ RuntimePaths \subseteq disk /\ (loaded \/ (~Managed /\ phase \in {"idle", "asking"}))

\* enforceStartupBackoff: the attempt is written before the delay, in a data/
\* that is created if need be.  The first two attempts are not delayed.
EnforceStartupBackoff ==
    /\ MayStart
    /\ breaker' = IF breaker # 0 /\ recent THEN breaker + 1 ELSE 1
    /\ breaker' <= MaxAttempt
    /\ recent' = TRUE
    /\ streak' = IF recent THEN streak ELSE 0
    /\ host' = IF breaker' > 2 THEN "waiting" ELSE "starting"
    /\ disk' = disk \union {"data"} \union IF Managed THEN {} ELSE {"pid"}
    /\ UNCHANGED <<setting, loaded, spawning, containers, db, secrets, agents, flow, faults>>

BackoffEnds ==
    /\ host = "waiting" /\ host' = "starting"
    /\ UNCHANGED <<setting, loaded, breaker, recent, streak, spawning, containers, disk, db, secrets, agents, flow, faults>>

\* The process is gone without having reset the breaker.
Gone ==
    /\ host' = "down" /\ spawning' = FALSE /\ streak' = streak + 1
    /\ UNCHANGED <<setting, loaded, breaker, recent, disk, db, secrets, agents, flow>>

\* enforceUpgradeTripwire, before the database is opened.
Tripwire == host = "starting" /\ ~db /\ Gone /\ UNCHANGED <<containers, faults>>

\* ensureContainerRuntimeRunning throws and main().catch exits, or a crash.
HostDies == host # "down" /\ Fault /\ Gone /\ UNCHANGED containers

\* The rest of main: the containers of a former run are stopped first.
Running ==
    /\ host = "starting" /\ db
    /\ host' = "running" /\ containers' = FALSE
    /\ UNCHANGED <<setting, loaded, breaker, recent, streak, spawning, disk, db, secrets, agents, flow, faults>>

HourPasses ==
    /\ recent /\ host \in {"running", "down"} /\ recent' = FALSE
    /\ UNCHANGED <<setting, loaded, host, breaker, streak, spawning, containers, disk, db, secrets, agents, flow, faults>>

\* ensureAgent: what the vault lacks is registered, at every spawn.  A group
\* created since then has an identifier of its own.
BeginSpawn(a) ==
    /\ host = "running" /\ ~spawning /\ a \in own \union Late
    /\ a \notin own => db /\ a \notin vault
    /\ spawning' = TRUE
    /\ own' = own \union {a} /\ vault' = vault \union {a}
    /\ excused' = IF a \in vault THEN excused ELSE excused \union {a}
    /\ UNCHANGED <<setting, loaded, host, breaker, recent, streak, containers, disk, db, secrets,
                   phase, inv, toAsk, answers, yes, todo, missed, runs, faults>>

EndSpawn ==
    /\ spawning /\ spawning' = FALSE /\ containers' = TRUE
    /\ UNCHANGED <<setting, loaded, host, breaker, recent, streak, disk, db, secrets, agents, flow, faults>>

ContainerExits ==
    /\ containers /\ containers' = FALSE
    /\ UNCHANGED <<setting, loaded, host, breaker, recent, streak, spawning, disk, db, secrets, agents, flow, faults>>

Signalled == IF host = "down" THEN "down" ELSE "stopping"

\* The operator stops the host.
Stop ==
    /\ host # "down" /\ ~Managed /\ phase \in {"idle", "asking"}
    /\ host' = "stopping"
    /\ UNCHANGED <<setting, loaded, breaker, recent, streak, spawning, containers, disk, db, secrets, agents, flow, faults>>

\* shutdown, from whatever main was doing: resetCircuitBreaker, exit.
Shutdown ==
    /\ host = "stopping" /\ host' = "down"
    /\ breaker' = 0 /\ recent' = FALSE
    /\ streak' = 0 /\ spawning' = FALSE
    /\ UNCHANGED <<setting, loaded, containers, disk, db, secrets, agents, flow, faults>>
-----------------------------------------------------------------------------
(* The scan and the questions.                                               *)

Rows(i) ==
    {g \in Groups :
        \/ /\ g = "service"
           /\ i.paths \intersect (ServicePaths \union {"pid"}) # {} \/ i.containers
        \/ /\ g = "data"
           /\ i.paths \intersect (DataPaths \union RuntimePaths) # {} \/ i.env
        \/ g = "user" /\ "groups" \in i.paths
        \/ g = "mine" /\ i.mine # {}
        \/ g = "orphans" /\ i.orphans # {}}

\* Without the container runtime neither image nor containers are seen.
ScanService(runtimeOk) == IF runtimeOk THEN disk \intersect ServicePaths ELSE disk \intersect {"unit", "link"}

ListVaultAgents(vaultOk) == IF vaultOk THEN vault ELSE {}

ReadAgentGroupIds == IF db THEN own ELSE {}

SplitVaultAgents(found, ids) == [mine |-> found \intersect ids, orphans |-> found \ ids]

ScanInstall(runtimeOk, vaultOk) ==
    LET split == SplitVaultAgents(ListVaultAgents(vaultOk), ReadAgentGroupIds) IN
    [paths |-> ScanService(runtimeOk) \union (disk \ ServicePaths),
     containers |-> runtimeOk /\ containers,
     env |-> env # 0,
     mine |-> split.mine, orphans |-> split.orphans]

\* runUninstallFlow, up to the questions.
Scan ==
    /\ phase \in {"idle", "done"} /\ runs < setting.runs
    /\ \E runtimeOk, vaultOk \in BOOLEAN :
          /\ IF runtimeOk /\ vaultOk THEN UNCHANGED faults ELSE Fault
          /\ inv' = ScanInstall(runtimeOk, vaultOk)
          /\ excused' = IF db /\ vaultOk THEN {} ELSE own \intersect vault
    /\ Rows(inv') # {}
    /\ phase' = "asking" /\ toAsk' = Rows(inv') /\ answers' = {} /\ yes' = FALSE
    /\ missed' = {} /\ runs' = runs + 1
    /\ UNCHANGED <<setting, loaded, process, disk, db, secrets, agents, todo>>

Rank == [service |-> 1, data |-> 2, user |-> 3, mine |-> 4, orphans |-> 5]

Answer(g, delete) ==
    /\ phase = "asking" /\ g \in toAsk /\ \A h \in toAsk : Rank[g] <= Rank[h]
    /\ toAsk' = toAsk \ {g}
    /\ answers' = IF delete THEN answers \union {g} ELSE answers
    /\ UNCHANGED <<setting, loaded, process, disk, db, secrets, agents, phase, inv, yes, todo,
                   missed, excused, runs, faults>>

\* The default is to keep.
ConfirmGroup(g, delete) == g \in {"service", "data", "user"} /\ Answer(g, delete)

\* Two questions about the vault's agents: this copy's, and those it does not know.
DecideOnecli(g, delete) == g \in {"mine", "orphans"} /\ Answer(g, delete)

\* With --yes nothing is asked.
AssumeYes ==
    /\ phase = "asking" /\ toAsk = Rows(inv) /\ answers = {} /\ ~yes
    /\ yes' = TRUE /\ answers' = toAsk \ {"orphans"} /\ toAsk' = {}
    /\ UNCHANGED <<setting, loaded, process, disk, db, secrets, agents, phase, inv, todo,
                   missed, excused, runs, faults>>

Cancel ==
    /\ phase = "asking" /\ toAsk # {} /\ phase' = "idle" /\ toAsk' = {} /\ answers' = {} /\ inv' = Empty
    /\ UNCHANGED <<setting, loaded, process, disk, db, secrets, agents, yes, todo, missed, excused, runs, faults>>
-----------------------------------------------------------------------------
(* The plan and its execution.                                               *)

ResolveOnecliDeletions ==
    (IF yes \/ "mine" \in answers THEN inv.mine ELSE {})
        \union (IF ~yes /\ "orphans" \in answers THEN inv.orphans ELSE {})

\* pkill and the removal of containers do not depend on what the scan found.
ServicePlan ==
    IF "service" \notin answers THEN {}
    ELSE (inv.paths \intersect ServicePaths) \union {"pkill", "containers"}
             \union IF "pid" \in inv.paths THEN {"killpid"} ELSE {}

DataPlan ==
    IF "data" \notin answers THEN {}
    ELSE (inv.paths \intersect (DataPaths \union RuntimePaths)) \union IF inv.env THEN {"env"} ELSE {}

UserPlan == IF "user" \in answers THEN inv.paths \intersect {"groups"} ELSE {}

\* Mutant of Place: the data first.
PlaceDataFirst(x) ==
    IF x \in Agents THEN 7
    ELSE [unit |-> 1, killpid |-> 2, pkill |-> 3, containers |-> 4, image |-> 5, link |-> 6,
          env |-> 8, data |-> 0, pid |-> 10, groups |-> 11, dist |-> 12, node_modules |-> 13][x]

\* The order of buildRemovalPlan.
Place(x) ==
    IF x \in Agents THEN 7
    ELSE [unit |-> 1, killpid |-> 2, pkill |-> 3, containers |-> 4, image |-> 5, link |-> 6,
          env |-> 8, data |-> 9, pid |-> 10, groups |-> 11, dist |-> 12, node_modules |-> 13][x]

Plan == ServicePlan \union ResolveOnecliDeletions \union DataPlan \union UserPlan

\* (An agent of this copy that the operator keeps is excused.)
BuildRemovalPlan ==
    /\ phase = "asking" /\ toAsk = {}
    /\ todo' = Plan
    /\ phase' = IF todo' = {} THEN "idle" ELSE "removing"
    /\ excused' = IF "mine" \in answers THEN excused ELSE excused \union inv.mine
    /\ UNCHANGED <<setting, loaded, process, disk, db, secrets, agents, inv, toAsk, answers, yes,
                   missed, runs, faults>>

\* executePlan: the next action is done with, whatever became of it.
Done(x) ==
    /\ phase = "removing" /\ x \in todo /\ \A y \in todo : Place(x) <= Place(y)
    /\ todo' = todo \ {x}
    /\ phase' = IF todo' = {} THEN "done" ELSE "removing"
    /\ UNCHANGED <<setting, inv, toAsk, answers, yes, runs>>

Misses(x) == missed' = missed \union {x}

\* The unit's file goes whether or not launchctl or systemctl did its work.
UnloadService ==
    /\ Done("unit")
    /\ IF setting.flavor = "system" /\ ~setting.root
       THEN Misses("unit") /\ UNCHANGED <<loaded, host, breaker, recent, streak, spawning, disk, faults>>
       ELSE /\ disk' = disk \ {"unit"}
            /\ \/ /\ loaded' = FALSE /\ host' = "down" /\ spawning' = FALSE
                  /\ IF host = "down" THEN UNCHANGED <<breaker, recent, streak>>
                     ELSE breaker' = 0 /\ recent' = FALSE /\ streak' = 0
                  /\ UNCHANGED <<missed, faults>>
               \/ Fault /\ Misses("unit") /\ UNCHANGED <<loaded, host, breaker, recent, streak, spawning>>
    /\ UNCHANGED <<containers, db, secrets, agents, excused>>

\* kill-pid and pkill do not wait for the process.
SignalHost(x) ==
    /\ x \in {"killpid", "pkill"} /\ Done(x)
    /\ host' = Signalled
    /\ UNCHANGED <<loaded, breaker, recent, streak, spawning, containers, disk, db, secrets, agents,
                   missed, excused, faults>>

\* Listed anew; a host that is not gone yet may still add one.
RemoveContainers ==
    /\ Done("containers")
    /\ \/ /\ containers' = FALSE /\ UNCHANGED faults
          /\ missed' = IF host = "down" THEN missed ELSE missed \union {"containers"}
       \/ Fault /\ Misses("containers") /\ UNCHANGED containers
    /\ UNCHANGED <<loaded, host, breaker, recent, streak, spawning, disk, db, secrets, agents, excused>>

\* An image in use stays.
RemoveImage ==
    /\ Done("image")
    /\ IF containers THEN Misses("image") /\ UNCHANGED disk
       ELSE disk' = disk \ {"image"} /\ UNCHANGED missed
    /\ UNCHANGED <<loaded, process, db, secrets, agents, excused, faults>>

DeleteOnecliAgent(a) ==
    /\ Done(a)
    /\ \/ vault' = vault \ {a} /\ UNCHANGED <<missed, excused, faults>>
       \/ Fault /\ Misses(a) /\ excused' = excused \union {a} /\ UNCHANGED vault
    /\ UNCHANGED <<loaded, process, disk, db, secrets, own>>

\* Mutant of BackupEnv: always the same name.
BackupClobbers ==
    /\ Done("env")
    /\ bak' = env /\ env' = 0
    /\ UNCHANGED <<loaded, process, disk, db, stamped, version, agents, missed, excused, faults>>

\* One action: without a copy .env stays.  A backup is never overwritten.
BackupEnv ==
    /\ Done("env")
    /\ \/ /\ env' = 0
          /\ IF bak = 0 THEN bak' = env /\ UNCHANGED stamped
             ELSE stamped' = stamped \union {env} /\ UNCHANGED bak
          /\ UNCHANGED <<missed, faults>>
       \/ Fault /\ Misses("env") /\ UNCHANGED <<env, bak, stamped>>
    /\ UNCHANGED <<loaded, process, disk, db, version, agents, excused>>

\* With data/ the database, the marker and the breaker's file go.
DeletePath(x) ==
    /\ x \in Paths \ {"unit", "image"} /\ Done(x)
    /\ \/ /\ disk' = disk \ {x}
          /\ IF x = "data" THEN db' = FALSE /\ breaker' = 0 /\ recent' = FALSE
             ELSE UNCHANGED <<db, breaker, recent>>
          /\ UNCHANGED <<missed, faults>>
       \/ Fault /\ Misses(x) /\ UNCHANGED <<disk, db, breaker, recent>>
    /\ UNCHANGED <<loaded, host, streak, spawning, containers, secrets, agents, excused>>

\* The uninstaller is interrupted while it removes.
Interrupted ==
    /\ phase = "removing" /\ Fault
    /\ phase' = "idle" /\ todo' = {} /\ answers' = {} /\ missed' = {} /\ inv' = Empty
    /\ UNCHANGED <<setting, loaded, process, disk, db, secrets, agents, toAsk, yes, excused, runs>>

\* Setup once more: what is there is kept.
Reinstall ==
    /\ phase \in {"idle", "done"} /\ version < MaxVersions /\ disk # Installed /\ host = "down"
    /\ disk' = disk \union Installed /\ db' = TRUE /\ loaded' = Managed
    /\ own' = IF db THEN own ELSE {}
    /\ IF env = 0 THEN version' = version + 1 /\ env' = version' ELSE UNCHANGED <<version, env>>
    /\ phase' = "idle" /\ answers' = {} /\ missed' = {} /\ inv' = Empty
    /\ UNCHANGED <<setting, process, bak, stamped, vault, toAsk, yes, todo, excused, runs, faults>>
-----------------------------------------------------------------------------
Next ==
    \/ EnforceStartupBackoff \/ BackoffEnds \/ Tripwire \/ HostDies \/ Running \/ HourPasses
    \/ \E a \in Agents : BeginSpawn(a) \/ DeleteOnecliAgent(a)
    \/ EndSpawn \/ ContainerExits \/ Stop \/ Shutdown
    \/ Scan \/ AssumeYes \/ Cancel \/ BuildRemovalPlan
    \/ \E g \in Groups, delete \in BOOLEAN : ConfirmGroup(g, delete) \/ DecideOnecli(g, delete)
    \/ UnloadService \/ RemoveContainers \/ RemoveImage \/ BackupEnv \/ Interrupted \/ Reinstall
    \/ \E x \in Steps : SignalHost(x) \/ DeletePath(x)

Spec == Init /\ [][Next]_vars
-----------------------------------------------------------------------------
(* What must hold. *)

\* This run unloads what the manager holds.
Unloads == ~Managed \/ "unit" \in inv.paths \ missed

\* Once the service has been removed nothing of it runs, now or later, unless
\* it could not be unloaded, in this run or in one that took its unit away, or
\* the host was still going down.
StaysStopped ==
    phase = "done" /\ "service" \in answers /\ Unloads /\ "containers" \notin missed
        => host = "down" /\ ~loaded /\ ~containers

\* Whatever was chosen is gone or its action is known to have failed, as long as no host writes.
Complete ==
    phase = "done" /\ ~loaded /\ host = "down" =>
        /\ "data" \in answers => disk \intersect (inv.paths \intersect (DataPaths \union RuntimePaths)) \subseteq missed
        /\ "data" \in answers /\ env # 0 => "env" \in missed

\* No version of the secrets is lost, whatever fails and however often setup
\* and the uninstaller are run.
SecretsKept == \A v \in 1..version : v \in {env, bak} \union stamped

\* When v2.db is gone, the one place that tells which agents are this copy's,
\* none of them is left in the vault but those the operator kept, that could
\* not be deleted or that a running host registered again.
NotOrphaned == ~db => own \intersect vault \subseteq excused

\* A start that follows clean stops only is not delayed: the breaker never
\* counts more than the starts that ended badly.
BreakerFair == breaker <= streak + IF host = "down" THEN 0 ELSE 1

\* Why.  A process is not spawning before it runs; without a service the manager
\* holds nothing.
Consistent == (loaded => Managed) /\ (host \in {"down", "waiting", "starting"} => ~spawning)

\* What is still to be done was chosen, all of it while the unit is there.
Planned ==
    /\ inv.mine \subseteq Own \union Late
    /\ phase # "removing" => todo = {}
    /\ phase = "removing" => toAsk = {} /\ todo \subseteq Plan /\ ("unit" \in todo => todo = Plan)

Removing == phase \in {"removing", "done"}

\* The order of the steps that stop the service.
Unloaded ==
    Removing /\ "service" \in answers /\ Managed /\ "unit" \in inv.paths \ (missed \union todo)
        => host = "down" /\ ~loaded
Halted ==
    Removing /\ "service" \in answers /\ ~Managed /\ "pkill" \notin todo => host \in {"down", "stopping"}
Silenced ==
    Removing /\ "service" \in answers /\ Unloads /\ "containers" \notin missed \union todo
        => host = "down" /\ ~loaded /\ ~containers

\* Nothing that was found comes back once the manager has let go.
Cleared ==
    /\ phase = "asking" => inv.env = (env # 0)
    /\ phase # "idle" /\ env # 0 => inv.env
    /\ "env" \in todo => env # 0
    /\ Removing /\ ~loaded /\ "data" \in answers =>
          /\ disk \intersect (inv.paths \intersect (DataPaths \union RuntimePaths)) \subseteq missed \union todo
          /\ env # 0 => "env" \in missed \union todo

\* Each agent of this copy is excused or known to the run that asks about it,
\* and then excused or yet to be deleted.
Accounted ==
    /\ phase = "asking" => own \intersect vault \subseteq excused \union inv.mine
    /\ phase = "removing" => own \intersect vault \subseteq excused \union todo

IInv ==
    /\ TypeOK /\ StaysStopped /\ Complete /\ SecretsKept /\ NotOrphaned /\ BreakerFair
    /\ Consistent /\ Planned /\ Unloaded /\ Halted /\ Silenced /\ Cleared /\ Accounted

GroupOf(x) == IF x \in ServicePaths THEN "service" ELSE IF x = "groups" THEN "user" ELSE "data"

\* Nothing goes before every question has been answered, nothing of a group
\* that was not chosen, and the agents of other copies only by an explicit
\* answer, however scans, spawns, restarts and failures interleave.
AskedFirst ==
    /\ \A x \in disk \ disk' : phase = "removing" /\ toAsk = {} /\ GroupOf(x) \in answers
    /\ env # 0 /\ env' = 0 => phase = "removing" /\ "data" \in answers
    /\ \A a \in vault \ vault' :
          phase = "removing" /\ (a \in Others => "orphans" \in answers /\ ~yes)

\* The database does not go under a running host, unless the operator kept the
\* service or it could not be unloaded.
StoppedFirst ==
    db /\ ~db' /\ "service" \in answers /\ Unloads => host # "running"

Orderly == [][AskedFirst /\ StoppedFirst]_vars
=============================================================================
