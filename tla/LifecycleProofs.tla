--------------------------- MODULE LifecycleProofs --------------------------
(* Theorems about Lifecycle, for any agents, settings and bounds. *)
EXTENDS Lifecycle, TLAPS

\* The parts of TypeOK.
HostOK ==
    /\ setting \in Settings /\ loaded \in BOOLEAN
    /\ host \in {"down", "waiting", "starting", "running", "stopping"}
    /\ breaker \in 0..MaxAttempt /\ recent \in BOOLEAN /\ streak \in Nat
    /\ spawning \in BOOLEAN /\ containers \in BOOLEAN

DiskOK == disk \subseteq Paths /\ db \in BOOLEAN

SecretsOK ==
    /\ version \in 1..MaxVersions /\ env \in 0..version /\ bak \in 0..version
    /\ stamped \subseteq 1..version

VaultOK == own \subseteq Own \union Late /\ vault \subseteq Agents /\ excused \subseteq Agents

FlowOK ==
    /\ phase \in {"idle", "asking", "removing", "done"} /\ inv \in Inventory
    /\ toAsk \subseteq Groups /\ answers \subseteq Groups /\ yes \in BOOLEAN

TodoOK == todo \subseteq Steps \union Agents /\ missed \subseteq Steps \union Agents

CountersOK == runs \in 0..MaxRuns /\ faults \in 0..MaxFaults

LEMMA Parts == TypeOK <=> HostOK /\ DiskOK /\ SecretsOK /\ VaultOK /\ FlowOK /\ TodoOK /\ CountersOK
  BY Zenon DEF TypeOK, HostOK, DiskOK, SecretsOK, VaultOK, FlowOK, TodoOK, CountersOK

LEMMA PartsNext ==
    HostOK' /\ DiskOK' /\ SecretsOK' /\ VaultOK' /\ FlowOK' /\ TodoOK' /\ CountersOK' => TypeOK'
  BY Zenon DEF TypeOK, HostOK, DiskOK, SecretsOK, VaultOK, FlowOK, TodoOK, CountersOK

LEMMA Bounds ==
    /\ MaxAttempt \in Nat /\ MaxVersions \in Nat
    /\ 0 \in 0..MaxAttempt /\ 1 \in 0..MaxAttempt /\ 1 \in 1..MaxVersions
  BY LifecycleAssumption

LEMMA InitOK == Init => IInv
<1> SUFFICES ASSUME Init PROVE IInv
  OBVIOUS
<1>1. HostOK /\ SecretsOK
  <2>1. breaker \in 0..MaxAttempt /\ streak \in Nat /\ SecretsOK
    BY Bounds DEF Init, SecretsOK
  <2>2. loaded \in BOOLEAN /\ spawning \in BOOLEAN /\ recent \in BOOLEAN /\ containers \in BOOLEAN
    BY DEF Init, Managed
  <2>3. setting \in Settings /\ host = "down"
    BY DEF Init
  <2> QED
    BY <2>1, <2>2, <2>3 DEF HostOK
<1>7. CountersOK
  BY LifecycleAssumption DEF Init, CountersOK
<1>2. DiskOK /\ VaultOK
  BY DEF Init, DiskOK, VaultOK, Installed, Paths, ServicePaths, DataPaths, RuntimePaths, Agents
<1>3. Empty \in Inventory
  BY DEF Empty, Inventory
<1>4. FlowOK /\ TodoOK
  BY <1>3 DEF Init, FlowOK, TodoOK
<1>5. StaysStopped /\ Complete /\ SecretsKept /\ NotOrphaned /\ BreakerFair
  BY DEF Init, StaysStopped, Complete, SecretsKept, NotOrphaned, BreakerFair
<1>6. Consistent /\ Planned /\ Unloaded /\ Halted /\ Silenced /\ Cleared /\ Accounted
  BY DEF Init, Consistent, Planned, Unloaded, Halted, Silenced, Cleared, Accounted, Removing, Empty
<1> QED
  BY <1>1, <1>2, <1>4, <1>5, <1>6, <1>7, Parts DEF IInv

\* An agent is none of the other steps, and these are ordered.
LEMMA Places ==
    /\ Place("unit") = 1 /\ Place("pkill") = 3 /\ Place("containers") = 4 /\ Place("data") = 9
    /\ \A a \in Agents : Place(a) = 7
    /\ \A x \in (Steps \union Agents) \ {"unit"} : Place(x) \in Nat /\ Place(x) > 1
    /\ \A x \in Steps : x \notin Agents
<1>1. \A x \in Steps : x \notin Agents
  BY AgentsAreNoSteps
<1>2. \A x \in Steps : x \in {"killpid", "pkill", "containers", "env", "unit", "image", "link", "data", "pid",
                              "groups", "dist", "node_modules"}
  BY DEF Steps, Paths, ServicePaths, DataPaths, RuntimePaths
<1>3. {"unit", "pkill", "containers", "data"} \subseteq Steps
  BY DEF Steps, Paths, ServicePaths, DataPaths
<1>4. /\ Place("unit") = 1 /\ Place("pkill") = 3 /\ Place("containers") = 4 /\ Place("data") = 9
  BY <1>1, <1>3 DEF Place
<1>5. \A a \in Agents : Place(a) = 7
  BY DEF Place
<1>6. ASSUME NEW x \in Steps, x # "unit" PROVE Place(x) \in Nat /\ Place(x) > 1
  BY <1>1, <1>2, <1>6 DEF Place
<1> QED
  BY <1>1, <1>4, <1>5, <1>6

LEMMA AgentsApart ==
    \A a \in Agents : a \notin {"killpid", "pkill", "containers", "env"} \union Paths /\ a # "unit"
  BY AgentsAreNoSteps DEF Steps, Paths, ServicePaths

\* What is known when an action of the plan is taken.
LEMMA DoneIs ==
    ASSUME TodoOK, NEW x, Done(x)
    PROVE  /\ phase = "removing" /\ x \in todo /\ todo' = todo \ {x}
           /\ phase' \in {"removing", "done"} /\ (phase' = "done" <=> todo' = {})
           /\ setting' = setting /\ inv' = inv /\ toAsk' = toAsk /\ answers' = answers
           /\ yes' = yes /\ runs' = runs
           /\ "unit" \in todo => x = "unit"
           /\ x = "containers" => "unit" \notin todo
           /\ x = "data" => "pkill" \notin todo /\ "unit" \notin todo /\ todo \intersect Agents = {}
<1>1. phase = "removing" /\ x \in todo /\ todo' = todo \ {x} /\ \A y \in todo : Place(x) <= Place(y)
  BY DEF Done
<1>2. ASSUME "unit" \in todo, x # "unit" PROVE FALSE
  <2>1. Place(x) <= 1
    BY <1>1, <1>2, Places
  <2>2. Place(x) \in Nat /\ Place(x) > 1
    BY <1>1, <1>2, Places DEF TodoOK
  <2> QED
    BY <2>1, <2>2
<1>3. x = "data" => "pkill" \notin todo /\ todo \intersect Agents = {}
  <2>1. ASSUME x = "data", NEW y \in todo, Place(y) \in {3, 7} PROVE FALSE
    <3>1. Place("data") <= Place(y) /\ Place("data") = 9
      BY <1>1, <2>1, Places
    <3> QED
      BY <2>1, <3>1
  <2> QED
    BY <2>1, Places
<1> QED
  BY <1>1, <1>2, <1>3 DEF Done

LEMMA HostStays ==
    ASSUME HostOK, TodoOK, CountersOK, [Next]_vars
    PROVE  HostOK'
<1>1. CASE EnforceStartupBackoff
  BY <1>1, Bounds DEF EnforceStartupBackoff, secrets, agents, flow, MayStart, HostOK
<1>2. CASE BackoffEnds
  BY <1>2, Bounds DEF BackoffEnds, secrets, agents, flow, HostOK
<1>3. CASE Tripwire
  <2>1. breaker' \in 0..MaxAttempt /\ streak' \in Nat
    BY <1>3, Bounds DEF Tripwire, Gone, secrets, agents, flow, HostOK
  <2>2. loaded' \in BOOLEAN /\ spawning' \in BOOLEAN /\ recent' \in BOOLEAN /\ containers' \in BOOLEAN
    BY <1>3 DEF Tripwire, Gone, secrets, agents, flow, HostOK
  <2>3. setting' \in Settings /\ host' \in {"down", "waiting", "starting", "running", "stopping"}
    BY <1>3 DEF Tripwire, Gone, secrets, agents, flow, HostOK
  <2> QED
    BY <2>1, <2>2, <2>3 DEF HostOK
<1>4. CASE HostDies
  <2>1. breaker' \in 0..MaxAttempt /\ streak' \in Nat
    BY <1>4, Bounds DEF HostDies, Fault, Gone, secrets, agents, flow, HostOK
  <2>2. loaded' \in BOOLEAN /\ spawning' \in BOOLEAN /\ recent' \in BOOLEAN /\ containers' \in BOOLEAN
    BY <1>4 DEF HostDies, Fault, Gone, secrets, agents, flow, HostOK
  <2>3. setting' \in Settings /\ host' \in {"down", "waiting", "starting", "running", "stopping"}
    BY <1>4 DEF HostDies, Fault, Gone, secrets, agents, flow, HostOK
  <2> QED
    BY <2>1, <2>2, <2>3 DEF HostOK
<1>5. CASE Running
  BY <1>5, Bounds DEF Running, secrets, agents, flow, HostOK
<1>6. CASE HourPasses
  BY <1>6, Bounds DEF HourPasses, secrets, agents, flow, HostOK
<1>7. CASE \E a \in Agents : BeginSpawn(a)
  BY <1>7, Bounds DEF BeginSpawn, secrets, agents, flow, HostOK
<1>8. CASE \E a \in Agents : DeleteOnecliAgent(a)
  BY <1>8, Bounds, DoneIs DEF DeleteOnecliAgent, process, secrets, agents, flow, Fault, Misses, HostOK
<1>9. CASE EndSpawn
  BY <1>9, Bounds DEF EndSpawn, secrets, agents, flow, HostOK
<1>10. CASE ContainerExits
  BY <1>10, Bounds DEF ContainerExits, secrets, agents, flow, HostOK
<1>11. CASE Stop
  BY <1>11, Bounds DEF Stop, secrets, agents, flow, HostOK
<1>12. CASE Shutdown
  BY <1>12, Bounds DEF Shutdown, secrets, agents, flow, HostOK
<1>13. CASE Scan
  BY <1>13, Bounds DEF Scan, process, secrets, agents, flow, Fault, HostOK
<1>14. CASE AssumeYes
  BY <1>14, Bounds DEF AssumeYes, process, secrets, agents, flow, HostOK
<1>15. CASE Cancel
  BY <1>15, Bounds DEF Cancel, process, secrets, agents, flow, HostOK
<1>16. CASE BuildRemovalPlan
  BY <1>16, Bounds DEF BuildRemovalPlan, process, secrets, agents, flow, HostOK
<1>17. CASE \E g \in Groups, delete \in BOOLEAN : ConfirmGroup(g, delete)
  BY <1>17, Bounds DEF ConfirmGroup, Answer, process, secrets, agents, flow, HostOK
<1>18. CASE \E g \in Groups, delete \in BOOLEAN : DecideOnecli(g, delete)
  BY <1>18, Bounds DEF DecideOnecli, Answer, process, secrets, agents, flow, HostOK
<1>19. CASE UnloadService
  <2>1. breaker' \in 0..MaxAttempt /\ streak' \in Nat
    BY <1>19, Bounds, DoneIs DEF UnloadService, secrets, agents, flow, Fault, Misses, HostOK
  <2>2. loaded' \in BOOLEAN /\ spawning' \in BOOLEAN /\ recent' \in BOOLEAN /\ containers' \in BOOLEAN
    BY <1>19, DoneIs DEF UnloadService, secrets, agents, flow, Fault, Misses, HostOK
  <2>3. setting' \in Settings /\ host' \in {"down", "waiting", "starting", "running", "stopping"}
    BY <1>19, DoneIs DEF UnloadService, secrets, agents, flow, Fault, Misses, HostOK
  <2> QED
    BY <2>1, <2>2, <2>3 DEF HostOK
<1>20. CASE RemoveContainers
  BY <1>20, Bounds, DoneIs DEF RemoveContainers, secrets, agents, flow, Fault, Misses, HostOK
<1>21. CASE RemoveImage
  BY <1>21, Bounds, DoneIs DEF RemoveImage, process, secrets, agents, flow, Misses, HostOK
<1>22. CASE BackupEnv
  BY <1>22, Bounds, DoneIs DEF BackupEnv, process, secrets, agents, flow, Fault, Misses, HostOK
<1>23. CASE Interrupted
  BY <1>23, Bounds DEF Interrupted, process, secrets, agents, flow, Fault, HostOK
<1>24. CASE Reinstall
  BY <1>24, Bounds DEF Reinstall, process, secrets, agents, flow, HostOK, Managed
<1>25. CASE \E x \in Steps : SignalHost(x)
  BY <1>25, Bounds, DoneIs DEF SignalHost, secrets, agents, flow, Signalled, HostOK
<1>26. CASE \E x \in Steps : DeletePath(x)
  BY <1>26, Bounds, DoneIs DEF DeletePath, secrets, agents, flow, Fault, Misses, HostOK
<1>27. CASE UNCHANGED vars
  BY <1>27, Bounds DEF vars, process, secrets, agents, flow, HostOK
<1> QED
  BY <1>1, <1>2, <1>3, <1>4, <1>5, <1>6, <1>7, <1>8, <1>9, <1>10, <1>11, <1>12, <1>13, <1>14, <1>15, <1>16, <1>17, <1>18, <1>19, <1>20, <1>21, <1>22, <1>23, <1>24, <1>25, <1>26, <1>27 DEF Next

LEMMA DiskStays ==
    ASSUME DiskOK, TodoOK, [Next]_vars
    PROVE  DiskOK'
<1>1. CASE EnforceStartupBackoff
  BY <1>1 DEF EnforceStartupBackoff, secrets, agents, flow, MayStart, DiskOK, Paths, ServicePaths, DataPaths, RuntimePaths, Steps
<1>2. CASE BackoffEnds
  BY <1>2 DEF BackoffEnds, secrets, agents, flow, DiskOK
<1>3. CASE Tripwire
  BY <1>3 DEF Tripwire, Gone, secrets, agents, flow, DiskOK
<1>4. CASE HostDies
  BY <1>4 DEF HostDies, Fault, Gone, secrets, agents, flow, DiskOK
<1>5. CASE Running
  BY <1>5 DEF Running, secrets, agents, flow, DiskOK
<1>6. CASE HourPasses
  BY <1>6 DEF HourPasses, secrets, agents, flow, DiskOK
<1>7. CASE \E a \in Agents : BeginSpawn(a)
  BY <1>7 DEF BeginSpawn, secrets, agents, flow, DiskOK
<1>8. CASE \E a \in Agents : DeleteOnecliAgent(a)
  BY <1>8, DoneIs DEF DeleteOnecliAgent, process, secrets, agents, flow, Fault, Misses, DiskOK
<1>9. CASE EndSpawn
  BY <1>9 DEF EndSpawn, secrets, agents, flow, DiskOK
<1>10. CASE ContainerExits
  BY <1>10 DEF ContainerExits, secrets, agents, flow, DiskOK
<1>11. CASE Stop
  BY <1>11 DEF Stop, secrets, agents, flow, DiskOK
<1>12. CASE Shutdown
  BY <1>12 DEF Shutdown, secrets, agents, flow, DiskOK
<1>13. CASE Scan
  BY <1>13 DEF Scan, process, secrets, agents, flow, Fault, DiskOK
<1>14. CASE AssumeYes
  BY <1>14 DEF AssumeYes, process, secrets, agents, flow, DiskOK
<1>15. CASE Cancel
  BY <1>15 DEF Cancel, process, secrets, agents, flow, DiskOK
<1>16. CASE BuildRemovalPlan
  BY <1>16 DEF BuildRemovalPlan, process, secrets, agents, flow, DiskOK
<1>17. CASE \E g \in Groups, delete \in BOOLEAN : ConfirmGroup(g, delete)
  BY <1>17 DEF ConfirmGroup, Answer, process, secrets, agents, flow, DiskOK
<1>18. CASE \E g \in Groups, delete \in BOOLEAN : DecideOnecli(g, delete)
  BY <1>18 DEF DecideOnecli, Answer, process, secrets, agents, flow, DiskOK
<1>19. CASE UnloadService
  BY <1>19, DoneIs DEF UnloadService, secrets, agents, flow, Fault, Misses, DiskOK
<1>20. CASE RemoveContainers
  BY <1>20, DoneIs DEF RemoveContainers, secrets, agents, flow, Fault, Misses, DiskOK
<1>21. CASE RemoveImage
  BY <1>21, DoneIs DEF RemoveImage, process, secrets, agents, flow, Misses, DiskOK
<1>22. CASE BackupEnv
  BY <1>22, DoneIs DEF BackupEnv, process, secrets, agents, flow, Fault, Misses, DiskOK
<1>23. CASE Interrupted
  BY <1>23 DEF Interrupted, process, secrets, agents, flow, Fault, DiskOK
<1>24. CASE Reinstall
  BY <1>24 DEF Reinstall, process, secrets, agents, flow, DiskOK, Paths, ServicePaths, DataPaths, RuntimePaths, Steps, Installed
<1>25. CASE \E x \in Steps : SignalHost(x)
  BY <1>25, DoneIs DEF SignalHost, secrets, agents, flow, Signalled, DiskOK
<1>26. CASE \E x \in Steps : DeletePath(x)
  BY <1>26, DoneIs DEF DeletePath, secrets, agents, flow, Fault, Misses, DiskOK
<1>27. CASE UNCHANGED vars
  BY <1>27 DEF vars, process, secrets, agents, flow, DiskOK
<1> QED
  BY <1>1, <1>2, <1>3, <1>4, <1>5, <1>6, <1>7, <1>8, <1>9, <1>10, <1>11, <1>12, <1>13, <1>14, <1>15, <1>16, <1>17, <1>18, <1>19, <1>20, <1>21, <1>22, <1>23, <1>24, <1>25, <1>26, <1>27 DEF Next

LEMMA SecretsStay ==
    ASSUME SecretsOK, TodoOK, Cleared, [Next]_vars
    PROVE  SecretsOK'
<1>1. CASE EnforceStartupBackoff
  BY <1>1, Bounds DEF EnforceStartupBackoff, secrets, agents, flow, MayStart, SecretsOK
<1>2. CASE BackoffEnds
  BY <1>2, Bounds DEF BackoffEnds, secrets, agents, flow, SecretsOK
<1>3. CASE Tripwire
  BY <1>3, Bounds DEF Tripwire, Gone, secrets, agents, flow, SecretsOK
<1>4. CASE HostDies
  BY <1>4, Bounds DEF HostDies, Fault, Gone, secrets, agents, flow, SecretsOK
<1>5. CASE Running
  BY <1>5, Bounds DEF Running, secrets, agents, flow, SecretsOK
<1>6. CASE HourPasses
  BY <1>6, Bounds DEF HourPasses, secrets, agents, flow, SecretsOK
<1>7. CASE \E a \in Agents : BeginSpawn(a)
  BY <1>7, Bounds DEF BeginSpawn, secrets, agents, flow, SecretsOK
<1>8. CASE \E a \in Agents : DeleteOnecliAgent(a)
  BY <1>8, Bounds, DoneIs DEF DeleteOnecliAgent, process, secrets, agents, flow, Fault, Misses, SecretsOK
<1>9. CASE EndSpawn
  BY <1>9, Bounds DEF EndSpawn, secrets, agents, flow, SecretsOK
<1>10. CASE ContainerExits
  BY <1>10, Bounds DEF ContainerExits, secrets, agents, flow, SecretsOK
<1>11. CASE Stop
  BY <1>11, Bounds DEF Stop, secrets, agents, flow, SecretsOK
<1>12. CASE Shutdown
  BY <1>12, Bounds DEF Shutdown, secrets, agents, flow, SecretsOK
<1>13. CASE Scan
  BY <1>13, Bounds DEF Scan, process, secrets, agents, flow, Fault, SecretsOK
<1>14. CASE AssumeYes
  BY <1>14, Bounds DEF AssumeYes, process, secrets, agents, flow, SecretsOK
<1>15. CASE Cancel
  BY <1>15, Bounds DEF Cancel, process, secrets, agents, flow, SecretsOK
<1>16. CASE BuildRemovalPlan
  BY <1>16, Bounds DEF BuildRemovalPlan, process, secrets, agents, flow, SecretsOK
<1>17. CASE \E g \in Groups, delete \in BOOLEAN : ConfirmGroup(g, delete)
  BY <1>17, Bounds DEF ConfirmGroup, Answer, process, secrets, agents, flow, SecretsOK
<1>18. CASE \E g \in Groups, delete \in BOOLEAN : DecideOnecli(g, delete)
  BY <1>18, Bounds DEF DecideOnecli, Answer, process, secrets, agents, flow, SecretsOK
<1>19. CASE UnloadService
  BY <1>19, Bounds, DoneIs DEF UnloadService, secrets, agents, flow, Fault, Misses, SecretsOK
<1>20. CASE RemoveContainers
  BY <1>20, Bounds, DoneIs DEF RemoveContainers, secrets, agents, flow, Fault, Misses, SecretsOK
<1>21. CASE RemoveImage
  BY <1>21, Bounds, DoneIs DEF RemoveImage, process, secrets, agents, flow, Misses, SecretsOK
<1>22. CASE BackupEnv
  <2>1. version' = version /\ env' \in {env, 0} /\ bak' \in {bak, env}
    BY <1>22 DEF BackupEnv, process, secrets, agents, flow, Fault, Misses
  <2>2. stamped' = stamped \/ (stamped' = stamped \union {env} /\ env \in 1..version)
    BY <1>22, DoneIs DEF BackupEnv, process, secrets, agents, flow, Fault, Misses, SecretsOK, Cleared
  <2>3. version \in Nat /\ 0 \in 0..version
    BY Bounds DEF SecretsOK
  <2>4. env' \in 0..version' /\ bak' \in 0..version' /\ version' \in 1..MaxVersions
    BY <2>1, <2>3 DEF SecretsOK
  <2>5. stamped' \subseteq 1..version'
    BY <2>1, <2>2 DEF SecretsOK
  <2> QED
    BY <2>4, <2>5 DEF SecretsOK
<1>23. CASE Interrupted
  BY <1>23, Bounds DEF Interrupted, process, secrets, agents, flow, Fault, SecretsOK
<1>24. CASE Reinstall
  BY <1>24, Bounds DEF Reinstall, process, secrets, agents, flow, SecretsOK
<1>25. CASE \E x \in Steps : SignalHost(x)
  BY <1>25, Bounds, DoneIs DEF SignalHost, secrets, agents, flow, Signalled, SecretsOK
<1>26. CASE \E x \in Steps : DeletePath(x)
  BY <1>26, Bounds, DoneIs DEF DeletePath, secrets, agents, flow, Fault, Misses, SecretsOK
<1>27. CASE UNCHANGED vars
  BY <1>27, Bounds DEF vars, process, secrets, agents, flow, SecretsOK
<1> QED
  BY <1>1, <1>2, <1>3, <1>4, <1>5, <1>6, <1>7, <1>8, <1>9, <1>10, <1>11, <1>12, <1>13, <1>14, <1>15, <1>16, <1>17, <1>18, <1>19, <1>20, <1>21, <1>22, <1>23, <1>24, <1>25, <1>26, <1>27 DEF Next

LEMMA VaultStays ==
    ASSUME VaultOK, TodoOK, FlowOK, [Next]_vars
    PROVE  VaultOK'
<1>1. CASE EnforceStartupBackoff
  BY <1>1 DEF EnforceStartupBackoff, secrets, agents, flow, MayStart, VaultOK, Agents
<1>2. CASE BackoffEnds
  BY <1>2 DEF BackoffEnds, secrets, agents, flow, VaultOK, Agents
<1>3. CASE Tripwire
  BY <1>3 DEF Tripwire, Gone, secrets, agents, flow, VaultOK, Agents
<1>4. CASE HostDies
  BY <1>4 DEF HostDies, Fault, Gone, secrets, agents, flow, VaultOK, Agents
<1>5. CASE Running
  BY <1>5 DEF Running, secrets, agents, flow, VaultOK, Agents
<1>6. CASE HourPasses
  BY <1>6 DEF HourPasses, secrets, agents, flow, VaultOK, Agents
<1>7. CASE \E a \in Agents : BeginSpawn(a)
  BY <1>7 DEF BeginSpawn, secrets, agents, flow, VaultOK, Agents
<1>8. CASE \E a \in Agents : DeleteOnecliAgent(a)
  BY <1>8, DoneIs DEF DeleteOnecliAgent, process, secrets, agents, flow, Fault, Misses, VaultOK, Agents
<1>9. CASE EndSpawn
  BY <1>9 DEF EndSpawn, secrets, agents, flow, VaultOK, Agents
<1>10. CASE ContainerExits
  BY <1>10 DEF ContainerExits, secrets, agents, flow, VaultOK, Agents
<1>11. CASE Stop
  BY <1>11 DEF Stop, secrets, agents, flow, VaultOK, Agents
<1>12. CASE Shutdown
  BY <1>12 DEF Shutdown, secrets, agents, flow, VaultOK, Agents
<1>13. CASE Scan
  BY <1>13 DEF Scan, process, secrets, agents, flow, Fault, VaultOK, Agents
<1>14. CASE AssumeYes
  BY <1>14 DEF AssumeYes, process, secrets, agents, flow, VaultOK, Agents
<1>15. CASE Cancel
  BY <1>15 DEF Cancel, process, secrets, agents, flow, VaultOK, Agents
<1>16. CASE BuildRemovalPlan
  BY <1>16 DEF BuildRemovalPlan, process, secrets, agents, flow, VaultOK, FlowOK, Inventory, Agents
<1>17. CASE \E g \in Groups, delete \in BOOLEAN : ConfirmGroup(g, delete)
  BY <1>17 DEF ConfirmGroup, Answer, process, secrets, agents, flow, VaultOK, Agents
<1>18. CASE \E g \in Groups, delete \in BOOLEAN : DecideOnecli(g, delete)
  BY <1>18 DEF DecideOnecli, Answer, process, secrets, agents, flow, VaultOK, Agents
<1>19. CASE UnloadService
  BY <1>19, DoneIs DEF UnloadService, secrets, agents, flow, Fault, Misses, VaultOK, Agents
<1>20. CASE RemoveContainers
  BY <1>20, DoneIs DEF RemoveContainers, secrets, agents, flow, Fault, Misses, VaultOK, Agents
<1>21. CASE RemoveImage
  BY <1>21, DoneIs DEF RemoveImage, process, secrets, agents, flow, Misses, VaultOK, Agents
<1>22. CASE BackupEnv
  BY <1>22, DoneIs DEF BackupEnv, process, secrets, agents, flow, Fault, Misses, VaultOK, Agents
<1>23. CASE Interrupted
  BY <1>23 DEF Interrupted, process, secrets, agents, flow, Fault, VaultOK, Agents
<1>24. CASE Reinstall
  BY <1>24 DEF Reinstall, process, secrets, agents, flow, VaultOK, Agents
<1>25. CASE \E x \in Steps : SignalHost(x)
  BY <1>25, DoneIs DEF SignalHost, secrets, agents, flow, Signalled, VaultOK, Agents
<1>26. CASE \E x \in Steps : DeletePath(x)
  BY <1>26, DoneIs DEF DeletePath, secrets, agents, flow, Fault, Misses, VaultOK, Agents
<1>27. CASE UNCHANGED vars
  BY <1>27 DEF vars, process, secrets, agents, flow, VaultOK, Agents
<1> QED
  BY <1>1, <1>2, <1>3, <1>4, <1>5, <1>6, <1>7, <1>8, <1>9, <1>10, <1>11, <1>12, <1>13, <1>14, <1>15, <1>16, <1>17, <1>18, <1>19, <1>20, <1>21, <1>22, <1>23, <1>24, <1>25, <1>26, <1>27 DEF Next

\* A scan makes an inventory; what it finds of its own is this copy's.
LEMMA ScanIs ==
    ASSUME DiskOK, VaultOK, NEW r \in BOOLEAN, NEW v \in BOOLEAN, containers \in BOOLEAN
    PROVE  /\ ScanInstall(r, v) \in Inventory
           /\ ScanInstall(r, v).mine \subseteq Own \union Late
           /\ ScanInstall(r, v).env = (env # 0)
<1>1. ScanService(r) \subseteq disk
  BY DEF ScanService
<1>2. ListVaultAgents(v) \subseteq Agents /\ ReadAgentGroupIds \subseteq Own \union Late
  BY DEF VaultOK, ListVaultAgents, ReadAgentGroupIds
<1>3. DEFINE S == ScanInstall(r, v)
<1>4. /\ S = [paths |-> ScanService(r) \union (disk \ ServicePaths), containers |-> r /\ containers,
              env |-> env # 0, mine |-> ListVaultAgents(v) \intersect ReadAgentGroupIds,
              orphans |-> ListVaultAgents(v) \ ReadAgentGroupIds]
  BY DEF ScanInstall, SplitVaultAgents
<1>5. S.paths \subseteq Paths /\ S.containers \in BOOLEAN /\ S.env \in BOOLEAN
  BY <1>1, <1>4 DEF DiskOK
<1>6. S.mine \subseteq Agents /\ S.orphans \subseteq Agents
  BY <1>2, <1>4
<1> QED
  BY <1>2, <1>4, <1>5, <1>6 DEF Inventory

LEMMA PlanIs == FlowOK => Plan \subseteq Steps \union Agents /\ Plan \intersect Agents = ResolveOnecliDeletions
<1> SUFFICES ASSUME FlowOK PROVE Plan \subseteq Steps \union Agents /\ Plan \intersect Agents = ResolveOnecliDeletions
  OBVIOUS
<1>1. ServicePlan \subseteq Steps /\ DataPlan \subseteq Steps /\ UserPlan \subseteq Steps
  BY DEF ServicePlan, DataPlan, UserPlan, Steps, Paths, ServicePaths, DataPaths, RuntimePaths
<1>2. ResolveOnecliDeletions \subseteq Agents
  BY DEF FlowOK, Inventory, ResolveOnecliDeletions
<1> QED
  BY <1>1, <1>2, AgentsAreNoSteps DEF Plan

LEMMA PlanGroups == FlowOK =>
    /\ \A x \in Plan \intersect Paths : GroupOf(x) \in answers
    /\ "env" \in Plan => "data" \in answers
<1>1. Agents \intersect (Paths \union {"env"}) = {}
  BY AgentsApart
<1> SUFFICES ASSUME FlowOK
             PROVE  /\ \A x \in Plan \intersect Paths : GroupOf(x) \in answers
                    /\ "env" \in Plan => "data" \in answers
  OBVIOUS
<1>2. ResolveOnecliDeletions \subseteq Agents
  BY DEF FlowOK, Inventory, ResolveOnecliDeletions
<1> QED
  BY <1>1, <1>2 DEF Plan, ServicePlan, DataPlan, UserPlan, GroupOf, Paths, ServicePaths, DataPaths, RuntimePaths

LEMMA EmptyIs == Empty \in Inventory /\ Empty.mine = {}
  BY DEF Empty, Inventory

LEMMA FlowStays ==
    ASSUME HostOK, DiskOK, VaultOK, TodoOK, FlowOK, [Next]_vars
    PROVE  FlowOK'
<1>1. CASE EnforceStartupBackoff
  BY <1>1 DEF EnforceStartupBackoff, secrets, agents, flow, MayStart, FlowOK
<1>2. CASE BackoffEnds
  BY <1>2 DEF BackoffEnds, secrets, agents, flow, FlowOK
<1>3. CASE Tripwire
  BY <1>3 DEF Tripwire, Gone, secrets, agents, flow, FlowOK
<1>4. CASE HostDies
  BY <1>4 DEF HostDies, Fault, Gone, secrets, agents, flow, FlowOK
<1>5. CASE Running
  BY <1>5 DEF Running, secrets, agents, flow, FlowOK
<1>6. CASE HourPasses
  BY <1>6 DEF HourPasses, secrets, agents, flow, FlowOK
<1>7. CASE \E a \in Agents : BeginSpawn(a)
  BY <1>7 DEF BeginSpawn, secrets, agents, flow, FlowOK
<1>8. CASE \E a \in Agents : DeleteOnecliAgent(a)
  BY <1>8, DoneIs DEF DeleteOnecliAgent, process, secrets, agents, flow, Fault, Misses, FlowOK
<1>9. CASE EndSpawn
  BY <1>9 DEF EndSpawn, secrets, agents, flow, FlowOK
<1>10. CASE ContainerExits
  BY <1>10 DEF ContainerExits, secrets, agents, flow, FlowOK
<1>11. CASE Stop
  BY <1>11 DEF Stop, secrets, agents, flow, FlowOK
<1>12. CASE Shutdown
  BY <1>12 DEF Shutdown, secrets, agents, flow, FlowOK
<1>13. CASE Scan
  <2> PICK r \in BOOLEAN, v \in BOOLEAN : inv' = ScanInstall(r, v)
    BY <1>13 DEF Scan
  <2>1. inv' \in Inventory
    BY ScanIs DEF HostOK
  <2> QED
    BY <1>13, <2>1 DEF Scan, FlowOK, Rows
<1>14. CASE AssumeYes
  BY <1>14 DEF AssumeYes, process, secrets, agents, flow, FlowOK, Rows
<1>15. CASE Cancel
  BY <1>15, EmptyIs DEF Cancel, process, secrets, agents, flow, FlowOK
<1>16. CASE BuildRemovalPlan
  BY <1>16 DEF BuildRemovalPlan, process, secrets, agents, flow, FlowOK
<1>17. CASE \E g \in Groups, delete \in BOOLEAN : ConfirmGroup(g, delete)
  BY <1>17 DEF ConfirmGroup, Answer, process, secrets, agents, flow, FlowOK, Groups
<1>18. CASE \E g \in Groups, delete \in BOOLEAN : DecideOnecli(g, delete)
  BY <1>18 DEF DecideOnecli, Answer, process, secrets, agents, flow, FlowOK
<1>19. CASE UnloadService
  BY <1>19, DoneIs DEF UnloadService, secrets, agents, flow, Fault, Misses, FlowOK
<1>20. CASE RemoveContainers
  BY <1>20, DoneIs DEF RemoveContainers, secrets, agents, flow, Fault, Misses, FlowOK
<1>21. CASE RemoveImage
  BY <1>21, DoneIs DEF RemoveImage, process, secrets, agents, flow, Misses, FlowOK
<1>22. CASE BackupEnv
  BY <1>22, DoneIs DEF BackupEnv, process, secrets, agents, flow, Fault, Misses, FlowOK
<1>23. CASE Interrupted
  BY <1>23, EmptyIs DEF Interrupted, process, secrets, agents, flow, Fault, FlowOK
<1>24. CASE Reinstall
  BY <1>24, EmptyIs DEF Reinstall, process, secrets, agents, flow, FlowOK
<1>25. CASE \E x \in Steps : SignalHost(x)
  BY <1>25, DoneIs DEF SignalHost, secrets, agents, flow, Signalled, FlowOK
<1>26. CASE \E x \in Steps : DeletePath(x)
  BY <1>26, DoneIs DEF DeletePath, secrets, agents, flow, Fault, Misses, FlowOK
<1>27. CASE UNCHANGED vars
  BY <1>27 DEF vars, process, secrets, agents, flow, FlowOK
<1> QED
  BY <1>1, <1>2, <1>3, <1>4, <1>5, <1>6, <1>7, <1>8, <1>9, <1>10, <1>11, <1>12, <1>13, <1>14, <1>15, <1>16, <1>17, <1>18, <1>19, <1>20, <1>21, <1>22, <1>23, <1>24, <1>25, <1>26, <1>27 DEF Next

LEMMA TodoStays ==
    ASSUME FlowOK, TodoOK, [Next]_vars
    PROVE  TodoOK'
<1>1. CASE EnforceStartupBackoff
  BY <1>1 DEF EnforceStartupBackoff, secrets, agents, flow, MayStart, TodoOK
<1>2. CASE BackoffEnds
  BY <1>2 DEF BackoffEnds, secrets, agents, flow, TodoOK
<1>3. CASE Tripwire
  BY <1>3 DEF Tripwire, Gone, secrets, agents, flow, TodoOK
<1>4. CASE HostDies
  BY <1>4 DEF HostDies, Fault, Gone, secrets, agents, flow, TodoOK
<1>5. CASE Running
  BY <1>5 DEF Running, secrets, agents, flow, TodoOK
<1>6. CASE HourPasses
  BY <1>6 DEF HourPasses, secrets, agents, flow, TodoOK
<1>7. CASE \E a \in Agents : BeginSpawn(a)
  BY <1>7 DEF BeginSpawn, secrets, agents, flow, TodoOK
<1>8. CASE \E a \in Agents : DeleteOnecliAgent(a)
  BY <1>8, DoneIs DEF DeleteOnecliAgent, process, secrets, agents, flow, Fault, Misses, TodoOK
<1>9. CASE EndSpawn
  BY <1>9 DEF EndSpawn, secrets, agents, flow, TodoOK
<1>10. CASE ContainerExits
  BY <1>10 DEF ContainerExits, secrets, agents, flow, TodoOK
<1>11. CASE Stop
  BY <1>11 DEF Stop, secrets, agents, flow, TodoOK
<1>12. CASE Shutdown
  BY <1>12 DEF Shutdown, secrets, agents, flow, TodoOK
<1>13. CASE Scan
  BY <1>13 DEF Scan, process, secrets, agents, flow, Fault, TodoOK
<1>14. CASE AssumeYes
  BY <1>14 DEF AssumeYes, process, secrets, agents, flow, TodoOK
<1>15. CASE Cancel
  BY <1>15 DEF Cancel, process, secrets, agents, flow, TodoOK
<1>16. CASE BuildRemovalPlan
  BY <1>16, PlanIs DEF BuildRemovalPlan, process, secrets, agents, flow, TodoOK
<1>17. CASE \E g \in Groups, delete \in BOOLEAN : ConfirmGroup(g, delete)
  BY <1>17 DEF ConfirmGroup, Answer, process, secrets, agents, flow, TodoOK
<1>18. CASE \E g \in Groups, delete \in BOOLEAN : DecideOnecli(g, delete)
  BY <1>18 DEF DecideOnecli, Answer, process, secrets, agents, flow, TodoOK
<1>19. CASE UnloadService
  BY <1>19, DoneIs DEF UnloadService, secrets, agents, flow, Fault, Misses, TodoOK, Paths, ServicePaths, DataPaths, RuntimePaths, Steps
<1>20. CASE RemoveContainers
  BY <1>20, DoneIs DEF RemoveContainers, secrets, agents, flow, Fault, Misses, TodoOK, Paths, ServicePaths, DataPaths, RuntimePaths, Steps
<1>21. CASE RemoveImage
  BY <1>21, DoneIs DEF RemoveImage, process, secrets, agents, flow, Misses, TodoOK, Paths, ServicePaths, DataPaths, RuntimePaths, Steps
<1>22. CASE BackupEnv
  BY <1>22, DoneIs DEF BackupEnv, process, secrets, agents, flow, Fault, Misses, TodoOK, Paths, ServicePaths, DataPaths, RuntimePaths, Steps
<1>23. CASE Interrupted
  BY <1>23 DEF Interrupted, process, secrets, agents, flow, Fault, TodoOK
<1>24. CASE Reinstall
  BY <1>24 DEF Reinstall, process, secrets, agents, flow, TodoOK
<1>25. CASE \E x \in Steps : SignalHost(x)
  BY <1>25, DoneIs DEF SignalHost, secrets, agents, flow, Signalled, TodoOK
<1>26. CASE \E x \in Steps : DeletePath(x)
  BY <1>26, DoneIs DEF DeletePath, secrets, agents, flow, Fault, Misses, TodoOK
<1>27. CASE UNCHANGED vars
  BY <1>27 DEF vars, process, secrets, agents, flow, TodoOK
<1> QED
  BY <1>1, <1>2, <1>3, <1>4, <1>5, <1>6, <1>7, <1>8, <1>9, <1>10, <1>11, <1>12, <1>13, <1>14, <1>15, <1>16, <1>17, <1>18, <1>19, <1>20, <1>21, <1>22, <1>23, <1>24, <1>25, <1>26, <1>27 DEF Next

LEMMA CountersStay ==
    ASSUME HostOK, TodoOK, CountersOK, [Next]_vars
    PROVE  CountersOK'
<1>1. CASE EnforceStartupBackoff
  BY <1>1, LifecycleAssumption DEF EnforceStartupBackoff, secrets, agents, flow, MayStart, CountersOK, HostOK
<1>2. CASE BackoffEnds
  BY <1>2, LifecycleAssumption DEF BackoffEnds, secrets, agents, flow, CountersOK, HostOK
<1>3. CASE Tripwire
  BY <1>3, LifecycleAssumption DEF Tripwire, Gone, secrets, agents, flow, CountersOK, HostOK
<1>4. CASE HostDies
  BY <1>4, LifecycleAssumption DEF HostDies, Fault, Gone, secrets, agents, flow, CountersOK, HostOK
<1>5. CASE Running
  BY <1>5, LifecycleAssumption DEF Running, secrets, agents, flow, CountersOK, HostOK
<1>6. CASE HourPasses
  BY <1>6, LifecycleAssumption DEF HourPasses, secrets, agents, flow, CountersOK, HostOK
<1>7. CASE \E a \in Agents : BeginSpawn(a)
  BY <1>7, LifecycleAssumption DEF BeginSpawn, secrets, agents, flow, CountersOK, HostOK
<1>8. CASE \E a \in Agents : DeleteOnecliAgent(a)
  BY <1>8, LifecycleAssumption, DoneIs DEF DeleteOnecliAgent, process, secrets, agents, flow, Fault, Misses, CountersOK, HostOK
<1>9. CASE EndSpawn
  BY <1>9, LifecycleAssumption DEF EndSpawn, secrets, agents, flow, CountersOK, HostOK
<1>10. CASE ContainerExits
  BY <1>10, LifecycleAssumption DEF ContainerExits, secrets, agents, flow, CountersOK, HostOK
<1>11. CASE Stop
  BY <1>11, LifecycleAssumption DEF Stop, secrets, agents, flow, CountersOK, HostOK
<1>12. CASE Shutdown
  BY <1>12, LifecycleAssumption DEF Shutdown, secrets, agents, flow, CountersOK, HostOK
<1>13. CASE Scan
  BY <1>13, LifecycleAssumption DEF Scan, process, secrets, agents, flow, Fault, CountersOK, HostOK
<1>14. CASE AssumeYes
  BY <1>14, LifecycleAssumption DEF AssumeYes, process, secrets, agents, flow, CountersOK, HostOK
<1>15. CASE Cancel
  BY <1>15, LifecycleAssumption DEF Cancel, process, secrets, agents, flow, CountersOK, HostOK
<1>16. CASE BuildRemovalPlan
  BY <1>16, LifecycleAssumption DEF BuildRemovalPlan, process, secrets, agents, flow, CountersOK, HostOK
<1>17. CASE \E g \in Groups, delete \in BOOLEAN : ConfirmGroup(g, delete)
  BY <1>17, LifecycleAssumption DEF ConfirmGroup, Answer, process, secrets, agents, flow, CountersOK, HostOK
<1>18. CASE \E g \in Groups, delete \in BOOLEAN : DecideOnecli(g, delete)
  BY <1>18, LifecycleAssumption DEF DecideOnecli, Answer, process, secrets, agents, flow, CountersOK, HostOK
<1>19. CASE UnloadService
  BY <1>19, LifecycleAssumption, DoneIs DEF UnloadService, secrets, agents, flow, Fault, Misses, CountersOK, HostOK
<1>20. CASE RemoveContainers
  BY <1>20, LifecycleAssumption, DoneIs DEF RemoveContainers, secrets, agents, flow, Fault, Misses, CountersOK, HostOK
<1>21. CASE RemoveImage
  BY <1>21, LifecycleAssumption, DoneIs DEF RemoveImage, process, secrets, agents, flow, Misses, CountersOK, HostOK
<1>22. CASE BackupEnv
  BY <1>22, LifecycleAssumption, DoneIs DEF BackupEnv, process, secrets, agents, flow, Fault, Misses, CountersOK, HostOK
<1>23. CASE Interrupted
  BY <1>23, LifecycleAssumption DEF Interrupted, process, secrets, agents, flow, Fault, CountersOK, HostOK
<1>24. CASE Reinstall
  BY <1>24, LifecycleAssumption DEF Reinstall, process, secrets, agents, flow, CountersOK, HostOK
<1>25. CASE \E x \in Steps : SignalHost(x)
  BY <1>25, LifecycleAssumption, DoneIs DEF SignalHost, secrets, agents, flow, Signalled, CountersOK, HostOK
<1>26. CASE \E x \in Steps : DeletePath(x)
  BY <1>26, LifecycleAssumption, DoneIs DEF DeletePath, secrets, agents, flow, Fault, Misses, CountersOK, HostOK
<1>27. CASE UNCHANGED vars
  BY <1>27, LifecycleAssumption DEF vars, process, secrets, agents, flow, CountersOK, HostOK
<1> QED
  BY <1>1, <1>2, <1>3, <1>4, <1>5, <1>6, <1>7, <1>8, <1>9, <1>10, <1>11, <1>12, <1>13, <1>14, <1>15, <1>16, <1>17, <1>18, <1>19, <1>20, <1>21, <1>22, <1>23, <1>24, <1>25, <1>26, <1>27 DEF Next

LEMMA SecretsAreKept ==
    ASSUME SecretsOK, TodoOK, SecretsKept, [Next]_vars
    PROVE  SecretsKept'
<1>1. CASE EnforceStartupBackoff
  BY <1>1 DEF EnforceStartupBackoff, secrets, agents, flow, MayStart, SecretsKept, SecretsOK
<1>2. CASE BackoffEnds
  BY <1>2 DEF BackoffEnds, secrets, agents, flow, SecretsKept, SecretsOK
<1>3. CASE Tripwire
  BY <1>3 DEF Tripwire, Gone, secrets, agents, flow, SecretsKept, SecretsOK
<1>4. CASE HostDies
  BY <1>4 DEF HostDies, Fault, Gone, secrets, agents, flow, SecretsKept, SecretsOK
<1>5. CASE Running
  BY <1>5 DEF Running, secrets, agents, flow, SecretsKept, SecretsOK
<1>6. CASE HourPasses
  BY <1>6 DEF HourPasses, secrets, agents, flow, SecretsKept, SecretsOK
<1>7. CASE \E a \in Agents : BeginSpawn(a)
  BY <1>7 DEF BeginSpawn, secrets, agents, flow, SecretsKept, SecretsOK
<1>8. CASE \E a \in Agents : DeleteOnecliAgent(a)
  BY <1>8, DoneIs DEF DeleteOnecliAgent, process, secrets, agents, flow, Fault, Misses, SecretsKept, SecretsOK
<1>9. CASE EndSpawn
  BY <1>9 DEF EndSpawn, secrets, agents, flow, SecretsKept, SecretsOK
<1>10. CASE ContainerExits
  BY <1>10 DEF ContainerExits, secrets, agents, flow, SecretsKept, SecretsOK
<1>11. CASE Stop
  BY <1>11 DEF Stop, secrets, agents, flow, SecretsKept, SecretsOK
<1>12. CASE Shutdown
  BY <1>12 DEF Shutdown, secrets, agents, flow, SecretsKept, SecretsOK
<1>13. CASE Scan
  BY <1>13 DEF Scan, process, secrets, agents, flow, Fault, SecretsKept, SecretsOK
<1>14. CASE AssumeYes
  BY <1>14 DEF AssumeYes, process, secrets, agents, flow, SecretsKept, SecretsOK
<1>15. CASE Cancel
  BY <1>15 DEF Cancel, process, secrets, agents, flow, SecretsKept, SecretsOK
<1>16. CASE BuildRemovalPlan
  BY <1>16 DEF BuildRemovalPlan, process, secrets, agents, flow, SecretsKept, SecretsOK
<1>17. CASE \E g \in Groups, delete \in BOOLEAN : ConfirmGroup(g, delete)
  BY <1>17 DEF ConfirmGroup, Answer, process, secrets, agents, flow, SecretsKept, SecretsOK
<1>18. CASE \E g \in Groups, delete \in BOOLEAN : DecideOnecli(g, delete)
  BY <1>18 DEF DecideOnecli, Answer, process, secrets, agents, flow, SecretsKept, SecretsOK
<1>19. CASE UnloadService
  BY <1>19, DoneIs DEF UnloadService, secrets, agents, flow, Fault, Misses, SecretsKept, SecretsOK
<1>20. CASE RemoveContainers
  BY <1>20, DoneIs DEF RemoveContainers, secrets, agents, flow, Fault, Misses, SecretsKept, SecretsOK
<1>21. CASE RemoveImage
  BY <1>21, DoneIs DEF RemoveImage, process, secrets, agents, flow, Misses, SecretsKept, SecretsOK
<1>22. CASE BackupEnv
  BY <1>22, DoneIs DEF BackupEnv, process, secrets, agents, flow, Fault, Misses, SecretsKept, SecretsOK
<1>23. CASE Interrupted
  BY <1>23 DEF Interrupted, process, secrets, agents, flow, Fault, SecretsKept, SecretsOK
<1>24. CASE Reinstall
  BY <1>24 DEF Reinstall, process, secrets, agents, flow, SecretsKept, SecretsOK
<1>25. CASE \E x \in Steps : SignalHost(x)
  BY <1>25, DoneIs DEF SignalHost, secrets, agents, flow, Signalled, SecretsKept, SecretsOK
<1>26. CASE \E x \in Steps : DeletePath(x)
  BY <1>26, DoneIs DEF DeletePath, secrets, agents, flow, Fault, Misses, SecretsKept, SecretsOK
<1>27. CASE UNCHANGED vars
  BY <1>27 DEF vars, process, secrets, agents, flow, SecretsKept, SecretsOK
<1> QED
  BY <1>1, <1>2, <1>3, <1>4, <1>5, <1>6, <1>7, <1>8, <1>9, <1>10, <1>11, <1>12, <1>13, <1>14, <1>15, <1>16, <1>17, <1>18, <1>19, <1>20, <1>21, <1>22, <1>23, <1>24, <1>25, <1>26, <1>27 DEF Next

LEMMA BreakerStaysFair ==
    ASSUME HostOK, TodoOK, BreakerFair, [Next]_vars
    PROVE  BreakerFair'
<1>1. CASE EnforceStartupBackoff
  BY <1>1 DEF EnforceStartupBackoff, secrets, agents, flow, MayStart, BreakerFair, HostOK
<1>2. CASE BackoffEnds
  BY <1>2 DEF BackoffEnds, secrets, agents, flow, BreakerFair, HostOK
<1>3. CASE Tripwire
  BY <1>3 DEF Tripwire, Gone, secrets, agents, flow, BreakerFair, HostOK
<1>4. CASE HostDies
  BY <1>4 DEF HostDies, Fault, Gone, secrets, agents, flow, BreakerFair, HostOK
<1>5. CASE Running
  BY <1>5 DEF Running, secrets, agents, flow, BreakerFair, HostOK
<1>6. CASE HourPasses
  BY <1>6 DEF HourPasses, secrets, agents, flow, BreakerFair, HostOK
<1>7. CASE \E a \in Agents : BeginSpawn(a)
  BY <1>7 DEF BeginSpawn, secrets, agents, flow, BreakerFair, HostOK
<1>8. CASE \E a \in Agents : DeleteOnecliAgent(a)
  BY <1>8, DoneIs DEF DeleteOnecliAgent, process, secrets, agents, flow, Fault, Misses, BreakerFair, HostOK
<1>9. CASE EndSpawn
  BY <1>9 DEF EndSpawn, secrets, agents, flow, BreakerFair, HostOK
<1>10. CASE ContainerExits
  BY <1>10 DEF ContainerExits, secrets, agents, flow, BreakerFair, HostOK
<1>11. CASE Stop
  BY <1>11 DEF Stop, secrets, agents, flow, BreakerFair, HostOK
<1>12. CASE Shutdown
  BY <1>12 DEF Shutdown, secrets, agents, flow, BreakerFair, HostOK
<1>13. CASE Scan
  BY <1>13 DEF Scan, process, secrets, agents, flow, Fault, BreakerFair, HostOK
<1>14. CASE AssumeYes
  BY <1>14 DEF AssumeYes, process, secrets, agents, flow, BreakerFair, HostOK
<1>15. CASE Cancel
  BY <1>15 DEF Cancel, process, secrets, agents, flow, BreakerFair, HostOK
<1>16. CASE BuildRemovalPlan
  BY <1>16 DEF BuildRemovalPlan, process, secrets, agents, flow, BreakerFair, HostOK
<1>17. CASE \E g \in Groups, delete \in BOOLEAN : ConfirmGroup(g, delete)
  BY <1>17 DEF ConfirmGroup, Answer, process, secrets, agents, flow, BreakerFair, HostOK
<1>18. CASE \E g \in Groups, delete \in BOOLEAN : DecideOnecli(g, delete)
  BY <1>18 DEF DecideOnecli, Answer, process, secrets, agents, flow, BreakerFair, HostOK
<1>19. CASE UnloadService
  BY <1>19, DoneIs DEF UnloadService, secrets, agents, flow, Fault, Misses, BreakerFair, HostOK
<1>20. CASE RemoveContainers
  BY <1>20, DoneIs DEF RemoveContainers, secrets, agents, flow, Fault, Misses, BreakerFair, HostOK
<1>21. CASE RemoveImage
  BY <1>21, DoneIs DEF RemoveImage, process, secrets, agents, flow, Misses, BreakerFair, HostOK
<1>22. CASE BackupEnv
  BY <1>22, DoneIs DEF BackupEnv, process, secrets, agents, flow, Fault, Misses, BreakerFair, HostOK
<1>23. CASE Interrupted
  BY <1>23 DEF Interrupted, process, secrets, agents, flow, Fault, BreakerFair, HostOK
<1>24. CASE Reinstall
  BY <1>24 DEF Reinstall, process, secrets, agents, flow, BreakerFair, HostOK
<1>25. CASE \E x \in Steps : SignalHost(x)
  BY <1>25, DoneIs DEF SignalHost, secrets, agents, flow, Signalled, BreakerFair, HostOK
<1>26. CASE \E x \in Steps : DeletePath(x)
  BY <1>26, DoneIs DEF DeletePath, secrets, agents, flow, Fault, Misses, BreakerFair, HostOK
<1>27. CASE UNCHANGED vars
  BY <1>27 DEF vars, process, secrets, agents, flow, BreakerFair, HostOK
<1> QED
  BY <1>1, <1>2, <1>3, <1>4, <1>5, <1>6, <1>7, <1>8, <1>9, <1>10, <1>11, <1>12, <1>13, <1>14, <1>15, <1>16, <1>17, <1>18, <1>19, <1>20, <1>21, <1>22, <1>23, <1>24, <1>25, <1>26, <1>27 DEF Next

LEMMA ConsistentStays ==
    ASSUME HostOK, TodoOK, Consistent, [Next]_vars
    PROVE  Consistent'
<1>1. CASE EnforceStartupBackoff
  BY <1>1 DEF EnforceStartupBackoff, secrets, agents, flow, MayStart, Consistent, Managed, HostOK
<1>2. CASE BackoffEnds
  BY <1>2 DEF BackoffEnds, secrets, agents, flow, Consistent, Managed, HostOK
<1>3. CASE Tripwire
  BY <1>3 DEF Tripwire, Gone, secrets, agents, flow, Consistent, Managed, HostOK
<1>4. CASE HostDies
  BY <1>4 DEF HostDies, Fault, Gone, secrets, agents, flow, Consistent, Managed, HostOK
<1>5. CASE Running
  BY <1>5 DEF Running, secrets, agents, flow, Consistent, Managed, HostOK
<1>6. CASE HourPasses
  BY <1>6 DEF HourPasses, secrets, agents, flow, Consistent, Managed, HostOK
<1>7. CASE \E a \in Agents : BeginSpawn(a)
  BY <1>7 DEF BeginSpawn, secrets, agents, flow, Consistent, Managed, HostOK
<1>8. CASE \E a \in Agents : DeleteOnecliAgent(a)
  BY <1>8, DoneIs DEF DeleteOnecliAgent, process, secrets, agents, flow, Fault, Misses, Consistent, Managed, HostOK
<1>9. CASE EndSpawn
  BY <1>9 DEF EndSpawn, secrets, agents, flow, Consistent, Managed, HostOK
<1>10. CASE ContainerExits
  BY <1>10 DEF ContainerExits, secrets, agents, flow, Consistent, Managed, HostOK
<1>11. CASE Stop
  BY <1>11 DEF Stop, secrets, agents, flow, Consistent, Managed, HostOK
<1>12. CASE Shutdown
  BY <1>12 DEF Shutdown, secrets, agents, flow, Consistent, Managed, HostOK
<1>13. CASE Scan
  BY <1>13 DEF Scan, process, secrets, agents, flow, Fault, Consistent, Managed, HostOK
<1>14. CASE AssumeYes
  BY <1>14 DEF AssumeYes, process, secrets, agents, flow, Consistent, Managed, HostOK
<1>15. CASE Cancel
  BY <1>15 DEF Cancel, process, secrets, agents, flow, Consistent, Managed, HostOK
<1>16. CASE BuildRemovalPlan
  BY <1>16 DEF BuildRemovalPlan, process, secrets, agents, flow, Consistent, Managed, HostOK
<1>17. CASE \E g \in Groups, delete \in BOOLEAN : ConfirmGroup(g, delete)
  BY <1>17 DEF ConfirmGroup, Answer, process, secrets, agents, flow, Consistent, Managed, HostOK
<1>18. CASE \E g \in Groups, delete \in BOOLEAN : DecideOnecli(g, delete)
  BY <1>18 DEF DecideOnecli, Answer, process, secrets, agents, flow, Consistent, Managed, HostOK
<1>19. CASE UnloadService
  BY <1>19, DoneIs DEF UnloadService, secrets, agents, flow, Fault, Misses, Consistent, Managed, HostOK
<1>20. CASE RemoveContainers
  BY <1>20, DoneIs DEF RemoveContainers, secrets, agents, flow, Fault, Misses, Consistent, Managed, HostOK
<1>21. CASE RemoveImage
  BY <1>21, DoneIs DEF RemoveImage, process, secrets, agents, flow, Misses, Consistent, Managed, HostOK
<1>22. CASE BackupEnv
  BY <1>22, DoneIs DEF BackupEnv, process, secrets, agents, flow, Fault, Misses, Consistent, Managed, HostOK
<1>23. CASE Interrupted
  BY <1>23 DEF Interrupted, process, secrets, agents, flow, Fault, Consistent, Managed, HostOK
<1>24. CASE Reinstall
  BY <1>24 DEF Reinstall, process, secrets, agents, flow, Consistent, Managed, HostOK
<1>25. CASE \E x \in Steps : SignalHost(x)
  BY <1>25, DoneIs DEF SignalHost, secrets, agents, flow, Signalled, Consistent, Managed, HostOK
<1>26. CASE \E x \in Steps : DeletePath(x)
  BY <1>26, DoneIs DEF DeletePath, secrets, agents, flow, Fault, Misses, Consistent, Managed, HostOK
<1>27. CASE UNCHANGED vars
  BY <1>27 DEF vars, process, secrets, agents, flow, Consistent, Managed, HostOK
<1> QED
  BY <1>1, <1>2, <1>3, <1>4, <1>5, <1>6, <1>7, <1>8, <1>9, <1>10, <1>11, <1>12, <1>13, <1>14, <1>15, <1>16, <1>17, <1>18, <1>19, <1>20, <1>21, <1>22, <1>23, <1>24, <1>25, <1>26, <1>27 DEF Next

\* The plan is a matter of the inventory and the answers.
LEMMA PlanStays == inv' = inv /\ answers' = answers /\ yes' = yes => Plan' = Plan
  BY DEF Plan, ServicePlan, DataPlan, UserPlan, ResolveOnecliDeletions

LEMMA PlannedStays ==
    ASSUME HostOK, DiskOK, VaultOK, TodoOK, Planned, [Next]_vars
    PROVE  Planned'
<1>1. CASE EnforceStartupBackoff
  BY <1>1, PlanStays DEF EnforceStartupBackoff, secrets, agents, flow, MayStart, Planned
<1>2. CASE BackoffEnds
  BY <1>2, PlanStays DEF BackoffEnds, secrets, agents, flow, Planned
<1>3. CASE Tripwire
  BY <1>3, PlanStays DEF Tripwire, Gone, secrets, agents, flow, Planned
<1>4. CASE HostDies
  BY <1>4, PlanStays DEF HostDies, Fault, Gone, secrets, agents, flow, Planned
<1>5. CASE Running
  BY <1>5, PlanStays DEF Running, secrets, agents, flow, Planned
<1>6. CASE HourPasses
  BY <1>6, PlanStays DEF HourPasses, secrets, agents, flow, Planned
<1>7. CASE \E a \in Agents : BeginSpawn(a)
  BY <1>7, PlanStays DEF BeginSpawn, secrets, agents, flow, Planned
<1>8. CASE \E a \in Agents : DeleteOnecliAgent(a)
  BY <1>8, PlanStays, DoneIs DEF DeleteOnecliAgent, process, secrets, agents, flow, Fault, Misses, Planned
<1>9. CASE EndSpawn
  BY <1>9, PlanStays DEF EndSpawn, secrets, agents, flow, Planned
<1>10. CASE ContainerExits
  BY <1>10, PlanStays DEF ContainerExits, secrets, agents, flow, Planned
<1>11. CASE Stop
  BY <1>11, PlanStays DEF Stop, secrets, agents, flow, Planned
<1>12. CASE Shutdown
  BY <1>12, PlanStays DEF Shutdown, secrets, agents, flow, Planned
<1>13. CASE Scan
  <2> PICK r \in BOOLEAN, v \in BOOLEAN : inv' = ScanInstall(r, v)
    BY <1>13 DEF Scan
  <2>1. inv'.mine \subseteq Own \union Late
    BY ScanIs DEF HostOK
  <2> QED
    BY <1>13, <2>1 DEF Scan, Planned
<1>14. CASE AssumeYes
  BY <1>14, PlanStays DEF AssumeYes, process, secrets, agents, flow, Planned
<1>15. CASE Cancel
  BY <1>15, PlanStays, EmptyIs DEF Cancel, process, secrets, agents, flow, Planned
<1>16. CASE BuildRemovalPlan
  BY <1>16, PlanStays, PlanStays DEF BuildRemovalPlan, process, secrets, agents, flow, Planned
<1>17. CASE \E g \in Groups, delete \in BOOLEAN : ConfirmGroup(g, delete)
  BY <1>17, PlanStays DEF ConfirmGroup, Answer, process, secrets, agents, flow, Planned
<1>18. CASE \E g \in Groups, delete \in BOOLEAN : DecideOnecli(g, delete)
  BY <1>18, PlanStays DEF DecideOnecli, Answer, process, secrets, agents, flow, Planned
<1>19. CASE UnloadService
  BY <1>19, PlanStays, DoneIs DEF UnloadService, secrets, agents, flow, Fault, Misses, Planned
<1>20. CASE RemoveContainers
  BY <1>20, PlanStays, DoneIs DEF RemoveContainers, secrets, agents, flow, Fault, Misses, Planned
<1>21. CASE RemoveImage
  BY <1>21, PlanStays, DoneIs DEF RemoveImage, process, secrets, agents, flow, Misses, Planned
<1>22. CASE BackupEnv
  BY <1>22, PlanStays, DoneIs DEF BackupEnv, process, secrets, agents, flow, Fault, Misses, Planned
<1>23. CASE Interrupted
  BY <1>23, PlanStays, EmptyIs DEF Interrupted, process, secrets, agents, flow, Fault, Planned
<1>24. CASE Reinstall
  BY <1>24, PlanStays, EmptyIs DEF Reinstall, process, secrets, agents, flow, Planned
<1>25. CASE \E x \in Steps : SignalHost(x)
  BY <1>25, PlanStays, DoneIs DEF SignalHost, secrets, agents, flow, Signalled, Planned
<1>26. CASE \E x \in Steps : DeletePath(x)
  BY <1>26, PlanStays, DoneIs DEF DeletePath, secrets, agents, flow, Fault, Misses, Planned
<1>27. CASE UNCHANGED vars
  BY <1>27, PlanStays DEF vars, process, secrets, agents, flow, Planned
<1> QED
  BY <1>1, <1>2, <1>3, <1>4, <1>5, <1>6, <1>7, <1>8, <1>9, <1>10, <1>11, <1>12, <1>13, <1>14, <1>15, <1>16, <1>17, <1>18, <1>19, <1>20, <1>21, <1>22, <1>23, <1>24, <1>25, <1>26, <1>27 DEF Next

LEMMA UnloadedStays ==
    ASSUME HostOK, TodoOK, FlowOK, Consistent, Planned, Unloaded, [Next]_vars
    PROVE  Unloaded'
<1>1. CASE EnforceStartupBackoff
  BY <1>1 DEF EnforceStartupBackoff, secrets, agents, flow, MayStart, Unloaded, Removing, Managed, HostOK, Consistent
<1>2. CASE BackoffEnds
  BY <1>2 DEF BackoffEnds, secrets, agents, flow, Unloaded, Removing, Managed, HostOK, Consistent
<1>3. CASE Tripwire
  BY <1>3 DEF Tripwire, Gone, secrets, agents, flow, Unloaded, Removing, Managed, HostOK, Consistent
<1>4. CASE HostDies
  BY <1>4 DEF HostDies, Fault, Gone, secrets, agents, flow, Unloaded, Removing, Managed, HostOK, Consistent
<1>5. CASE Running
  BY <1>5 DEF Running, secrets, agents, flow, Unloaded, Removing, Managed, HostOK, Consistent
<1>6. CASE HourPasses
  BY <1>6 DEF HourPasses, secrets, agents, flow, Unloaded, Removing, Managed, HostOK, Consistent
<1>7. CASE \E a \in Agents : BeginSpawn(a)
  BY <1>7 DEF BeginSpawn, secrets, agents, flow, Unloaded, Removing, Managed, HostOK, Consistent
<1>8. CASE \E a \in Agents : DeleteOnecliAgent(a)
  BY <1>8, DoneIs, AgentsApart DEF DeleteOnecliAgent, process, secrets, agents, flow, Fault, Misses, Unloaded, Removing, Managed, HostOK, Consistent, Paths, ServicePaths, DataPaths, RuntimePaths, Steps
<1>9. CASE EndSpawn
  BY <1>9 DEF EndSpawn, secrets, agents, flow, Unloaded, Removing, Managed, HostOK, Consistent
<1>10. CASE ContainerExits
  BY <1>10 DEF ContainerExits, secrets, agents, flow, Unloaded, Removing, Managed, HostOK, Consistent
<1>11. CASE Stop
  BY <1>11 DEF Stop, secrets, agents, flow, Unloaded, Removing, Managed, HostOK, Consistent
<1>12. CASE Shutdown
  BY <1>12 DEF Shutdown, secrets, agents, flow, Unloaded, Removing, Managed, HostOK, Consistent
<1>13. CASE Scan
  BY <1>13 DEF Scan, process, secrets, agents, flow, Fault, Unloaded, Removing, Managed, HostOK, Consistent
<1>14. CASE AssumeYes
  BY <1>14 DEF AssumeYes, process, secrets, agents, flow, Unloaded, Removing, Managed, HostOK, Consistent
<1>15. CASE Cancel
  BY <1>15 DEF Cancel, process, secrets, agents, flow, Unloaded, Removing, Managed, HostOK, Consistent
<1>16. CASE BuildRemovalPlan
  BY <1>16 DEF BuildRemovalPlan, process, secrets, agents, flow, Unloaded, Removing, Managed, HostOK, Consistent, Plan, ServicePlan, ServicePaths
<1>17. CASE \E g \in Groups, delete \in BOOLEAN : ConfirmGroup(g, delete)
  BY <1>17 DEF ConfirmGroup, Answer, process, secrets, agents, flow, Unloaded, Removing, Managed, HostOK, Consistent
<1>18. CASE \E g \in Groups, delete \in BOOLEAN : DecideOnecli(g, delete)
  BY <1>18 DEF DecideOnecli, Answer, process, secrets, agents, flow, Unloaded, Removing, Managed, HostOK, Consistent
<1>19. CASE UnloadService
  BY <1>19, DoneIs DEF UnloadService, secrets, agents, flow, Fault, Misses, Unloaded, Removing, Managed, HostOK, Consistent
<1>20. CASE RemoveContainers
  BY <1>20, DoneIs DEF RemoveContainers, secrets, agents, flow, Fault, Misses, Unloaded, Removing, Managed, HostOK, Consistent, Paths, ServicePaths, DataPaths, RuntimePaths, Steps
<1>21. CASE RemoveImage
  BY <1>21, DoneIs DEF RemoveImage, process, secrets, agents, flow, Misses, Unloaded, Removing, Managed, HostOK, Consistent
<1>22. CASE BackupEnv
  BY <1>22, DoneIs DEF BackupEnv, process, secrets, agents, flow, Fault, Misses, Unloaded, Removing, Managed, HostOK, Consistent, Paths, ServicePaths, DataPaths, RuntimePaths, Steps
<1>23. CASE Interrupted
  BY <1>23 DEF Interrupted, process, secrets, agents, flow, Fault, Unloaded, Removing, Managed, HostOK, Consistent
<1>24. CASE Reinstall
  BY <1>24 DEF Reinstall, process, secrets, agents, flow, Unloaded, Removing, Managed, HostOK, Consistent
<1>25. CASE \E x \in Steps : SignalHost(x)
  BY <1>25, DoneIs DEF SignalHost, secrets, agents, flow, Signalled, Unloaded, Removing, Managed, HostOK, Consistent, Paths, ServicePaths, DataPaths, RuntimePaths, Steps
<1>26. CASE \E x \in Steps : DeletePath(x)
  BY <1>26, DoneIs DEF DeletePath, secrets, agents, flow, Fault, Misses, Unloaded, Removing, Managed, HostOK, Consistent, Paths, ServicePaths, DataPaths, RuntimePaths, Steps
<1>27. CASE UNCHANGED vars
  BY <1>27 DEF vars, process, secrets, agents, flow, Unloaded, Removing, Managed, HostOK, Consistent
<1> QED
  BY <1>1, <1>2, <1>3, <1>4, <1>5, <1>6, <1>7, <1>8, <1>9, <1>10, <1>11, <1>12, <1>13, <1>14, <1>15, <1>16, <1>17, <1>18, <1>19, <1>20, <1>21, <1>22, <1>23, <1>24, <1>25, <1>26, <1>27 DEF Next

LEMMA HaltedStays ==
    ASSUME HostOK, TodoOK, FlowOK, Consistent, Planned, Halted, [Next]_vars
    PROVE  Halted'
<1>1. CASE EnforceStartupBackoff
  BY <1>1 DEF EnforceStartupBackoff, secrets, agents, flow, MayStart, Halted, Removing, Managed, HostOK, Consistent
<1>2. CASE BackoffEnds
  BY <1>2 DEF BackoffEnds, secrets, agents, flow, Halted, Removing, Managed, HostOK, Consistent
<1>3. CASE Tripwire
  BY <1>3 DEF Tripwire, Gone, secrets, agents, flow, Halted, Removing, Managed, HostOK, Consistent
<1>4. CASE HostDies
  BY <1>4 DEF HostDies, Fault, Gone, secrets, agents, flow, Halted, Removing, Managed, HostOK, Consistent
<1>5. CASE Running
  BY <1>5 DEF Running, secrets, agents, flow, Halted, Removing, Managed, HostOK, Consistent
<1>6. CASE HourPasses
  BY <1>6 DEF HourPasses, secrets, agents, flow, Halted, Removing, Managed, HostOK, Consistent
<1>7. CASE \E a \in Agents : BeginSpawn(a)
  BY <1>7 DEF BeginSpawn, secrets, agents, flow, Halted, Removing, Managed, HostOK, Consistent
<1>8. CASE \E a \in Agents : DeleteOnecliAgent(a)
  BY <1>8, DoneIs, AgentsApart DEF DeleteOnecliAgent, process, secrets, agents, flow, Fault, Misses, Halted, Removing, Managed, HostOK, Consistent, Paths, ServicePaths, DataPaths, RuntimePaths, Steps
<1>9. CASE EndSpawn
  BY <1>9 DEF EndSpawn, secrets, agents, flow, Halted, Removing, Managed, HostOK, Consistent
<1>10. CASE ContainerExits
  BY <1>10 DEF ContainerExits, secrets, agents, flow, Halted, Removing, Managed, HostOK, Consistent
<1>11. CASE Stop
  BY <1>11 DEF Stop, secrets, agents, flow, Halted, Removing, Managed, HostOK, Consistent
<1>12. CASE Shutdown
  BY <1>12 DEF Shutdown, secrets, agents, flow, Halted, Removing, Managed, HostOK, Consistent
<1>13. CASE Scan
  BY <1>13 DEF Scan, process, secrets, agents, flow, Fault, Halted, Removing, Managed, HostOK, Consistent
<1>14. CASE AssumeYes
  BY <1>14 DEF AssumeYes, process, secrets, agents, flow, Halted, Removing, Managed, HostOK, Consistent
<1>15. CASE Cancel
  BY <1>15 DEF Cancel, process, secrets, agents, flow, Halted, Removing, Managed, HostOK, Consistent
<1>16. CASE BuildRemovalPlan
  BY <1>16 DEF BuildRemovalPlan, process, secrets, agents, flow, Halted, Removing, Managed, HostOK, Consistent, Plan, ServicePlan
<1>17. CASE \E g \in Groups, delete \in BOOLEAN : ConfirmGroup(g, delete)
  BY <1>17 DEF ConfirmGroup, Answer, process, secrets, agents, flow, Halted, Removing, Managed, HostOK, Consistent
<1>18. CASE \E g \in Groups, delete \in BOOLEAN : DecideOnecli(g, delete)
  BY <1>18 DEF DecideOnecli, Answer, process, secrets, agents, flow, Halted, Removing, Managed, HostOK, Consistent
<1>19. CASE UnloadService
  BY <1>19, DoneIs DEF UnloadService, secrets, agents, flow, Fault, Misses, Halted, Removing, Managed, HostOK, Consistent
<1>20. CASE RemoveContainers
  BY <1>20, DoneIs DEF RemoveContainers, secrets, agents, flow, Fault, Misses, Halted, Removing, Managed, HostOK, Consistent, Paths, ServicePaths, DataPaths, RuntimePaths, Steps
<1>21. CASE RemoveImage
  BY <1>21, DoneIs DEF RemoveImage, process, secrets, agents, flow, Misses, Halted, Removing, Managed, HostOK, Consistent
<1>22. CASE BackupEnv
  BY <1>22, DoneIs DEF BackupEnv, process, secrets, agents, flow, Fault, Misses, Halted, Removing, Managed, HostOK, Consistent, Paths, ServicePaths, DataPaths, RuntimePaths, Steps
<1>23. CASE Interrupted
  BY <1>23 DEF Interrupted, process, secrets, agents, flow, Fault, Halted, Removing, Managed, HostOK, Consistent
<1>24. CASE Reinstall
  BY <1>24 DEF Reinstall, process, secrets, agents, flow, Halted, Removing, Managed, HostOK, Consistent
<1>25. CASE \E x \in Steps : SignalHost(x)
  BY <1>25, DoneIs DEF SignalHost, secrets, agents, flow, Signalled, Halted, Removing, Managed, HostOK, Consistent, Paths, ServicePaths, DataPaths, RuntimePaths, Steps
<1>26. CASE \E x \in Steps : DeletePath(x)
  BY <1>26, DoneIs DEF DeletePath, secrets, agents, flow, Fault, Misses, Halted, Removing, Managed, HostOK, Consistent, Paths, ServicePaths, DataPaths, RuntimePaths, Steps
<1>27. CASE UNCHANGED vars
  BY <1>27 DEF vars, process, secrets, agents, flow, Halted, Removing, Managed, HostOK, Consistent
<1> QED
  BY <1>1, <1>2, <1>3, <1>4, <1>5, <1>6, <1>7, <1>8, <1>9, <1>10, <1>11, <1>12, <1>13, <1>14, <1>15, <1>16, <1>17, <1>18, <1>19, <1>20, <1>21, <1>22, <1>23, <1>24, <1>25, <1>26, <1>27 DEF Next

LEMMA SilencedStays ==
    ASSUME HostOK, TodoOK, FlowOK, Consistent, Planned, Unloaded, Silenced, [Next]_vars
    PROVE  Silenced'
<1>1. CASE EnforceStartupBackoff
  BY <1>1 DEF EnforceStartupBackoff, secrets, agents, flow, MayStart, Silenced, Unloads, Removing, Managed, HostOK, Consistent
<1>2. CASE BackoffEnds
  BY <1>2 DEF BackoffEnds, secrets, agents, flow, Silenced, Unloads, Removing, Managed, HostOK, Consistent
<1>3. CASE Tripwire
  BY <1>3 DEF Tripwire, Gone, secrets, agents, flow, Silenced, Unloads, Removing, Managed, HostOK, Consistent
<1>4. CASE HostDies
  BY <1>4 DEF HostDies, Fault, Gone, secrets, agents, flow, Silenced, Unloads, Removing, Managed, HostOK, Consistent
<1>5. CASE Running
  BY <1>5 DEF Running, secrets, agents, flow, Silenced, Unloads, Removing, Managed, HostOK, Consistent
<1>6. CASE HourPasses
  BY <1>6 DEF HourPasses, secrets, agents, flow, Silenced, Unloads, Removing, Managed, HostOK, Consistent
<1>7. CASE \E a \in Agents : BeginSpawn(a)
  BY <1>7 DEF BeginSpawn, secrets, agents, flow, Silenced, Unloads, Removing, Managed, HostOK, Consistent
<1>8. CASE \E a \in Agents : DeleteOnecliAgent(a)
  BY <1>8, DoneIs, AgentsApart DEF DeleteOnecliAgent, process, secrets, agents, flow, Fault, Misses, Silenced, Unloads, Removing, Managed, HostOK, Consistent, Paths, ServicePaths, DataPaths, RuntimePaths, Steps
<1>9. CASE EndSpawn
  BY <1>9 DEF EndSpawn, secrets, agents, flow, Silenced, Unloads, Removing, Managed, HostOK, Consistent
<1>10. CASE ContainerExits
  BY <1>10 DEF ContainerExits, secrets, agents, flow, Silenced, Unloads, Removing, Managed, HostOK, Consistent
<1>11. CASE Stop
  BY <1>11 DEF Stop, secrets, agents, flow, Silenced, Unloads, Removing, Managed, HostOK, Consistent
<1>12. CASE Shutdown
  BY <1>12 DEF Shutdown, secrets, agents, flow, Silenced, Unloads, Removing, Managed, HostOK, Consistent
<1>13. CASE Scan
  BY <1>13 DEF Scan, process, secrets, agents, flow, Fault, Silenced, Unloads, Removing, Managed, HostOK, Consistent
<1>14. CASE AssumeYes
  BY <1>14 DEF AssumeYes, process, secrets, agents, flow, Silenced, Unloads, Removing, Managed, HostOK, Consistent
<1>15. CASE Cancel
  BY <1>15 DEF Cancel, process, secrets, agents, flow, Silenced, Unloads, Removing, Managed, HostOK, Consistent
<1>16. CASE BuildRemovalPlan
  BY <1>16 DEF BuildRemovalPlan, process, secrets, agents, flow, Silenced, Unloads, Removing, Managed, HostOK, Consistent, Plan, ServicePlan
<1>17. CASE \E g \in Groups, delete \in BOOLEAN : ConfirmGroup(g, delete)
  BY <1>17 DEF ConfirmGroup, Answer, process, secrets, agents, flow, Silenced, Unloads, Removing, Managed, HostOK, Consistent
<1>18. CASE \E g \in Groups, delete \in BOOLEAN : DecideOnecli(g, delete)
  BY <1>18 DEF DecideOnecli, Answer, process, secrets, agents, flow, Silenced, Unloads, Removing, Managed, HostOK, Consistent
<1>19. CASE UnloadService
  BY <1>19, DoneIs DEF UnloadService, secrets, agents, flow, Fault, Misses, Silenced, Unloads, Removing, Managed, HostOK, Consistent, Planned, Plan, ServicePlan
<1>20. CASE RemoveContainers
  BY <1>20, DoneIs DEF RemoveContainers, secrets, agents, flow, Fault, Misses, Silenced, Unloads, Removing, Managed, HostOK, Consistent, Paths, ServicePaths, DataPaths, RuntimePaths, Steps, Unloaded
<1>21. CASE RemoveImage
  BY <1>21, DoneIs DEF RemoveImage, process, secrets, agents, flow, Misses, Silenced, Unloads, Removing, Managed, HostOK, Consistent
<1>22. CASE BackupEnv
  BY <1>22, DoneIs DEF BackupEnv, process, secrets, agents, flow, Fault, Misses, Silenced, Unloads, Removing, Managed, HostOK, Consistent, Paths, ServicePaths, DataPaths, RuntimePaths, Steps
<1>23. CASE Interrupted
  BY <1>23 DEF Interrupted, process, secrets, agents, flow, Fault, Silenced, Unloads, Removing, Managed, HostOK, Consistent
<1>24. CASE Reinstall
  BY <1>24 DEF Reinstall, process, secrets, agents, flow, Silenced, Unloads, Removing, Managed, HostOK, Consistent
<1>25. CASE \E x \in Steps : SignalHost(x)
  BY <1>25, DoneIs DEF SignalHost, secrets, agents, flow, Signalled, Silenced, Unloads, Removing, Managed, HostOK, Consistent, Paths, ServicePaths, DataPaths, RuntimePaths, Steps
<1>26. CASE \E x \in Steps : DeletePath(x)
  BY <1>26, DoneIs DEF DeletePath, secrets, agents, flow, Fault, Misses, Silenced, Unloads, Removing, Managed, HostOK, Consistent, Paths, ServicePaths, DataPaths, RuntimePaths, Steps
<1>27. CASE UNCHANGED vars
  BY <1>27 DEF vars, process, secrets, agents, flow, Silenced, Unloads, Removing, Managed, HostOK, Consistent
<1> QED
  BY <1>1, <1>2, <1>3, <1>4, <1>5, <1>6, <1>7, <1>8, <1>9, <1>10, <1>11, <1>12, <1>13, <1>14, <1>15, <1>16, <1>17, <1>18, <1>19, <1>20, <1>21, <1>22, <1>23, <1>24, <1>25, <1>26, <1>27 DEF Next

LEMMA ClearedStays ==
    ASSUME HostOK, DiskOK, VaultOK, SecretsOK, TodoOK, FlowOK, Consistent, Planned, Cleared, [Next]_vars
    PROVE  Cleared'
<1>1. CASE EnforceStartupBackoff
  BY <1>1 DEF EnforceStartupBackoff, secrets, agents, flow, MayStart, Cleared, Removing, Managed, HostOK, Consistent
<1>2. CASE BackoffEnds
  BY <1>2 DEF BackoffEnds, secrets, agents, flow, Cleared, Removing, Managed, HostOK, Consistent
<1>3. CASE Tripwire
  BY <1>3 DEF Tripwire, Gone, secrets, agents, flow, Cleared, Removing, Managed, HostOK, Consistent
<1>4. CASE HostDies
  BY <1>4 DEF HostDies, Fault, Gone, secrets, agents, flow, Cleared, Removing, Managed, HostOK, Consistent
<1>5. CASE Running
  BY <1>5 DEF Running, secrets, agents, flow, Cleared, Removing, Managed, HostOK, Consistent
<1>6. CASE HourPasses
  BY <1>6 DEF HourPasses, secrets, agents, flow, Cleared, Removing, Managed, HostOK, Consistent
<1>7. CASE \E a \in Agents : BeginSpawn(a)
  BY <1>7 DEF BeginSpawn, secrets, agents, flow, Cleared, Removing, Managed, HostOK, Consistent
<1>8. CASE \E a \in Agents : DeleteOnecliAgent(a)
  BY <1>8, DoneIs, AgentsApart DEF DeleteOnecliAgent, process, secrets, agents, flow, Fault, Misses, Cleared, Removing, Managed, HostOK, Consistent, Paths, ServicePaths, DataPaths, RuntimePaths, Steps
<1>9. CASE EndSpawn
  BY <1>9 DEF EndSpawn, secrets, agents, flow, Cleared, Removing, Managed, HostOK, Consistent
<1>10. CASE ContainerExits
  BY <1>10 DEF ContainerExits, secrets, agents, flow, Cleared, Removing, Managed, HostOK, Consistent
<1>11. CASE Stop
  BY <1>11 DEF Stop, secrets, agents, flow, Cleared, Removing, Managed, HostOK, Consistent
<1>12. CASE Shutdown
  BY <1>12 DEF Shutdown, secrets, agents, flow, Cleared, Removing, Managed, HostOK, Consistent
<1>13. CASE Scan
  <2> PICK r \in BOOLEAN, v \in BOOLEAN : inv' = ScanInstall(r, v)
    BY <1>13 DEF Scan
  <2>1. inv'.env = (env # 0)
    BY ScanIs DEF HostOK
  <2> QED
    BY <1>13, <2>1 DEF Scan, Cleared, Removing, secrets
<1>14. CASE AssumeYes
  BY <1>14 DEF AssumeYes, process, secrets, agents, flow, Cleared, Removing, Managed, HostOK, Consistent
<1>15. CASE Cancel
  BY <1>15 DEF Cancel, process, secrets, agents, flow, Cleared, Removing, Managed, HostOK, Consistent
<1>16. CASE BuildRemovalPlan
  BY <1>16, AgentsApart DEF BuildRemovalPlan, process, secrets, agents, flow, Cleared, Removing, Managed, HostOK, Consistent, Plan, ServicePlan, DataPlan, UserPlan, ResolveOnecliDeletions, FlowOK, Inventory, Paths, ServicePaths, DataPaths, RuntimePaths, Steps
<1>17. CASE \E g \in Groups, delete \in BOOLEAN : ConfirmGroup(g, delete)
  BY <1>17 DEF ConfirmGroup, Answer, process, secrets, agents, flow, Cleared, Removing, Managed, HostOK, Consistent
<1>18. CASE \E g \in Groups, delete \in BOOLEAN : DecideOnecli(g, delete)
  BY <1>18 DEF DecideOnecli, Answer, process, secrets, agents, flow, Cleared, Removing, Managed, HostOK, Consistent
<1>19. CASE UnloadService
  BY <1>19, DoneIs DEF UnloadService, secrets, agents, flow, Fault, Misses, Cleared, Removing, Managed, HostOK, Consistent, Planned, Plan, DataPlan, Paths, ServicePaths, DataPaths, RuntimePaths, Steps
<1>20. CASE RemoveContainers
  BY <1>20, DoneIs DEF RemoveContainers, secrets, agents, flow, Fault, Misses, Cleared, Removing, Managed, HostOK, Consistent, Paths, ServicePaths, DataPaths, RuntimePaths, Steps
<1>21. CASE RemoveImage
  BY <1>21, DoneIs DEF RemoveImage, process, secrets, agents, flow, Misses, Cleared, Removing, Managed, HostOK, Consistent
<1>22. CASE BackupEnv
  BY <1>22, DoneIs DEF BackupEnv, process, secrets, agents, flow, Fault, Misses, Cleared, Removing, Managed, HostOK, Consistent, Paths, ServicePaths, DataPaths, RuntimePaths, Steps
<1>23. CASE Interrupted
  BY <1>23 DEF Interrupted, process, secrets, agents, flow, Fault, Cleared, Removing, Managed, HostOK, Consistent
<1>24. CASE Reinstall
  BY <1>24 DEF Reinstall, process, secrets, agents, flow, Cleared, Removing, Managed, HostOK, Consistent
<1>25. CASE \E x \in Steps : SignalHost(x)
  BY <1>25, DoneIs DEF SignalHost, secrets, agents, flow, Signalled, Cleared, Removing, Managed, HostOK, Consistent, Paths, ServicePaths, DataPaths, RuntimePaths, Steps
<1>26. CASE \E x \in Steps : DeletePath(x)
  BY <1>26, DoneIs DEF DeletePath, secrets, agents, flow, Fault, Misses, Cleared, Removing, Managed, HostOK, Consistent, Paths, ServicePaths, DataPaths, RuntimePaths, Steps
<1>27. CASE UNCHANGED vars
  BY <1>27 DEF vars, process, secrets, agents, flow, Cleared, Removing, Managed, HostOK, Consistent
<1> QED
  BY <1>1, <1>2, <1>3, <1>4, <1>5, <1>6, <1>7, <1>8, <1>9, <1>10, <1>11, <1>12, <1>13, <1>14, <1>15, <1>16, <1>17, <1>18, <1>19, <1>20, <1>21, <1>22, <1>23, <1>24, <1>25, <1>26, <1>27 DEF Next

LEMMA AccountedStays ==
    ASSUME VaultOK, TodoOK, FlowOK, Accounted, [Next]_vars
    PROVE  Accounted'
<1>1. CASE EnforceStartupBackoff
  BY <1>1 DEF EnforceStartupBackoff, secrets, agents, flow, MayStart, Accounted, VaultOK, Agents
<1>2. CASE BackoffEnds
  BY <1>2 DEF BackoffEnds, secrets, agents, flow, Accounted, VaultOK, Agents
<1>3. CASE Tripwire
  BY <1>3 DEF Tripwire, Gone, secrets, agents, flow, Accounted, VaultOK, Agents
<1>4. CASE HostDies
  BY <1>4 DEF HostDies, Fault, Gone, secrets, agents, flow, Accounted, VaultOK, Agents
<1>5. CASE Running
  BY <1>5 DEF Running, secrets, agents, flow, Accounted, VaultOK, Agents
<1>6. CASE HourPasses
  BY <1>6 DEF HourPasses, secrets, agents, flow, Accounted, VaultOK, Agents
<1>7. CASE \E a \in Agents : BeginSpawn(a)
  BY <1>7 DEF BeginSpawn, secrets, agents, flow, Accounted, VaultOK, Agents
<1>8. CASE \E a \in Agents : DeleteOnecliAgent(a)
  BY <1>8, DoneIs, Places DEF DeleteOnecliAgent, process, secrets, agents, flow, Fault, Misses, Accounted, VaultOK, Agents, Paths, ServicePaths, DataPaths, RuntimePaths, Steps
<1>9. CASE EndSpawn
  BY <1>9 DEF EndSpawn, secrets, agents, flow, Accounted, VaultOK, Agents
<1>10. CASE ContainerExits
  BY <1>10 DEF ContainerExits, secrets, agents, flow, Accounted, VaultOK, Agents
<1>11. CASE Stop
  BY <1>11 DEF Stop, secrets, agents, flow, Accounted, VaultOK, Agents
<1>12. CASE Shutdown
  BY <1>12 DEF Shutdown, secrets, agents, flow, Accounted, VaultOK, Agents
<1>13. CASE Scan
  <2>1. PICK runtimeOk, vaultOk \in BOOLEAN :
            /\ inv' = ScanInstall(runtimeOk, vaultOk)
            /\ excused' = IF db /\ vaultOk THEN {} ELSE own \intersect vault
    BY <1>13 DEF Scan
  <2>2. db /\ vaultOk => inv'.mine = own \intersect vault
    BY <2>1 DEF ScanInstall, SplitVaultAgents, ListVaultAgents, ReadAgentGroupIds
  <2>3. own' = own /\ vault' = vault /\ phase' = "asking"
    BY <1>13 DEF Scan, agents
  <2> QED
    BY <2>1, <2>2, <2>3 DEF Accounted
<1>14. CASE AssumeYes
  BY <1>14 DEF AssumeYes, process, secrets, agents, flow, Accounted, VaultOK, Agents
<1>15. CASE Cancel
  BY <1>15 DEF Cancel, process, secrets, agents, flow, Accounted, VaultOK, Agents
<1>16. CASE BuildRemovalPlan
  <2>1. "mine" \in answers => inv.mine \subseteq todo'
    BY <1>16 DEF BuildRemovalPlan, Plan, ResolveOnecliDeletions
  <2>2. phase = "asking" /\ phase' # "asking" /\ own' = own /\ vault' = vault /\ inv' = inv
    BY <1>16 DEF BuildRemovalPlan, agents
  <2>3. excused' = IF "mine" \in answers THEN excused ELSE excused \union inv.mine
    BY <1>16 DEF BuildRemovalPlan
  <2> QED
    BY <2>1, <2>2, <2>3 DEF Accounted
<1>17. CASE \E g \in Groups, delete \in BOOLEAN : ConfirmGroup(g, delete)
  BY <1>17 DEF ConfirmGroup, Answer, process, secrets, agents, flow, Accounted, VaultOK, Agents
<1>18. CASE \E g \in Groups, delete \in BOOLEAN : DecideOnecli(g, delete)
  BY <1>18 DEF DecideOnecli, Answer, process, secrets, agents, flow, Accounted, VaultOK, Agents
<1>19. CASE UnloadService
  BY <1>19, DoneIs, Places DEF UnloadService, secrets, agents, flow, Fault, Misses, Accounted, VaultOK, Agents, Paths, ServicePaths, DataPaths, RuntimePaths, Steps
<1>20. CASE RemoveContainers
  BY <1>20, DoneIs, Places DEF RemoveContainers, secrets, agents, flow, Fault, Misses, Accounted, VaultOK, Agents, Paths, ServicePaths, DataPaths, RuntimePaths, Steps
<1>21. CASE RemoveImage
  BY <1>21, DoneIs, Places DEF RemoveImage, process, secrets, agents, flow, Misses, Accounted, VaultOK, Agents, Paths, ServicePaths, DataPaths, RuntimePaths, Steps
<1>22. CASE BackupEnv
  BY <1>22, DoneIs, Places DEF BackupEnv, process, secrets, agents, flow, Fault, Misses, Accounted, VaultOK, Agents, Paths, ServicePaths, DataPaths, RuntimePaths, Steps
<1>23. CASE Interrupted
  BY <1>23 DEF Interrupted, process, secrets, agents, flow, Fault, Accounted, VaultOK, Agents
<1>24. CASE Reinstall
  BY <1>24 DEF Reinstall, process, secrets, agents, flow, Accounted, VaultOK, Agents
<1>25. CASE \E x \in Steps : SignalHost(x)
  BY <1>25, DoneIs, Places DEF SignalHost, secrets, agents, flow, Signalled, Accounted, VaultOK, Agents, Paths, ServicePaths, DataPaths, RuntimePaths, Steps
<1>26. CASE \E x \in Steps : DeletePath(x)
  BY <1>26, DoneIs, Places DEF DeletePath, secrets, agents, flow, Fault, Misses, Accounted, VaultOK, Agents, Paths, ServicePaths, DataPaths, RuntimePaths, Steps
<1>27. CASE UNCHANGED vars
  BY <1>27 DEF vars, process, secrets, agents, flow, Accounted, VaultOK, Agents
<1> QED
  BY <1>1, <1>2, <1>3, <1>4, <1>5, <1>6, <1>7, <1>8, <1>9, <1>10, <1>11, <1>12, <1>13, <1>14, <1>15, <1>16, <1>17, <1>18, <1>19, <1>20, <1>21, <1>22, <1>23, <1>24, <1>25, <1>26, <1>27 DEF Next

LEMMA StaysNotOrphaned ==
    ASSUME VaultOK, TodoOK, FlowOK, Accounted, NotOrphaned, [Next]_vars
    PROVE  NotOrphaned'
<1>1. CASE EnforceStartupBackoff
  BY <1>1 DEF EnforceStartupBackoff, secrets, agents, flow, MayStart, NotOrphaned, VaultOK
<1>2. CASE BackoffEnds
  BY <1>2 DEF BackoffEnds, secrets, agents, flow, NotOrphaned, VaultOK
<1>3. CASE Tripwire
  BY <1>3 DEF Tripwire, Gone, secrets, agents, flow, NotOrphaned, VaultOK
<1>4. CASE HostDies
  BY <1>4 DEF HostDies, Fault, Gone, secrets, agents, flow, NotOrphaned, VaultOK
<1>5. CASE Running
  BY <1>5 DEF Running, secrets, agents, flow, NotOrphaned, VaultOK
<1>6. CASE HourPasses
  BY <1>6 DEF HourPasses, secrets, agents, flow, NotOrphaned, VaultOK
<1>7. CASE \E a \in Agents : BeginSpawn(a)
  BY <1>7 DEF BeginSpawn, secrets, agents, flow, NotOrphaned, VaultOK
<1>8. CASE \E a \in Agents : DeleteOnecliAgent(a)
  BY <1>8, DoneIs DEF DeleteOnecliAgent, process, secrets, agents, flow, Fault, Misses, NotOrphaned, VaultOK
<1>9. CASE EndSpawn
  BY <1>9 DEF EndSpawn, secrets, agents, flow, NotOrphaned, VaultOK
<1>10. CASE ContainerExits
  BY <1>10 DEF ContainerExits, secrets, agents, flow, NotOrphaned, VaultOK
<1>11. CASE Stop
  BY <1>11 DEF Stop, secrets, agents, flow, NotOrphaned, VaultOK
<1>12. CASE Shutdown
  BY <1>12 DEF Shutdown, secrets, agents, flow, NotOrphaned, VaultOK
<1>13. CASE Scan
  BY <1>13 DEF Scan, process, secrets, agents, flow, Fault, NotOrphaned, VaultOK
<1>14. CASE AssumeYes
  BY <1>14 DEF AssumeYes, process, secrets, agents, flow, NotOrphaned, VaultOK
<1>15. CASE Cancel
  BY <1>15 DEF Cancel, process, secrets, agents, flow, NotOrphaned, VaultOK
<1>16. CASE BuildRemovalPlan
  BY <1>16 DEF BuildRemovalPlan, process, secrets, agents, flow, NotOrphaned, VaultOK
<1>17. CASE \E g \in Groups, delete \in BOOLEAN : ConfirmGroup(g, delete)
  BY <1>17 DEF ConfirmGroup, Answer, process, secrets, agents, flow, NotOrphaned, VaultOK
<1>18. CASE \E g \in Groups, delete \in BOOLEAN : DecideOnecli(g, delete)
  BY <1>18 DEF DecideOnecli, Answer, process, secrets, agents, flow, NotOrphaned, VaultOK
<1>19. CASE UnloadService
  BY <1>19, DoneIs DEF UnloadService, secrets, agents, flow, Fault, Misses, NotOrphaned, VaultOK
<1>20. CASE RemoveContainers
  BY <1>20, DoneIs DEF RemoveContainers, secrets, agents, flow, Fault, Misses, NotOrphaned, VaultOK
<1>21. CASE RemoveImage
  BY <1>21, DoneIs DEF RemoveImage, process, secrets, agents, flow, Misses, NotOrphaned, VaultOK
<1>22. CASE BackupEnv
  BY <1>22, DoneIs DEF BackupEnv, process, secrets, agents, flow, Fault, Misses, NotOrphaned, VaultOK
<1>23. CASE Interrupted
  BY <1>23 DEF Interrupted, process, secrets, agents, flow, Fault, NotOrphaned, VaultOK
<1>24. CASE Reinstall
  BY <1>24 DEF Reinstall, process, secrets, agents, flow, NotOrphaned, VaultOK
<1>25. CASE \E x \in Steps : SignalHost(x)
  BY <1>25, DoneIs DEF SignalHost, secrets, agents, flow, Signalled, NotOrphaned, VaultOK
<1>26. CASE \E x \in Steps : DeletePath(x)
  BY <1>26, DoneIs DEF DeletePath, secrets, agents, flow, Fault, Misses, NotOrphaned, VaultOK, Accounted, Agents
<1>27. CASE UNCHANGED vars
  BY <1>27 DEF vars, process, secrets, agents, flow, NotOrphaned, VaultOK
<1> QED
  BY <1>1, <1>2, <1>3, <1>4, <1>5, <1>6, <1>7, <1>8, <1>9, <1>10, <1>11, <1>12, <1>13, <1>14, <1>15, <1>16, <1>17, <1>18, <1>19, <1>20, <1>21, <1>22, <1>23, <1>24, <1>25, <1>26, <1>27 DEF Next

(* The uninstaller leaves nothing behind and takes nothing else with it,     *)
(* whatever runs, restarts and fails meanwhile (IInv).                       *)
LEMMA StepOK == IInv /\ [Next]_vars => IInv'
<1> SUFFICES ASSUME IInv, [Next]_vars PROVE IInv'
  OBVIOUS
<1>t. HostOK /\ DiskOK /\ SecretsOK /\ VaultOK /\ FlowOK /\ TodoOK /\ CountersOK
  BY Parts DEF IInv
<1>i. /\ SecretsKept /\ NotOrphaned /\ BreakerFair
      /\ Consistent /\ Planned /\ Unloaded /\ Halted /\ Silenced /\ Cleared /\ Accounted
  BY DEF IInv
<1>1. TypeOK'
  BY <1>t, <1>i, HostStays, DiskStays, SecretsStay, VaultStays, FlowStays, TodoStays, CountersStay, PartsNext
<1>2. SecretsKept' /\ BreakerFair' /\ Consistent' /\ NotOrphaned'
  BY <1>t, <1>i, SecretsAreKept, BreakerStaysFair, ConsistentStays, StaysNotOrphaned
<1>3. Planned' /\ Unloaded' /\ Halted' /\ Silenced' /\ Cleared' /\ Accounted'
  BY <1>t, <1>i, PlannedStays, UnloadedStays, HaltedStays, SilencedStays, ClearedStays, AccountedStays
<1>4. StaysStopped'
  BY <1>3 DEF StaysStopped, Silenced, Planned, Removing
<1>5. Complete'
  BY <1>3 DEF Complete, Cleared, Planned, Removing
<1> QED
  BY <1>1, <1>2, <1>3, <1>4, <1>5 DEF IInv

(* Whatever was chosen is removed or known to have failed, what was stopped  *)
(* stays stopped, no secrets are lost, no agent of this copy is orphaned and *)
(* the breaker delays only after failed starts (IInv).                       *)
THEOREM LifecycleInvariance == Spec => []IInv
<1>1. Init => IInv
  BY InitOK
<1>2. IInv /\ [Next]_vars => IInv'
  BY StepOK
<1> QED
  BY <1>1, <1>2, PTL DEF Spec

LEMMA AsksFirst ==
    ASSUME HostOK, DiskOK, VaultOK, SecretsOK, FlowOK, TodoOK, Planned, [Next]_vars
    PROVE  AskedFirst
<1>1. CASE EnforceStartupBackoff
  BY <1>1 DEF EnforceStartupBackoff, secrets, agents, flow, MayStart, AskedFirst
<1>2. CASE BackoffEnds
  BY <1>2 DEF BackoffEnds, secrets, agents, flow, AskedFirst
<1>3. CASE Tripwire
  BY <1>3 DEF Tripwire, Gone, secrets, agents, flow, AskedFirst
<1>4. CASE HostDies
  BY <1>4 DEF HostDies, Fault, Gone, secrets, agents, flow, AskedFirst
<1>5. CASE Running
  BY <1>5 DEF Running, secrets, agents, flow, AskedFirst
<1>6. CASE HourPasses
  BY <1>6 DEF HourPasses, secrets, agents, flow, AskedFirst
<1>7. CASE \E a \in Agents : BeginSpawn(a)
  BY <1>7 DEF BeginSpawn, secrets, agents, flow, AskedFirst
<1>8. CASE \E a \in Agents : DeleteOnecliAgent(a)
  BY <1>8, DoneIs, PlanIs, LifecycleAssumption DEF DeleteOnecliAgent, process, secrets, agents, flow, Fault, Misses, AskedFirst, Planned, ResolveOnecliDeletions
<1>9. CASE EndSpawn
  BY <1>9 DEF EndSpawn, secrets, agents, flow, AskedFirst
<1>10. CASE ContainerExits
  BY <1>10 DEF ContainerExits, secrets, agents, flow, AskedFirst
<1>11. CASE Stop
  BY <1>11 DEF Stop, secrets, agents, flow, AskedFirst
<1>12. CASE Shutdown
  BY <1>12 DEF Shutdown, secrets, agents, flow, AskedFirst
<1>13. CASE Scan
  BY <1>13 DEF Scan, process, secrets, agents, flow, Fault, AskedFirst
<1>14. CASE AssumeYes
  BY <1>14 DEF AssumeYes, process, secrets, agents, flow, AskedFirst
<1>15. CASE Cancel
  BY <1>15 DEF Cancel, process, secrets, agents, flow, AskedFirst
<1>16. CASE BuildRemovalPlan
  BY <1>16 DEF BuildRemovalPlan, process, secrets, agents, flow, AskedFirst
<1>17. CASE \E g \in Groups, delete \in BOOLEAN : ConfirmGroup(g, delete)
  BY <1>17 DEF ConfirmGroup, Answer, process, secrets, agents, flow, AskedFirst
<1>18. CASE \E g \in Groups, delete \in BOOLEAN : DecideOnecli(g, delete)
  BY <1>18 DEF DecideOnecli, Answer, process, secrets, agents, flow, AskedFirst
<1>19. CASE UnloadService
  BY <1>19, DoneIs, PlanGroups DEF UnloadService, secrets, agents, flow, Fault, Misses, AskedFirst, Planned, Paths, ServicePaths
<1>20. CASE RemoveContainers
  BY <1>20, DoneIs DEF RemoveContainers, secrets, agents, flow, Fault, Misses, AskedFirst
<1>21. CASE RemoveImage
  BY <1>21, DoneIs, PlanGroups DEF RemoveImage, process, secrets, agents, flow, Misses, AskedFirst, Planned, Paths, ServicePaths
<1>22. CASE BackupEnv
  BY <1>22, DoneIs, PlanGroups DEF BackupEnv, process, secrets, agents, flow, Fault, Misses, AskedFirst, Planned
<1>23. CASE Interrupted
  BY <1>23 DEF Interrupted, process, secrets, agents, flow, Fault, AskedFirst
<1>24. CASE Reinstall
  BY <1>24 DEF Reinstall, process, secrets, agents, flow, AskedFirst
<1>25. CASE \E x \in Steps : SignalHost(x)
  BY <1>25, DoneIs DEF SignalHost, secrets, agents, flow, Signalled, AskedFirst
<1>26. CASE \E x \in Steps : DeletePath(x)
  BY <1>26, DoneIs, PlanGroups DEF DeletePath, secrets, agents, flow, Fault, Misses, AskedFirst, Planned, DiskOK
<1>27. CASE UNCHANGED vars
  BY <1>27 DEF vars, process, secrets, agents, flow, AskedFirst
<1> QED
  BY <1>1, <1>2, <1>3, <1>4, <1>5, <1>6, <1>7, <1>8, <1>9, <1>10, <1>11, <1>12, <1>13, <1>14, <1>15, <1>16, <1>17, <1>18, <1>19, <1>20, <1>21, <1>22, <1>23, <1>24, <1>25, <1>26, <1>27 DEF Next

LEMMA StopsFirst ==
    ASSUME HostOK, DiskOK, FlowOK, TodoOK, Unloaded, Halted, [Next]_vars
    PROVE  StoppedFirst
<1>1. CASE EnforceStartupBackoff
  BY <1>1 DEF EnforceStartupBackoff, secrets, agents, flow, MayStart, StoppedFirst
<1>2. CASE BackoffEnds
  BY <1>2 DEF BackoffEnds, secrets, agents, flow, StoppedFirst
<1>3. CASE Tripwire
  BY <1>3 DEF Tripwire, Gone, secrets, agents, flow, StoppedFirst
<1>4. CASE HostDies
  BY <1>4 DEF HostDies, Fault, Gone, secrets, agents, flow, StoppedFirst
<1>5. CASE Running
  BY <1>5 DEF Running, secrets, agents, flow, StoppedFirst
<1>6. CASE HourPasses
  BY <1>6 DEF HourPasses, secrets, agents, flow, StoppedFirst
<1>7. CASE \E a \in Agents : BeginSpawn(a)
  BY <1>7 DEF BeginSpawn, secrets, agents, flow, StoppedFirst
<1>8. CASE \E a \in Agents : DeleteOnecliAgent(a)
  BY <1>8, DoneIs DEF DeleteOnecliAgent, process, secrets, agents, flow, Fault, Misses, StoppedFirst
<1>9. CASE EndSpawn
  BY <1>9 DEF EndSpawn, secrets, agents, flow, StoppedFirst
<1>10. CASE ContainerExits
  BY <1>10 DEF ContainerExits, secrets, agents, flow, StoppedFirst
<1>11. CASE Stop
  BY <1>11 DEF Stop, secrets, agents, flow, StoppedFirst
<1>12. CASE Shutdown
  BY <1>12 DEF Shutdown, secrets, agents, flow, StoppedFirst
<1>13. CASE Scan
  BY <1>13 DEF Scan, process, secrets, agents, flow, Fault, StoppedFirst
<1>14. CASE AssumeYes
  BY <1>14 DEF AssumeYes, process, secrets, agents, flow, StoppedFirst
<1>15. CASE Cancel
  BY <1>15 DEF Cancel, process, secrets, agents, flow, StoppedFirst
<1>16. CASE BuildRemovalPlan
  BY <1>16 DEF BuildRemovalPlan, process, secrets, agents, flow, StoppedFirst
<1>17. CASE \E g \in Groups, delete \in BOOLEAN : ConfirmGroup(g, delete)
  BY <1>17 DEF ConfirmGroup, Answer, process, secrets, agents, flow, StoppedFirst
<1>18. CASE \E g \in Groups, delete \in BOOLEAN : DecideOnecli(g, delete)
  BY <1>18 DEF DecideOnecli, Answer, process, secrets, agents, flow, StoppedFirst
<1>19. CASE UnloadService
  BY <1>19, DoneIs DEF UnloadService, secrets, agents, flow, Fault, Misses, StoppedFirst
<1>20. CASE RemoveContainers
  BY <1>20, DoneIs DEF RemoveContainers, secrets, agents, flow, Fault, Misses, StoppedFirst
<1>21. CASE RemoveImage
  BY <1>21, DoneIs DEF RemoveImage, process, secrets, agents, flow, Misses, StoppedFirst
<1>22. CASE BackupEnv
  BY <1>22, DoneIs DEF BackupEnv, process, secrets, agents, flow, Fault, Misses, StoppedFirst
<1>23. CASE Interrupted
  BY <1>23 DEF Interrupted, process, secrets, agents, flow, Fault, StoppedFirst
<1>24. CASE Reinstall
  BY <1>24 DEF Reinstall, process, secrets, agents, flow, StoppedFirst
<1>25. CASE \E x \in Steps : SignalHost(x)
  BY <1>25, DoneIs DEF SignalHost, secrets, agents, flow, Signalled, StoppedFirst
<1>26. CASE \E x \in Steps : DeletePath(x)
  BY <1>26, DoneIs DEF DeletePath, secrets, agents, flow, Fault, Misses, StoppedFirst, Unloads, Unloaded, Halted, Removing, Managed
<1>27. CASE UNCHANGED vars
  BY <1>27 DEF vars, process, secrets, agents, flow, StoppedFirst
<1> QED
  BY <1>1, <1>2, <1>3, <1>4, <1>5, <1>6, <1>7, <1>8, <1>9, <1>10, <1>11, <1>12, <1>13, <1>14, <1>15, <1>16, <1>17, <1>18, <1>19, <1>20, <1>21, <1>22, <1>23, <1>24, <1>25, <1>26, <1>27 DEF Next

(* Nothing is removed before it was asked for, agents of other copies only   *)
(* by an explicit answer, and the database never under a running host.       *)
THEOREM RemovalIsOrderly == Spec => Orderly
<1>1. IInv /\ [Next]_vars => [AskedFirst /\ StoppedFirst]_vars
  BY Parts, AsksFirst, StopsFirst DEF IInv
<1> QED
  BY <1>1, LifecycleInvariance, PTL DEF Spec, Orderly
=============================================================================
