---------------------------- MODULE SessionQueue ----------------------------
(***************************************************************************)
(* The life of the inbound rows of ONE session: the router writes them     *)
(* into inbound.db, the container-runner starts the container, the         *)
(* agent-runner's poll loop claims rows in processing_ack (outbound.db)    *)
(* and runs queries, and the host sweep mirrors acks, kills stuck          *)
(* containers and retries what they left behind.                           *)
(*                                                                         *)
(* Two processes run concurrently.  The host is one event loop: a host     *)
(* action below is the code between two awaits.  The container is another  *)
(* OS process: any of its steps may fall between two host actions, and it  *)
(* may die at any of them.  The databases survive both.                    *)
(*                                                                         *)
(* Sessions share nothing the code of this module reads, so one session    *)
(* is modelled.  Time is abstract: `deferred` is "process_after lies in    *)
(* the future", `silence` and `heartbeat` hold what the sweep's            *)
(* comparisons of timestamps can tell apart.                               *)
(***************************************************************************)
EXTENDS Naturals, Sequences, FiniteSets

CONSTANTS
    Msgs,         \* ids of the rows that can be written to messages_in
    Trigger,      \* rows with trigger = 1; the others only accumulate
    OnWake,       \* rows with on_wake = 1: for a container's first poll only
    Commands,     \* rows isRunnerCommand recognises as slash commands
    Clears,       \* those the poll loop answers itself (/clear)
    Scripted,     \* task rows with a pre-task script
    MaxTries,     \* host-sweep's MAX_TRIES
    MaxPerPrompt, \* maxMessagesPerPrompt: LIMIT of getPendingMessages
    MaxFaults     \* bound on crashes, spawn failures, restarts, hangs, breaches

ASSUME RowsAssumption ==
    /\ IsFiniteSet(Msgs)
    /\ Trigger \subseteq Msgs
    /\ OnWake \subseteq Trigger
    /\ Clears \subseteq Commands
    /\ Commands \subseteq Msgs \ (OnWake \cup Scripted)
    /\ Scripted \subseteq Trigger \ OnWake

ASSUME LimitsAssumption ==
    /\ MaxTries \in Nat
    /\ MaxPerPrompt \in Nat \ {0}
    /\ MaxFaults \in Nat

VARIABLES
    \* messages_in of inbound.db, written by the host alone
    status, tries, deferred, seq,
    \* processing_ack of outbound.db and the heartbeat file
    ack,        \* status of the row's processing_ack, "none" when there is none
    silence,    \* of a claim: fresh, overdue (too old, no heartbeat since), seen
    heartbeat,  \* none (no file), fresh, old (beyond ABSOLUTE_CEILING_MS)
    reports,    \* undelivered fallback_report rows: the message ids each one names
    \* the host's memory
    up,         \* the host process runs
    active,     \* activeContainers has the session
    waking,     \* wakePromises has the session
    respawn,    \* the onExit of killContainer: none, wake, clear (claims, then wake)
    sweep,      \* where sweepSession stands; woke, alive, gone: at its fallback hook
    breached,   \* rows being announced as failed by the response guarantee
    reported,   \* the same by handleFallbackReport, for the oldest of `reports`
    \* the container's memory
    phase,      \* where the poll loop stands; dead: there is no process
    first,      \* isFirstPoll
    batch,      \* processingIds, the initial batch of the query
    prompts,    \* prompts given to the query and not answered, oldest first
    pushing,    \* follow-up rows claimed, their scripts being awaited
    late,       \* follow-up rows whose query ended during that await
    nudged,     \* unwrappedNudged
    \* not in the code
    answered,   \* history: rows whose answer the last sweep found in processing_ack
    faults      \* how many bounded faults have happened

inboundVars == <<status, tries, deferred, seq>>
outboundVars == <<ack, silence, heartbeat, reports>>
hostVars == <<up, active, waking, respawn, sweep, breached, reported>>
containerVars == <<phase, first, batch, prompts, pushing, late, nudged>>
vars == <<inboundVars, outboundVars, hostVars, containerVars, answered, faults>>

Done == {"completed", "script-skip:error"}
Terminal == {"completed", "failed"}

TypeOK ==
    /\ status \in [Msgs -> {"absent", "pending"} \cup Terminal]
    /\ tries \in [Msgs -> 0..MaxTries]
    /\ deferred \in [Msgs -> BOOLEAN]
    /\ seq \in [Msgs -> Nat]
    /\ ack \in [Msgs -> {"none", "processing"} \cup Done]
    /\ silence \in [Msgs -> {"fresh", "overdue", "seen"}]
    /\ heartbeat \in {"none", "fresh", "old"}
    /\ reports \in Seq(SUBSET Msgs)
    /\ up \in BOOLEAN
    /\ active \in BOOLEAN
    /\ waking \in BOOLEAN
    /\ respawn \in {"none", "wake", "clear"}
    /\ sweep \in {"idle", "waking", "woke", "alive", "gone", "sla", "cleanup", "kill"}
    /\ breached \subseteq Trigger
    /\ reported \subseteq Msgs
    /\ phase \in {"dead", "boot", "idle", "claimed", "scripts", "query", "dispatch", "drain"}
    /\ first \in BOOLEAN
    /\ batch \subseteq Msgs
    /\ prompts \in Seq(SUBSET Msgs)
    /\ pushing \subseteq Msgs
    /\ late \subseteq Msgs
    /\ nudged \in BOOLEAN
    /\ answered \subseteq Msgs
    /\ faults \in 0..MaxFaults

Init ==
    /\ status = [m \in Msgs |-> "absent"]
    /\ tries = [m \in Msgs |-> 0]
    /\ deferred = [m \in Msgs |-> FALSE]
    /\ seq = [m \in Msgs |-> 0]
    /\ ack = [m \in Msgs |-> "none"]
    /\ silence = [m \in Msgs |-> "fresh"]
    /\ heartbeat = "none"
    /\ reports = <<>>
    /\ up = TRUE
    /\ active = FALSE
    /\ waking = FALSE
    /\ respawn = "none"
    /\ sweep = "idle"
    /\ breached = {}
    /\ reported = {}
    /\ phase = "dead"
    /\ first = TRUE
    /\ batch = {}
    /\ prompts = <<>>
    /\ pushing = {}
    /\ late = {}
    /\ nudged = FALSE
    /\ answered = {}
    /\ faults = 0

Fault == faults < MaxFaults /\ faults' = faults + 1

-----------------------------------------------------------------------------
(* Rows                                                                    *)

Due(m) == status[m] = "pending" /\ ~deferred[m]

\* countDueMessages(inDb) > 0
WorkDue == \E m \in Trigger : Due(m)

\* The LIMIT clause: the newest rows of S.
Newest(S) == {m \in S : Cardinality({x \in S : seq[x] > seq[m]}) < MaxPerPrompt}

\* Mutant of GetPendingMessages: acked rows are not filtered out.
PendingWithoutAckFilter(isFirst) ==
    Newest({x \in Msgs : Due(x) /\ (x \notin OnWake \/ isFirst)})

\* Mutant of GetPendingMessages: the LIMIT also counts on_wake rows whose
\* first poll is over.
PendingBehindOnWake(isFirst) ==
    {m \in Newest({x \in Msgs : Due(x)}) : ack[m] = "none" /\ (m \notin OnWake \/ isFirst)}

\* The LIMIT is applied before the rows with an ack are filtered out.
GetPendingMessages(isFirst) ==
    {m \in Newest({x \in Msgs : Due(x) /\ (x \notin OnWake \/ isFirst)}) : ack[m] = "none"}

\* Mutant of Insert: an upsert.
InsertOrReplace(m, later) ==
    /\ status' = [status EXCEPT ![m] = "pending"]
    /\ deferred' = [deferred EXCEPT ![m] = later]
    /\ seq' = [seq EXCEPT ![m] = 1 + Cardinality({x \in Msgs : status[x] # "absent"})]
    /\ UNCHANGED tries

\* insertMessage; `later` says whether process_after lies in the future.
Insert(m, later) ==
    /\ status[m] = "absent"
    /\ status' = [status EXCEPT ![m] = "pending"]
    /\ deferred' = [deferred EXCEPT ![m] = later]
    /\ seq' = [seq EXCEPT ![m] = 1 + Cardinality({x \in Msgs : status[x] # "absent"})]
    /\ UNCHANGED tries

\* Claims of rows whose ack did not change keep their age, the others have none.
KeepAges ==
    silence' = [m \in Msgs |-> IF ack[m] = "processing" /\ ack'[m] = "processing"
                               THEN silence[m] ELSE "fresh"]

\* touchHeartbeat: the file is now newer than every claim.
TouchHeartbeat ==
    /\ heartbeat' = "fresh"
    /\ silence' = [m \in Msgs |-> IF ack'[m] = "processing" THEN "seen" ELSE "fresh"]

\* deleteOrphanProcessingClaims, clearStaleProcessingAcks
Unclaimed == [m \in Msgs |-> IF ack[m] = "processing" THEN "none" ELSE ack[m]]

SetAck(S, value) == [m \in Msgs |-> IF m \in S THEN value ELSE ack[m]]

-----------------------------------------------------------------------------
(* Host: writing rows, starting and stopping the container                 *)

\* Past the await of wakeContainer the rest of sweepSession runs on its own,
\* except while its hook waits for a notice to be delivered.
HostFree == up /\ (sweep \in {"idle", "waking"} \/ breached # {})

\* Mutant of WakeContainer: activeContainers is not asked.
WakeAlways == waking' = TRUE

\* wakeContainer: nothing when running, joins a spawn that is under way.
WakeContainer == waking' = (waking \/ ~active)

RouteInbound(m) ==
    /\ HostFree
    /\ m \notin OnWake \cup Scripted
    /\ Insert(m, FALSE)
    /\ IF m \in Trigger THEN WakeContainer ELSE UNCHANGED waking
    /\ UNCHANGED <<outboundVars, up, active, respawn, sweep, breached, reported, containerVars,
                   answered, faults>>

\* insertTask: no wake, the sweep finds the row when it is due.
InsertTask(m, later) ==
    /\ HostFree
    /\ m \in Scripted
    /\ Insert(m, later)
    /\ UNCHANGED <<outboundVars, hostVars, containerVars, answered, faults>>

\* Mutant of SpawnDone: the sweep goes on with the `alive` of before the wake.
SpawnDoneUnseen ==
    /\ HostFree /\ waking
    /\ waking' = FALSE
    /\ active' = TRUE
    /\ sweep' = IF sweep = "waking" THEN "gone" ELSE sweep
    /\ heartbeat' = "none"
    /\ phase' = "boot"
    /\ UNCHANGED <<inboundVars, ack, silence, reports, up, respawn, breached, reported, answered, faults,
                   first, batch, prompts, pushing, late, nudged>>

\* spawnContainer past its last await.
SpawnDone ==
    /\ HostFree /\ waking
    /\ waking' = FALSE
    /\ active' = TRUE
    /\ sweep' = IF sweep = "waking" THEN "woke" ELSE sweep
    /\ heartbeat' = "none"
    /\ phase' = "boot"
    /\ UNCHANGED <<inboundVars, ack, silence, reports, up, respawn, breached, reported, answered, faults,
                   first, batch, prompts, pushing, late, nudged>>

\* spawnContainer threw: wakeContainer answers false, nobody is told more.
SpawnFails ==
    /\ HostFree /\ waking /\ Fault
    /\ waking' = FALSE
    /\ sweep' = IF sweep = "waking" THEN "gone" ELSE sweep
    /\ UNCHANGED <<inboundVars, outboundVars, up, active, respawn, breached, reported, containerVars,
                   answered>>

ProcessGone ==
    /\ phase' = "dead"
    /\ first' = TRUE
    /\ batch' = {}
    /\ prompts' = <<>>
    /\ pushing' = {}
    /\ late' = {}
    /\ nudged' = FALSE

\* killContainer: `docker stop` returns when the process is gone; the map
\* entry stays until the close event.  Without an entry nothing is done,
\* and onExit is never called.
KillContainer(onExit) ==
    IF active
    THEN ProcessGone /\ respawn' = IF onExit = "none" THEN respawn ELSE onExit
    ELSE UNCHANGED <<containerVars, respawn>>

\* restartAgentGroupContainers with a wake message.
RestartWithMessage(m) ==
    /\ HostFree /\ active
    /\ m \in OnWake
    /\ Insert(m, FALSE)
    /\ KillContainer("wake")
    /\ UNCHANGED <<outboundVars, up, active, waking, sweep, breached, reported, answered, faults>>

\* handleFallbackReport is done at once with the oldest report.
ReportDelivered ==
    /\ reports # <<>> /\ reported = {}
    /\ reports' = Tail(reports)

\* restartAgentGroupContainers without one wakes again only for due work;
\* killAndWake always does, for a report too when the backup is already on.
RestartSilently ==
    /\ HostFree /\ active
    /\ \/ /\ Fault /\ UNCHANGED reports
          /\ KillContainer("wake") \/ KillContainer(IF WorkDue THEN "wake" ELSE "none")
       \/ ReportDelivered /\ KillContainer("wake") /\ UNCHANGED faults
    /\ UNCHANGED <<inboundVars, ack, silence, heartbeat, up, active, waking, sweep, breached, reported,
                   answered>>

\* The close handler of spawnContainer, then the registered onExit.
ContainerClose ==
    /\ HostFree /\ active /\ phase = "dead"
    /\ active' = FALSE
    /\ waking' = (waking \/ respawn # "none")
    /\ respawn' = "none"
    /\ ack' = IF respawn = "clear" THEN Unclaimed ELSE ack
    /\ KeepAges
    /\ UNCHANGED <<inboundVars, heartbeat, reports, up, sweep, breached, reported, containerVars,
                   answered, faults>>

HostCrash ==
    /\ up /\ Fault
    /\ up' = FALSE
    /\ active' = FALSE /\ waking' = FALSE /\ respawn' = "none"
    /\ sweep' = "idle" /\ breached' = {} /\ reported' = {}
    /\ UNCHANGED <<inboundVars, outboundVars, containerVars, answered>>

\* main: cleanupOrphans stops what the last host left running.
HostStart ==
    /\ ~up
    /\ up' = TRUE
    /\ ProcessGone
    /\ UNCHANGED <<inboundVars, outboundVars, active, waking, respawn, sweep, breached, reported,
                   answered, faults>>

-----------------------------------------------------------------------------
(* Host: sweepSession                                                      *)

\* syncProcessingAcks
Synced ==
    [m \in Msgs |-> IF status[m] \in Terminal THEN status[m]
                    ELSE IF ack[m] = "completed" THEN "completed"
                    ELSE IF ack[m] = "script-skip:error" THEN "failed"
                    ELSE status[m]]

Answered == {m \in Msgs : ack[m] \in Done}

\* Steps 1 and 2, up to the await of wakeContainer, or to the hook of 2.5.
SweepSync ==
    /\ up /\ sweep = "idle"
    /\ status' = Synced /\ answered' = Answered
    /\ LET due == \E m \in Trigger : status'[m] = "pending" /\ ~deferred[m]
       IN  IF due /\ ~active
           THEN sweep' = "waking" /\ waking' = TRUE
           ELSE sweep' = (IF active THEN "alive" ELSE "gone") /\ UNCHANGED waking
    /\ UNCHANGED <<tries, deferred, seq, outboundVars, up, active, respawn, breached, reported,
                   containerVars, faults>>

\* The hook of step 2.5 is over: on to step 3, step 4, or neither.
AfterHook ==
    IF sweep = "alive" THEN "sla" ELSE IF sweep = "gone" THEN "cleanup" ELSE "idle"

AtHook == up /\ sweep \in {"woke", "alive", "gone"} /\ breached = {}

\* Mutant of GuaranteeBreached: settled rows count as overdue too.
SettledBreached(S) ==
    /\ AtHook /\ Fault
    /\ S # {} /\ \A m \in S : status[m] # "absent"
    /\ breached' = S
    /\ UNCHANGED <<inboundVars, outboundVars, up, active, waking, respawn, sweep, reported,
                   containerVars, answered>>

\* The hook finds triggers beyond RESPONSE_GUARANTEE_MS and no provider is
\* left to switch to: the failure is announced ...
GuaranteeBreached(S) ==
    /\ AtHook /\ Fault
    /\ S # {} /\ \A m \in S : status[m] = "pending"
    /\ breached' = S
    /\ UNCHANGED <<inboundVars, outboundVars, up, active, waking, respawn, sweep, reported,
                   containerVars, answered>>

\* ... and then the rows read before are failed and the container killed.
\* (A double fault does the same without the await.)
FailBreached ==
    /\ breached # {}
    /\ status' = [m \in Msgs |-> IF m \in breached THEN "failed" ELSE status[m]]
    /\ KillContainer("none")
    /\ breached' = {}
    /\ sweep' = AfterHook
    /\ UNCHANGED <<tries, deferred, seq, outboundVars, up, active, waking, reported, answered, faults>>

\* handleFallbackReport on the oldest report, no provider to switch to: the
\* failure is announced, whatever the sweep and the containers do meanwhile ...
ReadReport ==
    /\ HostFree /\ reported = {} /\ reports # <<>>
    /\ reported' = Head(reports)
    /\ UNCHANGED <<inboundVars, outboundVars, up, active, waking, respawn, sweep, breached,
                   containerVars, answered, faults>>

\* ... and then the rows it names are failed, whatever became of them, the
\* container of that moment is killed and the report recorded as delivered.
FailReported ==
    /\ HostFree /\ reported # {}
    /\ status' = [m \in Msgs |-> IF m \in reported THEN "failed" ELSE status[m]]
    /\ KillContainer("none")
    /\ reported' = {}
    /\ reports' = Tail(reports)
    /\ UNCHANGED <<tries, deferred, seq, ack, silence, heartbeat, up, active, waking, sweep, breached,
                   answered, faults>>

\* enterFallback, restartOriginSession: from the hook, from the report of a
\* limit, or by command.  The row is written even when nothing runs.
EnterFallback(m) ==
    /\ m \in OnWake
    /\ \/ HostFree /\ UNCHANGED <<sweep, reports>>
       \/ HostFree /\ ReportDelivered /\ UNCHANGED sweep
       \/ /\ AtHook /\ \E x \in Trigger : status[x] = "pending"
          /\ sweep' = AfterHook /\ UNCHANGED reports
    /\ Insert(m, FALSE)
    /\ KillContainer("clear")
    /\ UNCHANGED <<ack, silence, heartbeat, up, active, waking, breached, reported, answered, faults>>

\* handleProbeTimeout, and the limit reports that name a probe: the probe's
\* row is completed whatever became of it.  A probe is abandoned once
\* (bumpRetry clears fallback_state.probing); a timeout counts as a fault.
AbandonProbe(m) ==
    /\ HostFree
    /\ \/ Fault /\ UNCHANGED reports
       \/ ReportDelivered /\ m \in Head(reports) /\ UNCHANGED faults
    /\ m \in OnWake /\ status[m] # "absent"
    /\ status' = [status EXCEPT ![m] = "completed"]
    /\ KillContainer("wake")
    /\ UNCHANGED <<tries, deferred, seq, ack, silence, heartbeat, up, active, waking, sweep, breached,
                   reported, answered>>

\* Nothing more to do in the tick that woke the container.
SweepWoke ==
    /\ up /\ sweep = "woke" /\ breached = {}
    /\ sweep' = "idle"
    /\ UNCHANGED <<inboundVars, outboundVars, up, active, waking, respawn, breached, reported,
                   containerVars, answered, faults>>

\* decideStuckAction says kill-ceiling or kill-claim.
Stuck ==
    \/ heartbeat = "old"
    \/ \E m \in Msgs : ack[m] = "processing" /\ silence[m] = "overdue"

\* Step 3, the decision.
SweepAlive ==
    /\ up /\ sweep \in {"alive", "sla"} /\ breached = {}
    /\ sweep' = IF Stuck THEN "kill" ELSE "idle"
    /\ UNCHANGED <<inboundVars, outboundVars, up, active, waking, respawn, breached, reported,
                   containerVars, answered, faults>>

\* Mutant of ResetStuckProcessingRows: gives up a try early.
ResetGivesUpEarly ==
    LET left == {m \in Msgs : ack[m] = "processing" /\ Due(m)}
        spent(m) == tries[m] + 1 >= MaxTries
    IN  /\ status' = [m \in Msgs |-> IF m \in left /\ spent(m) THEN "failed" ELSE status[m]]
        /\ tries' = [m \in Msgs |-> IF m \in left /\ ~spent(m) THEN tries[m] + 1 ELSE tries[m]]
        /\ deferred' = [m \in Msgs |-> (m \in left /\ ~spent(m)) \/ deferred[m]]
        /\ ack' = Unclaimed
        /\ KeepAges
        /\ UNCHANGED <<seq, heartbeat, reports>>

\* resetStuckProcessingRows
ResetStuckProcessingRows ==
    LET left == {m \in Msgs : ack[m] = "processing" /\ Due(m)}
        spent(m) == tries[m] >= MaxTries
    IN  /\ status' = [m \in Msgs |-> IF m \in left /\ spent(m) THEN "failed" ELSE status[m]]
        /\ tries' = [m \in Msgs |-> IF m \in left /\ ~spent(m) THEN tries[m] + 1 ELSE tries[m]]
        /\ deferred' = [m \in Msgs |-> (m \in left /\ ~spent(m)) \/ deferred[m]]
        /\ ack' = Unclaimed
        /\ KeepAges
        /\ UNCHANGED <<seq, heartbeat, reports>>

\* Mutant of SweepKill: the rows are reset under a running container.
SweepResetOnly ==
    /\ up /\ sweep = "kill"
    /\ ResetStuckProcessingRows
    /\ sweep' = "idle"
    /\ UNCHANGED <<up, active, waking, respawn, breached, reported, containerVars, answered, faults>>

\* Step 3, the kill: the container may have run on since the decision.
SweepKill ==
    /\ up /\ sweep = "kill"
    /\ KillContainer("none")
    /\ ResetStuckProcessingRows
    /\ sweep' = "idle"
    /\ UNCHANGED <<up, active, waking, breached, reported, answered, faults>>

\* Step 4: `alive` was false when it was read.
SweepGone ==
    /\ up /\ sweep \in {"gone", "cleanup"} /\ breached = {}
    /\ ResetStuckProcessingRows
    /\ sweep' = "idle"
    /\ UNCHANGED <<up, active, waking, respawn, breached, reported, containerVars, answered, faults>>

-----------------------------------------------------------------------------
(* Container: the poll loop                                                *)

\* Mutant of Boot: every ack is deleted.
BootClearsAll ==
    /\ phase = "boot"
    /\ ack' = [m \in Msgs |-> "none"]
    /\ KeepAges
    /\ phase' = "idle"
    /\ UNCHANGED <<inboundVars, heartbeat, reports, hostVars, answered, first, batch, prompts, pushing, late,
                   nudged, faults>>

\* clearStaleProcessingAcks
Boot ==
    /\ phase = "boot"
    /\ ack' = Unclaimed
    /\ KeepAges
    /\ phase' = "idle"
    /\ UNCHANGED <<inboundVars, heartbeat, reports, hostVars, answered, first, batch, prompts, pushing, late,
                   nudged, faults>>

\* One iteration of the outer loop, to markProcessing or to the next sleep.
Poll ==
    /\ phase = "idle"
    /\ first' = FALSE
    /\ LET rows == GetPendingMessages(first)
       IN  IF rows \cap Trigger # {}
           THEN /\ batch' = rows
                /\ ack' = SetAck(rows, "processing")
                /\ phase' = "claimed"
           ELSE UNCHANGED <<batch, ack, phase>>
    /\ KeepAges
    /\ UNCHANGED <<inboundVars, heartbeat, reports, hostVars, answered, prompts, pushing, late, nudged, faults>>

\* The loop over the batch that answers /clear itself.
HandleCommands ==
    /\ phase = "claimed"
    /\ ack' = SetAck(batch \cap Clears, "completed")
    /\ batch' = batch \ Clears
    /\ phase' = IF batch' = {} THEN "idle" ELSE "scripts"
    /\ KeepAges
    /\ UNCHANGED <<inboundVars, heartbeat, reports, hostVars, answered, first, prompts, pushing, late, nudged, faults>>

\* applyPreTaskScripts on the rows S, then markScriptSkipped: the scripts of
\* `gated` said not to wake the agent, those of `broken` failed.
RunScripts(S, gated, broken) ==
    /\ ack' = [m \in Msgs |-> IF m \in gated THEN "completed"
                              ELSE IF m \in broken THEN "script-skip:error" ELSE ack[m]]
    /\ IF S \cap Scripted = {} THEN KeepAges /\ UNCHANGED heartbeat ELSE TouchHeartbeat

\* What scripts of the rows S may come to.
Outcomes(S) ==
    {o \in (SUBSET (S \cap Scripted)) \X (SUBSET (S \cap Scripted)) : o[1] \cap o[2] = {}}

StartQuery ==
    /\ phase = "scripts"
    /\ \E o \in Outcomes(batch) :
         /\ RunScripts(batch, o[1], o[2])
         /\ LET keep == batch \ (o[1] \cup o[2])
            IN  /\ batch' = keep
                /\ prompts' = IF keep = {} THEN <<>> ELSE <<keep>>
                /\ phase' = IF keep = {} THEN "idle" ELSE "query"
    /\ nudged' = FALSE
    /\ UNCHANGED <<inboundVars, reports, hostVars, answered, first, pushing, late, faults>>

\* An event of the provider, at work on a prompt, that ends nothing.
QueryEvent ==
    /\ phase = "query" /\ prompts # <<>>
    /\ UNCHANGED ack
    /\ TouchHeartbeat
    /\ UNCHANGED <<inboundVars, reports, hostVars, answered, containerVars, faults>>

\* A result event: the initial batch is acked first ...
Result ==
    /\ phase = "query" /\ prompts # <<>>
    /\ ack' = SetAck(batch, "completed")
    /\ TouchHeartbeat
    /\ phase' = "dispatch"
    /\ UNCHANGED <<inboundVars, reports, hostVars, answered, first, batch, prompts, pushing, late, nudged, faults>>

\* ... and then its text is written to messages_out; text outside every
\* <message> block is not, and the agent is asked once to send it again.
DispatchResultText ==
    /\ phase = "dispatch"
    /\ phase' = "query"
    /\ \/ prompts' = Tail(prompts) /\ UNCHANGED nudged
       \/ ~nudged /\ nudged' = TRUE /\ UNCHANGED prompts
    /\ UNCHANGED <<inboundVars, outboundVars, hostVars, answered, first, batch, pushing, late, faults>>

\* The stream closes or throws anything but a usage limit: the batch is acked.
EndQuery ==
    /\ ack' = SetAck(batch, "completed")
    /\ KeepAges
    /\ phase' = "idle"
    /\ batch' = {} /\ prompts' = <<>> /\ pushing' = {}
    /\ late' = late \cup pushing
    /\ UNCHANGED <<inboundVars, heartbeat, reports, hostVars, answered, first, nudged, faults>>

QueryEnds == phase = "query" /\ EndQuery

\* The query is over or stands still, and the container waits to be killed.
FallSilent ==
    /\ phase = "query" /\ Fault
    /\ UNCHANGED ack
    /\ TouchHeartbeat
    /\ phase' = "drain"
    /\ pushing' = {}
    /\ late' = late \cup pushing
    /\ UNCHANGED <<inboundVars, hostVars, answered, first, batch, prompts, nudged>>

\* A usage limit: writeFallbackReport names the initial batch, acked or not.
LimitHit == FallSilent /\ reports' = Append(reports, batch)

\* The provider hangs without another event.
ProviderHangs == FallSilent /\ UNCHANGED reports

\* The follow-up poller finds a slash command: the stream is aborted.
FollowUpAbort ==
    /\ phase = "query" /\ pushing = {}
    /\ GetPendingMessages(FALSE) \cap Commands # {}
    /\ EndQuery

FollowUpClaim ==
    /\ phase = "query" /\ pushing = {}
    /\ LET rows == GetPendingMessages(FALSE)
       IN  /\ rows # {} /\ rows \cap Commands = {}
           /\ pushing' = rows
           /\ ack' = SetAck(rows, "processing")
    /\ KeepAges
    /\ UNCHANGED <<inboundVars, heartbeat, reports, hostVars, answered, phase, first, batch, prompts, late, nudged,
                   faults>>

\* The follow-up's scripts are done and the query is still open.
FollowUpPush ==
    /\ phase = "query" /\ pushing # {}
    /\ \E o \in Outcomes(pushing) :
         LET keep == pushing \ (o[1] \cup o[2])
         IN  /\ RunScripts(pushing, o[1] \cup keep, o[2])
             /\ IF keep = {}
                THEN UNCHANGED <<prompts, nudged>>
                ELSE prompts' = Append(prompts, keep) /\ nudged' = FALSE
    /\ pushing' = {}
    /\ UNCHANGED <<inboundVars, reports, hostVars, answered, phase, first, batch, late, faults>>

\* The same when its query is over: rows to keep are dropped, claimed.
FollowUpTooLate ==
    /\ phase \in {"idle", "claimed", "scripts", "query", "drain"} /\ late # {}
    /\ \E o \in Outcomes(late) : RunScripts(late, o[1], o[2])
    /\ late' = {}
    /\ UNCHANGED <<inboundVars, reports, hostVars, answered, phase, first, batch, prompts, pushing, nudged, faults>>

\* A crash, a failed boot, process.exit(75) on a corrupt page cache.
ContainerDies ==
    /\ phase # "dead" /\ Fault
    /\ ProcessGone
    /\ UNCHANGED <<inboundVars, outboundVars, hostVars, answered>>

-----------------------------------------------------------------------------
(* Time                                                                    *)

ProcessAfterElapses(m) ==
    /\ deferred[m]
    /\ deferred' = [deferred EXCEPT ![m] = FALSE]
    /\ UNCHANGED <<status, tries, seq, outboundVars, hostVars, containerVars, answered, faults>>

\* The claim is older than the tolerance and no heartbeat followed it.
ClaimAges(m) ==
    /\ ack[m] = "processing" /\ silence[m] = "fresh"
    /\ silence' = [silence EXCEPT ![m] = "overdue"]
    /\ UNCHANGED <<inboundVars, ack, heartbeat, reports, hostVars, answered, containerVars, faults>>

HeartbeatAges ==
    /\ heartbeat = "fresh"
    /\ heartbeat' = "old"
    /\ UNCHANGED <<inboundVars, ack, silence, reports, hostVars, answered, containerVars, faults>>

-----------------------------------------------------------------------------
HostStep ==
    \/ \E m \in Msgs : RouteInbound(m) \/ RestartWithMessage(m)
    \/ \E m \in Msgs : EnterFallback(m) \/ AbandonProbe(m)
    \/ \E S \in SUBSET Trigger : GuaranteeBreached(S)
    \/ \E m \in Msgs, later \in BOOLEAN : InsertTask(m, later)
    \/ SpawnDone \/ SpawnFails \/ RestartSilently \/ ContainerClose
    \/ HostCrash \/ HostStart
    \/ ReadReport \/ FailReported
    \/ SweepSync \/ FailBreached \/ SweepWoke \/ SweepAlive \/ SweepKill \/ SweepGone

ContainerStep ==
    \/ Boot \/ Poll \/ HandleCommands \/ StartQuery
    \/ QueryEvent \/ Result \/ DispatchResultText \/ QueryEnds \/ LimitHit \/ ProviderHangs
    \/ FollowUpAbort \/ FollowUpClaim \/ FollowUpPush \/ FollowUpTooLate
    \/ ContainerDies

TimeStep ==
    \/ \E m \in Msgs : ProcessAfterElapses(m) \/ ClaimAges(m)
    \/ HeartbeatAges

Next == HostStep \/ ContainerStep \/ TimeStep

Spec == Init /\ [][Next]_vars

-----------------------------------------------------------------------------
(* Properties                                                              *)

\* The host's bookkeeping covers every container: one runs only while the
\* session is in activeContainers (or the host is down, and the next start
\* stops it), and a spawn is under way only while none does.
SingleContainer ==
    /\ waking => up /\ ~active /\ phase = "dead"
    /\ up /\ phase # "dead" => active

InFlight == batch \cup pushing \cup late \cup UNION {prompts[i] : i \in DOMAIN prompts}

\* Every row the container holds in memory has a row in processing_ack: the
\* sweep can retry it, and the next poll does not hand it out again.
NoInvisibleWork == \A m \in InFlight : ack[m] # "none"

\* No row is in the agent's hands twice: once in a prompt, or on its way to
\* one as a follow-up.
NoDoubleWork ==
    /\ \A i, j \in DOMAIN prompts : i # j => prompts[i] \cap prompts[j] = {}
    /\ \A i \in DOMAIN prompts : prompts[i] \cap (pushing \cup late) = {}
    /\ pushing \cap late = {}
    /\ batch \cap (pushing \cup late) = {}

(* The rest of the invariant that implies the properties above and below.  *)

\* A result is dispatched only while a prompt is unanswered.
DispatchHasPrompt == phase = "dispatch" => prompts # <<>>

\* Where the loop stands says what it can have in memory.
MemoryFitsPhase ==
    /\ phase \notin {"query", "dispatch", "drain"} => prompts = <<>> /\ pushing = {}
    /\ phase \in {"dead", "boot", "idle"} => batch = {}
    /\ phase \in {"dead", "boot"} => late = {}

\* Past its `alive` test the sweep still finds what it saw: while the hook
\* waits the session may change, but what it then kills stays dead.
SweepSeesDead ==
    /\ breached # {} => up /\ sweep \in {"woke", "alive", "gone"}
    /\ sweep = "gone" /\ breached = {} => phase = "dead"
    /\ sweep = "cleanup" => breached = {} /\ phase = "dead"

\* What the container has in memory is claimed or was acked by itself, and
\* the host has not settled what is claimed.
HeldIsClaimed ==
    /\ \A m \in InFlight : ack[m] \in {"processing", "completed"}
    /\ \A m \in pushing \cup late : ack[m] = "processing"
    /\ phase \in {"claimed", "scripts"} => \A m \in batch : ack[m] = "processing"
    /\ \A m \in InFlight : ack[m] = "processing" => status[m] = "pending"

\* Only rows that were written are claimed, acked or announced as failed.
OnlyWrittenRows ==
    /\ \A m \in Msgs : status[m] = "absent" => ack[m] = "none"
    /\ \A m \in breached : status[m] # "absent"
    /\ \A i \in DOMAIN reports : \A m \in reports[i] : status[m] # "absent"

\* A report is recorded as delivered after its rows were failed.
ReportIsHeld == reported # {} => up /\ reports # <<>> /\ reported = Head(reports)

\* What the sweep found answered is settled: its hook does not see it.
AnswersAreSettled ==
    /\ \A m \in answered : status[m] \in Terminal
    /\ breached \cap answered = {}

\* SessionQueueProofs shows that every step preserves it.
IInv ==
    /\ TypeOK
    /\ DispatchHasPrompt
    /\ SingleContainer
    /\ MemoryFitsPhase
    /\ SweepSeesDead
    /\ HeldIsClaimed
    /\ NoDoubleWork
    /\ OnlyWrittenRows
    /\ ReportIsHeld
    /\ AnswersAreSettled

\* A row fails, also one that was completed, because its script broke; because
\* its tries are used up and its container is gone; because the response
\* guarantee gave it up, and then no answer was there when that sweep read
\* processing_ack; or because the report of a limit names it.  (An answer that
\* comes while the failure is announced, or before the report is delivered,
\* does not help: the code fails the row it read.)
FailureJustified ==
    [][\A m \in Msgs :
          status[m] # "failed" /\ status'[m] = "failed" =>
              \/ ack[m] = "script-skip:error"
              \/ ack[m] = "processing" /\ tries[m] = MaxTries /\ phase' = "dead"
              \/ m \in breached \ answered /\ phase' = "dead"
              \/ m \in reported /\ phase' = "dead"]_vars

\* What is settled stays settled, on either side of the mount: no row is
\* handled again after its ack or after the host gave it up.
SettledIsFinal ==
    [][\A m \in Msgs : /\ status[m] \in Terminal => status'[m] \in Terminal
                       /\ ack[m] \in Done => ack'[m] = ack[m]
                       /\ status[m] \in Terminal /\ ack'[m] = "processing" =>
                             ack[m] = "processing"]_vars

\* A try is charged, and a claim taken away, only when no container works
\* on the row any more.
ChargedOnlyWhenDead ==
    [][\A m \in Msgs :
          /\ tries'[m] # tries[m] => phase' = "dead"
          /\ ack[m] = "processing" /\ ack'[m] = "none" => phase' = "dead" \/ phase = "boot"]_vars

\* The queue as its users see it: what the agent answered is done, what the
\* host gave up without an ack is dropped.
Item ==
    [m \in Msgs |->
        IF status[m] = "absent" THEN "absent"
        ELSE IF ack[m] = "completed" THEN "done"
        ELSE IF ack[m] = "script-skip:error" \/ status[m] \in Terminal THEN "dropped"
        ELSE IF ack[m] = "processing" THEN "held" ELSE "waiting"]

Queue == INSTANCE WorkQueue WITH item <- Item

\* Host, container and databases together implement the work queue.
ImplementsQueue == Queue!Spec

\* Every row that should wake the agent is completed or given up in the end.
\* on_wake rows are left out: one that is retried may meet a warm container
\* that is past its first poll and, without a heartbeat file, is never killed.
Settles == \A m \in Trigger \ OnWake : status[m] = "pending" ~> status[m] \in Terminal

(* The host's timers and promises always fire and the container's loop     *)
(* runs on; time passes; the provider answers a query or is silent for     *)
(* good (LimitHit, ProviderHangs).  Reports may stay undelivered.  Nothing *)
(* makes rows arrive, containers die or be restarted.                      *)
Fairness ==
    /\ SF_vars(SpawnDone) /\ SF_vars(ContainerClose) /\ WF_vars(HostStart)
    /\ WF_vars(SweepSync) /\ WF_vars(FailBreached) /\ WF_vars(SweepWoke)
    /\ WF_vars(SweepAlive) /\ WF_vars(SweepKill) /\ WF_vars(SweepGone)
    /\ WF_vars(Boot) /\ WF_vars(Poll) /\ WF_vars(HandleCommands) /\ WF_vars(StartQuery)
    /\ WF_vars(Result) /\ WF_vars(DispatchResultText)
    /\ WF_vars(FollowUpAbort) /\ WF_vars(FollowUpClaim) /\ WF_vars(FollowUpPush)
    /\ WF_vars(FollowUpTooLate)
    /\ \A m \in Msgs : WF_vars(ProcessAfterElapses(m)) /\ WF_vars(ClaimAges(m))
    /\ WF_vars(HeartbeatAges)

FairSpec == Spec /\ Fairness
=============================================================================
