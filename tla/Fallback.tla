------------------------------ MODULE Fallback ------------------------------
(***************************************************************************)
(* The provider fallback of the whole installation: the single row         *)
(* fallback_state, the provider each session's container was started with, *)
(* the reports containers send when their provider fails, and the sweep    *)
(* that enforces the response guarantee and drives the return probe.       *)
(*                                                                         *)
(* A host action is the code between two awaits.  Of a session's rows the  *)
(* module keeps two: `work`, its unanswered triggering rows taken          *)
(* together, and `trial`, the last probe row.  SessionQueue has their      *)
(* detail.  Time is abstract: `due`, `late` and `old` are what comparisons *)
(* with the clock can tell.                                                *)
(***************************************************************************)
EXTENDS Naturals, FiniteSets

CONSTANTS
    Sessions,    \* active sessions
    Group,       \* the agent group of each
    NoSession,   \* NULL in origin_session_id and probe_session_id
    MaxFaults    \* bound on faults, limits and the owner's commands

ASSUME SessionsAssumption ==
    /\ IsFiniteSet(Sessions)
    /\ NoSession \notin Sessions
    /\ MaxFaults \in Nat

VARIABLES
    \* fallback_state
    mode,      \* off (active = 0), auto or forced
    origin,    \* origin_session_id
    probe,     \* probe_session_id, NoSession when probing = 0
    due,       \* next_retry_at: none, later, now
    late,      \* probe_started_at is more than ten minutes ago
    \* rows of the sessions' databases
    work,      \* none (all settled), pending, claimed, acked (not mirrored yet)
    old,       \* work is older than RESPONSE_GUARANTEE_MS
    trial,     \* none, pending, claimed, acked, completed, failed
    reports,   \* system rows not delivered yet
    \* the host's memory and the containers
    box,       \* entry of activeContainers: none, its provider, stuck, closing
    fresh,     \* the container has not polled yet
    spawn,     \* wakePromises: no, asked, the provider resolved
    respawn,   \* the kill's onExit wakes the session again
    \* the providers
    usable,    \* isBackupUsable()
    limited,   \* the native provider is at its limits
    faults     \* how many bounded events have happened

stateVars == <<mode, origin, probe, due, late>>
rowVars == <<work, old, trial>>
boxVars == <<box, fresh, spawn, respawn>>
vars == <<stateVars, rowVars, reports, boxVars, usable, limited, faults>>

Providers == {"native", "backup"}
Kinds == {"work", "trial"}
Unsettled == {"pending", "claimed", "acked"}
Report == [from : Sessions, kind : {"limit", "error"}, ids : SUBSET Kinds]

TypeOK ==
    /\ mode \in {"off", "auto", "forced"}
    /\ origin \in Sessions \cup {NoSession}
    /\ probe \in Sessions \cup {NoSession}
    /\ due \in {"none", "later", "now"}
    /\ late \in BOOLEAN
    /\ work \in [Sessions -> {"none"} \cup Unsettled]
    /\ old \in [Sessions -> BOOLEAN]
    /\ trial \in [Sessions -> {"none", "completed", "failed"} \cup Unsettled]
    /\ reports \subseteq Report
    /\ box \in [Sessions -> {"none", "stuck", "closing"} \cup Providers]
    /\ fresh \in [Sessions -> BOOLEAN]
    /\ spawn \in [Sessions -> {"no", "asked"} \cup Providers]
    /\ respawn \in [Sessions -> BOOLEAN]
    /\ usable \in BOOLEAN
    /\ limited \in BOOLEAN
    /\ faults \in 0..MaxFaults

Init ==
    /\ mode = "off" /\ origin = NoSession /\ probe = NoSession
    /\ due = "none" /\ late = FALSE
    /\ work = [s \in Sessions |-> "none"]
    /\ old = [s \in Sessions |-> FALSE]
    /\ trial = [s \in Sessions |-> "none"]
    /\ reports = {}
    /\ box = [s \in Sessions |-> "none"]
    /\ fresh = [s \in Sessions |-> FALSE]
    /\ spawn = [s \in Sessions |-> "no"]
    /\ respawn = [s \in Sessions |-> FALSE]
    /\ usable \in BOOLEAN
    /\ limited = FALSE
    /\ faults = 0

Fault == faults < MaxFaults /\ faults' = faults + 1

-----------------------------------------------------------------------------
(* Containers                                                              *)

\* effectiveProvider: native for every session while a probe is under way.
EffectiveProvider == IF mode # "off" /\ probe = NoSession THEN "backup" ELSE "native"

\* isContainerRunning
Running(s) == box[s] # "none"

\* wakeContainer of the sessions in S.
Wake(S) == spawn' = [s \in Sessions |->
    IF s \in S /\ ~Running(s) /\ spawn[s] = "no" THEN "asked" ELSE spawn[s]]

\* spawnContainer reads the provider, then awaits the container's arguments.
ResolveProvider(s) ==
    /\ spawn[s] = "asked"
    /\ spawn' = [spawn EXCEPT ![s] = EffectiveProvider]
    /\ UNCHANGED <<stateVars, rowVars, reports, box, fresh, respawn, usable, limited, faults>>

SpawnDone(s) ==
    /\ spawn[s] \in Providers
    /\ box' = [box EXCEPT ![s] = spawn[s]]
    /\ fresh' = [fresh EXCEPT ![s] = TRUE]
    /\ spawn' = [spawn EXCEPT ![s] = "no"]
    /\ UNCHANGED <<stateVars, rowVars, reports, respawn, usable, limited, faults>>

SpawnFails(s) ==
    /\ spawn[s] # "no"
    /\ Fault
    /\ spawn' = [spawn EXCEPT ![s] = "no"]
    /\ UNCHANGED <<stateVars, rowVars, reports, box, fresh, respawn, usable, limited>>

\* killContainer: without an entry it does nothing, its onExit is not called.
Killed(S) == [s \in Sessions |-> IF s \in S /\ Running(s) THEN "closing" ELSE box[s]]

KillContainer(s) == box' = Killed({s}) /\ UNCHANGED <<fresh, spawn, respawn>>

\* killContainer with an onExit that wakes the session.
KillAndWake(S) ==
    /\ box' = Killed(S)
    /\ respawn' = [s \in Sessions |-> respawn[s] \/ (s \in S /\ Running(s))]
    /\ UNCHANGED <<fresh, spawn>>

\* The close event of the docker client.
ContainerClose(s) ==
    /\ box[s] = "closing"
    /\ box' = [box EXCEPT ![s] = "none"]
    /\ respawn' = [respawn EXCEPT ![s] = FALSE]
    /\ spawn' = [spawn EXCEPT ![s] =
                    IF respawn[s] /\ spawn[s] = "no" THEN "asked" ELSE spawn[s]]
    /\ UNCHANGED <<stateVars, rowVars, reports, fresh, usable, limited, faults>>

\* The host restarts: cleanupOrphans stops what it left, fallback_state stays.
HostRestart ==
    /\ Fault
    /\ box' = [s \in Sessions |-> "none"]
    /\ spawn' = [s \in Sessions |-> "no"]
    /\ respawn' = [s \in Sessions |-> FALSE]
    /\ UNCHANGED <<stateVars, rowVars, reports, fresh, usable, limited>>

-----------------------------------------------------------------------------
(* Switching                                                               *)

\* Rows written for the sessions in S: a message, a briefing.
Written(S) == [s \in Sessions |->
    IF s \in S /\ work[s] \in {"none", "acked"} THEN "pending" ELSE work[s]]
AgeOfWritten(S) == [s \in Sessions |->
    IF s \in S /\ work[s] \in {"none", "acked"} THEN FALSE ELSE old[s]]

\* restartAgentGroupContainers reaches the running containers of a group.
RunningOutside(groups) == {s \in Sessions : Group[s] \notin groups /\ Running(s)}

\* Mutant of SwitchToBackup: the probe under way is not called off.
SwitchKeepsProbe(s, m) ==
    LET restarted == {s} \cup RunningOutside({Group[s]}) IN
    /\ mode' = m
    /\ origin' = s
    /\ due' = IF m = "forced" THEN "none" ELSE "later"
    /\ work' = Written(restarted)
    /\ old' = AgeOfWritten(restarted)
    /\ KillAndWake(restarted)
    /\ UNCHANGED <<probe, late, trial>>

\* enterFallback with a backup.  The origin's group is left out but for the
\* origin itself.
SwitchToBackup(s, m) ==
    LET restarted == {s} \cup RunningOutside({Group[s]}) IN
    /\ mode' = m
    /\ origin' = s
    /\ probe' = NoSession
    /\ late' = FALSE
    /\ due' = IF m = "forced" THEN "none" ELSE "later"
    /\ work' = Written(restarted)
    /\ old' = AgeOfWritten(restarted)
    /\ KillAndWake(restarted)
    /\ UNCHANGED trial

\* Mutant of NoBackup: the rows are left to be retried.
NoBackupRetries(s, ids) == KillContainer(s) /\ UNCHANGED <<stateVars, rowVars>>

\* enterFallback without a backup: the rows in ids fail, with a notice.
NoBackup(s, ids) ==
    /\ work' = [work EXCEPT ![s] = IF "work" \in ids THEN "none" ELSE @]
    /\ old' = [old EXCEPT ![s] = IF "work" \in ids THEN FALSE ELSE @]
    /\ trial' = [trial EXCEPT ![s] = IF "trial" \in ids THEN "failed" ELSE @]
    /\ KillContainer(s)
    /\ UNCHANGED stateVars

EnterFallback(s, m, ids) == IF usable THEN SwitchToBackup(s, m) ELSE NoBackup(s, ids)

\* exitFallback: the groups in kept are taken to be native already.
ExitFallback(kept) ==
    /\ mode' = "off" /\ origin' = NoSession /\ probe' = NoSession
    /\ due' = "none" /\ late' = FALSE
    /\ work' = Written(RunningOutside(kept))
    /\ old' = AgeOfWritten(RunningOutside(kept))
    /\ KillAndWake(RunningOutside(kept))

\* bumpRetry
BumpRetry ==
    /\ probe' = NoSession /\ late' = FALSE /\ due' = "later"
    /\ UNCHANGED <<mode, origin>>

\* /fallback force, ncl fallback force: whatever the state.
ForceFallback(s) ==
    /\ Fault
    /\ EnterFallback(s, "forced", {})
    /\ UNCHANGED <<reports, usable, limited>>

\* /fallback return, ncl fallback return
Return ==
    /\ mode # "off"
    /\ Fault
    /\ ExitFallback({})
    /\ UNCHANGED <<trial, reports, usable, limited>>

-----------------------------------------------------------------------------
(* Reports of the containers, delivered as system actions                  *)

\* Mutant of FallbackReport: a late report switches again.
ReportReenters(r) ==
    /\ r.kind = "limit"
    /\ EnterFallback(r.from, "auto", r.ids)

\* handleFallbackReport
FallbackReport(r) ==
    /\ r.kind = "limit"
    /\ IF probe # NoSession
       THEN /\ trial' = [trial EXCEPT ![probe] =
                            IF r.from = probe /\ "trial" \in r.ids THEN "completed" ELSE @]
            /\ BumpRetry
            /\ KillAndWake({r.from})
            /\ UNCHANGED <<work, old>>
       ELSE IF mode # "off"
            THEN KillAndWake({r.from}) /\ UNCHANGED <<stateVars, rowVars>>
            ELSE EnterFallback(r.from, "auto", r.ids)

\* handleProviderError: outside a probe it only records the error.
ProviderError(r) ==
    /\ r.kind = "error"
    /\ IF probe # NoSession
       THEN BumpRetry /\ KillAndWake({r.from}) /\ UNCHANGED rowVars
       ELSE UNCHANGED <<stateVars, rowVars, boxVars>>

DeliverReport(r) ==
    /\ r \in reports
    /\ reports' = reports \ {r}
    /\ FallbackReport(r) \/ ProviderError(r)
    /\ UNCHANGED <<usable, limited, faults>>

-----------------------------------------------------------------------------
(* The sweep                                                               *)

\* syncProcessingAcks, then a wake when rows are due and nothing runs.
SweepSession(s) ==
    /\ work' = [work EXCEPT ![s] = IF @ = "acked" THEN "none" ELSE @]
    /\ old' = [old EXCEPT ![s] = @ /\ work[s] # "acked"]
    /\ trial' = [trial EXCEPT ![s] = IF @ = "acked" THEN "completed" ELSE @]
    /\ Wake({x \in {s} : {work[x], trial[x]} \cap {"pending", "claimed"} # {}})
    /\ UNCHANGED <<stateVars, reports, box, fresh, respawn, usable, limited, faults>>

\* Rows of s beyond the response guarantee: the probe row counts as any other.
Breached(s) ==
    {k \in Kinds : \/ k = "work" /\ old[s] /\ work[s] \in Unsettled
                   \/ k = "trial" /\ late /\ s = probe /\ trial[s] \in Unsettled}

\* handleDoubleFaultTimeout
DoubleFault(s) ==
    /\ work' = [work EXCEPT ![s] = IF "work" \in Breached(s) THEN "none" ELSE @]
    /\ old' = [old EXCEPT ![s] = @ /\ "work" \notin Breached(s)]
    /\ trial' = [trial EXCEPT ![s] = IF "trial" \in Breached(s) THEN "failed" ELSE @]
    /\ KillContainer(s)
    /\ UNCHANGED stateVars

\* sweepFallbackSession
SweepFallbackSession(s) ==
    /\ Breached(s) # {}
    /\ IF mode # "off" THEN DoubleFault(s)
                       ELSE EnterFallback(s, "auto", Breached(s))
    /\ UNCHANGED <<reports, usable, limited, faults>>

\* startReturnProbe
StartReturnProbe ==
    /\ probe' = origin
    /\ late' = FALSE
    /\ trial' = [trial EXCEPT ![origin] = "pending"]
    /\ KillAndWake({origin})
    /\ UNCHANGED <<mode, origin, due, work, old>>

\* Mutant of HandleProbeTimeout: the retry is not rescheduled.
ProbeTimeoutForgotten ==
    /\ trial' = [trial EXCEPT ![probe] = "completed"]
    /\ due' = "none" /\ probe' = NoSession /\ late' = FALSE
    /\ KillAndWake({probe})
    /\ UNCHANGED <<mode, origin, work, old>>

\* handleProbeTimeout
HandleProbeTimeout ==
    /\ trial' = [trial EXCEPT ![probe] = "completed"]
    /\ BumpRetry
    /\ KillAndWake({probe})
    /\ UNCHANGED <<work, old>>

\* Mutant of SweepFallbackReturn: the mode is not asked.
SweepReturnAnyMode ==
    /\ mode # "off"
    /\ IF probe = NoSession
       THEN /\ due = "now" \/ mode = "forced"
            /\ origin # NoSession
            /\ StartReturnProbe
       ELSE \/ trial[probe] = "completed" /\ ExitFallback({Group[origin]}) /\ UNCHANGED trial
            \/ trial[probe] = "failed" /\ HandleProbeTimeout
            \/ trial[probe] \in Unsettled \cup {"none"} /\ late /\ HandleProbeTimeout
    /\ UNCHANGED <<reports, usable, limited, faults>>

\* Mutant of SweepFallbackReturn: a failed probe row is not taken for an end.
SweepReturnPatient ==
    /\ mode = "auto"
    /\ IF probe = NoSession
       THEN due = "now" /\ origin # NoSession /\ StartReturnProbe
       ELSE \/ trial[probe] = "completed" /\ ExitFallback({Group[origin]}) /\ UNCHANGED trial
            \/ trial[probe] \in Unsettled \cup {"none"} /\ late /\ HandleProbeTimeout
    /\ UNCHANGED <<reports, usable, limited, faults>>

\* sweepFallbackReturn: start a probe, take its success, its failure or its
\* silence.  Success is the probe row being completed.
SweepFallbackReturn ==
    /\ mode = "auto"
    /\ IF probe = NoSession
       THEN due = "now" /\ origin # NoSession /\ StartReturnProbe
       ELSE \/ trial[probe] = "completed" /\ ExitFallback({Group[origin]}) /\ UNCHANGED trial
            \/ trial[probe] = "failed" /\ HandleProbeTimeout
            \/ trial[probe] \in Unsettled \cup {"none"} /\ late /\ HandleProbeTimeout
    /\ UNCHANGED <<reports, usable, limited, faults>>

-----------------------------------------------------------------------------
(* The container's poll loop and its provider                              *)

Live(s) == box[s] \in Providers

\* The rows of s its container is working on.
Claimed(s) == {k \in Kinds : \/ k = "work" /\ work[s] = "claimed"
                             \/ k = "trial" /\ trial[s] = "claimed"}

\* The container claims what is pending; the first poll, which also takes
\* on_wake rows, follows a boot that has cleared the claims of a dead one.
Poll(s) ==
    LET mine == IF fresh[s] THEN {"pending", "claimed"} ELSE {"pending"} IN
    /\ Live(s)
    /\ fresh[s] \/ work[s] = "pending"
    /\ fresh' = [fresh EXCEPT ![s] = FALSE]
    /\ work' = [work EXCEPT ![s] = IF @ \in mine THEN "claimed" ELSE @]
    /\ trial' = [trial EXCEPT ![s] = IF fresh[s] /\ @ \in mine THEN "claimed" ELSE @]
    /\ UNCHANGED <<stateVars, old, reports, box, spawn, respawn, usable, limited, faults>>

\* The batch is marked completed in processing_ack.
MarkCompleted(s) ==
    /\ work' = [work EXCEPT ![s] = IF @ = "claimed" THEN "acked" ELSE @]
    /\ trial' = [trial EXCEPT ![s] = IF @ = "claimed" THEN "acked" ELSE @]

Busy(s) == Live(s) /\ ~fresh[s] /\ Claimed(s) # {}

Answer(s) ==
    /\ Busy(s)
    /\ box[s] = "native" => ~limited
    /\ MarkCompleted(s)
    /\ UNCHANGED <<stateVars, old, reports, boxVars, usable, limited, faults>>

\* ProviderLimitError on the native provider: the batch stays claimed and the
\* container waits to be killed.
ReportLimit(s) ==
    /\ Busy(s)
    /\ box[s] = "native" /\ limited
    /\ reports' = reports \cup {[from |-> s, kind |-> "limit", ids |-> Claimed(s)]}
    /\ box' = [box EXCEPT ![s] = "stuck"]
    /\ UNCHANGED <<stateVars, rowVars, fresh, spawn, respawn, usable, limited, faults>>

\* Any other error: the user is told, the batch is completed all the same.
ReportError(s) ==
    /\ Busy(s)
    /\ Fault
    /\ reports' = reports \cup {[from |-> s, kind |-> "error", ids |-> {}]}
    /\ MarkCompleted(s)
    /\ UNCHANGED <<stateVars, old, boxVars, usable, limited>>

\* The provider never answers.
Hang(s) ==
    /\ Busy(s)
    /\ Fault
    /\ box' = [box EXCEPT ![s] = "stuck"]
    /\ UNCHANGED <<stateVars, rowVars, reports, fresh, spawn, respawn, usable, limited>>

ContainerDies(s) ==
    /\ box[s] \in Providers \cup {"stuck"}
    /\ Fault
    /\ box' = [box EXCEPT ![s] = "closing"]
    /\ UNCHANGED <<stateVars, rowVars, reports, fresh, spawn, respawn, usable, limited>>

\* resetStuckProcessingRows gives the probe row up after MAX_TRIES.
GiveTrialUp(s) ==
    /\ ~Running(s)
    /\ trial[s] = "claimed"
    /\ Fault
    /\ trial' = [trial EXCEPT ![s] = "failed"]
    /\ UNCHANGED <<stateVars, work, old, reports, boxVars, usable, limited>>

-----------------------------------------------------------------------------
(* The users, the clock and the native provider's limits                   *)

RouteInbound(s) ==
    /\ work[s] = "none"
    /\ work' = Written({s})
    /\ old' = AgeOfWritten({s})
    /\ Wake({s})
    /\ UNCHANGED <<stateVars, trial, reports, box, fresh, respawn, usable, limited, faults>>

\* Ten minutes pass for a turn that hangs; for any other that is a fault.
Hangs(s) == box[s] = "stuck" /\ \A r \in reports : r.from # s
Slow(s) == IF Hangs(s) THEN UNCHANGED faults ELSE Fault

\* The interval between two probes, minutes again.
RetryDue ==
    /\ due = "later"
    /\ IF \A s \in Sessions : work[s] = "none" \/ Hangs(s)
       THEN UNCHANGED faults ELSE Fault
    /\ due' = "now"
    /\ UNCHANGED <<mode, origin, probe, late, rowVars, reports, boxVars, usable, limited>>

ProbeLate ==
    /\ probe # NoSession /\ ~late
    /\ Slow(probe)
    /\ late' = TRUE
    /\ UNCHANGED <<mode, origin, probe, due, rowVars, reports, boxVars, usable, limited>>

Ages(s) ==
    /\ work[s] \in Unsettled /\ ~old[s]
    /\ Slow(s)
    /\ old' = [old EXCEPT ![s] = TRUE]
    /\ UNCHANGED <<stateVars, work, trial, reports, boxVars, usable, limited>>

LimitReached ==
    /\ ~limited
    /\ Fault
    /\ limited' = TRUE
    /\ UNCHANGED <<stateVars, rowVars, reports, boxVars, usable>>

LimitLifts ==
    /\ limited
    /\ limited' = FALSE
    /\ UNCHANGED <<stateVars, rowVars, reports, boxVars, usable, faults>>

-----------------------------------------------------------------------------
HostStep(s) ==
    \/ ResolveProvider(s) \/ SpawnDone(s) \/ ContainerClose(s)
    \/ SweepSession(s) \/ SweepFallbackSession(s)

ContainerStep(s) == Poll(s) \/ Answer(s) \/ ReportLimit(s)

Next ==
    \/ \E s \in Sessions :
          \/ HostStep(s) \/ ContainerStep(s)
          \/ SpawnFails(s) \/ ForceFallback(s) \/ RouteInbound(s) \/ Ages(s)
          \/ ReportError(s) \/ Hang(s) \/ ContainerDies(s) \/ GiveTrialUp(s)
    \/ \E r \in reports : DeliverReport(r)
    \/ SweepFallbackReturn \/ Return \/ HostRestart
    \/ RetryDue \/ ProbeLate \/ LimitReached \/ LimitLifts

Spec == Init /\ [][Next]_vars

\* Timers fire, the host's loops go on, containers boot and providers answer
\* unless they hang.  The installation is quiet again and again (SF): the next
\* probe falls into one of these moments.
Fairness ==
    /\ \A s \in Sessions :
          /\ WF_vars(ContainerClose(s)) /\ WF_vars(ReportLimit(s)) /\ WF_vars(SweepFallbackSession(s))
          /\ WF_vars(ResolveProvider(s)) /\ WF_vars(SpawnDone(s)) /\ WF_vars(SweepSession(s))
          /\ WF_vars(Poll(s)) /\ WF_vars(Answer(s))
          /\ WF_vars(Hangs(s) /\ Ages(s)) /\ WF_vars(Hangs(s) /\ ProbeLate)
          /\ WF_vars(\E r \in reports : r.from = s /\ DeliverReport(r))
    /\ WF_vars(SweepFallbackReturn) /\ SF_vars(RetryDue)

FairSpec == Spec /\ Fairness

-----------------------------------------------------------------------------
(* Properties                                                              *)

\* The columns of fallback_state agree with one another.
StateOK ==
    /\ probe # NoSession => mode = "auto" /\ probe = origin
    /\ late => probe # NoSession
    /\ mode = "off" => origin = NoSession
    /\ mode = "auto" => origin # NoSession /\ due # "none"
    /\ mode # "auto" => due = "none"
    /\ mode # "off" => usable

\* A session has one container or one spawn; only a killed one is woken again.
BoxOK ==
    \A s \in Sessions : /\ Running(s) => spawn[s] = "no"
                        /\ respawn[s] => box[s] = "closing"

\* The inductive invariant.
IInv == TypeOK /\ StateOK /\ BoxOK

\* specs/fallback-llm.md rule 13: a forced fallback ends by the owner's
\* command alone, whatever report, probe or timeout is still under way.
ForcedStays == [][mode = "forced" /\ mode' # "forced" => Return]_vars

Failing == INSTANCE Failover WITH
    place <- CASE mode = "off" -> "native" [] mode = "auto" -> "backup" [] OTHER -> "pinned",
    trying <- probe # NoSession

\* Seen as one row, the fallback is Failover.
ImplementsFailover == Failing!Spec

\* Every probe comes to an end: success, failure or ten minutes.
ProbeResolves == probe # NoSession ~> probe = NoSession

\* Rules 7 and 8: once the native provider has recovered, the installation
\* does not stay on the backup by itself.
ReturnsWhenRecovered == <>[]~limited => []<>(mode # "auto")

\* Rule 15: every message that engages the agent is answered, or given up
\* with a notice.
WorkSettles == \A s \in Sessions : work[s] # "none" ~> work[s] = "none"
=============================================================================
