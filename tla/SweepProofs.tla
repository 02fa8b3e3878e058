---------------------------- MODULE SweepProofs ----------------------------
(***************************************************************************)
(* Theorems about what the host's sweep drives besides the queues: the     *)
(* provider fallback (module Fallback), for any sessions and groups, and a *)
(* task series (module Scheduling), for any limits.  The two share no      *)
(* variable; Scheduling's specification is SeriesSpec, Fallback's is Spec. *)
(***************************************************************************)
EXTENDS Fallback, Scheduling, FiniteSetTheorems, SequenceTheorems, TLAPS

-----------------------------------------------------------------------------
(* The fallback                                                            *)

\* Killing containers keeps the entries and their callbacks in order.
LEMMA KillAndWakeOK ==
    ASSUME TypeOK, BoxOK, NEW S, KillAndWake(S)
    PROVE  /\ box' \in [Sessions -> {"none", "stuck", "closing"} \cup Providers]
           /\ fresh' \in [Sessions -> BOOLEAN]
           /\ spawn' \in [Sessions -> {"no", "asked"} \cup Providers]
           /\ respawn' \in [Sessions -> BOOLEAN]
           /\ BoxOK'
  BY SMTT(30) DEF KillAndWake, Killed, Running, TypeOK, BoxOK, Providers

LEMMA KillOK ==
    ASSUME TypeOK, BoxOK, NEW s \in Sessions, KillContainer(s)
    PROVE  /\ box' \in [Sessions -> {"none", "stuck", "closing"} \cup Providers]
           /\ fresh' \in [Sessions -> BOOLEAN]
           /\ spawn' \in [Sessions -> {"no", "asked"} \cup Providers]
           /\ respawn' \in [Sessions -> BOOLEAN]
           /\ BoxOK'
  BY SMTT(30) DEF KillContainer, Killed, Running, TypeOK, BoxOK, Providers

\* Rows written for any sessions are rows.
LEMMA WrittenOK ==
    ASSUME TypeOK, NEW S
    PROVE  /\ Written(S) \in [Sessions -> {"none"} \cup Unsettled]
           /\ AgeOfWritten(S) \in [Sessions -> BOOLEAN]
  BY DEF Written, AgeOfWritten, TypeOK, Unsettled

\* enterFallback, whether there is a backup or not.
LEMMA EnterOK ==
    ASSUME TypeOK, StateOK, BoxOK, NEW s \in Sessions, NEW m \in {"auto", "forced"},
           NEW ids, EnterFallback(s, m, ids),
           reports' \in SUBSET Report,
           UNCHANGED <<usable, limited>>, faults' \in 0..MaxFaults
    PROVE  IInv'
<1>1. CASE usable
  <2> DEFINE R == {s} \cup RunningOutside({Group[s]})
  <2>1. SwitchToBackup(s, m)
    BY <1>1 DEF EnterFallback
  <2>2. KillAndWake(R) /\ work' = Written(R) /\ old' = AgeOfWritten(R)
    BY <2>1 DEF SwitchToBackup
  <2> HIDE DEF R
  <2>a. /\ work' \in [Sessions -> {"none"} \cup Unsettled] /\ old' \in [Sessions -> BOOLEAN]
        /\ trial' \in [Sessions -> {"none", "completed", "failed"} \cup Unsettled]
    BY <2>1, <2>2, WrittenOK DEF SwitchToBackup, TypeOK
  <2>b. /\ mode' \in {"off", "auto", "forced"} /\ due' \in {"none", "later", "now"}
        /\ origin' \in Sessions \cup {NoSession} /\ probe' \in Sessions \cup {NoSession}
        /\ late' \in BOOLEAN /\ usable' \in BOOLEAN /\ limited' \in BOOLEAN
    BY <2>1 DEF SwitchToBackup, TypeOK
  <2>3. TypeOK'
    BY <2>2, <2>a, <2>b, KillAndWakeOK, Zenon DEF TypeOK
  <2>4. StateOK'
    BY <2>1, <1>1, SessionsAssumption DEF SwitchToBackup, StateOK
  <2> QED
    BY <2>2, <2>3, <2>4, KillAndWakeOK DEF IInv
<1>2. CASE ~usable
  <2>1. NoBackup(s, ids) /\ KillContainer(s)
    BY <1>2 DEF EnterFallback, NoBackup
  <2>2. TypeOK'
    BY <2>1, KillOK DEF NoBackup, TypeOK, Unsettled, stateVars
  <2>3. StateOK'
    BY <2>1 DEF NoBackup, StateOK, stateVars
  <2> QED
    BY <2>1, <2>2, <2>3, KillOK DEF IInv
<1> QED
  BY <1>1, <1>2 DEF TypeOK

\* exitFallback, whatever groups it leaves out.
LEMMA ExitOK ==
    ASSUME TypeOK, StateOK, BoxOK, NEW kept, ExitFallback(kept),
           UNCHANGED <<trial, reports, usable, limited>>, faults' \in 0..MaxFaults
    PROVE  IInv'
<1> DEFINE R == RunningOutside(kept)
<1>1. KillAndWake(R) /\ work' = Written(R) /\ old' = AgeOfWritten(R)
  BY DEF ExitFallback
<1> HIDE DEF R
<1>a. /\ work' \in [Sessions -> {"none"} \cup Unsettled] /\ old' \in [Sessions -> BOOLEAN]
      /\ trial' \in [Sessions -> {"none", "completed", "failed"} \cup Unsettled]
  BY <1>1, WrittenOK DEF TypeOK
<1>b. /\ mode' \in {"off", "auto", "forced"} /\ due' \in {"none", "later", "now"}
      /\ origin' \in Sessions \cup {NoSession} /\ probe' \in Sessions \cup {NoSession}
      /\ late' \in BOOLEAN /\ usable' \in BOOLEAN /\ limited' \in BOOLEAN
      /\ reports' \subseteq Report
  BY DEF ExitFallback, TypeOK
<1>2. TypeOK'
  BY <1>1, <1>a, <1>b, KillAndWakeOK, Zenon DEF TypeOK
<1>3. StateOK'
  BY SessionsAssumption DEF ExitFallback, StateOK
<1> QED
  BY <1>1, <1>2, <1>3, KillAndWakeOK DEF IInv

\* The end of a probe that failed.
LEMMA BumpOK ==
    ASSUME TypeOK, StateOK, BoxOK, NEW s, BumpRetry, probe # NoSession, KillAndWake({s}),
           trial' \in [Sessions -> {"none", "completed", "failed"} \cup Unsettled],
           reports' \in SUBSET Report,
           UNCHANGED <<work, old, usable, limited, faults>>
    PROVE  IInv'
<1>1. TypeOK'
  BY KillAndWakeOK, SessionsAssumption DEF BumpRetry, TypeOK
<1>2. StateOK'
  BY SessionsAssumption DEF BumpRetry, StateOK
<1> QED
  BY <1>1, <1>2, KillAndWakeOK DEF IInv

\* A step that leaves fallback_state and the containers alone.
LEMMA RowsOK ==
    ASSUME IInv, UNCHANGED <<stateVars, boxVars, usable>>,
           work' \in [Sessions -> {"none"} \cup Unsettled], old' \in [Sessions -> BOOLEAN],
           trial' \in [Sessions -> {"none", "completed", "failed"} \cup Unsettled],
           reports' \in SUBSET Report,
           limited' \in BOOLEAN, faults' \in 0..MaxFaults
    PROVE  IInv'
  BY DEF IInv, TypeOK, StateOK, BoxOK, Running, stateVars, boxVars

\* A step of one container that leaves fallback_state alone.
LEMMA BoxesOK ==
    ASSUME IInv, UNCHANGED <<stateVars, usable, limited>>,
           work' \in [Sessions -> {"none"} \cup Unsettled], old' \in [Sessions -> BOOLEAN],
           trial' \in [Sessions -> {"none", "completed", "failed"} \cup Unsettled],
           reports' \in SUBSET Report, faults' \in 0..MaxFaults,
           box' \in [Sessions -> {"none", "stuck", "closing"} \cup Providers],
           fresh' \in [Sessions -> BOOLEAN],
           spawn' \in [Sessions -> {"no", "asked"} \cup Providers],
           respawn' \in [Sessions -> BOOLEAN],
           BoxOK'
    PROVE  IInv'
  BY DEF IInv, TypeOK, StateOK, stateVars

LEMMA FaultOK ==
    ASSUME TypeOK, Fault PROVE faults' \in 0..MaxFaults
  BY SessionsAssumption DEF Fault, TypeOK

LEMMA InitOK == Init => IInv
<1> SUFFICES ASSUME Init PROVE IInv
  OBVIOUS
<1>0. faults \in 0..MaxFaults
  BY SessionsAssumption DEF Init
<1>1. TypeOK
  <2>1. /\ mode \in {"off", "auto", "forced"} /\ due \in {"none", "later", "now"}
        /\ origin \in Sessions \cup {NoSession} /\ probe \in Sessions \cup {NoSession}
        /\ late \in BOOLEAN /\ usable \in BOOLEAN /\ limited \in BOOLEAN
        /\ reports \subseteq Report
    BY DEF Init
  <2>2. /\ work \in [Sessions -> {"none"} \cup Unsettled]
        /\ old \in [Sessions -> BOOLEAN]
        /\ trial \in [Sessions -> {"none", "completed", "failed"} \cup Unsettled]
        /\ box \in [Sessions -> {"none", "stuck", "closing"} \cup Providers]
        /\ fresh \in [Sessions -> BOOLEAN]
        /\ spawn \in [Sessions -> {"no", "asked"} \cup Providers]
        /\ respawn \in [Sessions -> BOOLEAN]
    BY DEF Init
  <2> QED
    BY <1>0, <2>1, <2>2, Zenon DEF TypeOK
<1>2. StateOK
  BY DEF Init, StateOK
<1>3. BoxOK
  BY DEF Init, BoxOK, Running
<1> QED
  BY <1>1, <1>2, <1>3 DEF IInv

LEMMA HostStepOK ==
    ASSUME IInv, NEW s \in Sessions, HostStep(s)
    PROVE  IInv'
<1> USE DEF IInv
<1>1. CASE ResolveProvider(s)
  BY <1>1, BoxesOK DEF ResolveProvider, TypeOK, BoxOK, Running, EffectiveProvider, Providers, rowVars
<1>2. CASE SpawnDone(s)
  BY <1>2, BoxesOK DEF SpawnDone, TypeOK, BoxOK, Running, Providers, rowVars
<1>3. CASE ContainerClose(s)
  BY <1>3, BoxesOK DEF ContainerClose, TypeOK, BoxOK, Running, Providers, rowVars
<1>4. CASE SweepSession(s)
  BY <1>4, BoxesOK DEF SweepSession, Wake, TypeOK, BoxOK, Running, Providers, Unsettled
<1>5. CASE SweepFallbackSession(s)
  <2>1. CASE mode # "off"
    <3>1. DoubleFault(s) /\ KillContainer(s)
      BY <1>5, <2>1 DEF SweepFallbackSession, DoubleFault
    <3>2. TypeOK'
      BY <1>5, <3>1, KillOK DEF SweepFallbackSession, DoubleFault, TypeOK, Unsettled, stateVars,
                                Breached, Kinds
    <3>3. StateOK'
      BY <1>5, <3>1 DEF SweepFallbackSession, DoubleFault, StateOK, stateVars
    <3> QED
      BY <3>1, <3>2, <3>3, KillOK
  <2>2. CASE mode = "off"
    BY <1>5, <2>2, EnterOK DEF SweepFallbackSession, TypeOK
  <2> QED
    BY <2>1, <2>2
<1> QED
  BY <1>1, <1>2, <1>3, <1>4, <1>5 DEF HostStep

LEMMA ContainerStepOK ==
    ASSUME IInv, NEW s \in Sessions,
           \/ ContainerStep(s) \/ ReportError(s) \/ Hang(s) \/ ContainerDies(s) \/ GiveTrialUp(s)
    PROVE  IInv'
<1> USE DEF IInv
<1>1. CASE Poll(s)
  BY <1>1, BoxesOK DEF Poll, TypeOK, BoxOK, Running, Unsettled
<1>2. CASE Answer(s)
  BY <1>2, RowsOK DEF Answer, MarkCompleted, TypeOK, Unsettled
<1>3. CASE ReportLimit(s)
  <2>1. [from |-> s, kind |-> "limit", ids |-> Claimed(s)] \in Report
    BY DEF Claimed, Report, Kinds
  <2>2. reports' \in SUBSET Report
    BY <1>3, <2>1 DEF ReportLimit, TypeOK
  <2>3. BoxOK'
    BY <1>3 DEF ReportLimit, TypeOK, BoxOK, Running, Busy, Live, Providers
  <2> QED
    BY <1>3, <2>2, <2>3, BoxesOK DEF ReportLimit, TypeOK, rowVars
<1>4. CASE ReportError(s)
  <2>1. [from |-> s, kind |-> "error", ids |-> {}] \in Report
    BY DEF Report
  <2>2. reports' \in SUBSET Report
    BY <1>4, <2>1 DEF ReportError, TypeOK
  <2> QED
    BY <1>4, <2>2, RowsOK, FaultOK DEF ReportError, MarkCompleted, TypeOK, Unsettled
<1>5. CASE Hang(s)
  BY <1>5, BoxesOK, FaultOK DEF Hang, Busy, Live, TypeOK, BoxOK, Running, Providers, rowVars
<1>6. CASE ContainerDies(s)
  BY <1>6, BoxesOK, FaultOK DEF ContainerDies, TypeOK, BoxOK, Running, Providers, rowVars
<1>7. CASE GiveTrialUp(s)
  BY <1>7, RowsOK, FaultOK DEF GiveTrialUp, TypeOK
<1> QED
  BY <1>1, <1>2, <1>3, <1>4, <1>5, <1>6, <1>7 DEF ContainerStep

LEMMA OwnerStepOK ==
    ASSUME IInv, NEW s \in Sessions,
           \/ SpawnFails(s) \/ ForceFallback(s) \/ RouteInbound(s) \/ Ages(s)
    PROVE  IInv'
<1> USE DEF IInv
<1>1. CASE SpawnFails(s)
  BY <1>1, BoxesOK, FaultOK DEF SpawnFails, TypeOK, BoxOK, Running, rowVars
<1>2. CASE ForceFallback(s)
  BY <1>2, EnterOK, FaultOK DEF ForceFallback, TypeOK
<1>3. CASE RouteInbound(s)
  BY <1>3, BoxesOK, WrittenOK DEF RouteInbound, Wake, TypeOK, BoxOK, Running
<1>4. CASE Ages(s)
  <2>1. faults' \in 0..MaxFaults
    BY <1>4, FaultOK DEF Ages, Slow, TypeOK
  <2> QED
    BY <1>4, <2>1, RowsOK DEF Ages, TypeOK
<1> QED
  BY <1>1, <1>2, <1>3, <1>4

LEMMA ReportOK ==
    ASSUME IInv, NEW r \in reports, DeliverReport(r)
    PROVE  IInv'
<1> USE DEF IInv
<1>1. r \in Report /\ reports' \in SUBSET Report
  BY DEF DeliverReport, TypeOK
<1>2. r.from \in Sessions
  BY <1>1 DEF Report
<1>3. UNCHANGED <<usable, limited, faults>>
  BY DEF DeliverReport
<1>4. CASE FallbackReport(r)
  <2>1. CASE probe # NoSession
    <3>1. trial' \in [Sessions -> {"none", "completed", "failed"} \cup Unsettled]
      BY <1>4, <2>1 DEF FallbackReport, TypeOK
    <3> QED
      BY <1>1, <1>3, <1>4, <2>1, <3>1, BumpOK DEF FallbackReport
  <2>2. CASE probe = NoSession /\ mode # "off"
    BY <1>1, <1>3, <1>4, <2>2, BoxesOK, KillAndWakeOK DEF FallbackReport, TypeOK, stateVars, rowVars
  <2>3. CASE probe = NoSession /\ mode = "off"
    BY <1>1, <1>2, <1>3, <1>4, <2>3, EnterOK DEF FallbackReport, TypeOK
  <2> QED
    BY <2>1, <2>2, <2>3
<1>5. CASE ProviderError(r)
  <2>1. CASE probe # NoSession
    BY <1>1, <1>3, <1>5, <2>1, BumpOK DEF ProviderError, TypeOK, rowVars
  <2>2. CASE probe = NoSession
    BY <1>1, <1>3, <1>5, <2>2, RowsOK DEF ProviderError, TypeOK, rowVars
  <2> QED
    BY <2>1, <2>2
<1> QED
  BY <1>4, <1>5 DEF DeliverReport

LEMMA ReturnSweepOK ==
    ASSUME IInv, SweepFallbackReturn
    PROVE  IInv'
<1> USE DEF IInv
<1>0. UNCHANGED <<reports, usable, limited, faults>> /\ mode = "auto"
  BY DEF SweepFallbackReturn
<1>1. CASE probe = NoSession
  <2>1. StartReturnProbe /\ origin # NoSession /\ origin \in Sessions /\ KillAndWake({origin})
    BY <1>1 DEF SweepFallbackReturn, StartReturnProbe, TypeOK
  <2>2. TypeOK'
    BY <1>0, <2>1, KillAndWakeOK DEF StartReturnProbe, TypeOK, Unsettled
  <2>3. StateOK'
    BY <1>0, <2>1 DEF StartReturnProbe, StateOK
  <2> QED
    BY <2>1, <2>2, <2>3, KillAndWakeOK
<1>2. CASE probe # NoSession /\ ExitFallback({Group[origin]}) /\ UNCHANGED trial
  BY <1>0, <1>2, ExitOK DEF TypeOK
<1>3. CASE probe # NoSession /\ HandleProbeTimeout
  <2>1. trial' \in [Sessions -> {"none", "completed", "failed"} \cup Unsettled]
    BY <1>3 DEF HandleProbeTimeout, TypeOK
  <2> QED
    BY <1>0, <1>3, <2>1, BumpOK DEF HandleProbeTimeout, TypeOK
<1> QED
  BY <1>1, <1>2, <1>3 DEF SweepFallbackReturn

LEMMA ClockOK ==
    ASSUME IInv,
           \/ Return \/ HostRestart \/ RetryDue \/ ProbeLate \/ LimitReached \/ LimitLifts
    PROVE  IInv'
<1> USE DEF IInv
<1>1. CASE Return
  BY <1>1, ExitOK, FaultOK DEF Return
<1>2. CASE HostRestart
  BY <1>2, BoxesOK, FaultOK DEF HostRestart, TypeOK, BoxOK, Running, rowVars
<1>3. CASE RetryDue
  <2>1. faults' \in 0..MaxFaults
    BY <1>3, FaultOK DEF RetryDue, TypeOK
  <2> QED
    BY <1>3, <2>1 DEF RetryDue, TypeOK, StateOK, BoxOK, Running, rowVars, boxVars
<1>4. CASE ProbeLate
  <2>1. faults' \in 0..MaxFaults
    BY <1>4, FaultOK DEF ProbeLate, Slow, TypeOK
  <2> QED
    BY <1>4, <2>1 DEF ProbeLate, TypeOK, StateOK, BoxOK, Running, rowVars, boxVars
<1>5. CASE LimitReached
  BY <1>5, RowsOK, FaultOK DEF LimitReached, TypeOK, rowVars
<1>6. CASE LimitLifts
  BY <1>6, RowsOK DEF LimitLifts, TypeOK, rowVars
<1> QED
  BY <1>1, <1>2, <1>3, <1>4, <1>5, <1>6

LEMMA Inductive == IInv /\ [Next]_vars => IInv'
<1> SUFFICES ASSUME IInv, [Next]_vars PROVE IInv'
  OBVIOUS
<1>1. CASE UNCHANGED vars
  BY <1>1 DEF vars, IInv, TypeOK, StateOK, BoxOK, Running, stateVars, rowVars, boxVars
<1>2. CASE Next
  BY <1>2, HostStepOK, ContainerStepOK, OwnerStepOK, ReportOK, ReturnSweepOK, ClockOK DEF Next
<1> QED
  BY <1>1, <1>2

\* The columns of fallback_state agree and every session has one container,
\* whatever reports, sweeps, commands and crashes come in whatever order.
THEOREM Safety == Spec => []IInv
  BY InitOK, Inductive, PTL DEF Spec

-----------------------------------------------------------------------------
\* The steps of [Next]_vars in terms of mode and probe.
LEMMA Moves ==
    ASSUME IInv, [Next]_vars
    PROVE  \/ mode' = mode /\ probe' = probe
           \/ mode = "off" /\ mode' = "auto" /\ probe' = NoSession
           \/ mode' = "forced" /\ probe' = NoSession
           \/ mode = "auto" /\ mode' = "auto" /\ probe = NoSession /\ probe' # NoSession
           \/ mode' = mode /\ probe # NoSession /\ probe' = NoSession
           \/ mode = "auto" /\ probe # NoSession /\ mode' = "off" /\ probe' = NoSession
           \/ mode # "off" /\ Return /\ mode' = "off" /\ probe' = NoSession
<1> USE DEF stateVars, EnterFallback, SwitchToBackup, NoBackup, ExitFallback, BumpRetry
<1>1. CASE UNCHANGED vars
  BY <1>1 DEF vars
<1>2. ASSUME NEW s \in Sessions, HostStep(s) PROVE UNCHANGED <<mode, probe>>
                    \/ (mode = "off" /\ mode' = "auto" /\ probe' = NoSession)
  BY <1>2 DEF HostStep, ResolveProvider, SpawnDone, ContainerClose, SweepSession,
              SweepFallbackSession, DoubleFault
<1>3. ASSUME NEW s \in Sessions, ContainerStep(s) \/ ReportError(s) \/ Hang(s)
                                 \/ ContainerDies(s) \/ GiveTrialUp(s)
      PROVE  UNCHANGED <<mode, probe>>
  BY <1>3 DEF ContainerStep, Poll, Answer, ReportLimit, ReportError, Hang, ContainerDies, GiveTrialUp
<1>4. ASSUME NEW s \in Sessions, SpawnFails(s) \/ ForceFallback(s) \/ RouteInbound(s) \/ Ages(s)
      PROVE  UNCHANGED <<mode, probe>> \/ (mode' = "forced" /\ probe' = NoSession)
  BY <1>4 DEF SpawnFails, ForceFallback, RouteInbound, Ages
<1>5. ASSUME NEW r \in reports, DeliverReport(r)
      PROVE  \/ UNCHANGED <<mode, probe>>
             \/ mode = "off" /\ mode' = "auto" /\ probe' = NoSession
             \/ mode' = mode /\ probe # NoSession /\ probe' = NoSession
  BY <1>5 DEF DeliverReport, FallbackReport, ProviderError
<1>6. CASE SweepFallbackReturn
  BY <1>6 DEF SweepFallbackReturn, StartReturnProbe, HandleProbeTimeout
<1>7. CASE Return
  BY <1>7 DEF Return
<1>8. CASE HostRestart \/ RetryDue \/ ProbeLate \/ LimitReached \/ LimitLifts
  BY <1>8 DEF HostRestart, RetryDue, ProbeLate, LimitReached, LimitLifts
<1> QED
  BY <1>1, <1>2, <1>3, <1>4, <1>5, <1>6, <1>7, <1>8 DEF Next

\* A forced fallback is ended by the owner alone.
THEOREM ForcedIsKept == Spec => ForcedStays
<1>1. ASSUME IInv, [Next]_vars
      PROVE  [mode = "forced" /\ mode' # "forced" => Return]_vars
  BY <1>1, Moves
<1> QED
  BY <1>1, Safety, PTL DEF Spec, ForcedStays

\* The fallback of all sessions together is Failover: it leaves the backup by
\* a trial or by the owner's command, and tries only when it is not pinned.
THEOREM Refines == Spec => ImplementsFailover
<1> USE DEF Failing!Fail, Failing!Pin, Failing!Try, Failing!GiveUp, Failing!Recover, Failing!Release
<1>1. Init => Failing!Init
  BY DEF Init, Failing!Init
<1>2. ASSUME IInv, [Next]_vars
      PROVE  [Failing!Next]_<<CASE mode = "off" -> "native" [] mode = "auto" -> "backup" [] OTHER -> "pinned",
                             probe # NoSession>>
  <2> USE DEF Failing!Next
  <2>1. mode \in {"off", "auto", "forced"} /\ (probe # NoSession => mode = "auto")
    BY <1>2 DEF IInv, TypeOK, StateOK
  <2>2. CASE UNCHANGED <<mode, probe>>
    BY <2>2
  <2>3. CASE mode = "off" /\ mode' = "auto" /\ probe' = NoSession
    BY <2>3
  <2>4. CASE mode' = "forced" /\ probe' = NoSession
    BY <2>4
  <2>5. CASE mode = "auto" /\ mode' = "auto" /\ probe = NoSession /\ probe' # NoSession
    BY <2>5
  <2>6. CASE mode' = mode /\ probe # NoSession /\ probe' = NoSession
    BY <2>6
  <2>7. CASE mode = "auto" /\ probe # NoSession /\ mode' = "off" /\ probe' = NoSession
    BY <2>7
  <2>8. CASE mode # "off" /\ Return /\ mode' = "off" /\ probe' = NoSession
    BY <2>1, <2>8
  <2> QED
    BY <1>2, <2>2, <2>3, <2>4, <2>5, <2>6, <2>7, <2>8, Moves
<1> QED
  BY <1>1, <1>2, Safety, PTL DEF Spec, ImplementsFailover, Failing!Spec

-----------------------------------------------------------------------------
(* The rows of a series                                                    *)

\* A function on 1..n into rows is a sequence of rows.
LEMMA RowsAreSeq ==
    ASSUME NEW n \in Nat, NEW f \in [1..n -> Row]
    PROVE  f \in Seq(Row) /\ Len(f) = n /\ DOMAIN f = 1..n
<1>1. f \in Seq(Row)
    BY SeqDef
<1>2. DOMAIN f = 1..n /\ DOMAIN f = 1..Len(f) /\ Len(f) \in Nat
    BY <1>1, LenProperties
<1> QED
    BY <1>1, <1>2

LEMMA RowsFacts ==
    ASSUME NEW rs \in Seq(Row)
    PROVE  /\ Len(rs) \in Nat /\ rs \in [1..Len(rs) -> Row] /\ DOMAIN rs = 1..Len(rs)
           /\ \A i \in DOMAIN rs : rs[i] \in Row
BY LenProperties

\* What a run, a death, the sync or a failure does to a row: the recurrence
\* stays, and a row keeps its status or ends.
Progress(was, new) ==
    /\ new.recurrence = was.recurrence
    /\ new.status = was.status \/ (was.status # "deleted" /\ new.status \in Done)

\* A row that has ended stays as it ended; a paused one nobody began stays so.
Keeps(was, new) == was.status \in Done => new.status = was.status
Rests(was, new) == was.status = "paused" /\ was.ack = "none" => new.status = "paused" /\ new.ack = "none"

\* The rows new are the rows rs after such steps; those outside T rest.
Advance(rs, new) == DOMAIN new = DOMAIN rs /\ \A i \in DOMAIN rs : Progress(rs[i], new[i])
Faithful(rs, new) == \A i \in DOMAIN rs : Keeps(rs[i], new[i])
Undisturbed(rs, new, T) == \A i \in DOMAIN rs \ T : Rests(rs[i], new[i])

ArmedIn(rs) == {i \in With(rs, LiveStatuses \union Done) : rs[i].recurrence}
BareIn(rs) == \A i \in With(rs, {"cancelled", "deleted"}) : ~rs[i].recurrence
ChainIn(rs, T) ==
    \A i \in DOMAIN rs :
        IF i < Len(rs) THEN rs[i].status \in Done /\ ~rs[i].recurrence
        ELSE /\ rs[i].status \in LiveStatuses \union Done
             /\ rs[i].status = "pending" => TrailingFails(rs) < Cap
             /\ rs[i].status = "paused" => /\ TrailingFails(rs) = Cap /\ rs[i].ack = "none"
                                           /\ i \notin T
             /\ rs[i].status \in Done => TrailingFails(rs) <= Cap

\* The failed rows above the last completed one.
Trail(rs) == {i \in With(rs, {"failed"}) : \A j \in With(rs, {"completed"}) : j < i}

LEMMA AdvanceTwice ==
    ASSUME NEW a, NEW b, NEW c, NEW T, Advance(a, b), Advance(b, c)
    PROVE  /\ Advance(a, c)
           /\ Faithful(a, b) /\ Faithful(b, c) => Faithful(a, c)
           /\ Undisturbed(a, b, T) /\ Undisturbed(b, c, T) => Undisturbed(a, c, T)
<1>1. DOMAIN b = DOMAIN a /\ DOMAIN c = DOMAIN a
    BY DEF Advance
<1>2. Advance(a, c)
    BY DEF Advance, Progress, Done
<1>3. ASSUME Faithful(a, b), Faithful(b, c) PROVE Faithful(a, c)
    BY <1>1, <1>3 DEF Faithful, Keeps
<1>4. ASSUME Undisturbed(a, b, T), Undisturbed(b, c, T) PROVE Undisturbed(a, c, T)
    BY <1>1, <1>4 DEF Undisturbed, Rests
<1> QED
    BY <1>2, <1>3, <1>4

LEMMA AdvanceArmed ==
    ASSUME NEW rs \in Seq(Row), NEW new, Advance(rs, new), BareIn(rs)
    PROVE  /\ ArmedIn(new) = ArmedIn(rs)
           /\ BareIn(new)
           /\ With(new, LiveStatuses) \subseteq With(rs, LiveStatuses)
<1> USE DEF Advance, Progress, With, LiveStatuses, Done
<1>0. \A i \in DOMAIN rs : rs[i].status \in LiveStatuses \union Done \union {"cancelled", "deleted"}
    BY RowsFacts DEF Row, Statuses
<1>1. ArmedIn(new) \subseteq ArmedIn(rs)
    BY <1>0, SMTT(60) DEF BareIn, ArmedIn
<1>2. ArmedIn(rs) \subseteq ArmedIn(new)
    BY DEF ArmedIn
<1>3. BareIn(new)
    BY DEF BareIn
<1> QED
    BY <1>1, <1>2, <1>3

LEMMA TrailFinite ==
    ASSUME NEW rs \in Seq(Row)
    PROVE  IsFiniteSet(Trail(rs)) /\ TrailingFails(rs) = Cardinality(Trail(rs)) /\ TrailingFails(rs) \in Nat
<1>1. IsFiniteSet(1..Len(rs)) /\ DOMAIN rs = 1..Len(rs)
    BY RowsFacts, FS_Interval
<1>2. Trail(rs) \in SUBSET (1..Len(rs))
    BY <1>1 DEF Trail, With
<1>3. IsFiniteSet(Trail(rs))
    BY <1>1, <1>2, FS_Subset
<1> QED
    BY <1>3, FS_CardinalityType DEF TrailingFails, Trail

LEMMA AdvanceChain ==
    ASSUME NEW rs \in Seq(Row), NEW new \in Seq(Row), NEW T, Advance(rs, new), Faithful(rs, new),
           Undisturbed(rs, new, T), ChainIn(rs, T)
    PROVE  ChainIn(new, T)
<1> DEFINE L == Len(rs)
<1> USE BoundsAssumption
<1>1. /\ L \in Nat /\ DOMAIN rs = 1..L /\ DOMAIN new = 1..L /\ Len(new) = L
    BY RowsFacts DEF Advance
<1>2. CASE L = 0
    BY <1>1, <1>2 DEF ChainIn
<1>3. CASE L > 0
  <2>1. L \in DOMAIN rs
      BY <1>1, <1>3
  <2>2. \A i \in 1..L : i < L =>
          /\ rs[i].status \in Done /\ ~rs[i].recurrence
          /\ new[i].status = rs[i].status /\ ~new[i].recurrence
      BY <1>1 DEF ChainIn, Advance, Progress, Faithful, Keeps
  <2>3. /\ rs[L].status \in LiveStatuses \union Done
        /\ rs[L].status = "pending" => TrailingFails(rs) < Cap
        /\ rs[L].status = "paused" => TrailingFails(rs) = Cap /\ rs[L].ack = "none" /\ L \notin T
        /\ rs[L].status \in Done => TrailingFails(rs) <= Cap
      BY <1>1, <2>1 DEF ChainIn
  <2>4. /\ Progress(rs[L], new[L]) /\ Keeps(rs[L], new[L])
        /\ rs[L].status = "paused" => Rests(rs[L], new[L])
      BY <2>1, <2>3 DEF Advance, Faithful, Undisturbed
  <2>5. /\ IsFiniteSet(Trail(rs)) /\ TrailingFails(rs) = Cardinality(Trail(rs)) /\ TrailingFails(rs) \in Nat
        /\ IsFiniteSet(Trail(new)) /\ TrailingFails(new) = Cardinality(Trail(new)) /\ TrailingFails(new) \in Nat
      BY TrailFinite
  <2> HIDE DEF L
  <2>6. CASE new[L].status = rs[L].status
    <3>1. \A i \in 1..L : new[i].status = rs[i].status
        BY <1>1, <2>2, <2>6
    <3>2. Trail(new) = Trail(rs)
        BY <1>1, <3>1 DEF Trail, With
    <3>3. new[L].status = "paused" => TrailingFails(rs) = Cap /\ new[L].ack = "none"
        BY <2>3, <2>4, <2>6 DEF Rests
    <3> QED
        BY <1>1, <2>2, <2>3, <2>5, <2>6, <3>2, <3>3 DEF ChainIn, L
  <2>7. CASE new[L].status # rs[L].status
    <3>1. rs[L].status = "pending" /\ new[L].status \in Done
        BY <2>3, <2>4, <2>7 DEF Progress, Keeps, Rests, LiveStatuses, Done
    <3>2. TrailingFails(new) <= Cap
      <4>1. CASE new[L].status = "completed"
        <5>1. L \in With(new, {"completed"}) /\ \A i \in 1..L : ~(L < i)
            BY <1>1, <1>3, <4>1 DEF With
        <5>2. Trail(new) = {}
            BY <1>1, <5>1 DEF Trail, With
        <5> QED
            BY <2>5, <5>2, FS_EmptySet
      <4>2. CASE new[L].status = "failed"
        <5>1. Trail(new) = Trail(rs) \union {L}
            BY <1>1, <1>3, <2>2, <3>1, <4>2 DEF Trail, With
        <5>2. Cardinality(Trail(new)) <= Cardinality(Trail(rs)) + 1
            BY SMTT(60), <2>5, <5>1, FS_AddElement
        <5> QED
            BY <2>3, <2>5, <3>1, <5>2
      <4> QED
          BY <3>1, <4>1, <4>2 DEF Done
    <3>3. \A i \in 1..L : i < L => new[i].status \in Done /\ ~new[i].recurrence
        BY <2>2
    <3>4. new[L].status # "pending" /\ new[L].status # "paused"
        BY <3>1 DEF Done
    <3> QED
        BY <1>1, <3>1, <3>2, <3>3, <3>4 DEF ChainIn, L
  <2> QED
      BY <2>6, <2>7
<1> QED
    BY <1>1, <1>2, <1>3

LEMMA ChainTouched ==
    ASSUME NEW rs, NEW T, NEW U, ChainIn(rs, T),
           \A i \in U \ T : i \in DOMAIN rs => rs[i].status # "paused"
    PROVE  ChainIn(rs, U)
BY DEF ChainIn

\* Nothing has made the series' history untrue.
Straight(sl) == sl \intersect {"doubled", "rewritten"} = {}

\* The parts of the invariant, of the rows rs.
LEMMA InvParts ==
    /\ Armed = ArmedIn(rows) /\ LiveRows = With(rows, LiveStatuses)
    /\ StoppedIsBare <=> BareIn(rows)
    /\ Chain <=> (commands = 0 /\ Straight(slips) => ChainIn(rows, Touched))
BY DEF Armed, ArmedIn, LiveRows, StoppedIsBare, BareIn, Chain, ChainIn, Straight

\* Failures may be found to have rewritten a completed run.
SlipsKept == slips' = slips \/ slips' = slips \union {"rewritten"}

\* Time, claims, answers, the sync, the charges of the sweep and failures.
LEMMA AdvanceKept ==
    ASSUME SeriesInv, SeriesTypeOK', Advance(rows, rows'),
           UNCHANGED <<session, wanted>>, SlipsKept,
           "rewritten" \notin slips' => Faithful(rows, rows'),
           Undisturbed(rows, rows', Touched),
           \A i \in Touched' \ Touched : rows[i].status # "paused",
           commands' = commands \/ commands' # 0,
           session # "active" => sweep' = sweep
    PROVE  SeriesInv'
<1>1. /\ rows \in Seq(Row) /\ rows' \in Seq(Row)
      /\ Touched' \subseteq DOMAIN rows' /\ DOMAIN rows' = DOMAIN rows
    BY DEF SeriesInv, SeriesTypeOK, Advance
<1>2. /\ Armed' = Armed /\ StoppedIsBare'
      /\ LiveRows' \subseteq LiveRows
  <2>1. /\ ArmedIn(rows') = ArmedIn(rows) /\ BareIn(rows')
        /\ With(rows', LiveStatuses) \subseteq With(rows, LiveStatuses)
      BY <1>1, AdvanceArmed, InvParts DEF SeriesInv
  <2> QED
      BY <2>1 DEF Armed, ArmedIn, LiveRows, StoppedIsBare, BareIn
<1>3. Chain'
  <2>1. ASSUME commands' = 0, Straight(slips') PROVE ChainIn(rows', Touched')
    <3>1. commands = 0 /\ Straight(slips) /\ "rewritten" \notin slips'
        BY <2>1 DEF Straight, SlipsKept
    <3>2. ChainIn(rows, Touched)
        BY <3>1, InvParts DEF SeriesInv
    <3>3. ChainIn(rows', Touched)
        BY <1>1, <3>1, <3>2, AdvanceChain
    <3>4. \A i \in Touched' \ Touched : rows'[i].status # "paused"
        BY <1>1 DEF Advance, Progress, Done
    <3> QED
        BY <3>3, <3>4, ChainTouched
  <2> QED
      BY <2>1 DEF Chain, ChainIn, Straight
<1>4. SeriesSurvives' /\ OneSchedule' /\ StopHolds' /\ ClosedIsSpent'
    BY <1>2 DEF SeriesInv, SeriesSurvives, OneSchedule, StopHolds, ClosedIsSpent, SlipsKept
<1>5. PauseHolds'
  <2>1. ASSUME wanted' = "paused", slips' \intersect {"doubled", "overwritten"} = {}, NEW i \in Armed
        PROVE  rows'[i].status = "paused" /\ rows'[i].ack = "none" /\ i \notin Touched'
    <3>1. /\ i \in DOMAIN rows
          /\ rows[i].status = "paused" /\ rows[i].ack = "none" /\ i \notin Touched
        BY <2>1 DEF SeriesInv, PauseHolds, SlipsKept, Armed, With
    <3> QED
        BY <3>1 DEF Undisturbed, Rests
  <2> QED
      BY <1>2, <2>1 DEF PauseHolds
<1> QED
    BY <1>2, <1>3, <1>4, <1>5 DEF SeriesInv

\* Steps that only the commands counter and the container's rows see.
LEMMA SameTouched ==
    ASSUME UNCHANGED <<query, breached, reported>>
    PROVE  Touched' = Touched
BY DEF Touched, Doomed

\* The row's status, recurrence and ack are as before.
SameRun(was, new) ==
    new.status = was.status /\ new.recurrence = was.recurrence /\ new.ack = was.ack

\* A function that gives every row a row.
LEMMA RowwiseType ==
    ASSUME NEW rs \in Seq(Row), NEW new \in [DOMAIN rs -> Row]
    PROVE  new \in Seq(Row) /\ DOMAIN new = DOMAIN rs /\ Len(new) = Len(rs)
<1>1. Len(rs) \in Nat /\ DOMAIN rs = 1..Len(rs)
    BY RowsFacts
<1> QED
    BY <1>1, RowsAreSeq

\* A row a command has changed is a row.
LEMMA RowChanges ==
    ASSUME NEW r \in Row
    PROVE  /\ \A s \in Statuses : [r EXCEPT !.status = s] \in Row
           /\ \A b \in BOOLEAN : /\ [r EXCEPT !.recurrence = b] \in Row
                                 /\ [r EXCEPT !.due = b] \in Row
                                 /\ [r EXCEPT !.script = b] \in Row
           /\ \A a \in Acks : [r EXCEPT !.ack = a] \in Row
           /\ \A s \in Statuses : Settled(r, s) \in Row
           /\ TaskRow("deleted", FALSE, FALSE, FALSE) \in Row
BY BoundsAssumption DEF Row, TaskRow, Settled, Statuses, LiveStatuses, Done, Acks

\* What a command leaves alone, and that it is counted.
LEMMA CommandTyped ==
    ASSUME SeriesInv, MoreEvents, session = "active", commands' = commands + 1,
           UNCHANGED <<session, containerVars, backup, sweepVars, reported, mishaps>>,
           rows' \in Seq(Row), DOMAIN rows \subseteq DOMAIN rows',
           wanted' \in {"nothing", "once", "recurring", "paused", "stopped"},
           slips' \subseteq {"doubled", "escaped", "overwritten", "rewritten"}
    PROVE  SeriesTypeOK' /\ commands' # 0 /\ Touched' = Touched
<1>1. Touched' = Touched
    BY SameTouched DEF containerVars, sweepVars
<1>2. commands' \in 0..MaxEvents /\ commands' # 0 /\ mishaps' \in 0..MaxEvents
    BY BoundsAssumption DEF SeriesInv, SeriesTypeOK, MoreEvents
<1>3. Touched' \subseteq DOMAIN rows'
    BY <1>1 DEF SeriesInv, SeriesTypeOK
<1>4. UNCHANGED <<session, running, restart, backup, sweep, alive>>
    BY DEF containerVars, sweepVars
<1> QED
    BY <1>1, <1>2, <1>3, <1>4 DEF SeriesInv, SeriesTypeOK

LEMMA PauseKept ==
    ASSUME SeriesInv, PauseTask
    PROVE  SeriesInv'
<1> DEFINE S == With(rows, {"pending"})
<1>1. /\ rows' = [i \in DOMAIN rows |-> IF i \in S THEN [rows[i] EXCEPT !.status = "paused"] ELSE rows[i]]
      /\ session = "active" /\ MoreEvents /\ commands' = commands + 1
      /\ UNCHANGED <<session, containerVars, backup, sweepVars, reported, mishaps>>
      /\ wanted' = IF wanted = "recurring" THEN "paused" ELSE wanted
      /\ slips' = IF UnderWay = {} THEN slips ELSE slips \union {"overwritten"}
    BY DEF PauseTask, Command
<1>2. rows \in Seq(Row) /\ \A i \in DOMAIN rows : rows[i] \in Row
    BY RowsFacts DEF SeriesInv, SeriesTypeOK
<1>3. rows' \in Seq(Row)
  <2>1. \A i \in DOMAIN rows : [rows[i] EXCEPT !.status = "paused"] \in Row
      BY <1>2, RowChanges DEF Statuses, LiveStatuses
  <2>2. rows' \in [DOMAIN rows -> Row]
      BY <1>1, <1>2, <2>1
  <2> QED
      BY <1>2, <2>2, RowwiseType
<1>4. SeriesTypeOK' /\ commands' # 0 /\ Touched' = Touched
  <2>1. wanted' \in {"nothing", "once", "recurring", "paused", "stopped"} /\ slips' \subseteq {"doubled", "escaped", "overwritten", "rewritten"}
      BY <1>1 DEF SeriesInv, SeriesTypeOK
  <2> QED
      BY <1>1, <1>3, <2>1, CommandTyped
<1>5. /\ DOMAIN rows' = DOMAIN rows
      /\ \A i \in DOMAIN rows :
            /\ rows'[i].status = IF rows[i].status = "pending" THEN "paused" ELSE rows[i].status
            /\ rows'[i].recurrence = rows[i].recurrence /\ rows'[i].ack = rows[i].ack
    BY <1>1, <1>2 DEF Row, With
<1>6. Armed' = Armed /\ StoppedIsBare'
    BY <1>5 DEF Armed, With, LiveStatuses, Done, SeriesInv, StoppedIsBare
<1>7. SeriesSurvives' /\ OneSchedule' /\ StopHolds' /\ ClosedIsSpent'
    BY <1>1, <1>6 DEF SeriesInv, SeriesSurvives, OneSchedule, StopHolds, ClosedIsSpent
<1>8. PauseHolds'
  <2>1. ASSUME slips' \intersect {"doubled", "overwritten"} = {}, NEW i \in Armed
        PROVE  rows'[i].status = "paused" /\ rows'[i].ack = "none" /\ i \notin Touched
    <3>1. i \notin UnderWay
        BY <1>1, <2>1
    <3> QED
        BY <1>5, <3>1 DEF UnderWay, Armed, With, LiveStatuses
  <2> QED
      BY <1>4, <1>6, <2>1 DEF PauseHolds
<1> QED
    BY <1>4, <1>6, <1>7, <1>8 DEF SeriesInv, Chain

LEMMA ResumeKept ==
    ASSUME SeriesInv, ResumeTask
    PROVE  SeriesInv'
<1> DEFINE S == With(rows, {"paused"})
<1>1. /\ rows' = [i \in DOMAIN rows |-> IF i \in S THEN [rows[i] EXCEPT !.status = "pending"] ELSE rows[i]]
      /\ session = "active" /\ MoreEvents /\ commands' = commands + 1
      /\ UNCHANGED <<session, containerVars, backup, sweepVars, reported, mishaps, slips>>
      /\ wanted' = IF wanted = "paused" THEN "recurring" ELSE wanted
    BY DEF ResumeTask, Command
<1>2. rows \in Seq(Row) /\ \A i \in DOMAIN rows : rows[i] \in Row
    BY RowsFacts DEF SeriesInv, SeriesTypeOK
<1>3. rows' \in Seq(Row)
  <2>1. \A i \in DOMAIN rows : [rows[i] EXCEPT !.status = "pending"] \in Row
      BY <1>2, RowChanges DEF Statuses, LiveStatuses
  <2>2. rows' \in [DOMAIN rows -> Row]
      BY <1>1, <1>2, <2>1
  <2> QED
      BY <1>2, <2>2, RowwiseType
<1>4. SeriesTypeOK' /\ commands' # 0 /\ Touched' = Touched
  <2>1. wanted' \in {"nothing", "once", "recurring", "paused", "stopped"} /\ slips' \subseteq {"doubled", "escaped", "overwritten", "rewritten"}
      BY <1>1 DEF SeriesInv, SeriesTypeOK
  <2> QED
      BY <1>1, <1>3, <2>1, CommandTyped
<1>5. /\ DOMAIN rows' = DOMAIN rows
      /\ \A i \in DOMAIN rows :
            /\ rows'[i].status = IF rows[i].status = "paused" THEN "pending" ELSE rows[i].status
            /\ rows'[i].recurrence = rows[i].recurrence
    BY <1>1, <1>2 DEF Row, With
<1>6. Armed' = Armed /\ StoppedIsBare'
    BY <1>5 DEF Armed, With, LiveStatuses, Done, SeriesInv, StoppedIsBare
<1>7. SeriesSurvives' /\ OneSchedule' /\ StopHolds' /\ ClosedIsSpent' /\ PauseHolds'
    BY <1>1, <1>6 DEF SeriesInv, SeriesSurvives, OneSchedule, StopHolds, ClosedIsSpent, PauseHolds
<1> QED
    BY <1>4, <1>6, <1>7 DEF SeriesInv, Chain

\* What a cancellation or an update to no recurrence leaves, unless an
\* occurrence had ended.
LEMMA StopKept ==
    ASSUME SeriesInv, SeriesTypeOK', session = "active", session' = session, commands' # 0,
           DOMAIN rows' = DOMAIN rows,
           \A i \in DOMAIN rows :
              IF i \in LiveRows THEN ~rows'[i].recurrence
              ELSE rows'[i].status = rows[i].status /\ rows'[i].recurrence = rows[i].recurrence,
           wanted' = "stopped", slips' = Escapes
    PROVE  SeriesInv'
<1>1. Armed' \subseteq Armed \ LiveRows /\ Armed' \subseteq Ended(rows)
    BY DEF Armed, LiveRows, With, Ended
<1>2. "escaped" \notin slips' => Ended(rows) = {}
    BY DEF Escapes
<1>3. "doubled" \in slips' <=> "doubled" \in slips
    BY DEF Escapes
<1>4. SeriesSurvives' /\ OneSchedule' /\ StopHolds' /\ ClosedIsSpent' /\ PauseHolds'
    BY <1>1, <1>2, <1>3 DEF SeriesInv, SeriesSurvives, OneSchedule, StopHolds, ClosedIsSpent, PauseHolds
<1>5. StoppedIsBare'
    BY DEF SeriesInv, StoppedIsBare, With
<1> QED
    BY <1>4, <1>5 DEF SeriesInv, Chain

LEMMA CancelKept ==
    ASSUME SeriesInv, CancelTask
    PROVE  SeriesInv'
<1>1. /\ rows' = [i \in DOMAIN rows |->
                    IF i \in LiveRows THEN [rows[i] EXCEPT !.status = "cancelled", !.recurrence = FALSE] ELSE rows[i]]
    BY DEF CancelTask, Command
<1>2. /\ session = "active" /\ MoreEvents /\ commands' = commands + 1
      /\ UNCHANGED <<session, containerVars, backup, sweepVars, reported, mishaps>>
      /\ wanted' = "stopped" /\ slips' = Escapes
    BY DEF CancelTask, Command
<1>3. rows \in Seq(Row) /\ \A i \in DOMAIN rows : rows[i] \in Row
    BY RowsFacts DEF SeriesInv, SeriesTypeOK
<1>4. rows' \in Seq(Row)
  <2>1. \A i \in DOMAIN rows : [rows[i] EXCEPT !.status = "cancelled", !.recurrence = FALSE] \in Row
      BY <1>3 DEF Row, Statuses
  <2>2. rows' \in [DOMAIN rows -> Row]
      BY <1>1, <1>3, <2>1
  <2> QED
      BY <1>3, <2>2, RowwiseType
<1>5. SeriesTypeOK' /\ commands' # 0
  <2>1. wanted' \in {"nothing", "once", "recurring", "paused", "stopped"} /\ slips' \subseteq {"doubled", "escaped", "overwritten", "rewritten"}
      BY <1>2 DEF Escapes, SeriesInv, SeriesTypeOK
  <2>2. DOMAIN rows' = DOMAIN rows
      BY <1>1
  <2> QED
      BY <1>2, <1>4, <2>1, <2>2, CommandTyped
<1>6. /\ DOMAIN rows' = DOMAIN rows
      /\ \A i \in DOMAIN rows :
            IF i \in LiveRows THEN ~rows'[i].recurrence
            ELSE rows'[i].status = rows[i].status /\ rows'[i].recurrence = rows[i].recurrence
    BY <1>1, <1>3 DEF Row
<1> QED
    BY <1>2, <1>5, <1>6, StopKept

LEMMA DeleteKept ==
    ASSUME SeriesInv, DeleteTask
    PROVE  SeriesInv'
<1> DEFINE S == With(rows, Statuses \ {"deleted"})
<1>1. /\ rows' = [i \in DOMAIN rows |-> IF i \in S THEN TaskRow("deleted", FALSE, FALSE, FALSE) ELSE rows[i]]
      /\ session = "active" /\ MoreEvents /\ commands' = commands + 1
      /\ UNCHANGED <<session, containerVars, backup, sweepVars, reported, mishaps, slips>>
      /\ wanted' = "stopped"
    BY DEF DeleteTask, Command
<1>2. rows \in Seq(Row) /\ \A i \in DOMAIN rows : rows[i] \in Row
    BY RowsFacts DEF SeriesInv, SeriesTypeOK
<1>3. rows' \in Seq(Row)
  <2>1. TaskRow("deleted", FALSE, FALSE, FALSE) \in Row
      BY BoundsAssumption DEF Row, TaskRow, Statuses, Acks
  <2>2. rows' \in [DOMAIN rows -> Row]
      BY <1>1, <1>2, <2>1
  <2> QED
      BY <1>2, <2>2, RowwiseType
<1>4. SeriesTypeOK' /\ commands' # 0 /\ Touched' = Touched
  <2>1. wanted' \in {"nothing", "once", "recurring", "paused", "stopped"} /\ slips' \subseteq {"doubled", "escaped", "overwritten", "rewritten"}
      BY <1>1 DEF SeriesInv, SeriesTypeOK
  <2> QED
      BY <1>1, <1>3, <2>1, CommandTyped
<1>5. \A i \in DOMAIN rows' : rows'[i].status = "deleted" /\ ~rows'[i].recurrence
    BY <1>1, <1>2 DEF Row, With, TaskRow, SeriesInv, StoppedIsBare
<1>6. Armed' = {} /\ StoppedIsBare'
    BY <1>5 DEF Armed, With, LiveStatuses, Done, StoppedIsBare
<1>7. SeriesSurvives' /\ OneSchedule' /\ StopHolds' /\ ClosedIsSpent' /\ PauseHolds'
    BY <1>1, <1>6 DEF SeriesInv, SeriesSurvives, OneSchedule, StopHolds, ClosedIsSpent, PauseHolds
<1> QED
    BY <1>4, <1>6, <1>7 DEF SeriesInv, Chain

\* A set without two members has at most one.
LEMMA AtMostOne ==
    ASSUME NEW S, IsFiniteSet(S), ~(Cardinality(S) > 1)
    PROVE  \A x, y \in S : x = y
<1>1. ASSUME NEW x \in S, NEW y \in S, x # y PROVE FALSE
  <2>1. IsFiniteSet({x}) /\ Cardinality({x}) = 1
      BY FS_Singleton
  <2>2. IsFiniteSet({x} \union {y}) /\ Cardinality({x} \union {y}) = 2
    <3>1. y \notin {x}
        BY <1>1
    <3>2. Cardinality({x} \union {y}) = Cardinality({x}) + 1
        BY <2>1, <3>1, FS_AddElement
    <3>3. IsFiniteSet({x} \union {y})
        BY <2>1, FS_AddElement
    <3> QED
        BY <2>1, <3>2, <3>3
  <2>3. Cardinality({x} \union {y}) <= Cardinality(S)
      BY <1>1, FS_Subset
  <2>4. Cardinality(S) \in Nat
      BY FS_CardinalityType
  <2> QED
      BY <2>2, <2>3, <2>4, SMTT(60)
<1> QED
    BY <1>1

\* An update to a recurrence arms every live row.
LEMMA UpdateRecurrenceKept ==
    ASSUME SeriesInv, NEW b \in BOOLEAN, UpdateRecurrence(b)
    PROVE  SeriesInv'
<1>1. /\ rows' = [i \in DOMAIN rows |-> IF i \in LiveRows THEN [rows[i] EXCEPT !.recurrence = b] ELSE rows[i]]
      /\ session = "active" /\ MoreEvents /\ commands' = commands + 1 /\ LiveRows # {}
      /\ UNCHANGED <<session, containerVars, backup, sweepVars, reported, mishaps>>
      /\ wanted' = IF ~b THEN "stopped" ELSE IF wanted = "paused" THEN wanted ELSE "recurring"
      /\ slips' = IF ~b THEN Escapes
                  ELSE IF Cardinality(LiveRows \union Ended(rows)) > 1 THEN slips \union {"doubled"}
                  ELSE slips
    BY DEF UpdateRecurrence, Command
<1>2. rows \in Seq(Row) /\ \A i \in DOMAIN rows : rows[i] \in Row
    BY RowsFacts DEF SeriesInv, SeriesTypeOK
<1>3. rows' \in Seq(Row)
  <2>1. \A i \in DOMAIN rows : [rows[i] EXCEPT !.recurrence = b] \in Row
      BY <1>2, RowChanges
  <2>2. rows' \in [DOMAIN rows -> Row]
      BY <1>1, <1>2, <2>1
  <2> QED
      BY <1>2, <2>2, RowwiseType
<1>4. SeriesTypeOK' /\ commands' # 0 /\ Touched' = Touched
  <2>1. wanted' \in {"nothing", "once", "recurring", "paused", "stopped"} /\ slips' \subseteq {"doubled", "escaped", "overwritten", "rewritten"}
      BY <1>1 DEF SeriesInv, SeriesTypeOK, Escapes
  <2> QED
      BY <1>1, <1>3, <2>1, CommandTyped
<1>5. /\ DOMAIN rows' = DOMAIN rows
      /\ \A i \in DOMAIN rows :
            /\ rows'[i].status = rows[i].status /\ rows'[i].ack = rows[i].ack
            /\ rows'[i].recurrence = IF i \in LiveRows THEN b ELSE rows[i].recurrence
    BY <1>1, <1>2 DEF Row
<1>6. CASE ~b
    BY <1>1, <1>4, <1>5, <1>6, StopKept
<1>7. CASE b
  <2> DEFINE S == LiveRows \union Ended(rows)
  <2>1. Armed' = S /\ Armed \subseteq S
      BY <1>5, <1>7 DEF Armed, LiveRows, Ended, With
  <2>2. /\ wanted' = IF wanted = "paused" THEN wanted ELSE "recurring"
        /\ slips' = IF Cardinality(S) > 1 THEN slips \union {"doubled"} ELSE slips
      BY <1>1, <1>7
  <2>3. IsFiniteSet(S)
    <3>1. IsFiniteSet(1..Len(rows)) /\ DOMAIN rows = 1..Len(rows)
        BY <1>2, RowsFacts, FS_Interval
    <3>2. S \in SUBSET (1..Len(rows))
        BY <3>1 DEF LiveRows, Ended, With
    <3> QED
        BY <3>1, <3>2, FS_Subset
  <2> HIDE DEF S
  <2>4. "doubled" \notin slips' => \A x, y \in S : x = y
      BY <2>2, <2>3, AtMostOne
  <2>5. SeriesSurvives' /\ OneSchedule' /\ StopHolds' /\ ClosedIsSpent'
      BY <1>1, <2>1, <2>2, <2>4 DEF S, SeriesInv, SeriesSurvives, OneSchedule, StopHolds, ClosedIsSpent
  <2>6. PauseHolds'
    <3>1. ASSUME wanted' = "paused", slips' \intersect {"doubled", "overwritten"} = {}, NEW i \in S
          PROVE  rows'[i].status = "paused" /\ rows'[i].ack = "none" /\ i \notin Touched
      <4>1. wanted = "paused" /\ slips \intersect {"doubled", "overwritten"} = {} /\ "doubled" \notin slips'
          BY <2>2, <3>1
      <4>2. i \in Armed
          BY <2>1, <2>4, <3>1, <4>1 DEF SeriesInv, SeriesSurvives
      <4>3. i \in DOMAIN rows /\ rows[i].status = "paused" /\ rows[i].ack = "none" /\ i \notin Touched
          BY <4>1, <4>2 DEF SeriesInv, PauseHolds, Armed, With
      <4> QED
          BY <1>5, <4>3
    <3> QED
        BY <1>4, <2>1, <3>1 DEF PauseHolds
  <2>7. StoppedIsBare'
      BY <1>5 DEF SeriesInv, StoppedIsBare, With, LiveRows, LiveStatuses
  <2> QED
      BY <1>4, <2>5, <2>6, <2>7 DEF SeriesInv, Chain
<1> QED
    BY <1>6, <1>7

LEMMA UpdatesKept ==
    ASSUME SeriesInv, NEW b \in BOOLEAN, UpdateProcessAfter(b) \/ UpdateScript(b)
    PROVE  SeriesInv'
<1>1. /\ \/ rows' = [i \in DOMAIN rows |-> IF i \in LiveRows THEN [rows[i] EXCEPT !.due = b] ELSE rows[i]]
         \/ rows' = [i \in DOMAIN rows |-> IF i \in LiveRows THEN [rows[i] EXCEPT !.script = b] ELSE rows[i]]
      /\ session = "active" /\ MoreEvents /\ commands' = commands + 1
      /\ UNCHANGED <<session, containerVars, backup, sweepVars, reported, mishaps, wanted, slips>>
    BY DEF UpdateProcessAfter, UpdateScript, Command
<1>2. rows \in Seq(Row) /\ \A i \in DOMAIN rows : rows[i] \in Row
    BY RowsFacts DEF SeriesInv, SeriesTypeOK
<1>3. rows' \in Seq(Row)
  <2>1. \A i \in DOMAIN rows : [rows[i] EXCEPT !.due = b] \in Row /\ [rows[i] EXCEPT !.script = b] \in Row
      BY <1>2, RowChanges
  <2>2. rows' \in [DOMAIN rows -> Row]
      BY <1>1, <1>2, <2>1
  <2> QED
      BY <1>2, <2>2, RowwiseType
<1>4. SeriesTypeOK' /\ commands' # 0 /\ Touched' = Touched
  <2>1. wanted' \in {"nothing", "once", "recurring", "paused", "stopped"} /\ slips' \subseteq {"doubled", "escaped", "overwritten", "rewritten"}
      BY <1>1 DEF SeriesInv, SeriesTypeOK
  <2> QED
      BY <1>1, <1>3, <2>1, CommandTyped
<1>5. DOMAIN rows' = DOMAIN rows /\ \A i \in DOMAIN rows : SameRun(rows[i], rows'[i])
    BY ZenonT(60), <1>1, <1>2 DEF Row, SameRun
<1>6. Advance(rows, rows') /\ Faithful(rows, rows') /\ Undisturbed(rows, rows', Touched)
    BY <1>5 DEF SameRun, Advance, Progress, Faithful, Keeps, Undisturbed, Rests
<1> QED
    BY <1>1, <1>4, <1>6, AdvanceKept DEF SlipsKept, sweepVars

LEMMA RunTaskKept ==
    ASSUME SeriesInv, RunTask
    PROVE  SeriesInv'
<1>1. PICK k \in DOMAIN rows : rows' = Append(rows, TaskRow("pending", FALSE, rows[k].script, TRUE))
    BY DEF RunTask
<1>2. /\ session = "active" /\ MoreEvents /\ commands' = commands + 1
      /\ UNCHANGED <<session, containerVars, backup, sweepVars, reported, wanted, slips, mishaps>>
    BY DEF RunTask
<1> DEFINE new == TaskRow("pending", FALSE, rows[k].script, TRUE)
<1>3. /\ rows \in Seq(Row) /\ Len(rows) \in Nat /\ DOMAIN rows = 1..Len(rows)
      /\ rows[k] \in Row
    BY RowsFacts DEF SeriesInv, SeriesTypeOK
<1>4. new \in Row /\ new.status = "pending" /\ ~new.recurrence
    BY <1>3, BoundsAssumption DEF Row, TaskRow, Statuses, LiveStatuses, Acks
<1>5. rows' = Append(rows, new)
    BY <1>1
<1> HIDE DEF new
<1>6. /\ rows' \in Seq(Row) /\ Len(rows') = Len(rows) + 1
      /\ \A i \in 1..Len(rows) : rows'[i] = rows[i]
      /\ rows'[Len(rows) + 1] = new
    BY <1>5, <1>3, <1>4, AppendProperties
<1>7. DOMAIN rows' = 1..(Len(rows) + 1)
    BY <1>6, RowsFacts
<1>8. SeriesTypeOK' /\ commands' # 0 /\ Touched' = Touched
  <2>1. wanted' \in {"nothing", "once", "recurring", "paused", "stopped"} /\ slips' \subseteq {"doubled", "escaped", "overwritten", "rewritten"}
      BY <1>2 DEF SeriesInv, SeriesTypeOK
  <2>2. DOMAIN rows \subseteq DOMAIN rows'
      BY <1>3, <1>7
  <2> QED
      BY <1>2, <1>6, <2>1, <2>2, CommandTyped
<1>9. Armed' = Armed
    BY <1>3, <1>4, <1>6, <1>7 DEF Armed, With
<1>10. StoppedIsBare'
    BY <1>3, <1>4, <1>6, <1>7 DEF SeriesInv, StoppedIsBare, With
<1>11. SeriesSurvives' /\ OneSchedule' /\ StopHolds' /\ ClosedIsSpent'
    BY <1>2, <1>9 DEF SeriesInv, SeriesSurvives, OneSchedule, StopHolds, ClosedIsSpent
<1>12. PauseHolds'
    BY <1>2, <1>3, <1>6, <1>8, <1>9 DEF SeriesInv, PauseHolds, Armed, With
<1> QED
    BY <1>8, <1>10, <1>11, <1>12 DEF SeriesInv, Chain

LEMMA CreateKept ==
    ASSUME SeriesInv, NEW rec \in BOOLEAN, NEW script \in BOOLEAN, NEW d \in BOOLEAN,
           Create(rec, script, d)
    PROVE  SeriesInv'
<1> DEFINE new == TaskRow("pending", rec, script, d)
<1>1. /\ rows' = <<new>> /\ session' = "active"
      /\ wanted' = IF rec THEN "recurring" ELSE "once"
      /\ UNCHANGED <<containerVars, backup, sweepVars, reported, slips, commands, mishaps>>
      /\ session = "absent"
    BY DEF Create
<1>2. new \in Row /\ new.status = "pending" /\ new.recurrence = rec /\ new.ack = "none"
    BY BoundsAssumption DEF Row, TaskRow, Statuses, LiveStatuses, Acks
<1> HIDE DEF new
<1>3. rows' \in Seq(Row) /\ DOMAIN rows' = {1} /\ rows'[1] = new /\ Len(rows') = 1
    BY <1>1, <1>2
<1>4. SeriesTypeOK'
  <2>1. wanted' \in {"nothing", "once", "recurring", "paused", "stopped"}
      BY <1>1
  <2>2. Touched' = Touched /\ UNCHANGED <<running, restart, backup, sweep, alive>>
      BY <1>1, SameTouched DEF containerVars, sweepVars
  <2>3. Touched' \subseteq DOMAIN rows'
      BY <1>1, <2>2 DEF SeriesInv, SeriesTypeOK
  <2> QED
      BY <1>1, <1>3, <2>1, <2>2, <2>3 DEF SeriesInv, SeriesTypeOK
<1>5. Armed' = IF rec THEN {1} ELSE {}
    BY <1>2, <1>3 DEF Armed, With, LiveStatuses
<1>6. SeriesSurvives' /\ OneSchedule' /\ StopHolds' /\ ClosedIsSpent' /\ PauseHolds'
    BY <1>1, <1>5 DEF SeriesSurvives, OneSchedule, StopHolds, ClosedIsSpent, PauseHolds
<1>7. StoppedIsBare'
    BY <1>2, <1>3 DEF StoppedIsBare, With
<1>8. Chain'
  <2>1. Trail(rows') = {}
      BY <1>2, <1>3 DEF Trail, With
  <2>2. TrailingFails(rows') = 0
      BY <1>3, <2>1, TrailFinite, FS_EmptySet
  <2> QED
      BY <1>2, <1>3, <2>2, BoundsAssumption DEF Chain, LiveStatuses, Done
<1> QED
    BY <1>4, <1>6, <1>7, <1>8 DEF SeriesInv

\* Time, the container's claims and what its runs end with.
LEMMA ContainerKept ==
    ASSUME SeriesInv, NEW i \in DOMAIN rows, NEW o \in {"completed", "script-skip:error"},
           TimePasses(i) \/ Claim(i) \/ Finish(i, o)
    PROVE  SeriesInv'
<1>1. UNCHANGED <<session, running, restart, backup, sweep, alive, breached, reported, wanted, slips,
                  commands, mishaps>>
    BY DEF TimePasses, Claim, Finish, containerVars, sweepVars
<1>2. \/ rows' = [rows EXCEPT ![i].due = TRUE] /\ query' = query
      \/ rows' = [rows EXCEPT ![i].ack = "processing"] /\ rows[i].status = "pending"
      \/ rows' = [rows EXCEPT ![i].ack = o] /\ rows[i].ack = "processing" /\ query' = query
    BY DEF TimePasses, Claim, Finish, Claimable, Due, With, Begun, containerVars
<1>3. rows \in Seq(Row) /\ (\A k \in DOMAIN rows : rows[k] \in Row) /\ rows \in [DOMAIN rows -> Row]
    BY RowsFacts DEF SeriesInv, SeriesTypeOK
<1>4. rows' \in Seq(Row) /\ DOMAIN rows' = DOMAIN rows
  <2>1. /\ [rows[i] EXCEPT !.due = TRUE] \in Row /\ [rows[i] EXCEPT !.ack = "processing"] \in Row
        /\ [rows[i] EXCEPT !.ack = o] \in Row
      BY <1>3, RowChanges DEF Acks
  <2>2. rows' \in [DOMAIN rows -> Row]
      BY <1>2, <1>3, <2>1
  <2> QED
      BY <1>3, <2>2, RowwiseType
<1>5. query' \subseteq query \union {i} /\ (query' = query \/ rows[i].status = "pending")
    BY <1>2 DEF TimePasses, Claim, Finish, containerVars
<1>6. /\ Touched' \subseteq DOMAIN rows
      /\ \A k \in Touched' \ Touched : rows[k].status # "paused"
    BY <1>1, <1>5 DEF Touched, Doomed, SeriesInv, SeriesTypeOK
<1>7. SeriesTypeOK'
    BY <1>1, <1>4, <1>6 DEF SeriesInv, SeriesTypeOK
<1>8. Advance(rows, rows') /\ Faithful(rows, rows') /\ Undisturbed(rows, rows', Touched)
  <2>1. \A k \in DOMAIN rows : k # i => rows'[k] = rows[k]
      BY <1>2, <1>3
  <2>2. Progress(rows[i], rows'[i]) /\ Keeps(rows[i], rows'[i]) /\ Rests(rows[i], rows'[i])
      BY <1>2, <1>3 DEF Row, Progress, Keeps, Rests
  <2> QED
      BY <1>4, <2>1, <2>2 DEF Advance, Progress, Faithful, Keeps, Undisturbed, Rests
<1> QED
    BY <1>1, <1>6, <1>7, <1>8, AdvanceKept DEF SlipsKept

LEMMA MishapCounts ==
    ASSUME SeriesTypeOK, Mishap \/ UNCHANGED mishaps
    PROVE  mishaps' \in 0..MaxEvents
BY BoundsAssumption DEF SeriesTypeOK, Mishap, MoreEvents

\* Rows that only move on, none of them ended or paused otherwise than it was.
Steady(rs, new) ==
    /\ new \in Seq(Row)
    /\ Advance(rs, new) /\ Faithful(rs, new) /\ Undisturbed(rs, new, {})

LEMMA SteadyRows ==
    ASSUME NEW rs \in Seq(Row), NEW new \in [DOMAIN rs -> Row],
           \A i \in DOMAIN rs : /\ Progress(rs[i], new[i]) /\ Keeps(rs[i], new[i])
                                /\ Rests(rs[i], new[i])
    PROVE  Steady(rs, new)
<1>1. new \in Seq(Row) /\ DOMAIN new = DOMAIN rs
    BY RowwiseType
<1> QED
    BY <1>1 DEF Steady, Advance, Faithful, Undisturbed

LEMMA SteadySame ==
    ASSUME NEW rs \in Seq(Row) PROVE Steady(rs, rs)
BY DEF Steady, Advance, Faithful, Undisturbed, Progress, Keeps, Rests

LEMMA SteadyTwice ==
    ASSUME NEW a, NEW b, NEW c, Steady(a, b), Steady(b, c) PROVE Steady(a, c)
BY AdvanceTwice DEF Steady

\* The sync, the start of a container and the charges of the sweep.
LEMMA RowSteps ==
    ASSUME NEW r \in Row
    PROVE  /\ Synced(r) \in Row /\ Progress(r, Synced(r)) /\ Keeps(r, Synced(r)) /\ Rests(r, Synced(r))
           /\ Forget(r) \in Row /\ Progress(r, Forget(r)) /\ Keeps(r, Forget(r)) /\ Rests(r, Forget(r))
<1>1. Synced(r) \in Row /\ Forget(r) \in Row
    BY RowChanges DEF Synced, Forget, Statuses, Done, Acks
<1>2. \A s \in Done : Settled(r, s).status = s /\ Settled(r, s).recurrence = r.recurrence
    BY DEF Settled, TaskRow
<1>3. Progress(r, Synced(r)) /\ Keeps(r, Synced(r)) /\ Rests(r, Synced(r))
  <2>1. CASE Synced(r) = r
      BY <2>1 DEF Progress, Keeps, Rests
  <2>2. CASE Synced(r) # r
    <3>1. r.status \in {"pending", "paused", "cancelled"} /\ r.ack # "none"
        BY <2>2 DEF Synced, Row, Statuses, LiveStatuses, Done
    <3>2. \E s \in Done : Synced(r) = Settled(r, s)
        BY <2>2 DEF Synced, Done
    <3> QED
        BY <1>2, <3>1, <3>2 DEF Progress, Keeps, Rests, Done
  <2> QED
      BY <2>1, <2>2
<1>4. Progress(r, Forget(r)) /\ Keeps(r, Forget(r)) /\ Rests(r, Forget(r))
    BY DEF Forget, Progress, Keeps, Rests, Row
<1> QED
    BY <1>1, <1>3, <1>4

LEMMA ResetSteps ==
    ASSUME NEW r \in Row
    PROVE  /\ ResetStuck(r) \in Row /\ Progress(r, ResetStuck(r)) /\ Keeps(r, ResetStuck(r))
           /\ Rests(r, ResetStuck(r))
<1>1. CASE ResetStuck(r) = r
    BY <1>1 DEF Progress, Keeps, Rests
<1>2. CASE ResetStuck(r) = Forget(r)
    BY <1>2, RowSteps
<1>3. CASE ResetStuck(r) # r /\ ResetStuck(r) # Forget(r) /\ r.tries >= MaxTries
  <2>1. ResetStuck(r) = Settled(r, "failed") /\ r.status = "pending"
      BY <1>3 DEF ResetStuck
  <2> QED
      BY <2>1, RowChanges DEF Progress, Keeps, Rests, Settled, TaskRow, Statuses, Done
<1>4. CASE ResetStuck(r) # r /\ ResetStuck(r) # Forget(r) /\ ~(r.tries >= MaxTries)
  <2>1. /\ ResetStuck(r) = [r EXCEPT !.tries = r.tries + 1, !.due = FALSE, !.ack = "none"]
        /\ r.status = "pending"
      BY <1>4 DEF ResetStuck
  <2>2. r.tries + 1 \in 0..MaxTries
      BY <1>4, BoundsAssumption DEF Row
  <2>3. ResetStuck(r) \in Row
      BY <2>1, <2>2 DEF Row, Acks
  <2> QED
      BY <2>1, <2>3 DEF Progress, Keeps, Rests, Row, Done
<1> QED
    BY <1>1, <1>2, <1>3, <1>4

LEMMA SteadySteps ==
    ASSUME SeriesInv PROVE Steady(rows, SyncedRows) /\ Steady(rows, Forgotten)
<1>1. rows \in Seq(Row) /\ \A i \in DOMAIN rows : rows[i] \in Row
    BY RowsFacts DEF SeriesInv, SeriesTypeOK
<1>2. /\ SyncedRows = [i \in DOMAIN rows |-> Synced(rows[i])]
      /\ Forgotten = [i \in DOMAIN rows |-> Forget(rows[i])]
    BY DEF SyncedRows, Forgotten
<1>3. /\ SyncedRows \in [DOMAIN rows -> Row] /\ Forgotten \in [DOMAIN rows -> Row]
      /\ \A i \in DOMAIN rows : /\ SyncedRows[i] = Synced(rows[i]) /\ Forgotten[i] = Forget(rows[i])
    BY <1>1, <1>2, RowSteps
<1> QED
    BY <1>1, <1>3, RowSteps, SteadyRows

LEMMA ResetSteady ==
    ASSUME NEW rs \in Seq(Row) PROVE Steady(rs, Reset(rs))
<1>1. \A i \in DOMAIN rs : rs[i] \in Row
    BY RowsFacts
<1>2. /\ Reset(rs) \in [DOMAIN rs -> Row]
      /\ \A i \in DOMAIN rs : Reset(rs)[i] = ResetStuck(rs[i])
    BY <1>1, ResetSteps DEF Reset
<1> QED
    BY <1>1, <1>2, ResetSteps, SteadyRows

LEMMA ChargedSteady ==
    ASSUME NEW rs \in Seq(Row), NEW read, NEW stuck PROVE Steady(rs, Charged(rs, read, stuck))
BY ResetSteady, SteadySame DEF Charged

\* A failure ends the rows named, whatever they were.
LEMMA FailedRows ==
    ASSUME NEW rs \in Seq(Row), NEW S
    PROVE  /\ Failed(rs, S) \in Seq(Row) /\ Advance(rs, Failed(rs, S))
           /\ Undisturbed(rs, Failed(rs, S), S)
           /\ S \intersect With(rs, {"completed"}) = {} => Faithful(rs, Failed(rs, S))
           /\ S \subseteq With(rs, {"pending"}) => Steady(rs, Failed(rs, S))
<1> DEFINE new == Failed(rs, S)
<1>1. \A i \in DOMAIN rs : rs[i] \in Row /\ Settled(rs[i], "failed") \in Row
    BY RowsFacts, RowChanges DEF Statuses, Done
<1>2. /\ new \in [DOMAIN rs -> Row]
      /\ \A i \in DOMAIN rs :
            new[i] = IF i \in S /\ rs[i].status # "deleted" THEN Settled(rs[i], "failed") ELSE rs[i]
    BY <1>1 DEF Failed
<1> HIDE DEF new
<1>3. new \in Seq(Row) /\ DOMAIN new = DOMAIN rs
    BY <1>2, RowwiseType
<1>4. \A i \in DOMAIN rs :
         \/ new[i] = rs[i]
         \/ /\ i \in S /\ rs[i].status # "deleted"
            /\ new[i].status = "failed" /\ new[i].recurrence = rs[i].recurrence
    BY <1>2 DEF Settled, TaskRow
<1>5. Advance(rs, new)
    BY <1>3, <1>4 DEF Advance, Progress, Done
<1>6. Undisturbed(rs, new, S)
    BY <1>4 DEF Undisturbed, Rests
<1>7. ASSUME S \intersect With(rs, {"completed"}) = {} PROVE Faithful(rs, new)
    BY <1>4, <1>7 DEF Faithful, Keeps, With, Done
<1>8. ASSUME S \subseteq With(rs, {"pending"}) PROVE Steady(rs, new)
  <2>1. S \intersect With(rs, {"completed"}) = {}
      BY <1>8 DEF With
  <2>2. Undisturbed(rs, new, {})
      BY <1>4, <1>8 DEF Undisturbed, Rests, With
  <2> QED
      BY <1>3, <1>5, <1>7, <2>1, <2>2 DEF Steady
<1> QED
    BY <1>3, <1>5, <1>6, <1>7, <1>8 DEF new

\* A step that leaves the rows alone.
LEMMA StillKept ==
    ASSUME SeriesInv, SeriesTypeOK', UNCHANGED <<rows, session, wanted, slips, commands>>,
           Touched' \subseteq Touched, session # "active" => sweep' = sweep
    PROVE  SeriesInv'
<1>1. Advance(rows, rows') /\ Faithful(rows, rows') /\ Undisturbed(rows, rows', Touched)
    BY DEF Advance, Progress, Faithful, Keeps, Undisturbed, Rests
<1> QED
    BY <1>1, AdvanceKept DEF SlipsKept

\* A step after which the rows have only moved on.
LEMMA SteadyKept ==
    ASSUME SeriesInv, SeriesTypeOK', Steady(rows, rows'),
           UNCHANGED <<session, wanted, slips, commands>>,
           \A i \in Touched' \ Touched : rows[i].status # "paused",
           session # "active" => sweep' = sweep
    PROVE  SeriesInv'
<1>1. Undisturbed(rows, rows', Touched)
    BY DEF Steady, Undisturbed
<1> QED
    BY <1>1, AdvanceKept DEF Steady, SlipsKept

LEMMA KillTyped ==
    ASSUME SeriesTypeOK, Kill \/ RestartRunning \/ Switch
    PROVE  running' \in {"no", "yes", "silent", "dying"}
BY DEF Kill, RestartRunning, Switch, SeriesTypeOK

\* A limit, a container that stops, one gone or started again, a provider that
\* changes elsewhere.
LEMMA HostKept ==
    ASSUME SeriesInv, LimitHit \/ ContainerStops \/ ProviderChanges
    PROVE  SeriesInv'
<1>1. UNCHANGED <<rows, session, query, sweep, alive, breached, wanted, slips, commands>>
    BY DEF LimitHit, ContainerStops, ProviderChanges, sweepVars
<1>2. mishaps' \in 0..MaxEvents
  <2>1. Mishap \/ UNCHANGED mishaps
      BY DEF LimitHit, ContainerStops, ProviderChanges
  <2> QED
      BY <2>1, MishapCounts DEF SeriesInv
<1>3. reported' = reported \/ reported' = query
    BY DEF LimitHit, ContainerStops, ProviderChanges
<1>4. Touched' \subseteq Touched
    BY <1>1, <1>3 DEF Touched, Doomed
<1>5. /\ running' \in {"no", "yes", "silent", "dying"} /\ restart' \in {"none", "note", "wake", "clear"}
      /\ backup' \in {"none", "usable", "active"}
    BY KillTyped DEF LimitHit, ContainerStops, ProviderChanges, RestartRunning, Kill, SeriesInv, SeriesTypeOK
<1>6. SeriesTypeOK'
    BY <1>1, <1>2, <1>4, <1>5 DEF SeriesInv, SeriesTypeOK
<1> QED
    BY <1>1, <1>4, <1>6, StillKept

LEMMA StartKept ==
    ASSUME SeriesInv, ContainerGone \/ Respawn \/ WakeContainer \/ SweepSync
    PROVE  SeriesInv'
<1>1. UNCHANGED <<session, backup, alive, breached, reported, wanted, slips, commands>>
    BY DEF ContainerGone, Respawn, WakeContainer, SweepSync, sweepVars
<1>2. query' \in {{}, query}
    BY DEF ContainerGone, Respawn, WakeContainer, SweepSync, containerVars
<1>3. Touched' \subseteq Touched
    BY <1>1, <1>2 DEF Touched, Doomed
<1>4. Steady(rows, rows')
  <2>1. rows' \in {rows, Forgotten, SyncedRows}
      BY DEF ContainerGone, Respawn, WakeContainer, SweepSync, Started
  <2>2. rows \in Seq(Row)
      BY DEF SeriesInv, SeriesTypeOK
  <2> QED
      BY <2>1, <2>2, SteadySame, SteadySteps
<1>5. /\ running' \in {"no", "yes", "silent", "dying"} /\ restart' \in {"none", "note", "wake", "clear"}
      /\ sweep' \in {"idle", "waking", "woke", "announcing"}
    BY DEF ContainerGone, Respawn, WakeContainer, SweepSync, Started, containerVars, sweepVars,
           SeriesInv, SeriesTypeOK
<1>6. session # "active" => sweep' = sweep
    BY DEF ContainerGone, Respawn, WakeContainer, SweepSync, sweepVars, SeriesInv, ClosedIsSpent
<1>7. mishaps' \in 0..MaxEvents
  <2>1. Mishap \/ UNCHANGED mishaps
      BY DEF ContainerGone, Respawn, WakeContainer, SweepSync
  <2> QED
      BY <2>1, MishapCounts DEF SeriesInv
<1>8. SeriesTypeOK'
    BY <1>1, <1>3, <1>4, <1>5, <1>7 DEF SeriesInv, SeriesTypeOK, Steady, Advance
<1> QED
    BY <1>1, <1>3, <1>4, <1>6, <1>8, SteadyKept

\* Without a backup the rows of a report are failed late, else none is.
LEMMA ReportKept ==
    ASSUME SeriesInv, ReportHandled
    PROVE  SeriesInv'
<1>1. /\ UNCHANGED <<session, query, sweep, alive, breached, wanted, commands, mishaps>>
      /\ reported' = {}
    BY DEF ReportHandled, sweepVars
<1>2. Touched' \subseteq Touched
    BY <1>1 DEF Touched, Doomed
<1>3. /\ running' \in {"no", "yes", "silent", "dying"} /\ restart' \in {"none", "note", "wake", "clear"}
      /\ backup' \in {"none", "usable", "active"}
    BY KillTyped DEF ReportHandled, RestartRunning, Switch, SeriesInv, SeriesTypeOK
<1>4. rows \in Seq(Row)
    BY DEF SeriesInv, SeriesTypeOK
<1>5. CASE UNCHANGED <<rows, slips>>
  <2>1. SeriesTypeOK'
      BY <1>1, <1>2, <1>3, <1>5 DEF SeriesInv, SeriesTypeOK
  <2> QED
      BY <1>1, <1>2, <1>5, <2>1, StillKept
<1>6. CASE rows' = Failed(rows, reported) /\ slips' = Rewriting(reported)
  <2>1. /\ rows' \in Seq(Row) /\ Advance(rows, rows') /\ Undisturbed(rows, rows', reported)
        /\ reported \intersect With(rows, {"completed"}) = {} => Faithful(rows, rows')
      BY <1>4, <1>6, FailedRows
  <2>2. SlipsKept /\ ("rewritten" \notin slips' => Faithful(rows, rows'))
      BY <1>6, <2>1 DEF Rewriting, SlipsKept
  <2>3. Undisturbed(rows, rows', Touched)
      BY <2>1 DEF Undisturbed, Touched, Doomed
  <2>4. slips' \subseteq {"doubled", "escaped", "overwritten", "rewritten"}
      BY <2>2 DEF SlipsKept, SeriesInv, SeriesTypeOK
  <2>5. SeriesTypeOK'
      BY <1>1, <1>2, <1>3, <2>1, <2>4 DEF SeriesInv, SeriesTypeOK, Advance
  <2> QED
      BY <1>1, <1>2, <2>1, <2>2, <2>3, <2>5, AdvanceKept
<1> QED
    BY <1>5, <1>6 DEF ReportHandled

\* The rows with the clones of those in F and without the recurrences of E.
LEMMA Rearming ==
    ASSUME NEW rs \in Seq(Row), NEW E \in SUBSET DOMAIN rs, NEW F \in SUBSET DOMAIN rs,
           NEW nth \in InOrder(F)
    PROVE  LET new == Cleared(rs, E) \o Clones(rs, nth)
           IN  /\ new \in Seq(Row) /\ DOMAIN new = 1..(Len(rs) + Cardinality(F))
               /\ Len(new) = Len(rs) + Cardinality(F)
               /\ IsFiniteSet(F) /\ Cardinality(F) \in Nat
               /\ \A i \in DOMAIN rs :
                     /\ new[i].status = rs[i].status /\ new[i].ack = rs[i].ack
                     /\ new[i].recurrence <=> rs[i].recurrence /\ i \notin E
               /\ \A i \in DOMAIN new \ DOMAIN rs :
                     /\ new[i].status = IF TrailingFails(rs) >= Cap THEN "paused" ELSE "pending"
                     /\ new[i].ack = "none" /\ new[i].recurrence
<1> DEFINE was == Cleared(rs, E)
           clones == Clones(rs, nth)
           status == IF TrailingFails(rs) >= Cap THEN "paused" ELSE "pending"
           n == Cardinality(F)
<1>1. /\ Len(rs) \in Nat /\ DOMAIN rs = 1..Len(rs)
      /\ \A i \in DOMAIN rs : rs[i] \in Row
    BY RowsFacts
<1>2. IsFiniteSet(F) /\ n \in Nat
  <2>1. IsFiniteSet(1..Len(rs)) /\ F \in SUBSET (1..Len(rs))
      BY <1>1, FS_Interval
  <2> QED
      BY <2>1, FS_Subset, FS_CardinalityType
<1>3. nth \in [1..n -> F]
    BY DEF InOrder
<1> HIDE DEF n
<1>4. was \in Seq(Row) /\ Len(was) = Len(rs)
  <2>1. \A i \in DOMAIN rs : [rs[i] EXCEPT !.recurrence = FALSE, !.script = FALSE] \in Row
      BY <1>1 DEF Row
  <2>2. was \in [DOMAIN rs -> Row]
      BY <1>1, <2>1 DEF Cleared
  <2> QED
      BY <2>2, RowwiseType
<1>5. \A i \in DOMAIN rs : /\ was[i].status = rs[i].status /\ was[i].ack = rs[i].ack
                           /\ was[i].recurrence <=> rs[i].recurrence /\ i \notin E
    BY <1>1 DEF Cleared, Row
<1>6. clones = [k \in 1..n |-> TaskRow(status, TRUE, rs[nth[k]].script, FALSE)]
    BY <1>3 DEF Clones
<1> HIDE DEF status, clones
<1>7. clones \in Seq(Row) /\ Len(clones) = n
  <2>1. \A k \in 1..n : rs[nth[k]] \in Row
      BY <1>1, <1>3
  <2>2. status \in Statuses
      BY DEF status, Statuses, LiveStatuses
  <2>3. \A k \in 1..n : TaskRow(status, TRUE, rs[nth[k]].script, FALSE) \in Row
      BY <2>1, <2>2, BoundsAssumption DEF Row, TaskRow, Acks
  <2>4. clones \in [1..n -> Row]
      BY <1>6, <2>3
  <2> QED
      BY <1>2, <2>4, RowsAreSeq
<1>8. \A k \in 1..n : clones[k].status = status /\ clones[k].ack = "none" /\ clones[k].recurrence
    BY <1>6 DEF TaskRow
<1> HIDE DEF was
<1> DEFINE new == was \o clones
<1>9. /\ new \in Seq(Row) /\ Len(new) = Len(rs) + n
      /\ \A i \in 1..(Len(rs) + n) : new[i] = IF i <= Len(rs) THEN was[i] ELSE clones[i - Len(rs)]
  <2>1. /\ was \o clones \in Seq(Row) /\ Len(was \o clones) = Len(was) + Len(clones)
        /\ \A i \in 1..(Len(was) + Len(clones)) :
              (was \o clones)[i] = IF i <= Len(was) THEN was[i] ELSE clones[i - Len(was)]
      BY <1>4, <1>7, ConcatProperties
  <2> QED
      BY <1>4, <1>7, <2>1
<1>10. DOMAIN new = 1..(Len(rs) + n)
    BY <1>9, RowsFacts
<1> HIDE DEF new
<1>11. \A i \in DOMAIN rs : new[i] = was[i]
    BY <1>1, <1>2, <1>9
<1>12. \A i \in DOMAIN new \ DOMAIN rs : i - Len(rs) \in 1..n /\ new[i] = clones[i - Len(rs)]
    BY <1>1, <1>2, <1>9, <1>10
<1>13. new = Cleared(rs, E) \o Clones(rs, nth)
    BY DEF new, was, clones
<1>14. \A i \in DOMAIN rs :
          /\ new[i].status = rs[i].status /\ new[i].ack = rs[i].ack
          /\ new[i].recurrence <=> rs[i].recurrence /\ i \notin E
    BY <1>5, <1>11
<1>15. \A i \in DOMAIN new \ DOMAIN rs :
          new[i].status = status /\ new[i].ack = "none" /\ new[i].recurrence
    BY <1>8, <1>12
<1> QED
    BY <1>2, <1>9, <1>10, <1>13, <1>14, <1>15 DEF n, status

\* A sweep moves the recurrence from what ended to its clone: R are the rows it
\* finds when it comes to that.
LEMMA RearmedKept ==
    ASSUME SeriesInv, session = "active", NEW R \in Seq(Row), Advance(rows, R),
           SlipsKept, "rewritten" \notin slips' => Faithful(rows, R),
           Undisturbed(rows, R, Touched), rows' \in Rearmed(R),
           session' = IF running = "no" /\ With(rows', LiveStatuses) = {} THEN "closed" ELSE session,
           sweep' = "idle", alive' = "no", UNCHANGED <<wanted, commands>>,
           Touched' \subseteq Touched, mishaps' \in 0..MaxEvents,
           running' \in {"no", "yes", "silent", "dying"}, restart' \in {"none", "note", "wake", "clear"},
           backup' \in {"none", "usable", "active"}
    PROVE  SeriesInv'
<1> DEFINE E == Ended(R)
<1>1. /\ DOMAIN R = DOMAIN rows /\ ArmedIn(R) = Armed /\ BareIn(R)
      /\ commands = 0 /\ Straight(slips') => ChainIn(R, Touched)
  <2>1. DOMAIN R = DOMAIN rows /\ ArmedIn(R) = Armed /\ BareIn(R)
      BY AdvanceArmed, InvParts DEF SeriesInv, SeriesTypeOK, Advance
  <2>2. ASSUME commands = 0, Straight(slips') PROVE ChainIn(R, Touched)
    <3>1. Straight(slips) /\ "rewritten" \notin slips'
        BY <2>2 DEF Straight, SlipsKept
    <3>2. ChainIn(rows, Touched) /\ rows \in Seq(Row)
        BY <2>2, <3>1, InvParts DEF SeriesInv, SeriesTypeOK
    <3> QED
        BY <3>1, <3>2, AdvanceChain
  <2> QED
      BY <2>1, <2>2
<1>2. PICK nth \in InOrder(E) : rows' = Cleared(R, E) \o Clones(R, nth)
    BY DEF Rearmed
<1>5. E \in SUBSET DOMAIN R
    BY DEF Ended, With
<1>6. /\ Len(R) \in Nat /\ DOMAIN R = 1..Len(R)
    BY RowsFacts
<1>7. \A i : i \in E <=> i \in ArmedIn(R) /\ R[i].status \in Done
    BY DEF Ended, ArmedIn, With
<1> HIDE DEF E
<1> DEFINE n == Cardinality(E)
<1>8. /\ rows' \in Seq(Row) /\ DOMAIN rows' = 1..(Len(R) + n) /\ Len(rows') = Len(R) + n
      /\ IsFiniteSet(E) /\ n \in Nat
      /\ \A i \in DOMAIN R :
            /\ rows'[i].status = R[i].status /\ rows'[i].ack = R[i].ack
            /\ rows'[i].recurrence <=> R[i].recurrence /\ i \notin E
      /\ \A i \in DOMAIN rows' \ DOMAIN R :
            /\ rows'[i].status = IF TrailingFails(R) >= Cap THEN "paused" ELSE "pending"
            /\ rows'[i].ack = "none" /\ rows'[i].recurrence
  <2>1. R \in Seq(Row) /\ E \in SUBSET DOMAIN R /\ nth \in InOrder(E)
      BY <1>2, <1>5
  <2> DEFINE new == Cleared(R, E) \o Clones(R, nth)
  <2>2. /\ new \in Seq(Row) /\ DOMAIN new = 1..(Len(R) + n) /\ Len(new) = Len(R) + n
        /\ IsFiniteSet(E) /\ n \in Nat
        /\ \A i \in DOMAIN R :
              /\ new[i].status = R[i].status /\ new[i].ack = R[i].ack
              /\ new[i].recurrence <=> R[i].recurrence /\ i \notin E
        /\ \A i \in DOMAIN new \ DOMAIN R :
              /\ new[i].status = IF TrailingFails(R) >= Cap THEN "paused" ELSE "pending"
              /\ new[i].ack = "none" /\ new[i].recurrence
      BY SMTT(60), <2>1, Rearming
  <2> QED
      BY <1>2, <2>2
<1>9. n = 0 <=> E = {}
    BY <1>8, FS_EmptySet
<1> HIDE DEF n
<1>10. /\ ArmedIn(R) \subseteq DOMAIN R /\ DOMAIN R \subseteq DOMAIN rows'
       /\ \A i \in DOMAIN R : i \in Armed' <=> i \in ArmedIn(R) \ E
       /\ \A i \in DOMAIN rows' \ DOMAIN R : i \in Armed'
       /\ Armed' \subseteq DOMAIN rows'
    BY <1>6, <1>8 DEF Armed, ArmedIn, With, LiveStatuses
<1>11. Armed' \subseteq LiveRows'
  <2>1. \A i \in DOMAIN R : i \in Armed' => R[i].status \in LiveStatuses
      BY <1>7, <1>10 DEF ArmedIn, With
  <2> QED
      BY <1>8, <1>10, <2>1 DEF LiveRows, With, LiveStatuses
<1>12. SeriesTypeOK'
  <2>1. slips' \subseteq {"doubled", "escaped", "overwritten", "rewritten"}
      BY DEF SlipsKept, SeriesInv, SeriesTypeOK
  <2>2. Touched' \subseteq DOMAIN rows'
      BY <1>1, <1>10 DEF SeriesInv, SeriesTypeOK
  <2>3. session' \in {"active", "closed"}
      OBVIOUS
  <2> QED
      BY <1>8, <2>1, <2>2, <2>3 DEF SeriesInv, SeriesTypeOK
<1>13. Armed # {} => Armed' # {}
  <2>1. CASE E = {}
      BY <1>1, <1>10, <2>1
  <2>2. CASE E # {}
    <3>1. Len(R) + 1 \in DOMAIN rows' \ DOMAIN R
        BY <1>6, <1>8, <1>9, <2>2
    <3> QED
        BY <1>10, <3>1
  <2> QED
      BY <2>1, <2>2
<1>14. SeriesSurvives'
    BY <1>11, <1>13 DEF SeriesInv, SeriesSurvives, LiveRows
<1>15. OneSchedule'
  <2>1. ASSUME "doubled" \notin slips PROVE \A i, j \in Armed' : i = j
    <3>1. \A i, j \in ArmedIn(R) : i = j
        BY <1>1, <2>1 DEF SeriesInv, OneSchedule
    <3>2. CASE E = {}
        BY <1>6, <1>8, <1>9, <1>10, <3>1, <3>2
    <3>3. CASE E # {}
      <4>1. PICK e \in E : TRUE
          BY <3>3
      <4>2. E = {e} /\ ArmedIn(R) = {e}
          BY <1>7, <3>1, <4>1
      <4>3. n = 1
          BY <4>2, FS_Singleton DEF n
      <4>4. \A i \in Armed' : i = Len(R) + 1
          BY <1>6, <1>8, <1>10, <4>2, <4>3
      <4> QED
          BY <4>4
    <3> QED
        BY <3>2, <3>3
  <2> QED
      BY <2>1 DEF OneSchedule, SlipsKept
<1>16. Armed = {} => Armed' = {}
    BY <1>1, <1>6, <1>8, <1>9, <1>7, <1>10
<1>17. StopHolds'
    BY <1>16 DEF SeriesInv, StopHolds, SlipsKept
<1>18. PauseHolds'
  <2>1. ASSUME wanted = "paused", slips \intersect {"doubled", "overwritten"} = {}
        PROVE  \A i \in Armed' : rows'[i].status = "paused" /\ rows'[i].ack = "none" /\ i \notin Touched'
    <3>1. \A i \in ArmedIn(R) : R[i].status = "paused" /\ R[i].ack = "none" /\ i \notin Touched'
        BY <1>1, <2>1 DEF SeriesInv, PauseHolds, Undisturbed, Rests, Armed, With
    <3>2. E = {}
        BY <1>7, <3>1 DEF Done
    <3> QED
        BY <1>6, <1>8, <1>9, <1>10, <3>1, <3>2
  <2> QED
      BY <2>1 DEF PauseHolds, SlipsKept
<1>19. ClosedIsSpent'
    BY <1>11 DEF ClosedIsSpent, LiveRows
<1>20. StoppedIsBare'
    BY <1>1, <1>8 DEF StoppedIsBare, BareIn, With
<1>21. Chain'
  <2>1. ASSUME ChainIn(R, Touched) PROVE ChainIn(rows', Touched')
    <3>1. /\ TrailingFails(R) \in Nat /\ TrailingFails(R) = Cardinality(Trail(R))
          /\ TrailingFails(rows') = Cardinality(Trail(rows'))
        BY <1>8, TrailFinite
    <3>2. Trail(rows') = Trail(R)
      <4>1. With(rows', {"failed"}) = With(R, {"failed"})
          BY <1>6, <1>8 DEF With
      <4>2. With(rows', {"completed"}) = With(R, {"completed"})
          BY <1>6, <1>8 DEF With
      <4> QED
          BY <4>1, <4>2 DEF Trail
    <3>3. \A i \in E : i = Len(R) /\ TrailingFails(R) <= Cap
        BY <1>6, <1>7, <2>1 DEF ChainIn, ArmedIn, With
    <3>4. CASE E = {}
        BY <1>6, <1>8, <1>9, <2>1, <3>1, <3>2, <3>4 DEF ChainIn
    <3>5. CASE E # {}
      <4>1. E = {Len(R)} /\ TrailingFails(R) <= Cap
          BY <3>3, <3>5
      <4>2. n = 1
          BY <4>1, FS_Singleton DEF n
      <4>3. Len(rows') = Len(R) + 1 /\ DOMAIN rows' = 1..(Len(R) + 1) /\ Len(R) + 1 \notin DOMAIN R
          BY <1>6, <1>8, <4>2
      <4>4. Len(R) \in DOMAIN R /\ R[Len(R)].status \in Done
          BY <1>5, <1>7, <4>1
      <4>5. \A i \in DOMAIN R : rows'[i].status \in Done /\ ~rows'[i].recurrence
          BY <1>6, <1>8, <2>1, <4>1, <4>4 DEF ChainIn
      <4>6. /\ rows'[Len(R) + 1].status = IF TrailingFails(R) >= Cap THEN "paused" ELSE "pending"
            /\ rows'[Len(R) + 1].ack = "none"
          BY <1>6, <1>8, <4>3
      <4>7. /\ rows'[Len(R) + 1].status \in LiveStatuses
            /\ rows'[Len(R) + 1].status = "pending" => TrailingFails(rows') < Cap
            /\ rows'[Len(R) + 1].status = "paused" => TrailingFails(rows') = Cap
            /\ Len(R) + 1 \notin Touched'
            /\ rows'[Len(R) + 1].status \notin Done
        <5>1. Len(R) + 1 \notin Touched'
            BY <1>1, <4>3 DEF SeriesInv, SeriesTypeOK
        <5> QED
            BY <3>1, <3>2, <4>1, <4>6, <5>1, BoundsAssumption DEF LiveStatuses, Done
      <4>8. \A i \in DOMAIN rows' : IF i < Len(rows') THEN i \in DOMAIN R ELSE i = Len(R) + 1
          BY <1>6, <4>3
      <4> QED
          BY <4>3, <4>5, <4>6, <4>7, <4>8 DEF ChainIn
    <3> QED
        BY <3>4, <3>5
  <2> QED
      BY <1>1, <2>1 DEF Chain, ChainIn, Straight
<1> QED
    BY <1>12, <1>14, <1>15, <1>17, <1>18, <1>19, <1>20, <1>21 DEF SeriesInv

\* What the sweep finds at the hook, in an active session.
LEMMA HookRows ==
    ASSUME SeriesInv, AtHook
    PROVE  /\ session = "active" /\ Steady(rows, RowsAtHook) /\ RowsAtHook \in Seq(Row)
           /\ \A S \in Overdue : S \subseteq With(RowsAtHook, {"pending"})
<1>1. session = "active"
    BY DEF AtHook, SeriesInv, ClosedIsSpent
<1>2. Steady(rows, RowsAtHook)
    BY SteadySteps, SteadySame DEF RowsAtHook, SeriesInv, SeriesTypeOK
<1> QED
    BY <1>1, <1>2 DEF Steady, Overdue

\* The steps 3 to 6, on rows that have moved on since.
LEMMA SweepRestKept ==
    ASSUME SeriesInv, session = "active", NEW rs \in Seq(Row), Advance(rows, rs),
           "rewritten" \notin slips' => Faithful(rows, rs), Undisturbed(rows, rs, Touched),
           NEW read, NEW stuck, SweepRest(rs, read, stuck),
           SlipsKept, UNCHANGED <<query, reported, wanted, commands>>,
           running' \in {"no", "yes", "silent", "dying"}, restart' \in {"none", "note", "wake", "clear"},
           backup' \in {"none", "usable", "active"}
    PROVE  SeriesInv'
<1>1. /\ sweep' = "idle" /\ alive' = "no" /\ breached' = {}
      /\ rows' \in Rearmed(Charged(rs, read, stuck))
      /\ session' = IF running = "no" /\ With(rows', LiveStatuses) = {} THEN "closed" ELSE session
    BY DEF SweepRest
<1>2. mishaps' \in 0..MaxEvents
  <2>1. Mishap \/ UNCHANGED mishaps
      BY DEF SweepRest
  <2> QED
      BY <2>1, MishapCounts DEF SeriesInv
<1>3. Touched' \subseteq Touched
    BY <1>1 DEF Touched, Doomed
<1>4. PICK R : R = Charged(rs, read, stuck)
    OBVIOUS
<1>5. Steady(rs, R)
    BY <1>4, ChargedSteady
<1>6. /\ R \in Seq(Row) /\ Advance(rows, R)
      /\ "rewritten" \notin slips' => Faithful(rows, R)
      /\ Undisturbed(rows, R, Touched)
  <2>1. Undisturbed(rs, R, Touched) /\ Advance(rs, R) /\ Faithful(rs, R) /\ R \in Seq(Row)
      BY <1>5 DEF Steady, Undisturbed
  <2> QED
      BY <2>1, AdvanceTwice
<1>7. rows' \in Rearmed(R)
    BY <1>1, <1>4
<1> QED
    BY <1>1, <1>2, <1>3, <1>6, <1>7, RearmedKept

\* The sweep's last turn, whatever the hook does.
LEMMA SweepKept ==
    ASSUME SeriesInv, NEW stuck \in BOOLEAN,
           \/ SweepQuiet(stuck) \/ SwitchProvider(stuck)
           \/ \E S \in Overdue : BackupBreached(S, stuck)
    PROVE  SeriesInv'
<1>1. AtHook /\ UNCHANGED <<query, reported, wanted, slips, commands>>
    BY DEF SweepQuiet, SwitchProvider, BackupBreached
<1>2. /\ running' \in {"no", "yes", "silent", "dying"} /\ restart' \in {"none", "note", "wake", "clear"}
      /\ backup' \in {"none", "usable", "active"}
    BY KillTyped DEF SweepQuiet, SwitchProvider, BackupBreached, Switch, SeriesInv, SeriesTypeOK
<1>3. \E rs : Steady(rows, rs) /\ SweepRest(rs, ReadAtHook, stuck)
  <2>1. CASE SweepQuiet(stuck) \/ SwitchProvider(stuck)
      BY <1>1, <2>1, HookRows DEF SweepQuiet, SwitchProvider
  <2>2. ASSUME NEW S \in Overdue, BackupBreached(S, stuck)
        PROVE  Steady(rows, Failed(RowsAtHook, S)) /\ SweepRest(Failed(RowsAtHook, S), ReadAtHook, stuck)
    <3>1. Steady(rows, RowsAtHook) /\ RowsAtHook \in Seq(Row) /\ S \subseteq With(RowsAtHook, {"pending"})
        BY <1>1, HookRows
    <3>2. Steady(RowsAtHook, Failed(RowsAtHook, S))
        BY <3>1, FailedRows
    <3> QED
        BY <2>2, <3>1, <3>2, SteadyTwice DEF BackupBreached
  <2> QED
      BY <2>1, <2>2
<1>4. PICK rs : Steady(rows, rs) /\ SweepRest(rs, ReadAtHook, stuck)
    BY <1>3
<1>5. /\ rs \in Seq(Row) /\ Advance(rows, rs) /\ Faithful(rows, rs)
      /\ Undisturbed(rows, rs, Touched)
    BY <1>4 DEF Steady, Undisturbed
<1>6. PICK read : read = ReadAtHook
    OBVIOUS
<1> QED
    BY <1>1, <1>2, <1>4, <1>5, <1>6, HookRows, SweepRestKept DEF SlipsKept

LEMMA AnnounceKept ==
    ASSUME SeriesInv, NEW S \in Overdue, AnnounceBreach(S)
    PROVE  SeriesInv'
<1>1. /\ AtHook /\ sweep' = "announcing" /\ rows' = RowsAtHook /\ alive' = ReadAtHook /\ breached' = S
      /\ UNCHANGED <<session, running, restart, query, backup, reported, wanted, slips, commands, mishaps>>
    BY DEF AnnounceBreach, containerVars
<1>2. session = "active" /\ Steady(rows, rows') /\ S \subseteq With(rows', {"pending"})
    BY <1>1, HookRows
<1>3. Touched' \subseteq Touched \union S
    BY <1>1 DEF Touched, Doomed
<1>4. \A i \in S : i \in DOMAIN rows /\ rows[i].status # "paused"
    BY <1>2 DEF Steady, Advance, Progress, With, Done
<1>5. SeriesTypeOK'
  <2>1. Touched' \subseteq DOMAIN rows'
      BY <1>2, <1>3, <1>4 DEF Steady, Advance, SeriesInv, SeriesTypeOK
  <2>2. alive' \in {"no", "yes", "woke"} /\ rows' \in Seq(Row)
      BY <1>1, <1>2 DEF ReadAtHook, Steady
  <2> QED
      BY <1>1, <1>2, <2>1, <2>2 DEF SeriesInv, SeriesTypeOK
<1> QED
    BY <1>1, <1>2, <1>3, <1>4, <1>5, SteadyKept

\* What was read as breached is failed after the notice, whatever it is by then.
LEMMA FailBreachedKept ==
    ASSUME SeriesInv, NEW stuck \in BOOLEAN, FailBreached(stuck)
    PROVE  SeriesInv'
<1>1. /\ UNCHANGED <<restart, query, backup, reported, wanted, commands>>
      /\ slips' = Rewriting(breached) /\ session = "active"
      /\ running' \in {"no", "yes", "silent", "dying"}
    BY KillTyped DEF FailBreached, SeriesInv, ClosedIsSpent
<1>2. PICK rs : rs = Failed(rows, breached)
    OBVIOUS
<1>3. /\ rs \in Seq(Row) /\ Advance(rows, rs) /\ Undisturbed(rows, rs, breached)
      /\ breached \intersect With(rows, {"completed"}) = {} => Faithful(rows, rs)
    BY <1>2, FailedRows DEF SeriesInv, SeriesTypeOK
<1>4. SlipsKept /\ ("rewritten" \notin slips' => Faithful(rows, rs))
    BY <1>1, <1>3 DEF Rewriting, SlipsKept
<1>5. Undisturbed(rows, rs, Touched)
    BY <1>3 DEF Undisturbed, Touched, Doomed
<1>6. PICK read : read = alive
    OBVIOUS
<1>7. SweepRest(rs, read, stuck)
    BY <1>2, <1>6 DEF FailBreached
<1>8. restart' \in {"none", "note", "wake", "clear"} /\ backup' \in {"none", "usable", "active"}
    BY <1>1 DEF SeriesInv, SeriesTypeOK
<1> QED
    BY <1>1, <1>3, <1>4, <1>5, <1>7, <1>8, SweepRestKept

LEMMA FoundRows ==
    ASSUME SeriesInv, NEW R \in Found
    PROVE  /\ session = "active" /\ R \in Seq(Row) /\ Advance(rows, R)
           /\ "rewritten" \notin Rewriting(breached) => Faithful(rows, R)
           /\ Undisturbed(rows, R, Touched)
<1>0. rows \in Seq(Row)
    BY DEF SeriesInv, SeriesTypeOK
<1>1. CASE sweep = "announcing"
  <2>1. PICK rs : rs = Failed(rows, breached)
      OBVIOUS
  <2>2. R = Charged(rs, alive, FALSE)
      BY <1>1, <2>1 DEF Found
  <2>3. /\ rs \in Seq(Row) /\ Advance(rows, rs) /\ Undisturbed(rows, rs, breached)
        /\ breached \intersect With(rows, {"completed"}) = {} => Faithful(rows, rs)
      BY <1>0, <2>1, FailedRows
  <2>4. R \in Seq(Row) /\ Advance(rs, R) /\ Faithful(rs, R) /\ Undisturbed(rs, R, Touched)
      BY <2>2, <2>3, ChargedSteady DEF Steady, Undisturbed
  <2>5. Undisturbed(rows, rs, Touched)
      BY <2>3 DEF Undisturbed, Touched, Doomed
  <2>6. "rewritten" \notin Rewriting(breached) => Faithful(rows, rs)
      BY <2>3 DEF Rewriting
  <2>7. session = "active"
      BY <1>1 DEF SeriesInv, ClosedIsSpent
  <2> QED
      BY <2>3, <2>4, <2>5, <2>6, <2>7, AdvanceTwice
<1>2. CASE sweep # "announcing"
  <2>1. AtHook
      BY <1>2 DEF Found
  <2>2. PICK S : (S = {} \/ S \in Overdue) /\ R = Charged(Failed(RowsAtHook, S), ReadAtHook, FALSE)
      BY <1>2, <2>1 DEF Found
  <2>3. /\ session = "active" /\ Steady(rows, RowsAtHook) /\ RowsAtHook \in Seq(Row)
        /\ S \subseteq With(RowsAtHook, {"pending"})
      BY <2>1, <2>2, HookRows
  <2>4. Steady(RowsAtHook, Failed(RowsAtHook, S))
      BY <2>3, FailedRows
  <2>5. Steady(Failed(RowsAtHook, S), R)
      BY <2>2, <2>4, ChargedSteady DEF Steady
  <2>6. Steady(rows, R)
      BY <2>3, <2>4, <2>5, SteadyTwice
  <2> QED
      BY <2>3, <2>6 DEF Steady, Undisturbed
<1> QED
    BY <1>1, <1>2

\* A crash between the insert and the clear leaves two schedules; it loses none.
LEMMA HostCrashKept ==
    ASSUME SeriesInv, HostCrash
    PROVE  SeriesInv'
<1>1. /\ UNCHANGED <<session, backup, reported, wanted, commands>>
      /\ sweep' = "idle" /\ alive' = "no" /\ breached' = {} /\ query' = {}
      /\ running' = "no" /\ restart' \in {"none", "note"} /\ mishaps' \in 0..MaxEvents
    BY MishapCounts DEF HostCrash, SeriesInv
<1>2. Touched' \subseteq Touched /\ Touched \subseteq DOMAIN rows
    BY <1>1 DEF Touched, Doomed, SeriesInv, SeriesTypeOK
<1>3. session # "active" => sweep' = sweep
    BY <1>1 DEF SeriesInv, ClosedIsSpent
<1>4. CASE UNCHANGED <<rows, slips>>
  <2>1. SeriesTypeOK'
      BY <1>1, <1>2, <1>4 DEF SeriesInv, SeriesTypeOK
  <2> QED
      BY <1>1, <1>2, <1>3, <1>4, <2>1, StillKept
<1>5. CASE rows' \in Found /\ slips' = Rewriting(breached)
  <2>1. /\ session = "active" /\ rows' \in Seq(Row) /\ Advance(rows, rows')
        /\ "rewritten" \notin slips' => Faithful(rows, rows')
        /\ Undisturbed(rows, rows', Touched)
      BY <1>5, FoundRows
  <2>2. SlipsKept
      BY <1>5 DEF Rewriting, SlipsKept
  <2>3. slips' \subseteq {"doubled", "escaped", "overwritten", "rewritten"}
      BY <2>2 DEF SlipsKept, SeriesInv, SeriesTypeOK
  <2>4. SeriesTypeOK'
      BY <1>1, <1>2, <2>1, <2>3 DEF SeriesInv, SeriesTypeOK, Advance
  <2> QED
      BY <1>1, <1>2, <1>3, <2>1, <2>2, <2>4, AdvanceKept
<1>6. ASSUME NEW R \in Found, NEW i \in Ended(R), CutShort(R, i), slips' = slips \union {"doubled"}
      PROVE  SeriesInv'
  <2> DEFINE B == {j \in Ended(R) : j < i}
             F == B \union {i}
             n == Cardinality(F)
  <2>4. PICK nth \in InOrder(F) : rows' = Cleared(R, B) \o Clones(R, nth)
      BY <1>6 DEF CutShort
  <2>5. /\ R \in Seq(Row) /\ ArmedIn(R) = Armed /\ BareIn(R) /\ DOMAIN R = DOMAIN rows
        /\ session = "active"
    <3>1. R \in Seq(Row) /\ Advance(rows, R) /\ session = "active"
        BY FoundRows
    <3> QED
        BY <3>1, AdvanceArmed, InvParts DEF SeriesInv, SeriesTypeOK, Advance
  <2>6. B \in SUBSET DOMAIN R /\ F \in SUBSET DOMAIN R /\ i \in F /\ i \in ArmedIn(R)
      BY DEF Ended, With, ArmedIn
  <2> HIDE DEF B, F
  <2>7. /\ Len(R) \in Nat /\ DOMAIN R = 1..Len(R)
      BY <2>5, RowsFacts
  <2>8. /\ rows' \in Seq(Row) /\ DOMAIN rows' = 1..(Len(R) + n) /\ Len(rows') = Len(R) + n
        /\ IsFiniteSet(F) /\ n \in Nat
        /\ \A k \in DOMAIN R :
              /\ rows'[k].status = R[k].status /\ rows'[k].ack = R[k].ack
              /\ rows'[k].recurrence <=> R[k].recurrence /\ k \notin B
        /\ \A k \in DOMAIN rows' \ DOMAIN R :
              /\ rows'[k].status = IF TrailingFails(R) >= Cap THEN "paused" ELSE "pending"
              /\ rows'[k].ack = "none" /\ rows'[k].recurrence
      BY SMTT(60), <2>4, <2>5, <2>6, Rearming
  <2>9. n # 0
      BY <2>6, <2>8, FS_EmptySet
  <2> HIDE DEF n
  <2>10. Len(R) + 1 \in DOMAIN rows' \ DOMAIN R
      BY <2>7, <2>8, <2>9
  <2>11. Len(R) + 1 \in Armed'
      BY <2>8, <2>10 DEF Armed, With, LiveStatuses
  <2>12. SeriesTypeOK'
    <3>1. Touched' \subseteq DOMAIN rows'
        BY <1>2, <2>5, <2>7, <2>8
    <3>2. slips' \subseteq {"doubled", "escaped", "overwritten", "rewritten"}
        BY <1>6 DEF SeriesInv, SeriesTypeOK
    <3> QED
        BY <1>1, <2>5, <2>8, <3>1, <3>2 DEF SeriesInv, SeriesTypeOK
  <2>13. StoppedIsBare'
      BY <2>5, <2>8 DEF StoppedIsBare, BareIn, With
  <2>14. StopHolds'
    <3>1. i \in Armed
        BY <2>5, <2>6
    <3> QED
        BY <1>1, <1>6, <3>1 DEF SeriesInv, StopHolds
  <2>15. SeriesSurvives' /\ OneSchedule' /\ PauseHolds' /\ ClosedIsSpent' /\ Chain'
      BY <1>1, <1>6, <2>5, <2>11 DEF SeriesSurvives, OneSchedule, PauseHolds, ClosedIsSpent, Chain
  <2> QED
      BY <2>12, <2>13, <2>14, <2>15 DEF SeriesInv
<1> QED
    BY <1>4, <1>5, <1>6 DEF HostCrash

LEMMA SeriesInitially ==
    ASSUME SeriesInit
    PROVE  SeriesInv
<1>1. SeriesTypeOK
  <2>1. rows \in Seq(Row)
      BY EmptySeq DEF SeriesInit
  <2>2. 0 \in 0..MaxEvents
      BY BoundsAssumption
  <2>3. Touched = {} /\ DOMAIN rows = {}
      BY DEF SeriesInit, Touched, Doomed
  <2> QED
      BY <2>1, <2>2, <2>3 DEF SeriesInit, SeriesTypeOK
<1>2. \A S : With(rows, S) = {}
    BY DEF SeriesInit, With
<1>3. Armed = {} /\ LiveRows = {}
    BY <1>2 DEF Armed, LiveRows
<1>4. SeriesSurvives /\ OneSchedule /\ StopHolds /\ PauseHolds /\ ClosedIsSpent
    BY <1>3 DEF SeriesInit, SeriesSurvives, OneSchedule, StopHolds, PauseHolds, ClosedIsSpent
<1>5. StoppedIsBare /\ Chain
    BY <1>2 DEF SeriesInit, StoppedIsBare, Chain
<1> QED
    BY <1>1, <1>4, <1>5 DEF SeriesInv

LEMMA SeriesKept ==
    ASSUME SeriesInv, [SeriesNext]_seriesVars
    PROVE  SeriesInv'
<1>0. Scripts \subseteq BOOLEAN
    BY BoundsAssumption
<1>1. ASSUME NEW rec \in BOOLEAN, NEW script \in Scripts, NEW d \in BOOLEAN, Create(rec, script, d)
      PROVE  SeriesInv'
    BY <1>0, <1>1, CreateKept
<1>2. CASE PauseTask \/ ResumeTask \/ CancelTask \/ DeleteTask \/ RunTask
    BY <1>2, PauseKept, ResumeKept, CancelKept, DeleteKept, RunTaskKept
<1>3. ASSUME NEW b \in BOOLEAN, UpdateRecurrence(b) \/ UpdateProcessAfter(b)
      PROVE  SeriesInv'
    BY <1>3, UpdateRecurrenceKept, UpdatesKept
<1>4. ASSUME NEW script \in Scripts, UpdateScript(script) PROVE SeriesInv'
    BY <1>0, <1>4, UpdatesKept
<1>5. ASSUME NEW i \in DOMAIN rows,
             TimePasses(i) \/ Claim(i) \/ \E o \in {"completed", "script-skip:error"} : Finish(i, o)
      PROVE  SeriesInv'
    BY <1>5, ContainerKept
<1>6. CASE LimitHit \/ ContainerStops \/ ContainerGone \/ Respawn \/ ProviderChanges \/ ReportHandled
    BY <1>6, HostKept, StartKept, ReportKept
<1>7. CASE Sweep \/ WakeContainer \/ HostCrash
  <2>1. ASSUME NEW stuck \in BOOLEAN, SweepQuiet(stuck) \/ SwitchProvider(stuck) PROVE SeriesInv'
      BY <2>1, SweepKept
  <2>2. ASSUME NEW S \in Overdue, NEW stuck \in BOOLEAN, BackupBreached(S, stuck) PROVE SeriesInv'
      BY <2>2, SweepKept
  <2>3. ASSUME NEW S \in Overdue, AnnounceBreach(S) PROVE SeriesInv'
      BY <2>3, AnnounceKept
  <2> QED
      BY <1>7, <2>1, <2>2, <2>3, StartKept, HostCrashKept DEF Sweep
<1>8. ASSUME NEW stuck \in BOOLEAN, FailBreached(stuck) PROVE SeriesInv'
    BY <1>8, FailBreachedKept
<1>9. CASE UNCHANGED seriesVars
  <2>1. /\ UNCHANGED <<rows, session, running, restart, query, backup, sweep, alive, breached, reported,
                       wanted, slips, commands, mishaps>>
        /\ Touched' = Touched
      BY <1>9, SameTouched DEF seriesVars, containerVars, sweepVars
  <2>2. SeriesTypeOK'
      BY <2>1 DEF SeriesInv, SeriesTypeOK
  <2> QED
      BY <2>1, <2>2, StillKept
<1> QED
    BY <1>1, <1>2, <1>3, <1>4, <1>5, <1>6, <1>7, <1>8, <1>9 DEF SeriesNext

\* Whatever ends, fails, crashes or is swept: a wanted series keeps a row with
\* its recurrence, it has one schedule, a stop or a pause holds, and a session
\* is closed only when it is spent.
THEOREM SeriesSafety == SeriesSpec => []SeriesInv
<1>1. SeriesInit => SeriesInv
    BY SeriesInitially
<1>2. SeriesInv /\ [SeriesNext]_seriesVars => SeriesInv'
    BY SeriesKept
<1> QED
    BY <1>1, <1>2, PTL DEF SeriesSpec

\* A series left to itself is paused after exactly Cap failed runs.
THEOREM PausedAtTheCap == SeriesSpec => []AutoPaused
<1>1. SeriesInv => AutoPaused
  <2>1. ASSUME SeriesInv, commands = 0, slips \intersect {"doubled", "rewritten"} = {},
               TrailingFails(rows) >= Cap
        PROVE  TrailingFails(rows) = Cap /\ With(rows, {"pending"}) = {}
    <3> DEFINE L == Len(rows)
    <3>1. /\ rows \in Seq(Row) /\ L \in Nat /\ DOMAIN rows = 1..L
          /\ TrailingFails(rows) = Cardinality(Trail(rows)) /\ TrailingFails(rows) \in Nat
        BY <2>1, RowsFacts, TrailFinite DEF SeriesInv, SeriesTypeOK
    <3> HIDE DEF L
    <3>2. L # 0
      <4>1. L = 0 => Trail(rows) = {}
          BY <3>1 DEF Trail, With
      <4>2. L = 0 => TrailingFails(rows) = 0
          BY <3>1, <4>1, FS_EmptySet
      <4> QED
          BY <2>1, <3>1, <4>2, BoundsAssumption
    <3>3. /\ \A i \in 1..L : i < L => rows[i].status \in Done
          /\ rows[L].status \in LiveStatuses \union Done
          /\ rows[L].status = "pending" => TrailingFails(rows) < Cap
          /\ rows[L].status = "paused" => TrailingFails(rows) = Cap
          /\ rows[L].status \in Done => TrailingFails(rows) <= Cap
        BY <2>1, <3>1, <3>2 DEF SeriesInv, Chain, L
    <3>4. rows[L].status # "pending"
        BY <2>1, <3>1, <3>3, BoundsAssumption
    <3>5. TrailingFails(rows) = Cap
        BY <2>1, <3>1, <3>3, <3>4, BoundsAssumption DEF LiveStatuses
    <3>6. With(rows, {"pending"}) = {}
        BY <3>1, <3>3, <3>4 DEF With, Done
    <3> QED
        BY <3>5, <3>6
  <2> QED
      BY <2>1 DEF AutoPaused
<1> QED
    BY <1>1, SeriesSafety, PTL
=============================================================================
