----------------------------- MODULE Scheduling -----------------------------
(***************************************************************************)
(* One task series: the rows of kind 'task' of its isolated session, in    *)
(* the order of their seq.  A recurring series has no record of its own:   *)
(* it lives as long as one of its rows carries a recurrence, and each      *)
(* sweep moves that recurrence from the occurrence that ended to a fresh   *)
(* row (src/modules/scheduling/recurrence.ts).  The operator's commands    *)
(* (src/cli/resources/tasks.ts), the container's acks in its own database  *)
(* and the sweep's awaits interleave.                                      *)
(*                                                                         *)
(* A row is claimed and finished in the container's processing_ack; the    *)
(* host learns of it when the sweep copies the acks into the row's status. *)
(* due says that process_after has passed.  How long ago a row was written *)
(* is not kept: any pending row may have been there for longer than        *)
(* RESPONSE_GUARANTEE_MS when the sweep's fallback hook looks, due or not, *)
(* and be failed for it (src/modules/fallback/sweep.ts).                   *)
(***************************************************************************)
EXTENDS Integers, Sequences, FiniteSets

CONSTANTS
    MaxRows,      \* rows the session may hold (bound of the model)
    Cap,          \* SCRIPT_FAIL_PAUSE_CAP, 8 in the code
    MaxTries,     \* MAX_TRIES, 5 in the code
    Scripts,      \* whether a task is given a pre-task script: what to try
    MaxEvents     \* commands after the creation and mishaps together (bound of
                  \* the model): deaths, failed spawns, crashes, limits, stuck
                  \* containers and changes of the provider elsewhere

ASSUME BoundsAssumption ==
    /\ MaxRows \in Nat \ {0} /\ Cap \in Nat \ {0} /\ MaxTries \in Nat \ {0}
    /\ MaxEvents \in Nat /\ Scripts \subseteq BOOLEAN

VARIABLES
    rows,      \* the task rows of inbound.db, in the order of seq
    session,   \* the session's status: absent, active or closed
    running,   \* the session's container: it waits silently after a limit;
               \* dying, its process is gone and the host does not know yet
    restart,   \* what the host does when it is gone: wake one, after clearing
               \* its claims, or nothing; a note waits for the next one
    query,     \* the rows that opened the container's query
    backup,    \* the fallback provider: none, usable or active
    sweep,     \* where sweepSession stands for this session: at an await
    alive,     \* what it read of the container before it announces a failure
    breached,  \* the rows whose failure the sweep is announcing
    reported,  \* the rows of a limit's report that is not handled yet
    wanted,    \* what the operator last asked for, with success (history)
    slips,     \* what went wrong with the recurrence (history)
    commands, mishaps

containerVars == <<running, restart, query>>
sweepVars == <<sweep, alive, breached>>
seriesVars == <<rows, session, containerVars, backup, sweepVars, reported, wanted, slips, commands, mishaps>>

LiveStatuses == {"pending", "paused"}
Done == {"completed", "failed"}
Statuses == LiveStatuses \union Done \union {"cancelled", "deleted"}
Acks == {"none", "processing", "completed", "script-skip:error"}

Row == [status: Statuses, recurrence: BOOLEAN, script: BOOLEAN, due: BOOLEAN,
        tries: 0..MaxTries, ack: Acks]

TaskRow(status, rec, script, due) ==
    [status |-> status, recurrence |-> rec, script |-> script, due |-> due,
     tries |-> 0, ack |-> "none"]

\* Of a row that ended only its status, recurrence and script are read again.
Settled(r, status) == TaskRow(status, r.recurrence, r.script, FALSE)

With(rs, S) == {i \in DOMAIN rs : rs[i].status \in S}
LiveRows == With(rows, LiveStatuses)
Armed == {i \in With(rows, LiveStatuses \union Done) : rows[i].recurrence}
Due == {i \in With(rows, {"pending"}) : rows[i].due}

\* Rows that are or will be failed by what is under way, whatever becomes of them.
Doomed == breached \union reported
Touched == Doomed \union query

\* Mutant of Ended: a failed occurrence is not re-armed.
EndedCompleted(rs) == {i \in With(rs, {"completed"}) : rs[i].recurrence}

\* getCompletedRecurring: what ended and still carries the recurrence.
Ended(rs) == {i \in With(rs, Done) : rs[i].recurrence}

\* A bound of the model: the sweep always has room to re-arm what may end.
Owed(rs) == {i \in With(rs, LiveStatuses \union Done) :
                /\ rs[i].recurrence
                /\ \/ rs[i].due \/ rs[i].tries > 0 \/ rs[i].ack # "none"
                   \/ rs[i].status \in Done \/ i \in Doomed}
Fits(rs) == Len(rs) + Cardinality(Owed(rs)) <= MaxRows

\* trailingFailedRuns: the failed rows above the last completed one.
TrailingFails(rs) ==
    Cardinality({i \in With(rs, {"failed"}) : \A j \in With(rs, {"completed"}) : j < i})

SeriesTypeOK ==
    /\ rows \in Seq(Row)
    /\ session \in {"absent", "active", "closed"}
    /\ running \in {"no", "yes", "silent", "dying"}
    /\ restart \in {"none", "note", "wake", "clear"}
    /\ backup \in {"none", "usable", "active"}
    /\ sweep \in {"idle", "waking", "woke", "announcing"}
    /\ alive \in {"no", "yes", "woke"}
    /\ Touched \subseteq DOMAIN rows /\ (session = "absent" => DOMAIN rows = {})
    /\ wanted \in {"nothing", "once", "recurring", "paused", "stopped"}
    /\ slips \subseteq {"doubled", "escaped", "overwritten", "rewritten"}
    /\ commands \in 0..MaxEvents /\ mishaps \in 0..MaxEvents

SeriesInit ==
    /\ rows = <<>> /\ session = "absent"
    /\ running = "no" /\ restart = "none" /\ query = {}
    /\ backup \in {"none", "usable", "active"}
    /\ sweep = "idle" /\ alive = "no" /\ breached = {} /\ reported = {}
    /\ wanted = "nothing" /\ slips = {} /\ commands = 0 /\ mishaps = 0

MoreEvents == commands + mishaps < MaxEvents
Mishap == MoreEvents /\ mishaps' = mishaps + 1
-----------------------------------------------------------------------------
(* The commands of `ncl tasks`.  Each runs in one turn of the host's event   *)
(* loop, on the sessions that are active.                                    *)

\* createTask: a session of its own and one pending row.
Create(rec, script, due) ==
    /\ session = "absent"
    /\ rows' = <<TaskRow("pending", rec, script, due)>> /\ Fits(rows')
    /\ session' = "active"
    /\ wanted' = IF rec THEN "recurring" ELSE "once"
    /\ UNCHANGED <<containerVars, backup, sweepVars, reported, slips, commands, mishaps>>

\* mutateTask: an error when no row is touched, and then nothing changes.
Command(touched, Change(_)) ==
    /\ session = "active" /\ MoreEvents /\ touched # {}
    /\ rows' = [i \in DOMAIN rows |-> IF i \in touched THEN Change(rows[i]) ELSE rows[i]]
    /\ Fits(rows')
    /\ commands' = commands + 1
    /\ UNCHANGED <<session, containerVars, backup, sweepVars, reported, mishaps>>

\* An occurrence the container has begun, whose failure is being announced, or
\* that has ended and is not re-armed yet: its end overwrites the pause.
UnderWay == {i \in Armed : rows[i].ack # "none" \/ rows[i].status \in Done \/ i \in Touched}

PauseTask ==
    /\ Command(With(rows, {"pending"}), LAMBDA r : [r EXCEPT !.status = "paused"])
    /\ wanted' = IF wanted = "recurring" THEN "paused" ELSE wanted
    /\ slips' = IF UnderWay = {} THEN slips ELSE slips \union {"overwritten"}

ResumeTask ==
    /\ Command(With(rows, {"paused"}), LAMBDA r : [r EXCEPT !.status = "pending"])
    /\ wanted' = IF wanted = "paused" THEN "recurring" ELSE wanted
    /\ UNCHANGED slips

\* An occurrence that ended, not re-armed yet, is out of a command's reach.
Escapes == IF Ended(rows) = {} THEN slips ELSE slips \union {"escaped"}

\* cancelTask, and cancelAllTasks in the one session.
CancelTask ==
    /\ Command(LiveRows, LAMBDA r : [r EXCEPT !.status = "cancelled", !.recurrence = FALSE])
    /\ wanted' = "stopped" /\ slips' = Escapes

DeleteTask ==
    /\ Command(With(rows, Statuses \ {"deleted"}),
               LAMBDA r : TaskRow("deleted", FALSE, FALSE, FALSE))
    /\ wanted' = "stopped" /\ UNCHANGED slips

\* updateTask with a recurrence: every live row gets it, an on-demand one too.
UpdateRecurrence(rec) ==
    /\ Command(LiveRows, LAMBDA r : [r EXCEPT !.recurrence = rec])
    /\ wanted' = IF ~rec THEN "stopped" ELSE IF wanted = "paused" THEN wanted ELSE "recurring"
    /\ slips' = IF ~rec THEN Escapes
                ELSE IF Cardinality(LiveRows \union Ended(rows)) > 1 THEN slips \union {"doubled"}
                ELSE slips

UpdateProcessAfter(due) ==
    /\ Command(LiveRows, LAMBDA r : [r EXCEPT !.due = due])
    /\ UNCHANGED <<wanted, slips>>

UpdateScript(script) ==
    /\ Command(LiveRows, LAMBDA r : [r EXCEPT !.script = script])
    /\ UNCHANGED <<wanted, slips>>

\* selectTask: the live row with the highest seq, else the last row.
Selected(i) ==
    LET known == With(rows, Statuses \ {"deleted"})
        best  == IF LiveRows # {} THEN LiveRows ELSE known
    IN  i \in best /\ \A j \in best : j <= i

\* runTaskCommand: one more occurrence, due now, without a recurrence.
RunTask ==
    /\ session = "active" /\ MoreEvents
    /\ \E i \in DOMAIN rows : /\ Selected(i)
                              /\ rows' = Append(rows, TaskRow("pending", FALSE, rows[i].script, TRUE))
    /\ Fits(rows')
    /\ commands' = commands + 1
    /\ UNCHANGED <<session, containerVars, backup, sweepVars, reported, wanted, slips, mishaps>>
-----------------------------------------------------------------------------
(* The container, which sees rows and never writes them.                     *)

TimePasses(i) ==
    /\ i \in LiveRows /\ ~rows[i].due
    /\ rows' = [rows EXCEPT ![i].due = TRUE] /\ Fits(rows')
    /\ UNCHANGED <<session, containerVars, backup, sweepVars, reported, wanted, slips, commands, mishaps>>

Claimable == {i \in Due : rows[i].ack = "none"}
Begun == {i \in DOMAIN rows : rows[i].ack = "processing"}

\* The row opens a query (alone, in the model) or is pushed into the open one.
Claim(i) ==
    /\ running = "yes" /\ i \in Claimable
    /\ rows' = [rows EXCEPT ![i].ack = "processing"]
    /\ query' \in {{i}} \union (IF query = {} THEN {} ELSE {query})
    /\ UNCHANGED <<session, running, restart, backup, sweepVars, reported, wanted, slips, commands, mishaps>>

\* A turn ends, or the script gates the run: completed.  Only a script errs.
Finish(i, outcome) ==
    /\ running = "yes" /\ i \in Begun
    /\ outcome = "script-skip:error" => rows[i].script
    /\ rows' = [rows EXCEPT ![i].ack = outcome]
    /\ UNCHANGED <<session, containerVars, backup, sweepVars, reported, wanted, slips, commands, mishaps>>

\* A usage limit: the report names what opened the query, ended or not, and
\* the container waits to be killed.  (One report at a time, a bound.)
LimitHit ==
    /\ running = "yes" /\ query # {} /\ reported = {} /\ Mishap
    /\ running' = "silent" /\ reported' = query
    /\ UNCHANGED <<rows, session, restart, query, backup, sweepVars, wanted, slips, commands>>

\* Idle, it is stopped in the end; otherwise it dies.
ContainerStops ==
    /\ running \in {"yes", "silent"}
    /\ IF running = "yes" /\ Begun \union Claimable = {} THEN UNCHANGED mishaps ELSE Mishap
    /\ running' = "dying"
    /\ UNCHANGED <<rows, session, restart, query, backup, sweepVars, reported, wanted, slips, commands>>
-----------------------------------------------------------------------------
(* Containers as the host starts and stops them.                             *)

\* killContainer stops the process before it returns.
Kill == running' = IF running = "no" THEN "no" ELSE "dying"

RestartRunning ==
    /\ Kill
    /\ restart' = IF running = "no" \/ restart = "clear" THEN restart ELSE "wake"

\* enterFallback, restartOriginSession: a note for the next container in any case.
Switch ==
    /\ backup' = "active"
    /\ Kill
    /\ restart' = IF running # "no" THEN "clear" ELSE IF restart = "none" THEN "note" ELSE restart

\* A container that starts forgets what the last one had claimed.
Forget(r) == IF r.ack = "processing" THEN [r EXCEPT !.ack = "none"] ELSE r
Forgotten == [i \in DOMAIN rows |-> Forget(rows[i])]

\* The close event.
ContainerGone ==
    /\ running = "dying"
    /\ running' = "no" /\ query' = {}
    /\ rows' = IF restart = "clear" THEN Forgotten ELSE rows
    /\ restart' = IF restart = "clear" THEN "wake" ELSE restart
    /\ UNCHANGED <<session, backup, sweepVars, reported, wanted, slips, commands, mishaps>>

Started == running' = "yes" /\ rows' = Forgotten /\ restart' = "none"

Respawn ==
    /\ restart = "wake" /\ running = "no"
    /\ \/ Started /\ UNCHANGED mishaps
       \/ Mishap /\ restart' = "note" /\ UNCHANGED <<rows, running>>
    /\ UNCHANGED <<session, query, backup, sweepVars, reported, wanted, slips, commands>>

\* Another session falls back, or the install returns to its native provider:
\* the containers of all groups are restarted but for the origin's.
ProviderChanges ==
    /\ backup # "none" /\ Mishap
    /\ backup' = IF backup = "active" THEN "usable" ELSE "active"
    /\ RestartRunning \/ UNCHANGED <<running, restart>>
    /\ UNCHANGED <<rows, session, query, sweepVars, reported, wanted, slips, commands>>

\* markMessageFailed: by id, whatever the row's status has become.
Failed(rs, S) ==
    [i \in DOMAIN rs |-> IF i \in S /\ rs[i].status # "deleted" THEN Settled(rs[i], "failed") ELSE rs[i]]

Rewriting(S) == IF S \intersect With(rows, {"completed"}) = {} THEN slips ELSE slips \union {"rewritten"}

\* handleFallbackReport: without a backup the rows named are failed after the
\* notice was awaited, else the container is restarted, on the backup.
ReportHandled ==
    /\ reported # {} /\ reported' = {}
    /\ \/ /\ backup = "none" /\ Kill /\ UNCHANGED <<backup, restart>>
          /\ rows' = Failed(rows, reported) /\ slips' = Rewriting(reported)
       \/ backup = "usable" /\ Switch /\ UNCHANGED <<rows, slips>>
       \/ backup = "active" /\ RestartRunning /\ UNCHANGED <<rows, slips, backup>>
    /\ UNCHANGED <<session, query, sweepVars, wanted, commands, mishaps>>
-----------------------------------------------------------------------------
(* The sweep of the session.  Its turns of the event loop end where it awaits *)
(* a wake or a notice; the last one ends with the steps 3 to 6.              *)

\* Mutant of Synced: the ack of a broken script is not copied.
SyncedCompleted(r) ==
    IF r.status \in Done \union {"deleted"} \/ r.ack # "completed" THEN r
    ELSE Settled(r, "completed")

Synced(r) ==
    IF r.status \in Done \union {"deleted"} \/ r.ack \notin {"completed", "script-skip:error"} THEN r
    ELSE Settled(r, IF r.ack = "completed" THEN "completed" ELSE "failed")

\* A due row, or a note, wakes a container when none is there.
MustWake ==
    /\ running = "no"
    /\ restart # "none" \/ \E i \in DOMAIN rows : LET r == Synced(rows[i]) IN r.status = "pending" /\ r.due

SyncedRows == [i \in DOMAIN rows |-> Synced(rows[i])]

SweepSync ==
    /\ sweep = "idle" /\ session = "active" /\ MustWake
    /\ sweep' = "waking" /\ rows' = SyncedRows
    /\ UNCHANGED <<session, containerVars, backup, alive, breached, reported, wanted, slips, commands, mishaps>>

WakeContainer ==
    /\ sweep = "waking" /\ sweep' = "woke"
    /\ \/ running = "no" /\ Started /\ UNCHANGED mishaps
       \/ running = "no" /\ Mishap /\ UNCHANGED <<running, restart, rows>>
       \/ running # "no" /\ UNCHANGED <<running, restart, rows, mishaps>>
    /\ UNCHANGED <<session, query, backup, alive, breached, reported, wanted, slips, commands>>

\* resetStuckProcessingRows: charge a try to what a container held; its claims
\* are deleted.
ResetStuck(r) ==
    IF r.ack # "processing" THEN r
    ELSE IF r.status # "pending" \/ ~r.due THEN Forget(r)
    ELSE IF r.tries >= MaxTries THEN Settled(r, "failed")
    ELSE [r EXCEPT !.tries = r.tries + 1, !.due = FALSE, !.ack = "none"]

Reset(rs) == [i \in DOMAIN rs |-> ResetStuck(rs[i])]

\* The rows of S in the order of their seq.
InOrder(S) == {nth \in [1..Cardinality(S) -> S] : \A j, k \in DOMAIN nth : j < k => nth[j] < nth[k]}

\* Mutant of Clones: one failure too many before the pause.
ClonesLate(rs, nth) ==
    LET status == IF TrailingFails(rs) > Cap THEN "paused" ELSE "pending"
    IN  [k \in DOMAIN nth |-> TaskRow(status, TRUE, rs[nth[k]].script, FALSE)]

\* handleRecurrence: a clone of every ended row that carries the recurrence,
\* paused once the last Cap runs failed; then the ended row gives it up.
Clones(rs, nth) ==
    LET status == IF TrailingFails(rs) >= Cap THEN "paused" ELSE "pending"
    IN  [k \in DOMAIN nth |-> TaskRow(status, TRUE, rs[nth[k]].script, FALSE)]

\* (The script of a row is not read again once a later one has it.)
Cleared(rs, ended) ==
    [i \in DOMAIN rs |->
        IF i \in ended THEN [rs[i] EXCEPT !.recurrence = FALSE, !.script = FALSE] ELSE rs[i]]

Rearmed(rs) == {Cleared(rs, Ended(rs)) \o Clones(rs, nth) : nth \in InOrder(Ended(rs))}

\* Steps 3 and 4: a stuck container is killed, and what no container or a stuck
\* one held is charged.
Charged(rs, read, stuck) == IF read = "no" \/ stuck THEN Reset(rs) ELSE rs

\* Mutant of SweepRest: ended rows count as live.
SweepKeepsSession(rs, read, stuck) ==
    /\ sweep' = "idle" /\ alive' = "no" /\ breached' = {}
    /\ IF stuck THEN read = "yes" /\ Mishap ELSE UNCHANGED mishaps
    /\ rows' \in Rearmed(Charged(rs, read, stuck))
    /\ session' = IF running = "no" /\ With(rows', LiveStatuses \union Done) = {} THEN "closed" ELSE session

\* Steps 3 to 6, on the rows rs.  A session with no live row is closed when
\* nothing runs in it; a container just killed still counts.
SweepRest(rs, read, stuck) ==
    /\ sweep' = "idle" /\ alive' = "no" /\ breached' = {}
    /\ IF stuck THEN read = "yes" /\ Mishap ELSE UNCHANGED mishaps
    /\ rows' \in Rearmed(Charged(rs, read, stuck))
    /\ session' = IF running = "no" /\ With(rows', LiveStatuses) = {} THEN "closed" ELSE session

\* The sweep reaches step 2.5 with these rows, and has read this of the container.
AtHook ==
    \/ sweep = "woke"
    \/ sweep = "idle" /\ session = "active" /\ ~MustWake
RowsAtHook == IF sweep = "idle" THEN SyncedRows ELSE rows
ReadAtHook == IF running = "no" THEN "no" ELSE IF sweep = "idle" THEN "yes" ELSE "woke"

\* overdueTriggerMessages: by the age of the row, whatever its process_after.
\* (A bound of the model: there is room to re-arm what is failed.)
Overdue ==
    {S \in SUBSET With(RowsAtHook, {"pending"}) :
        S # {} /\ Len(rows) + Cardinality(Owed(rows) \union (S \intersect Armed)) <= MaxRows}

\* sweepFallbackSession finds nothing overdue.
SweepQuiet(stuck) ==
    /\ AtHook
    /\ UNCHANGED <<restart, query, backup, reported, wanted, slips, commands>>
    /\ IF stuck THEN Kill ELSE UNCHANGED running
    /\ SweepRest(RowsAtHook, ReadAtHook, stuck)

\* The backup breaches the guarantee too: what is overdue is failed at once.
BackupBreached(S, stuck) ==
    /\ AtHook /\ backup = "active"
    /\ UNCHANGED <<restart, query, backup, reported, wanted, slips, commands>>
    /\ Kill
    /\ SweepRest(Failed(RowsAtHook, S), ReadAtHook, stuck)

SwitchProvider(stuck) ==
    /\ AtHook /\ backup = "usable"
    /\ UNCHANGED <<query, reported, wanted, slips, commands>>
    /\ Switch
    /\ With(RowsAtHook, {"pending"}) # {}
    /\ SweepRest(RowsAtHook, ReadAtHook, stuck)

\* No backup: the failure is announced ...
AnnounceBreach(S) ==
    /\ AtHook /\ backup = "none"
    /\ sweep' = "announcing" /\ rows' = RowsAtHook /\ alive' = ReadAtHook /\ breached' = S
    /\ UNCHANGED <<session, containerVars, backup, reported, wanted, slips, commands, mishaps>>

\* ... and then the rows read before are failed.
FailBreached(stuck) ==
    /\ sweep = "announcing"
    /\ UNCHANGED <<restart, query, backup, reported, wanted, commands>>
    /\ Kill
    /\ SweepRest(Failed(rows, breached), alive, stuck)
    /\ slips' = Rewriting(breached)

\* The rows a sweep may find when it comes to re-arm them.
Found ==
    IF sweep = "announcing" THEN {Charged(Failed(rows, breached), alive, FALSE)}
    ELSE IF ~AtHook THEN {}
    ELSE {Charged(Failed(RowsAtHook, S), ReadAtHook, FALSE) :
             S \in {{}} \union (IF backup = "active" THEN Overdue ELSE {})}

\* insertRecurrence and clearRecurrence are two statements: the host dies
\* between those of row i.
CutShort(rs, i) ==
    LET before == {j \in Ended(rs) : j < i}
    IN  \E nth \in InOrder(before \union {i}) : rows' = Cleared(rs, before) \o Clones(rs, nth)

\* The host dies, here or there; when it is back it stops the containers it finds.
HostCrash ==
    /\ session # "absent" /\ Mishap
    /\ sweep' = "idle" /\ alive' = "no" /\ breached' = {}
    /\ running' = "no" /\ query' = {}
    /\ restart' = IF restart = "none" THEN restart ELSE "note"
    /\ \/ UNCHANGED <<rows, slips>>
       \/ rows' \in Found /\ slips' = Rewriting(breached)
       \/ /\ \E rs \in Found : \E i \in Ended(rs) : CutShort(rs, i)
          /\ Fits(rows')
          /\ slips' = slips \union {"doubled"}
    /\ UNCHANGED <<session, backup, reported, wanted, commands>>
-----------------------------------------------------------------------------
Sweep ==
    \/ SweepSync
    \/ \E stuck \in BOOLEAN : SweepQuiet(stuck) \/ SwitchProvider(stuck)
    \/ \E S \in Overdue : AnnounceBreach(S) \/ \E stuck \in BOOLEAN : BackupBreached(S, stuck)

SeriesNext ==
    \/ \E rec, due \in BOOLEAN, script \in Scripts : Create(rec, script, due)
    \/ PauseTask \/ ResumeTask \/ CancelTask \/ DeleteTask \/ RunTask
    \/ \E b \in BOOLEAN : UpdateRecurrence(b) \/ UpdateProcessAfter(b)
    \/ \E script \in Scripts : UpdateScript(script)
    \/ \E i \in DOMAIN rows : \/ TimePasses(i) \/ Claim(i)
                            \/ \E o \in {"completed", "script-skip:error"} : Finish(i, o)
    \/ LimitHit \/ ContainerStops \/ ContainerGone \/ Respawn \/ ProviderChanges \/ ReportHandled
    \/ Sweep \/ WakeContainer \/ (\E stuck \in BOOLEAN : FailBreached(stuck))
    \/ HostCrash

SeriesSpec == SeriesInit /\ [][SeriesNext]_seriesVars

\* The sweep is a timer that always comes back (host-sweep.ts) and awaits only
\* calls that end, events of the host are served, a container polls every second
\* and its turns end.  Nothing else is promised.
SeriesFairSpec ==
    /\ SeriesSpec
    /\ WF_seriesVars(Sweep) /\ WF_seriesVars(WakeContainer)
    /\ WF_seriesVars(\E stuck \in BOOLEAN : FailBreached(stuck))
    /\ WF_seriesVars(ContainerGone) /\ WF_seriesVars(Respawn) /\ WF_seriesVars(ReportHandled)
    /\ WF_seriesVars(ContainerStops /\ running = "yes" /\ Begun \union Claimable = {})
    /\ WF_seriesVars(\E i \in DOMAIN rows : TimePasses(i))
    /\ WF_seriesVars(\E i \in DOMAIN rows : Claim(i))
    /\ WF_seriesVars(\E i \in DOMAIN rows, o \in {"completed", "script-skip:error"} : Finish(i, o))
-----------------------------------------------------------------------------
(* What must hold. *)

\* A series the operator wants is never lost: whatever ends, fails, crashes
\* or is swept, some row still carries its recurrence in an open session.
SeriesSurvives ==
    wanted \in {"recurring", "paused"} => Armed # {} /\ session = "active"

\* Only two things ever give a series two schedules: an update that reaches an
\* on-demand row, and a crash between the insert and the clear.
OneSchedule == "doubled" \notin slips => \A i, j \in Armed : i = j

\* A cancelled or stopped series is armed again only if its occurrence had
\* ended when the command came.
StopHolds == wanted \in {"nothing", "once", "stopped"} /\ "escaped" \notin slips => Armed = {}

\* A paused series does not run and is not failed, whatever is swept, claimed,
\* announced or run on demand, unless its occurrence was under way when the
\* pause came.
PauseHolds ==
    wanted = "paused" /\ slips \intersect {"doubled", "overwritten"} = {} =>
        \A i \in Armed : rows[i].status = "paused" /\ rows[i].ack = "none" /\ i \notin Touched

\* The sweep closes only what is spent: no row of a closed session would run.
ClosedIsSpent == session # "active" => LiveRows = {} /\ Armed = {} /\ sweep = "idle"

\* What a command stopped stays without a recurrence, whatever its run ends with.
StoppedIsBare ==
    \A i \in With(rows, {"cancelled", "deleted"}) : ~rows[i].recurrence

\* Left to itself, a series has ended all its rows but the last one, which
\* alone may have to be re-armed; it is paused at the Cap, untouched by a run.
\* Not so when a late notice turns a completed run into a failed one.
Chain ==
    commands = 0 /\ slips \intersect {"doubled", "rewritten"} = {} =>
        \A i \in DOMAIN rows :
            IF i < Len(rows) THEN rows[i].status \in Done /\ ~rows[i].recurrence
            ELSE /\ rows[i].status \in LiveStatuses \union Done
                 /\ rows[i].status = "pending" => TrailingFails(rows) < Cap
                 /\ rows[i].status = "paused" => /\ TrailingFails(rows) = Cap /\ rows[i].ack = "none"
                                                   /\ i \notin Touched
                 /\ rows[i].status \in Done => TrailingFails(rows) <= Cap

\* What every step keeps.
SeriesInv ==
    /\ SeriesTypeOK
    /\ SeriesSurvives /\ OneSchedule /\ StopHolds /\ PauseHolds /\ ClosedIsSpent
    /\ StoppedIsBare /\ Chain

\* Left to itself, a series whose last Cap occurrences failed, run or not, is
\* never due again: neither broken scripts nor breaches of the guarantee go on.
AutoPaused ==
    commands = 0 /\ slips \intersect {"doubled", "rewritten"} = {} /\ TrailingFails(rows) >= Cap
        => TrailingFails(rows) = Cap /\ With(rows, {"pending"}) = {}

\* No occurrence stays due: through deaths, limits, retries and changes of the
\* provider it is run to its end or given up, unless a command pauses, stops or
\* moves it.
Fires ==
    \A i \in 1..MaxRows :
        i \in Due ~> (i \in With(rows, {"pending"}) => ~rows[i].due /\ rows[i].tries = 0)

\* A session whose last row has ended is closed.
Collected == session = "active" /\ LiveRows = {} ~> session = "closed" \/ LiveRows # {}
=============================================================================
