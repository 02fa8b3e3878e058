# Verification of NanoClaw v2 (salvoclaw)

TLA+ specifications, model-checking configurations and machine-checked proofs
for the host (`src/`, Node, one event loop), the agent-runner that runs in
each container (`container/agent-runner/src/`, Bun), and the wizard and
uninstaller that put the host on a machine and take it away (`setup/`).

## The system

A *session* is one conversation of one agent group. It has two SQLite files:
`inbound.db` (`messages_in`, `delivered`, written by the host) and
`outbound.db` (`messages_out`, `processing_ack`, written by the container).
The two processes share nothing else but a heartbeat file. The central
database `v2.db` belongs to the host.

| component | state | operations | hard part |
|---|---|---|---|
| Session queue (`host-sweep`, `container-runner`, `container-restart`, `poll-loop`, `session-db`) | rows and their acks; `activeContainers`, `wakePromises`; the batch and prompts of the running query | route, wake, spawn, kill, restart, sweep; claim, run scripts, query, push follow-ups, ack | two processes interleave at every statement; either may die; acks reach the host late; a sweep awaits in the middle |
| Delivery (`delivery.ts`) | `delivered`, `inflightDeliveries`, `deliveryAttempts`, the deferred notice | two poll chains, drain, retry, give up | concurrent drains; crash between delivering and recording; in-memory attempts |
| Fallback (`modules/fallback`) | `fallback_state` (one row), the provider a container was spawned with | enter, exit, probe, time out, reports of limits and errors | reports and sweeps in any order across restarts of many sessions |
| Scheduling (`modules/scheduling`, sweep steps 1 to 6, `cli/resources/tasks.ts`) | task rows grouped in series | create, update, cancel, pause, resume, run, delete, re-arm, auto-pause, close | commands arrive while an occurrence is running or being failed; the guarantee hook and its await lie between sync and re-arm; two statements to re-arm |
| Approvals (`modules/approvals`), questions (`modules/interactive`) | `pending_approvals`, `pending_questions`, armed reason captures, the gateway's promises | request, approve, reject, hold for a reason, expire, answer | several clicks, replies and sweeps while a handler awaits |
| Permissions and router (`modules/permissions`, `router.ts`, `command-gate.ts`) | channels, wirings, members, pending requests, the name prompt | fan out an event, gate it, ask to register a channel or admit a sender, replay | two requests pass one check; a replay may pass gates it should not |
| Agent-to-agent (`modules/agent-to-agent`, `cli/resources/destinations.ts`, `policies.ts`, `groups.ts`) | destinations and their projections, message policies, return paths | send, route, hold, approve, create and delete an agent | several sessions of one group; a projection that is older than the table |
| Self-modification (`modules/self-mod`, image build of `container-runner.ts`) | packages and servers of a group, its Dockerfile and image, wake-up notes | approve, build, tag, restart, note | builds of minutes share a file and a tag; containers start meanwhile |
| Setup wizard (`setup/auto.ts`, `setup/channels`, `setup/*.sh`, pairing) | what the steps have made on the machine, what the wizard passes over | eleven steps, seven channel flows, retry, start again | a step that stops half-way; a service that has read older settings |
| Start-up, breaker, uninstaller (`index.ts`, `circuit-breaker.ts`, `setup/uninstall`) | the service, a counter file, the installed files, the vault | start, back off, stop; scan, ask, plan, remove | the host runs through the removal; commands fail and are passed over |
| Sequence numbers (`session-db`, `messages-out`) | `seq` of both tables | next even, next odd | one number space over two files |
| Typing, mounts, egress, migrations, `ncl` dispatcher, chat bridge, provider SDKs | external services' or none | - | I/O |

Components meet at the session's tables: the router, scheduling, approvals and
fallback *write rows and wake*; the sweep *mirrors acks, kills and retries*;
the container *claims, answers and acks*; delivery *reads what it wrote* and
hands its system actions back to the modules. Setup makes what the host reads
at its start; the uninstaller removes it again.

What makes each correct:

- **Session queue**: one container per session; each row handled by one prompt
  at a time; every row settled once, eventually; tries charged only to dead
  containers; context rows never engage the agent; answered rows never failed.
- **Delivery**: every row delivered at least once or recorded as failed; once
  unless the host was not told; order within a session kept but for failed rows;
  the notice reaches the user.
- **Fallback**: all containers end up on the provider `fallback_state` names; a
  probe's outcome is its own; an answer or a notice within the guarantee.
- **Scheduling**: a series has at most one live occurrence and is never lost;
  paused and cancelled series do not run; a failing series is paused.
- **Cards**: one decision per request; nothing applied without an authorized
  click; nobody waits for ever.
- **Permissions**: what a gate refused enters by no other way; what was approved
  arrives; a pending request can be decided.
- **Agent-to-agent**: an answer returns to the session that asked; a held
  message arrives only when approved; agents know what they may address.
- **Self-modification**: what an agent is told of its container is true.
- **Setup**: a step passed over was done; what is announced at the end works.
- **Lifecycle**: nothing is removed unasked or under a running host; secrets
  are never lost; a clean stop is never counted as a crash.

## Modules

| module | what |
|---|---|
| `WorkQueue` | what a session's queue promises: rows wait, are held by one container, are settled once |
| `SessionQueue` | the life of the inbound rows of one session: host, container and the two databases |
| `Outbox` | what delivery promises: shown before recorded as delivered, untouched after it is recorded |
| `Delivery` | the drains of `messages_out` by two poll chains and pushed notices |
| `Failover` | what the fallback promises of the installation: native, backup or pinned, and trials |
| `Fallback` | `fallback_state`, the provider of each container, reports, probes, the guarantee |
| `Scheduling` | the rows of one task series, the sweep that re-arms them, the operator's commands |
| `Cards` | approvals, credential requests and questions, from the request to the decision |
| `Admission` | the router's fan-out, the gates, the registration of channels and senders |
| `Agents` | messages between agents, destinations and their projections, policies, groups |
| `SelfMod` | package installs, servers, image builds and restarts of one group |
| `ChannelFlows` | the seven flows of the wizard that connect a messaging app, as sequences of stages |
| `Pairing` | the pairing of a Telegram chat over a file two processes share |
| `Setup` | the wizard: its steps, the machine they change; extends the two above |
| `Lifecycle` | service manager, breaker, start and stop of the host, uninstaller |
| `MCSessionQueue`, `MCDelivery`, `MCFallback`, `MCCards`, `MCAdmission`, `MCAgents`, `MCSelfMod`, `MCSetup`, `MCLifecycle` | the instances for TLC (`Scheduling` needs none) |
| `SessionQueueProofs`, `DeliveryProofs`, `CardsProofs`, `AdmissionProofs`, `AgentsProofs`, `LifecycleProofs` | the theorems about the module they are named for |
| `SweepProofs` | the theorems about `Fallback` and `Scheduling`, the two that hang on the host's sweep |
| `InstallProofs` | the theorems about `SelfMod` and `Setup`, the two that change an installation |

The modules share no variable. Each takes what another component may do to its
tables as actions of its own, without a guard that the other would have to
keep: `Delivery` knows a container only as running or not, `Fallback` keeps of
a session's rows only whether some are unanswered, `SelfMod` begins where
`Cards` says `applied`, `Agents` keeps of its cards that one may be asked for
again after a crash, `Admission` ends where `RouteInbound` of `SessionQueue`
begins.

`SweepProofs` and `InstallProofs` extend two components each, which share no
variable either; so that they can, `Scheduling` and `Setup` call their
specifications `SeriesSpec` and `SetupSpec` and their invariants `SeriesInv`
and `SetupInv`, where the other modules say `Spec` and `IInv`.

### SessionQueue and the code

A *host action* is the code between two awaits; a *container action* is the
code between two points where the other process, or a concurrent task of the
container itself, may be observed. `PROJECT.json` maps each definition to its
lines.

- **Rows** (`status`, `tries`, `deferred`, `seq`) are the columns of
  `messages_in` the code branches on. `deferred` stands for `process_after`
  in the future. `status` never becomes `processing` in this table (the code
  never writes that value), so the model has no such value.
- **Acks** (`ack`) are `processing_ack`; `silence` is what
  `decideStuckAction` can tell of a claim (its age, and whether the heartbeat
  file is newer), `heartbeat` what it can tell of the file.
- **Host memory**: `active`, `waking` are the two maps of `container-runner`,
  `respawn` the `onExit` callback of a kill, `sweep` the position inside
  `sweepSession`: `waking` awaits `wakeContainer`; `woke`, `alive`, `gone` are
  the values of `justWoke` and `alive` at the fallback hook; `sla`, `cleanup`
  are steps 3 and 4 after it; `kill` lies between the stuck decision and the
  kill. `breached` holds the rows the hook read before it awaits the notice.
- **Limit reports** (`reports`) are the undelivered `fallback_report` rows, each
  with the batch it names, answered or not. `handleFallbackReport` runs in the
  delivery poll, outside any sweep: `ReadReport` is its way to the awaited
  notice when no backup is usable, `FailReported` what comes after it (the rows
  are failed by id, the container of that moment is killed); with a backup it
  is `EnterFallback`. A host that dies in between reads the report again.
  `answered` is history: the rows whose ack the last sweep found.
- **Container memory**: `phase` is the place in `runPollLoop`, `batch` the
  `processingIds`, `prompts` the prompts the query has not answered
  (`archivePrompts`), `pushing` the rows of the follow-up poller while it
  awaits scripts, `late` those of a poller whose query has ended meanwhile.
- **`killContainer`** is synchronous (`docker stop` through `execSync`), so
  the process is gone when it returns, and the map entry stays until the
  `close` event (`ContainerClose`). Without an entry it does nothing, and its
  `onExit` is never called: `KillContainer` and its callers keep that.
- **Faults**: the container dies at any step; a spawn fails; the host dies and
  starts again (`cleanupOrphans` stops what it left); a query hits a limit
  (`LimitHit`, with its report) or hangs (`ProviderHangs`, without one); the
  guarantee is breached with no provider left. `MaxFaults` bounds them and the
  operator's restarts.

Left out: recurrence and task-session closing (their own module), `paused` and
`cancelled` rows, rows of kind `system` (MCP answers, which the poll loop
skips), the continuation, attachments, the text of prompts. `docker stop` and
`cleanupOrphans` are taken to succeed: their failure paths (SIGKILL of the
client, a logged warning) may leave a container alive that the host does not
know of.

### Delivery and the code

- **Rows** are numbered in the order of their timestamps within a session;
  `written` are those in `messages_out`, `recorded` is the table `delivered`.
  Their content is one of three kinds: a chat row for a channel, a row whose
  destination is unknown or forbidden (it throws before the notice is looked
  at), anything else. A system action and a message to another agent have an
  effect like a message on a platform: `shown` counts it.
- **Callers** of `deliverSessionMessages` are `active`, `sweep` and, for
  pushed notices, the session itself; since a push returns at once when the
  session is being drained, one per session is enough. `todo` is what a chain
  has still to visit of the list it read, in any order (the queries have no
  ORDER BY); `left` is the rest of a drain's snapshot, its oldest row under way.
- **Awaits**: a drain stops at the platform's answer and nowhere else.
  `DrainSession` is the code from there to the next one: the next row, its
  notice, or the release of the guard. `Accept` is the platform's doing, so a
  crash or an exception may come before or after it. What the host is not told
  of is counted in `unheard`.
- **Sessions** start and stop, and a task session may be closed when its
  container is gone: by the sweep's step 6, of which only the condition on the
  container is kept.

Left out: `deliver_after`, pending questions, attachments, the absence of an
adapter at start-up, a database that does not exist yet (no rows).

### Fallback and the code

- **`fallback_state`** is one row: `mode` (off, auto, forced), `origin`,
  `probe`, and what the comparisons with `next_retry_at` and
  `probe_started_at` can tell (`due`, `late`). `Failover` is this row as the
  user sees it.
- **Per session**: `work` is all its unanswered triggering rows taken together,
  `trial` the last probe row, each with its way through the claim, the ack and
  the sweep's sync; `old` says that the guarantee has passed. `box` is the
  entry of `activeContainers` with the provider the container was started
  with, `spawn` a wake under way *before or after* it has resolved its
  provider, `respawn` the `onExit` of a kill, `fresh` a container that has not
  polled. A switch restarts what runs and does not reach what is being spawned.
- **Reports** of limits and errors are rows of `messages_out`; they are
  delivered in any order and later than anything.
- **A host action** is the code between two awaits of `controller.ts` and
  `sweep.ts`; `SweepFallbackSession` runs per session, `SweepFallbackReturn`
  once per sweep.

Left out: texts of notices and briefings, the transcript summary, the event log.

### Scheduling and the code

- **Rows** of one series in the order of `seq`, with the columns the code
  branches on; `ack` is the container's side of the row. A series has no record
  of its own: it is the row that carries `recurrence`, which the sweep moves to
  a fresh row when the occurrence has ended.
- **The sweep** syncs the acks and, when a row is due, awaits a wake
  (`SweepSync`, `WakeContainer`). Then comes the guarantee hook (step 2.5),
  which looks at the age of every pending row and not at its `process_after`:
  how long ago a row was written is not kept, so *any* set of pending rows may
  be overdue, due or not. `SweepQuiet` finds none; `BackupBreached` fails them
  at once; `SwitchProvider` enters the fallback; with no backup
  `AnnounceBreach` awaits the notice and `FailBreached` fails the rows read
  before it, whatever was done to them meanwhile. Each of these but
  `AnnounceBreach` ends with the steps 3 to 6 in the same turn (`SweepRest`:
  charge, re-arm, close). A host crash may fall between any two of these turns
  and between the insert and the clear of `handleRecurrence`.
- **Limits**: a container that hits one names in its report the rows that
  opened its query (`query`), and waits. `ReportHandled` is the delivery poll's
  doing: it fails the rows by id, or switches, or restarts. (Its awaited notice
  needs no step of its own: what comes in between is what may come while the
  report waits to be delivered.)
- **Containers** are running, silent after a limit, `dying` until their `close`
  event, or gone; `restart` is the `onExit` of a kill and the note for the next
  container. Other sessions' switches and returns restart this one
  (`ProviderChanges`).
- **Commands** of `ncl tasks` come at any time and touch the rows their WHERE
  names. `wanted` is what the operator last asked for, `slips` names what went
  wrong: *overwritten*, a pause that came while the occurrence ran, had ended
  or was about to be failed; *escaped*, a stop that missed an ended occurrence;
  *doubled*, two schedules; *rewritten*, a completed run that a late report or
  an awaited notice turned into a failed one. Both are history, and each
  property says which slip excuses it.

Left out: cron arithmetic, time zones, the run log, the frequency limit.

### Cards and the code

- A card is a message on a platform (`buttons`, `stage`) and a row (`row`). The
  chat bridge edits the card *before* it hands the click on, so a lost click
  leaves a card without buttons and a row.
- **`flights`** are the clicks under way and what they await: the edit, the
  handler of the action (`applying`), the prompt for a reason (`prompting`).
  Two clicks of one card may be under way at once.
- **Memory** that a restart forgets: `armed` (the approval whose reason a DM is
  asked for), `resolver` (the promises the gateway waits on), the flights.
  `HostRestart` marks the credential rows of the old process `stale` for the
  start-up sweep.
- `told` is what each requester was told, `approved` who was approved by an
  authorized click: history, for the properties.

Left out: who may approve (whether a click is authorized is a choice), and what
the handlers do (`SelfMod`, `Agents`).

### Admission and the code

- **`routing`** is the fan-out of a message over the agents wired to its chat,
  one `deliverToAgent` at a time; between two of them anything may happen.
- **Gates**: engagement, access and scope come in the order of the router.
  `RouteRefused`, `RouteIgnored` and `RouteStored` are the outcomes; a message
  that does not engage is stored as context if the wiring accumulates.
- **Both approval flows** await the approver's DM between the check for a
  pending row and the INSERT (`asking`, `knocking`). The channel flow has its
  card with choices, the list of agents, the prompt for a name held in memory
  (`prompt`), and the replay of the message that asked; `displaced` names the
  prompts that were lost to another.

Left out: roles, the choice of the approver, thread policies, patterns.

### Agents and the code

- **Destinations** (`dests`) are rows of the central database, `proj` their
  copy in each session's `inbound.db`, written at a spawn and by those commands
  that refresh it. An agent addresses only what its projection has. A target is
  a group or a chat; `group` says of each whether it is yet to be created,
  there, or deleted. `AddDestination` asks nothing of its target, as the
  command does: for one that is gone, or never was, it succeeds and the
  projection leaves the row out. `DeleteChannel` leaves the rows behind.
- **A message** goes through `messages_out` (`queue`), the policy
  (`held`, a card for the admin), and `ResolveTargetSession`: by its stamp `re`
  to the session that asked, else to the newest one. What an agent says is
  stamped in two ways: a tool's message (`send_message`, `send_file`) carries
  `head`, the first row of the batch; a `<message>` block carries the newest row
  of the addressed group in the session, read or not, and the first row of the
  batch only when that group never wrote.
- `OpenSession` to `Close` are what the router, the sweep and the end of a task
  do to sessions. Crashes repeat a routing or lose an approval's deletion.

### SelfMod and the code

- **One group, one Dockerfile, one tag**: `build` has for each build how far it
  is and what docker read; `image` is what the tag names; builds overlap.
- A **container** is started with the configuration read when its spawn began
  (`plan`) and `container.json` as it is then; `has` is what it got.
  `notes` are the `on_wake` rows: the first poll of a fresh container takes
  them, whichever container that is.
- `overlapped`, `early` and `removed` name the three races of the findings.

### Setup and the code

- **`Setup`** is one process of `setup/auto.ts` at a time: `at` is its step,
  `skip` the steps it passes over, `logged` those it logged as done; `Retry`
  starts a process that passes over what was logged, `Again` one that does not.
- **`ChannelFlows`** gives each channel's flow as the set of its paths; a stage
  names what it needs and gives. `Setup` says what a stage does to the machine:
  `Install` is `add-*.sh` in its phases (files and import, package, build),
  `Restart` the restart of the service, whose failure is ignored.
- **The machine** is what the steps made; `stale` is what was written to
  `.env` since the running service read it, `live` the adapters it runs.
- **`Pairing`** has the file as a list of records, read and written as a whole
  by the wizard and by the service.
- `StepsAreOrdered` to `SeenInTheEnd` say why the announcements are true; they
  are parts of `SetupInv`, and no part of the code (see Proofs).

### Lifecycle and the code

- **The host** is down, waiting out the breaker's delay, starting, running or
  in `shutdown()`. A manager that holds the service starts it again; `breaker`
  is the counter file, `streak` counts what it should.
- **The uninstaller** scans (`inv`), asks group by group in order (`toAsk`,
  `answers`), and works through a plan (`todo`) in the order `Place` gives to
  every action. The host may run through all of it until it is stopped: it
  spawns containers and registers agents. Commands fail; what failed is in
  `missed`, agents that could not be asked about or deleted are in `excused`.
- **Secrets**: `.env` and its backups hold versions; `Reinstall` is setup
  between two runs of the uninstaller and writes a new one.

## Runs

| run | instance | shows |
|---|---|---|
| `retries` | a scripted task and an on_wake row, `MaxTries` 1, one row per prompt, 2 faults, fair | justified failures under breaches and limit reports, charges only to dead containers, `WorkQueue` is implemented, the task row is settled |
| `batches` | a chat row, a context row, `/clear`, 2 rows per prompt, 1 fault | the inductive invariant, one container, nothing twice, nothing invisible, settled is final |
| `delivery_drain` | three rows of one session, one without a route, 2 attempts, 2 faults | the inductive invariant, repeats and overtaking only after failures, a notice lost only with a failed delivery, `Outbox` is implemented |
| `delivery_polls` | two sessions with a row each, one platform may hang, 1 fault, fair | rows of a running session are settled |
| `fallback` | one session, 4 faults, limits or commands, fair | the state agrees with itself, a forced switch stays, `Failover` is implemented, probes end, the installation returns, every row is answered or given up |
| `scheduling` | one series of up to 3 rows, pause after 2 failures, 1 try, 2 commands or mishaps, with no, a usable or an active backup, fair | a series survives and has one schedule, stop and pause hold, a failing one is paused at the cap, no row stays due, spent sessions close |
| `cards` | an approval, a credential request, a question, 2 clicks, 1 fault, fair | one decision, nothing applied without an authorized click, holds end, the gateway is answered |
| `admission` | two chats, two senders, three messages, two agents, 3 clicks, 1 fault, fair | requests stay decidable, no side door, what was approved arrives |
| `agents` | two connected groups, one with two sessions, a sub-agent and a chat; three mixes of messages, commands and crashes | projections keep what was promised, held messages wait, answers return |
| `selfmod` | one group with two sessions; two installs, or an install and a rebuild or a server, with a command or a fault, fair | what an agent is told is true, the image has the packages, everything is reported |
| `setup` | seven channels, 2 processes, 1 fault, 2 codes, 2 chats | what is passed over was done, flows are ordered, the right chat is paired, what is announced is reachable and current |
| `lifecycle` | a user service uninstalled twice with a fault and an installation in between; a system service without root; a host without a manager, with a fault | a removed service stays stopped, removal is complete, secrets are kept, no orphans, the breaker is fair, removal in order |

Deadlock is checked in `retries`, `batches`, `delivery_drain`,
`delivery_polls`, `fallback` and `selfmod`. Elsewhere a bounded system stops
when its messages, clicks, commands and runs are used up.

*Bounds.* `MaxTries` is 5 in the code and 1 here: one retry shows charging, a
second death shows giving up, and the comparison with the limit is the same.
In `retries` a prompt takes one row, so that one row can hide the other from
the poll; in `batches` it takes two.
Two rows make a batch and a follow-up, three a batch of two with a follow-up or
a command. One fault needs the crash; the second a crash during the recovery
from the first. In `Delivery` two attempts instead of three show a retry and
giving up; the third row lets a row overtake a failed one and one without a
route; two sessions let one chain hang while the other goes on. In `Fallback`
four events are a limit, a slow row, a command and a death during the switch
back; what two sessions do to each other is in the proofs, which hold for any
number. `Cap` is 8 in `Scheduling`'s code: 2 shows a streak that is broken and
one that is not, and a third row an on-demand run beside a schedule. Two events
(`MaxEvents`) are a command during an announced breach, a limit and a death, or
a switch and a crash; breaches of the guarantee, ends of containers and reports
cost none. `Fits` keeps room for what the sweep must re-arm, so the bound on the
rows never forbids a re-arming. Two clicks
race on one card; three are a choice, an agent and a name. Four sessions in
`Agents` are two of the asker, one of the answerer and one of the group
created. Two overlapping builds, two processes of the wizard and two runs of
the uninstaller are the smallest number in which the second finds what the
first left half-way. The codes of a pairing are only compared, so `setup` takes
them as symmetric. The theorems below have none of these bounds.

*Fairness.* Of `SessionQueue`: weak fairness of the host's timer-driven steps
and of the container's loop, which are timers and awaited promises that always
come back; strong fairness of `SpawnDone` and `ContainerClose`, since a spawn
that is retried forever succeeds at last (failures are bounded by `MaxFaults`)
and a `close` event comes although restarts may intervene; time passes. The
provider answers or goes silent for good, after a report (`LimitHit`) or without
one (`ProviderHangs`); an answer that never comes without silence is not
considered. Nothing is assumed of rows arriving, of deaths, of restarts or of
reports being delivered. `Settles` leaves on_wake rows out: a retried one may
meet a container past its first poll and, before the first heartbeat, nothing
kills that container. Of `Delivery`: weak fairness of the chains' ticks and
visits (timers and loops) and of the answers of platforms that are not
`Hanging`, whether a result or an exception; writing, starting, stopping and
closing need not happen. `SettledWhileRunning` is restricted to sessions that
stay running: with one chain hanging nothing visits the others. Of `Fallback`:
weak fairness of the sweep, of wakes, polls, answers and reports, of the clock
for a container that hangs, and strong fairness of `RetryDue`, because the next
probe becomes due at some moment at which the installation is quiet. Of
`Scheduling`: the sweep and what it awaits (a wake, a notice), `close` events
and the respawns that hang on them, delivered reports, the sweep's stop of an
idle container, the clock, polls and turns; commands, limits and deaths need
not come. Of
`Cards`: timers, the sweep and what is awaited; no human has to click or to
reply. Of `Admission`: the fan-out of a message the host holds. Of `SelfMod`:
the sweep wakes a session with a note, docker builds end, stopped containers
exit. `Agents`, `Setup` and `Lifecycle` state safety only: their actors are
agents, people and a service manager, and nothing binds them to act.

## Proofs

`SessionQueueProofs` proves, for every finite set of rows, every limit and
every number of faults:

| theorem | says |
|---|---|
| `Invariance` | `IInv` holds always |
| `TypeCorrect`, `OneContainer`, `HeldIsVisible`, `NothingTwice` | `TypeOK`, `SingleContainer`, `NoInvisibleWork`, `NoDoubleWork` hold always |
| `NoChargeWhileAlive`, `FailuresHaveReasons`, `SettledStays` | the action properties of the same subjects |
| `Refinement` | `SessionQueue` implements `WorkQueue` |

They assume `RowsAssumption` and `LimitsAssumption` of `SessionQueue`, nothing
else. The properties are not inductive. `IInv` adds to them

- `MemoryFitsPhase` and `DispatchHasPrompt`: what the container can hold at
  each place of its loop (a dead one holds nothing);
- `HeldIsClaimed`: what it holds is claimed, or was acked by itself, and the
  host has not settled what is claimed: without it a poll could hand out a
  row that is in a prompt, and `NoDoubleWork` would not be preserved;
- `SweepSeesDead`: past its `alive` test the sweep is right about a dead
  container, so step 4 takes no live claims away. It holds because no await
  of the sweep lies between the wake and step 4 except the hook's notice,
  and after the notice the hook kills;
- `OnlyWrittenRows`: only rows that exist are claimed, acked, announced or named
  by a report;
- `ReportIsHeld`: the rows being announced for a report are those of the oldest
  undelivered one, so a host that dies reads the same again;
- `AnswersAreSettled`: what the last sweep found answered is not pending, so
  the hook after it cannot take it for overdue: this is why `FailureJustified`
  may demand that a breach fails nothing the sweep had seen answered.

`FailureJustified` names each way a row may fail, rows that were completed
included: its script broke; its tries are used up; the sweep's hook announced
it; a delivered limit report names it. In the last three the container is gone
when the row fails. That the last two do not look at what the row has become
since is a finding, not something the property forbids.

Each action preserves each part; `Invariance` combines them. The action
properties and the refinement follow from `IInv` step by step: in the
refinement each step maps to one of `Submit`, `Take`, `Settle`, `GiveUp` or a
stutter.

`DeliveryProofs` does the same for `Delivery`, from `DeliveryAssumption`:

| theorem | says |
|---|---|
| `DeliveryInvariance` | `IInv` of `Delivery` (with `TypeOK`) holds always |
| `SeenOnce`, `Overtaking` | `SeenOnceUnlessUnheard` and `OvertakesOnlyFailed` hold always |
| `NoticeSurvives` | `NoticeLostOnlyByFailure` holds always: a notice that is gone untold was carried by a delivery that failed |
| `OutboxRefinement` | `Delivery` implements `Outbox` |

The guard gives `OneDrainPerSession`, and from it everything else follows:
nobody else settles rows of the session, so an old snapshot stays right
(`SnapshotIsFresh`); a row that reached the platform is recorded, awaited by
its one drainer, or unheard of (`ShowingsAccounted`); and an older row that a
drain no longer has before it was tried (`OlderWasTried`, with
`WrittenInOrder` for rows written during the drain). `OldestProps`, that a
drain with rows has an oldest one, rests on the well-foundedness of `<` on
`Nat`. These parts are `RowInv`. A notice is lost only by a failure because of
`NoticeInv`: whoever carries one has a row under way, and between the row's
arrival on the platform and its record the notice is still in the session's
memory unless it was told; so only an exception takes it away.

The other six prove, each from the assumptions its module names and nothing
else:

| theorem | says |
|---|---|
| `SweepProofs`: `Safety`, `ForcedIsKept`, `Refines` | `IInv` of `Fallback`, `ForcedStays`, `ImplementsFailover`, for every set of sessions and every grouping |
| `SweepProofs`: `SeriesSafety`, `PausedAtTheCap` | `SeriesInv` of `Scheduling`, and from it `AutoPaused`, for every length of a series, every cap and limit, any number of commands and mishaps |
| `CardsProofs`: `CardsInvariance`, `OneDecision` | `IInv`, and from it `DecidedOnce`, for any cards |
| `AdmissionProofs`: `AdmissionInvariance`, `NoWayAround` | `IInv`, `NoSideDoor`, for any chats, policies, modes and senders |
| `AgentsProofs`: `AgentsInvariance`, `AnswersFindTheirWay` | `IInv`, `ReplyReturns`, for any groups, sessions, policies and budgets |
| `InstallProofs`: `SelfModInvariance`, `TellsTheTruth` | `IInv` of `SelfMod`, and from it `ToldIsInstalled`, for any sessions, changes and builds |
| `InstallProofs`: `SetupSafety`, `ReachableIsTrue`, `CurrentIsTrue` | `SetupInv` of `Setup`, and from it `AnnouncedIsReachable`, `AnnouncedIsCurrent`, for any codes and chats, and any number of runs, mishaps and codes drawn |
| `LifecycleProofs`: `LifecycleInvariance`, `RemovalIsOrderly` | `IInv`, `Orderly`, for any agents, settings and bounds |

What makes each invariant inductive:

- `Fallback`: `StateOK`, the columns of the row agree with one another (a probe
  only in auto mode and by the origin, no retry without a switch), and `BoxOK`,
  a session has a container or a spawn. The refinement then maps each handler
  to one step of `Failover`: for instance a report during a probe is `GiveUp`,
  never `Fail`.
- `Cards`: `Untold`, the gateway has been told nothing while its card is on its
  way or its promise is held, so whichever of click, timer and restart takes
  the promise is the first to tell; and `HandlersApproved`, a handler runs for
  an authorized approve only.
- `Admission`: `RefusedIsGated`. A refused message engages its agent and its
  chat is gated for that agent, so it can neither be stored as context nor pass
  the gates before its sender is a member; wirings are added and never
  replaced, so this stays so. `MembersOwed` says where members come from.
- `Agents`: `Rooted`, a group with destinations exists, and their targets are
  not groups yet to be created (they may be gone); `Kept`, a promise ends with
  the destination or its target; `AskedOnce`, a message that waits to be routed has no
  card unless a crash came; `Stamped`, an answer carries the row it answers.
- `SelfMod`: `BuildsKeepUp`, a package that was asked for is in every Dockerfile
  and every build from then on, and `NotesAreTrue`, a note is true of whichever
  container may still read it. Both exclude the three named races.
- `Lifecycle`: the order of the plan. `Planned` says that what is left to do is
  the whole plan while the unit is there; `Unloaded`, `Halted` and `Silenced`
  say what is down after which action; `Cleared`, what was found does not come
  back; `Accounted`, each agent of this copy is excused (kept by the operator,
  registered since the scan, or in a vault or database that could not be read)
  or in what the scan found and then in what is left of the plan.

- `Scheduling`: `StopHolds` speaks of the rows that carry the recurrence, and
  is not inductive: a cancelled row's run may still end, and were it to carry
  one the sync would arm the series again. `StoppedIsBare` says that cancelled
  and deleted rows carry none, whatever their ack. `Chain`, for a series no
  command has touched: every row but the last has ended and is re-armed, the
  last is pending only below the cap and paused exactly at it, untouched by a
  run, an announcement or a report (`Touched`); so the failures the sweep counts
  when it re-arms are those `AutoPaused` speaks of. It is lost when a crash
  doubles the series or a completed run is rewritten.
- `Setup`, of a process: `StepsAreOrdered`, which steps it has passed where it
  is, so that whoever is in a channel's flow has the service behind it; `ServiceIsCurrent`, what the
  service's start has read.
- `Setup`, of a flow: each announcement is about the end of a flow, so its
  reason must be about what is left of it. `FlowStaysOrdered`: each stage left
  has its values from what was collected or from a stage before it.
  `WiredInTheEnd`: the chat is wired or a stage that wires it is left.
  `RefreshedInTheEnd`: nothing left changes what the service reads and the
  service has read everything, or a restart with the credentials at hand is
  left and comes after the last change. `SeenInTheEnd`: the last words are
  said by `verify`, which has seen the service.
- `Pairing`: `OneCode`, at most one record is pending, in the file and in each
  copy the service has read; `RecordsAreVouched`, a consumed record of a code
  that is shown names a chat that sent it while it was shown. Both are needed
  of the copies as well, since a copy is written back whole.

That a flow starts with these three facts is computed from the flows
themselves. Each of the seven is a concatenation of pieces; `Takes` says of a
piece which values it needs and gives, `Quiet` that it also changes nothing the
service reads, `Begins` of a flow's beginning that the service will be restarted
after its last change. One lemma per piece and one per concatenation
(`GoesOn...`) lead from `SingleStage` to one lemma per channel, and
`FlowsAreSound` collects them. A flow whose restart came before its settings
would have no proof here.

Only model-checked: everything under fairness (`Settles`, `SettledWhileRunning`,
`ProbeResolves`, `ReturnsWhenRecovered`, `WorkSettles`, `Fires`, `Collected`,
`HoldsEnd`, `GatewayAnswered`, `ApprovedArrives`, `Reported`), since fairness
and `ENABLED` are outside what the proof system handles. Every invariant a run
checks is also proved.

## Findings

`PROJECT.json` lists them, with the lines they contradict. The properties
exclude them by name, and hold otherwise.

- **Session queue**: context-only rows are pushed into a warm query; follow-ups
  are acked when pushed, so a cut turn loses them; the LIMIT before the filters
  starves triggers; with no backup provider a row answered while the notice is
  awaited is failed, and a limit report fails the whole batch it names, answered
  or not, late or after a crash again; the batch is acked before its text is
  written; a crash loop never charges a try.
- **Delivery**: a failed delivery loses the notice it carried; a closed task
  session leaves failed rows behind; a platform that never answers stops the
  sweep chain.
- **Fallback**: a return probe older than the guarantee is taken for a breach;
  a container whose spawn had resolved its provider stays on the old one.
- **Scheduling**: an occurrence armed more than ten minutes ahead counts as a
  breach of the guarantee before it is due: with no backup or an active one it is
  failed, and a series that never ran is paused for "script failures" in the
  end; a pause given during a run is overwritten by its completion, one given
  during a notice, or before a report is delivered, by the failure; a late
  failure rewrites a completed run;
  a stop misses an occurrence that has ended and is not re-armed yet; a crash
  between two statements, or `update --recurrence` after `run`, gives a series
  two schedules (`slips`).
- **Cards**: two clicks run a handler twice and contradict each other; a card
  whose posting failed but is shown still applies; a click after a question's
  time-out leaves a due row that no poll takes.
- **Permissions**: a name prompt displaced by another leaves a pending row for
  ever (`displaced`), and so does a card that could not be posted; a wiring
  that accumulates creates the session that mention-sticky takes for an
  engagement; a channel wired by the host is not projected.
- **Agent-to-agent**: a block answers the newest row of the group it addresses;
  adding a destination to a target that is missing succeeds without effect, and
  deleting a chat leaves destinations to it; other running
  sessions of the parent do not learn of a new agent; a removed destination
  keeps its policy, which blocks the deletion of a group; deletion refreshes no
  projection.
- **Self-modification**: overlapping builds share a Dockerfile and a tag
  (`overlapped`); a container that was starting takes the note (`early`).
- **Setup**: failures that are not awaited (`offered`); Teams is never wired;
  files copied by an installation that failed are taken for one that is done
  (`dist`); credentials of an unfinished WhatsApp link count as a link
  (`half`); a restart or a start whose failure is ignored (`missed`); steps
  logged or passed over too early, or read too late (backup, time zone); a code
  drawn again (`again`); a file two processes rewrite.
- **Uninstaller and stop**: a failing manager is ignored and its unit removed;
  a signalled host is not waited for; an unreadable vault counts as empty and
  a failed deletion as done (`excused`); an open connection keeps a clean stop
  from resetting the breaker.

## Not modelled

- **What a process computes rather than decides**: formatting, attachments,
  cron arithmetic and time zones, regular expressions, `deliver_after`, the
  validation of names.
- **I/O without state another component reads**: the typing indicator, mounts
  and their allowlist, the egress lockdown, the framing of the CLI's socket,
  the provider SDKs and chat platforms, whose answers are choices.
- **Migrations** of the databases: they run once, before anything else does.
  The even and odd sequence numbers keep two files' rows apart and are never
  compared by what is modelled here.
- **Permissions**: changes the operator makes to a wiring or to a chat's sender
  policy once they are there, and the removal of members: `NoSideDoor` speaks
  of gates that stay as they were set.
- **Self-modification**: `ncl groups config update`, `add-mcp-server` and
  `add-package`, which change the same configuration without an approval and
  tell no agent (the two removals are `Remove`).
- **The session queue**: an `on_wake` row that is retried (see `Settles`);
  `docker stop` and `cleanupOrphans` failing.
- **The chat bridge** but for the edit that precedes a click: subscriptions and
  message conversion are the platform's SDK.
- **Setup**: the advanced screen, custom endpoints, other agent runtimes, an
  adapter whose own start fails, the migration from v1.
- **Lifecycle**: two host processes at once (the start script does not wait for
  the old one), `--dry-run`, which changes nothing, a stale pid file.
- **Two sessions in one run of `Fallback`**: with liveness it is out of TLC's
  reach at the bounds above; the safety properties are proved for any number.
