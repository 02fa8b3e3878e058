-------------------------------- MODULE Setup --------------------------------
(***************************************************************************)
(* The setup wizard (setup/auto.ts, its steps and the scripts they run).   *)
(*                                                                         *)
(* One process asks the operator and runs steps, most of them child        *)
(* processes that change the machine: the sandbox image, .env, the vault,  *)
(* the service, the adapters, the agents. A step that fails ends the       *)
(* process, unless the operator applies a fix and has it retried: a new    *)
(* process starts, told which steps to pass over. The wizard may also be   *)
(* given up and started again on the machine as it is.                     *)
(*                                                                         *)
(* State of the process: where it is, which steps it passes over, which it *)
(* logged as done, the flow of the chosen channel. State of the machine:   *)
(* what the steps have made. The service reads .env and its adapters when  *)
(* it starts: what changed since is stale.                                 *)
(*                                                                         *)
(* Abstracted: other agent runtimes than the default (their own scripts    *)
(* stand in the auth step), the advanced screen, what prompts say. Bounds: *)
(* processes (MaxRuns) and mishaps (MaxMishaps).                             *)
(***************************************************************************)
EXTENDS Naturals, Sequences, ChannelFlows, Pairing

CONSTANTS Channels,    \* the channels that may be chosen
          Bundled,     \* those whose adapter is part of the sources
          MaxRuns, MaxMishaps,
          Operator     \* the chat of the one who runs the wizard

ASSUME SetupAssumption == /\ Channels \subseteq AllChannels
                          /\ Bundled \subseteq Channels
                          /\ MaxRuns \in Nat \ {0} /\ MaxMishaps \in Nat
                          /\ Operator \in Chats

VARIABLES at,       \* the step the process is at, or how it ended
          skip,     \* NANOCLAW_SKIP: the steps it passes over
          logged,   \* the steps it logged as done
          offered,  \* a failure was not awaited: its offer of help is open
          channel,  \* the chosen channel: none or one
          todo,     \* what is left of its flow
          got,      \* the values the flow has collected
          runs, mishaps,
          made,     \* what exists: the image, the access rules, a healthy vault
          secret,   \* the model's credential: none, held, or put off by the operator
          zone,     \* the time zone in .env: none, saved, or not the one the operator gave
          env,      \* the items of .env
          stale,    \* the items changed since the service read them
          svc,      \* none, only a script to start it, down, or up
          live,     \* the adapters of the running service
          missed,   \* the last restart did not happen
          marks, deps, dist,   \* adapters in the sources, with their package, in the build
          creds,    \* linked devices; half: a code was asked for and not entered
          agents,   \* the agent groups: one of the terminal (for the test, or to stay), one of a chat
          wired     \* the channels with a chat wired to an agent

processVars == <<at, skip, logged, offered, channel, todo, got>>
budgetVars == <<runs, mishaps>>
buildVars == <<marks, deps, dist>>
serviceVars == <<stale, svc, live, missed>>
agentVars == <<agents, wired>>
machineVars == <<made, secret, zone, env, creds, serviceVars, buildVars, agentVars>>
setupVars == <<processVars, budgetVars, machineVars, pairingVars>>

\* The order of main().
Order == <<"environment", "container", "onecli", "auth", "fallback", "mounts", "service",
           "cli-agent", "timezone", "channel", "verify">>
Steps == {Order[i] : i \in DOMAIN Order}
Parts == {"ping", "first-chat", "where", "failed"}
Ends == {"aborted", "cancelled", "left", "set", "ready"}

Follows(step) == \E i \in 1..(Len(Order) - 1) : Order[i] = step /\ at' = Order[i + 1]

SetupTypeOK ==
  /\ at \in Steps \cup Parts \cup Ends
  /\ skip \subseteq Steps /\ logged \subseteq Steps
  /\ offered \in BOOLEAN
  /\ channel \subseteq Channels /\ \A c, d \in channel : c = d
  /\ todo \in Seq(Stages)
  /\ runs \in 1..MaxRuns /\ mishaps \in 0..MaxMishaps
  /\ made \subseteq {"image", "mounts", "vault"}
  /\ secret \in {"none", "held", "later"}
  /\ zone \in {"none", "saved", "unsaved"}
  /\ env \subseteq Channels \cup {"onecli", "fallback", "settings"}
  /\ stale \subseteq env \cup {"fallback"}
  /\ svc \in {"none", "script", "down", "up"}
  /\ live \subseteq dist /\ dist \subseteq marks /\ marks \subseteq Channels
  /\ deps \subseteq marks
  /\ missed \in BOOLEAN
  /\ creds \subseteq {"whatsapp", "half", "signal"}
  /\ agents \subseteq {"cli", "dm"} /\ wired \subseteq Channels

SetupInit ==
  /\ at = "environment" /\ skip = {} /\ logged = {} /\ offered = FALSE
  /\ channel = {} /\ todo = <<>> /\ got = {}
  /\ runs = 1 /\ mishaps = 0
  /\ made = {} /\ secret = "none" /\ zone = "none" /\ env = {}
  /\ stale = {} /\ svc = "none" /\ live = {} /\ missed = FALSE
  /\ marks = Bundled /\ deps = Bundled /\ dist = {}
  /\ creds = {} /\ agents = {} /\ wired = {}
  /\ PairingInit
-----------------------------------------------------------------------------
(* The process *)

Mishap == mishaps < MaxMishaps /\ mishaps' = mishaps + 1 /\ UNCHANGED runs
NoMishap == UNCHANGED budgetVars

\* A step that ended well is logged, and passed over by a retry.
Log(step) == logged' = logged \cup {step} /\ UNCHANGED <<skip, offered>>

InFlow == UNCHANGED <<channel, todo, got>>
LeaveFlow == channel' = {} /\ todo' = <<>> /\ got' = {}

\* await fail(...): the failure is shown, help is offered.
Fails == at' = "failed" /\ LeaveFlow /\ UNCHANGED <<skip, logged, offered>>

Running(step) == at = step /\ step \notin skip
Done(step) == Follows(step) /\ Log(step) /\ InFlow
DoneUnlogged(step) == Follows(step) /\ InFlow /\ UNCHANGED <<skip, logged, offered>>

\* With an agent group wired already, the test of the terminal's agent is passed over too.
DetectRegisteredGroups == agents # {}
Skip ==
  /\ at \in skip \/ (at = "cli-agent" /\ DetectRegisteredGroups)
  /\ DoneUnlogged(at)
  /\ UNCHANGED <<budgetVars, machineVars, pairingVars>>

\* A new process, on the machine as it is.
NewProcess(steps) ==
  /\ runs < MaxRuns
  /\ runs' = runs + 1
  /\ at' = "environment" /\ skip' = steps /\ logged' = {} /\ offered' = FALSE
  /\ LeaveFlow
  /\ EndPairing
  /\ UNCHANGED <<mishaps, machineVars>>

\* The offer of help ends: the fix is retried in a process that passes over what is done, or
\* setup is aborted. An offer nobody awaits may end while the flow goes on.
Offering == at = "failed" \/ (offered /\ at \notin Ends)
Retry == Offering /\ NewProcess(skip \cup logged)
Abort == Offering /\ at' = "aborted" /\ LeaveFlow /\ EndPairing
                  /\ UNCHANGED <<skip, logged, offered, budgetVars, machineVars>>

\* The operator leaves at a prompt, and may run setup again.
Prompts == {"auth", "fallback", "first-chat", "where", "channel"}
Cancel == /\ at \in Prompts /\ at' = "cancelled" /\ LeaveFlow /\ EndPairing /\ Mishap
          /\ UNCHANGED <<skip, logged, offered, machineVars>>
Again == at \in {"aborted", "cancelled", "left"} /\ NewProcess({})
-----------------------------------------------------------------------------
(* The service, and what it has read *)

NeedsPackage == {c \in Channels : Runs(c, "package")}
Builds(sources, packages) == sources \cap NeedsPackage \subseteq packages

Credentialed(c, items, linked) == IF c = "whatsapp" THEN c \in linked ELSE c \in items

\* A host whose build imports a missing package does not come up.
Started(build, packages, items, linked) ==
  LET up == Builds(build, packages) IN
  /\ svc' = IF up THEN "up" ELSE "down"
  /\ live' = {c \in build : up /\ Credentialed(c, items, linked)}
  /\ stale' = {} /\ missed' = FALSE

\* Statuses of the commands are ignored; without a unit there is nothing to restart.
Missed(written) == /\ missed' = TRUE
                   /\ stale' = stale \cup (IF svc = "up" THEN written ELSE {})
                   /\ UNCHANGED <<svc, live>>
Restarts(build, packages, items, linked, written) ==
  IF svc \in {"none", "script"} THEN Missed(written) /\ NoMishap
  ELSE \/ Started(build, packages, items, linked) /\ NoMishap
       \/ Missed(written) /\ Mishap

Writes(items) == stale' = stale \cup (IF svc = "up" THEN items ELSE {}) /\ UNCHANGED <<svc, live, missed>>
-----------------------------------------------------------------------------
(* The steps before the channel *)

\* A step without effects on the machine, or with one it either has or has not.
Environment ==
  /\ Running("environment")
  /\ \/ Done("environment") /\ NoMishap
     \/ Fails /\ Mishap
  /\ UNCHANGED <<machineVars, pairingVars>>

\* docker started if need be, the image built and tried.
BuildImage == made' = made \cup {"image"}
Container ==
  /\ Running("container")
  /\ \/ Done("container") /\ BuildImage /\ NoMishap
     \/ Fails /\ Mishap /\ UNCHANGED made
  /\ UNCHANGED <<secret, zone, env, creds, serviceVars, buildVars, agentVars, pairingVars>>

\* After the container step: the process replaces itself by one in docker's group.
MaybeReexecUnderSg ==
  /\ at = "onecli" /\ "container" \in logged
  /\ NewProcess(skip \cup logged)

\* The vault is installed, reused or found elsewhere. ONECLI_URL is written before the vault
\* is asked how it is, and the step succeeds whatever it answers.
PollHealth == \/ made' = made \cup {"vault"} /\ NoMishap
              \/ made' = made \ {"vault"} /\ Mishap
ConnectVault == env' = env \cup {"onecli"} /\ Writes({"onecli"}) /\ PollHealth
OneCli ==
  /\ Running("onecli")
  /\ \/ Done("onecli") /\ ConnectVault
     \/ Fails /\ Mishap /\ UNCHANGED <<env, made, serviceVars>>
  /\ UNCHANGED <<secret, zone, creds, buildVars, agentVars, pairingVars>>

\* The secret is saved in the vault, by the sign-in (not logged as done) or by a pasted key.
AnthropicSecretExists == secret = "held" /\ "vault" \in made
Saves == "vault" \in made /\ secret' = "held" /\ NoMishap
SaveFails == /\ Fails /\ UNCHANGED secret
             /\ IF "vault" \in made THEN Mishap ELSE NoMishap
RunSubscriptionAuth == (Saves /\ DoneUnlogged("auth")) \/ SaveFails
RunPasteAuth == (Saves /\ Done("auth")) \/ SaveFails
ConnectLater == secret' = (IF secret = "held" THEN "held" ELSE "later") /\ Done("auth") /\ NoMishap
RunAuthStep ==
  /\ Running("auth")
  /\ IF AnthropicSecretExists THEN Done("auth") /\ NoMishap /\ UNCHANGED secret
     ELSE RunSubscriptionAuth \/ RunPasteAuth \/ ConnectLater
  /\ UNCHANGED <<made, zone, env, creds, serviceVars, buildVars, agentVars, pairingVars>>

\* Never logged: asked again by every retry. Whatever the wizard throws is caught.
WriteBackup == env' = env \cup {"fallback"} /\ Writes({"fallback"})
RemoveBackup == "fallback" \in env /\ env' = env \ {"fallback"} /\ Writes({"fallback"})
KeepBackup == UNCHANGED <<env, serviceVars>>
\* The key goes to the vault, or in plain text to .env.
SetupOpenCode == WriteBackup \/ KeepBackup
SetupOllama == WriteBackup \/ KeepBackup
RunFallbackWizard == SetupOpenCode \/ SetupOllama \/ RemoveBackup \/ KeepBackup
Backup ==
  /\ Running("fallback")
  /\ DoneUnlogged("fallback") /\ NoMishap
  /\ RunFallbackWizard
  /\ UNCHANGED <<made, secret, zone, creds, buildVars, agentVars, pairingVars>>

\* An allowlist that is there is kept.
WriteAllowlist == made' = made \cup {"mounts"}
Mounts ==
  /\ Running("mounts")
  /\ \/ Done("mounts") /\ WriteAllowlist /\ NoMishap
     \/ Fails /\ Mishap /\ UNCHANGED made
  /\ UNCHANGED <<secret, zone, env, creds, serviceVars, buildVars, agentVars, pairingVars>>

\* A unit (systemd's; launchd's alike) is restarted, and a success reported if it is not
\* active; without a manager only a script is written.
SetupSystemd == /\ svc # "script"
                /\ \/ Started(marks, deps, env, creds) /\ NoMishap
                   \/ svc' = "down" /\ live' = {} /\ stale' = {} /\ missed' = TRUE /\ Mishap
SetupNohupFallback == /\ svc \in {"none", "script"} /\ svc' = "script"
                      /\ UNCHANGED <<live, stale, missed>> /\ NoMishap
\* The build comes first, and writes its output even if it ends badly.
BuildAndInstall ==
  /\ dist' = marks
  /\ IF Builds(marks, deps) THEN Done("service") /\ (SetupSystemd \/ SetupNohupFallback)
     ELSE Fails /\ NoMishap /\ UNCHANGED serviceVars
Service ==
  /\ Running("service")
  /\ BuildAndInstall
  /\ UNCHANGED <<made, secret, zone, env, creds, marks, deps, agentVars, pairingVars>>
-----------------------------------------------------------------------------
(* The test of the terminal's agent *)

\* The group is reused if it is there, and wired to the terminal's chat.
CreateCliAgent == agents' = agents \cup {"cli"}
InitCliAgent ==
  /\ Running("cli-agent") /\ ~DetectRegisteredGroups
  /\ \/ at' = "ping" /\ Log("cli-agent") /\ InFlow /\ CreateCliAgent /\ NoMishap
     \/ Fails /\ Mishap /\ UNCHANGED agents
  /\ UNCHANGED <<made, secret, zone, env, creds, serviceVars, buildVars, wired, pairingVars>>

\* The test agent is deleted only if it answered; a clean-up that fails is only reported.
Answers == svc = "up" /\ secret = "held" /\ "image" \in made
DeleteCliAgent == agents' = agents \ {"cli"}
ConfirmAssistantResponds ==
  /\ at = "ping"
  /\ \/ /\ Answers /\ at' = "first-chat"
        /\ \/ DeleteCliAgent /\ NoMishap
           \/ Mishap /\ UNCHANGED agents
     \/ at' = "timezone" /\ ~Answers /\ NoMishap /\ UNCHANGED agents
     \/ at' = "timezone" /\ Answers /\ Mishap /\ UNCHANGED agents
  /\ InFlow
  /\ UNCHANGED <<skip, logged, offered, made, secret, zone, env, creds, serviceVars, buildVars, wired, pairingVars>>

FirstChat ==
  /\ at = "first-chat"
  /\ \/ /\ at' = "timezone" /\ InFlow /\ UNCHANGED <<skip, logged, offered>>
        /\ CreateCliAgent \/ UNCHANGED agents
        /\ NoMishap
     \/ Fails /\ Mishap /\ UNCHANGED agents
  /\ UNCHANGED <<made, secret, zone, env, creds, serviceVars, buildVars, wired, pairingVars>>
-----------------------------------------------------------------------------
(* The time zone: detected and saved, then confirmed or corrected *)

SaveZone == zone' = "saved"
DetectTimezone ==
  /\ Running("timezone")
  /\ \/ at' = "where" /\ SaveZone /\ Log("timezone") /\ InFlow /\ NoMishap
     \/ at' = "where" /\ InFlow /\ NoMishap /\ UNCHANGED <<skip, logged, offered, zone>>
     \/ Fails /\ Mishap /\ UNCHANGED zone
  /\ UNCHANGED <<made, secret, env, creds, serviceVars, buildVars, agentVars, pairingVars>>

ConfirmTimezone ==
  /\ at = "where"
  /\ \/ at' = "channel" /\ InFlow /\ NoMishap /\ UNCHANGED <<skip, logged, offered, zone>>
     \/ at' = "channel" /\ InFlow /\ SaveZone /\ Log("timezone") /\ NoMishap
     \/ Fails /\ Mishap /\ zone' = "unsaved"
  /\ UNCHANGED <<made, secret, env, creds, serviceVars, buildVars, agentVars, pairingVars>>
-----------------------------------------------------------------------------
(* The channel's flow *)

AskChannelChoice ==
  /\ at = "channel" /\ channel = {}
  /\ \/ \E c \in Channels : \E path \in FlowOf(c) :
          /\ path = ReuseTeamsCredentials \o InstallAdapter \o FinishWithHandoff => "teams" \in env
          /\ channel' = {c} /\ todo' = path /\ got' = {} /\ UNCHANGED at
     \/ at' = "verify" /\ InFlow
  /\ UNCHANGED <<skip, logged, offered, budgetVars, machineVars, pairingVars>>

InStage(kinds) == at = "channel" /\ channel # {} /\ todo # <<>> /\ Head(todo).does \in kinds
This == CHOOSE c \in channel : TRUE
Now == Head(todo)
Usable == Now.needs \subseteq got

\* A value that is not there is used all the same, unless its use throws: main() then ends.
Goes == Now.strict => Usable
Passes == todo' = Tail(todo) /\ got' = got \cup Now.gives /\ UNCHANGED <<at, skip, logged, offered, channel>>
\* fail(): awaited, it ends the flow; not awaited, the flow goes on without the values.
StageFails ==
  IF Now.awaited THEN Fails
  ELSE /\ offered' = TRUE /\ todo' = Tail(todo)
       /\ UNCHANGED <<at, skip, logged, channel, got>>

Throws ==
  /\ at = "channel" /\ todo # <<>> /\ ~Goes
  /\ at' = "aborted" /\ LeaveFlow /\ UNCHANGED <<skip, logged, offered, budgetVars, machineVars, pairingVars>>

\* The n prompts that come next; prompts that follow one another are one step.
AsksAt(n) ==
  /\ InStage({"ask"}) /\ Goes
  /\ n \in DOMAIN todo /\ \A i \in 1..n : todo[i].does = "ask"
  /\ n < Len(todo) => todo[n + 1].does # "ask"
Answer ==
  /\ \E n \in DOMAIN todo :
       /\ AsksAt(n)
       /\ todo' = SubSeq(todo, n + 1, Len(todo))
       /\ got' = got \cup UNION {todo[i].gives : i \in 1..n}
  /\ UNCHANGED <<at, skip, logged, offered, channel>>
  /\ UNCHANGED <<budgetVars, machineVars, pairingVars>>

GoBack ==
  /\ \E n \in DOMAIN todo : AsksAt(n) /\ \E i \in 1..n : todo[i].back
  /\ LeaveFlow
  /\ UNCHANGED <<at, skip, logged, offered, budgetVars, machineVars, pairingVars>>

CallPlatform ==
  /\ InStage({"check"}) /\ Goes
  /\ \/ Passes /\ NoMishap
     \/ StageFails /\ Mishap
  /\ UNCHANGED <<machineVars, pairingVars>>

\* add-<channel>.sh: files and import line, package, build, credentials, restart. A channel
\* whose files are there is taken to be installed: package and build are passed over.
NeedInstall(c) == c \notin marks
BuildsFor(c) == NeedInstall(c) \/ "build" \in ScriptOf(c).always
InstallSucceeds ==
  LET c == This
      sources == marks \cup {c}
      packages == IF NeedInstall(c) THEN deps \cup {c} ELSE deps
      build == IF BuildsFor(c) THEN sources ELSE dist
      items == IF Runs(c, "env") THEN env \cup {c} ELSE env IN
  /\ build # dist => Builds(sources, packages)
  /\ Passes
  /\ marks' = sources /\ deps' = packages /\ dist' = build /\ env' = items
  /\ IF Runs(c, "restart") THEN Restarts(build, packages, items, creds, {c})
     ELSE NoMishap /\ UNCHANGED serviceVars

\* It stops before the import line, before the package is there, or before the build.
InstallStops ==
  LET c == This IN
  /\ NeedInstall(c) /\ Mishap
  /\ \/ UNCHANGED buildVars
     \/ marks' = marks \cup {c} /\ UNCHANGED <<deps, dist>>
     \/ marks' = marks \cup {c} /\ deps' = deps \cup {c} /\ UNCHANGED dist
  /\ StageFails /\ UNCHANGED <<env, serviceVars>>

\* The build fails on another adapter's missing package, and writes its output.
InstallBreaks ==
  LET c == This IN
  /\ BuildsFor(c)
  /\ ~Builds(marks \cup {c}, deps \cup {c})
  /\ marks' = marks \cup {c} /\ deps' = deps \cup {c} /\ dist' = marks \cup {c}
  /\ StageFails /\ NoMishap /\ UNCHANGED <<env, serviceVars>>

InstallAdapterStage ==
  /\ InStage({"install"}) /\ Goes
  /\ InstallSucceeds \/ InstallStops \/ InstallBreaks
  /\ UNCHANGED <<made, secret, zone, creds, agentVars, pairingVars>>

\* Linking a device. Saved credentials count as a link, and asking WhatsApp for a pairing code
\* saves some before the code is entered.
Linked(c) == IF c = "whatsapp" THEN {"whatsapp", "half"} ELSE {c}
Authenticated(c) == creds \cap Linked(c) # {}
LinkFails == \/ "whatsapp" \notin deps /\ This = "whatsapp" /\ StageFails /\ NoMishap /\ UNCHANGED creds
             \/ StageFails /\ Mishap /\ UNCHANGED creds
LinkWhatsApp ==
  /\ This = "whatsapp"
  /\ \/ "whatsapp" \in deps /\ Passes /\ creds' = creds \cup {"whatsapp"} /\ NoMishap
     \/ /\ Now.step = "pairing-code" /\ "whatsapp" \in deps
        /\ creds' = creds \cup {"half"} /\ StageFails /\ Mishap
     \/ LinkFails
LinkSignal ==
  /\ This = "signal"
  /\ \/ Passes /\ creds' = creds \cup {"signal"} /\ NoMishap
     \/ LinkFails
Authenticate ==
  /\ InStage({"auth"})
  /\ IF Authenticated(This) THEN Passes /\ NoMishap /\ UNCHANGED creds ELSE LinkWhatsApp \/ LinkSignal
  /\ UNCHANGED <<made, secret, zone, env, serviceVars, buildVars, agentVars, pairingVars>>

ReadAccount ==
  /\ InStage({"account"})
  /\ IF Authenticated(This) THEN Passes ELSE StageFails
  /\ UNCHANGED <<budgetVars, machineVars, pairingVars>>

\* Settings of the channel in .env; for Signal, its account.
WriteSettings ==
  LET item == IF This = "signal" THEN "signal" ELSE "settings" IN
  /\ InStage({"settings"}) /\ Passes
  /\ env' = env \cup {item} /\ Writes({item})
  /\ UNCHANGED <<budgetVars, made, secret, zone, creds, buildVars, agentVars, pairingVars>>

RestartService ==
  /\ InStage({"restart"}) /\ Passes
  /\ Restarts(dist, deps, env, creds, {})
  /\ UNCHANGED <<made, secret, zone, env, creds, buildVars, agentVars, pairingVars>>

\* init-first-agent.ts: the group and its wirings, then a welcome through the running service;
\* if that fails, all is wired. Without a chat it wires one that is nobody's.
WiresChat == /\ agents' = agents \cup {"dm"}
             /\ wired' = IF Usable THEN wired \cup {This} ELSE wired
SendWelcome == \/ svc = "up" /\ Passes /\ NoMishap
               \/ svc = "up" /\ StageFails /\ Mishap
               \/ svc # "up" /\ StageFails /\ NoMishap
InitFirstAgentStage ==
  /\ InStage({"init"})
  /\ \/ WiresChat /\ SendWelcome
     \/ StageFails /\ Mishap /\ UNCHANGED agentVars
  /\ UNCHANGED <<made, secret, zone, env, creds, serviceVars, buildVars, pairingVars>>

LeaveChannel ==
  /\ at = "channel" /\ channel # {} /\ todo = <<>>
  /\ at' = "verify" /\ got' = {}
  /\ UNCHANGED <<skip, logged, offered, channel, todo, budgetVars, machineVars, pairingVars>>
-----------------------------------------------------------------------------
(* The pairing stage; wrong codes, other chats and codes drawn again are mishaps *)

PairingStage == InStage({"pair"})
Fresh(code) == \A i \in DOMAIN store : store[i].code # code
Oddly(odd) == IF odd THEN Mishap ELSE NoMishap

BeginPairing == /\ PairingStage /\ \E code \in Codes : StartPairing(code) /\ Oddly(~Fresh(code))
                /\ UNCHANGED <<processVars, machineVars>>
SendCode == /\ PairingStage /\ "telegram" \in live
            /\ \E text \in Codes, chat \in Chats :
                 Intercept(text, chat) /\ Oddly(text \notin shown \/ chat # Operator)
            /\ UNCHANGED <<processVars, machineVars>>
MatchCode == TryConsume /\ UNCHANGED <<processVars, budgetVars, machineVars>>
AnotherCode == /\ PairingStage /\ \E code \in Codes : Regenerate(code) /\ Oddly(~Fresh(code))
               /\ UNCHANGED <<processVars, machineVars>>
Paired == /\ PairingStage /\ \E chat \in Chats : PairedWith(chat)
          /\ Passes /\ EndPairing /\ UNCHANGED <<budgetVars, machineVars>>
NotPaired == /\ PairingStage /\ PairingFails
             /\ StageFails /\ EndPairing /\ UNCHANGED <<budgetVars, machineVars>>
-----------------------------------------------------------------------------
\* verify.ts: the service runs, something holds credentials (the vault's address will do), and
\* a group is registered. The last words depend on the channel alone.
VerifyPasses == svc = "up" /\ "onecli" \in env /\ agents # {}
Verify ==
  /\ Running("verify")
  /\ at' = IF ~VerifyPasses THEN "left" ELSE IF channel = {} THEN "ready" ELSE "set"
  /\ logged' = IF VerifyPasses THEN logged \cup {"verify"} ELSE logged
  /\ InFlow
  /\ UNCHANGED <<skip, offered, budgetVars, machineVars, pairingVars>>

Step == \/ Skip \/ Environment \/ Container \/ MaybeReexecUnderSg \/ OneCli \/ RunAuthStep
        \/ Backup \/ Mounts \/ Service \/ InitCliAgent \/ ConfirmAssistantResponds
        \/ FirstChat \/ DetectTimezone \/ ConfirmTimezone \/ Verify
Flow == \/ AskChannelChoice \/ Throws \/ Answer \/ GoBack \/ CallPlatform \/ InstallAdapterStage
        \/ Authenticate \/ ReadAccount \/ WriteSettings \/ RestartService \/ InitFirstAgentStage
        \/ LeaveChannel
Pair == BeginPairing \/ SendCode \/ MatchCode \/ AnotherCode \/ Paired \/ NotPaired

SetupNext == Step \/ Flow \/ Pair \/ Retry \/ Abort \/ Cancel \/ Again

SetupSpec == SetupInit /\ [][SetupNext]_setupVars
-----------------------------------------------------------------------------
(* Properties *)

(* A step that is passed over has been done (runner.ts:371, "with every    *)
(* step that already completed"): what it makes is there. Two steps are    *)
(* done without it: a time zone the operator corrected may not be saved,   *)
(* and a service may be written without being started.                     *)
Passed == skip \cup logged
SkippedIsDone ==
  /\ "container" \in Passed => "image" \in made
  /\ "onecli" \in Passed => "onecli" \in env
  /\ "auth" \in Passed => secret # "none"
  /\ "mounts" \in Passed => "mounts" \in made
  /\ "service" \in Passed => svc # "none"
  /\ "timezone" \in Passed => zone # "none"

(* No stage of a channel's flow uses a value its earlier stages have not   *)
(* collected, except after a failure that nobody awaited.                  *)
FlowIsOrdered == todo # <<>> => Now.needs \subseteq got \/ offered

(* When setup ends well with a channel, that channel has a chat wired to   *)
(* an agent and the running service has its adapter (auto.ts:684, "your    *)
(* assistant is saying hi"). The exceptions are the findings: Teams is     *)
(* never wired; a failure nobody awaited; a restart whose failure was      *)
(* ignored; files copied by an installation that then failed, which the    *)
(* next one takes for installed; a WhatsApp link that was only asked for.  *)
AnnouncedIsWired == at = "set" => This \in wired \cup {"teams"} \/ offered
AnnouncedIsLive ==
  at = "set" => \/ This \in live
                \/ missed \/ offered
                \/ This \notin dist
                \/ This = "whatsapp" /\ "half" \in creds
AnnouncedIsReachable == AnnouncedIsWired /\ AnnouncedIsLive

(* The service then runs with what was chosen: the vault's address, the    *)
(* backup provider and the credentials or settings of the channel          *)
(* (whatsapp.ts:147, "Restart only after ... land in .env"), except a      *)
(* backup chosen again by a process that passes over the service, and what *)
(* an ignored or unawaited failure left behind. The time zone is not among *)
(* them: it is saved after the service's start and read at the next one.   *)
Chosen == {"onecli", "fallback"} \cup channel \cup (IF channel = {"whatsapp"} THEN {"settings"} ELSE {})
AnnouncedIsCurrent ==
  at \in {"set", "ready"} =>
    \/ stale \cap Chosen \subseteq (IF "service" \in skip THEN {"fallback"} ELSE {})
    \/ missed \/ offered

-----------------------------------------------------------------------------
(* Why it holds. *)

\* What the process has passed when it is where it is; what it never logs.
BeforeService == {"environment", "container", "onecli", "auth", "fallback", "mounts", "service"}
AfterService == (Steps \ BeforeService) \cup {"ping", "first-chat", "where", "left", "set", "ready"}
StepsAreOrdered ==
  /\ skip \cap {"channel", "verify"} = {} /\ "channel" \notin logged
  /\ "verify" \in logged => at \in {"set", "ready"}
  /\ at \in BeforeService => "service" \notin logged
  /\ at \in AfterService => "service" \in Passed
  /\ at \in (Steps \ {"environment", "container", "onecli"}) => "onecli" \in Passed
  /\ "service" \in skip => "onecli" \in skip
  /\ "service" \in logged => "onecli" \in Passed
  /\ channel # {} => at \in {"channel", "verify", "left", "set"}
  /\ channel = {} \/ at # "channel" => todo = <<>>

\* What the service's start settles: it reads the vault's address and the backup.
ServiceIsCurrent ==
  /\ svc \in {"none", "script"} => stale = {}
  /\ "onecli" \in stale => "service" \notin Passed \/ missed
  /\ "fallback" \in stale => "service" \notin logged \/ missed

\* Each stage of the rest of the flow has its values from what was collected
\* or from an earlier stage.
Collected(stages) == UNION {stages[i].gives : i \in DOMAIN stages}
OrderedFrom(stages, values) ==
  \A i \in DOMAIN stages :
    stages[i].needs \subseteq values \cup UNION {stages[j].gives : j \in 1..(i - 1)}
FlowStaysOrdered == offered \/ OrderedFrom(todo, got)

\* The chat is wired, or will be.
Wiring(stages) == \E i \in DOMAIN stages : stages[i].does = "init"
WiredInTheEnd == \A c \in channel : offered \/ c \in wired \cup {"teams"} \/ Wiring(todo)

\* The service was started anew after the last change it must read, with the
\* channel's credentials at hand, or will be.
AtHand(c) == IF c = "whatsapp" THEN creds \cap {"whatsapp", "half"} # {} ELSE c \in env
Provider(c) == CASE c = "whatsapp" -> "auth" [] c = "signal" -> "settings" [] OTHER -> "none"
Provided(c) == c \in {"whatsapp", "signal"} /\ AtHand(c)
Refresher(c, stage) == \/ stage.does = "restart"
                       \/ stage.does = "install" /\ Runs(c, "restart") /\ Runs(c, "env")
Alters(stage) == stage.does \in {"settings", "install"}
Altering(stages) == \E i \in DOMAIN stages : Alters(stages[i])
Refreshing(c, stages, provided) ==
  \E i \in DOMAIN stages :
    /\ Refresher(c, stages[i])
    /\ \A k \in DOMAIN stages : k > i => ~Alters(stages[k])
    /\ \/ stages[i].does = "install" \/ provided
       \/ \E j \in 1..(i - 1) : stages[j].does = Provider(c)
Refreshed(c) ==
  /\ AtHand(c)
  /\ \/ missed
     \/ /\ c \notin stale /\ (c = "whatsapp" => "settings" \notin stale)
        /\ \/ c \in live \/ c \notin dist \/ svc # "up"
           \/ c = "whatsapp" /\ "half" \in creds
RefreshedInTheEnd ==
  \A c \in channel : \/ offered
                     \/ Refreshed(c) /\ ~Altering(todo)
                     \/ Refreshing(c, todo, Provided(c))

\* What the last step has seen.
SeenInTheEnd == /\ at \in {"set", "ready"} => svc = "up"
                /\ at = "set" => channel # {}

SetupInv == /\ SetupTypeOK /\ PairingInv
            /\ SkippedIsDone /\ FlowIsOrdered
            /\ StepsAreOrdered /\ ServiceIsCurrent
            /\ FlowStaysOrdered /\ WiredInTheEnd /\ RefreshedInTheEnd /\ SeenInTheEnd
=============================================================================
