---------------------------- MODULE ChannelFlows ----------------------------
(***************************************************************************)
(* The sub-flows the setup wizard runs to connect a messaging app          *)
(* (setup/channels/*.ts), as data: a flow is a sequence of stages, and     *)
(* what a stage does to the machine is in Setup.                           *)
(*                                                                         *)
(* A stage has the name its failure is reported under (step), what it does *)
(* (a question, a call to the platform, the adapter's installation, ...),  *)
(* the values it uses and the values it collects, and three traits of its  *)
(* code: whether its prompt offers to go back to the choice of a channel,  *)
(* whether its failure is awaited (fail() ends the process only if its     *)
(* caller awaits it), and whether it throws when a value it uses is not    *)
(* there.                                                                  *)
(*                                                                         *)
(* A flow that branches on an answer is the set of its paths. What the     *)
(* prompts say, how an answer is validated, and answers that only repeat a *)
(* prompt (help, show again) are left out.                                 *)
(***************************************************************************)
EXTENDS Sequences, Naturals

Kinds == {"ask", "check", "install", "auth", "account", "settings", "restart", "pair", "init"}

Names == {"prompt", "settings", "restart", "qr", "pairing-code", "pair-telegram", "init-first-agent",
          "telegram-validate", "discord-validate", "discord-app-info", "discord-open-dm",
          "slack-validate", "slack-open-dm", "teams-manifest", "install-signal-cli",
          "telegram-install", "discord-install", "slack-install", "whatsapp-install",
          "teams-install", "signal-install", "imessage-install", "whatsapp-auth", "signal-auth"}
Values == {"token", "bot", "app", "secret", "mode", "method", "creds", "phone", "cli", "url", "type", "zip",
           "user", "chat", "role", "name"}

Stages == [step : Names, does : Kinds, needs : SUBSET Values, gives : SUBSET Values,
           back : BOOLEAN, awaited : BOOLEAN, strict : BOOLEAN]

Stage(step, does, needs, gives) ==
  [step |-> step, does |-> does, needs |-> needs, gives |-> gives,
   back |-> FALSE, awaited |-> TRUE, strict |-> FALSE]

Ask(gives) == <<Stage("prompt", "ask", {}, gives)>>
AskOrBack(gives) == <<[Stage("prompt", "ask", {}, gives) EXCEPT !.back = TRUE]>>
AskKnowing(needs, gives) == <<Stage("prompt", "ask", needs, gives)>>
Check(step, needs, gives) == <<Stage(step, "check", needs, gives)>>
Installing(step, needs) == <<Stage(step, "install", needs, {})>>
Restarting == <<Stage("restart", "restart", {}, {})>>
Settings(needs) == <<Stage("settings", "settings", needs, {})>>
\* Every channel but Teams ends with scripts/init-first-agent.ts.
InitFirstAgent == <<Stage("init-first-agent", "init", {"user", "chat", "role", "name"}, {})>>

\* The flows whose authors forgot the await: the failure is shown, the flow goes on.
Unawaited(stages) == [i \in DOMAIN stages |-> [stages[i] EXCEPT !.awaited = FALSE]]
Strict(stages) == [i \in DOMAIN stages |-> [stages[i] EXCEPT !.strict = TRUE]]

AskOperatorRole == Ask({"role"})
-----------------------------------------------------------------------------
(* Telegram *)
CollectTelegramToken == AskOrBack({"token"})
ValidateTelegramToken == Check("telegram-validate", {"token"}, {"bot"})
RunPairTelegram == <<Stage("pair-telegram", "pair", {"bot"}, {"user", "chat"})>>
TelegramAgentName == Ask({"name"})

RunTelegramChannel ==
  {CollectTelegramToken \o ValidateTelegramToken \o Installing("telegram-install", {"token"})
     \o RunPairTelegram \o AskOperatorRole \o TelegramAgentName \o InitFirstAgent}
-----------------------------------------------------------------------------
(* Discord *)
AskHasBotToken == AskOrBack({})
WalkThroughBotCreation == Ask({})
CollectDiscordToken == Ask({"token"})
ValidateDiscordToken == Check("discord-validate", {"token"}, {"bot"})
FetchApplicationInfo == Check("discord-app-info", {"token"}, {"app"})
\* The owner of the application is confirmed, or a user id is asked for.
ResolveOwnerUserId == AskKnowing({"app"}, {"user"})
AskHasDiscordServer == Ask({})
WalkThroughServerCreation == Ask({})
PromptInviteBot == AskKnowing({"app", "bot"}, {})
DiscordOpenDm == Check("discord-open-dm", {"token", "user"}, {"chat"})
DiscordAgentName == Ask({"name"})

RunDiscordChannel ==
  {AskHasBotToken \o bot \o CollectDiscordToken \o ValidateDiscordToken \o FetchApplicationInfo
     \o ResolveOwnerUserId \o AskHasDiscordServer \o WalkThroughServerCreation \o PromptInviteBot
     \o Installing("discord-install", {"token", "app"}) \o DiscordOpenDm
     \o AskOperatorRole \o DiscordAgentName \o InitFirstAgent :
   bot \in {<<>>, WalkThroughBotCreation}}
-----------------------------------------------------------------------------
(* Slack: by a socket with an app token, or by a webhook with a signing secret *)
AskSlackMode == Ask({"mode"})
WalkThroughAppCreation == AskOrBack({})
CollectBotToken == Ask({"token"})
CollectAppToken == Ask({"app"})
CollectSigningSecret == Ask({"secret"})
ValidateSlackToken == Check("slack-validate", {"token"}, {"bot"})
CollectSlackUserId == Ask({"user"})
SlackOpenDm == Check("slack-open-dm", {"token", "user"}, {"chat"})
SlackAgentName == Ask({"name"})

RunSlackChannel ==
  {AskSlackMode \o WalkThroughAppCreation \o CollectBotToken \o how[1] \o ValidateSlackToken
     \o Installing("slack-install", {"token"} \cup how[2]) \o CollectSlackUserId \o SlackOpenDm
     \o AskOperatorRole \o SlackAgentName \o InitFirstAgent :
   how \in {<<CollectAppToken, {"app"}>>, <<CollectSigningSecret, {"secret"}>>}}
-----------------------------------------------------------------------------
(* WhatsApp: none of its four calls of fail() is awaited *)
AskNumberOwnership == AskOrBack({"mode"})
ConfirmSharedNumber == AskOrBack({})
AskAuthMethod == AskOrBack({"method"})
AskPhoneNumber == Ask({"phone"})
RunWhatsAppAuth(method) == Unawaited(<<Stage(method, "auth", {}, {})>>)
\* The number the saved credentials name; on a shared number it is also the chat.
ReadAuthedPhone(gives) == Unawaited(<<Stage("whatsapp-auth", "account", {}, gives)>>)
AskChatPhone == AskKnowing({"bot"}, {"user", "chat"})
\* ASSISTANT_HAS_OWN_NUMBER, then ASSISTANT_NAME.
WriteEnvVar(what) == Settings(what)
AskSelfChatEngage == AskKnowing({"name"}, {})
WhatsAppRestartForgotten == <<>>
WhatsAppRestart == Restarting
WhatsAppAgentName == Ask({"name"})

\* The number whose chat is wired: the bot's own, another one, or another one that turns out
\* to be the bot's own, which is confirmed (or given up) after the installation.
WhatsAppNumber ==
  {<<ConfirmSharedNumber, ReadAuthedPhone({"bot", "user", "chat"}), AskSelfChatEngage>>,
   <<<<>>, ReadAuthedPhone({"bot"}) \o AskChatPhone, <<>>>>,
   <<<<>>, ReadAuthedPhone({"bot"}) \o AskChatPhone \o ConfirmSharedNumber, AskSelfChatEngage>>}

WhatsAppPath(number, method) ==
  AskNumberOwnership \o number[1] \o AskAuthMethod \o method[1]
    \o Unawaited(Installing("whatsapp-install", {})) \o RunWhatsAppAuth(method[2]) \o number[2]
    \o WriteEnvVar({"mode"}) \o AskOperatorRole \o WhatsAppAgentName \o WriteEnvVar({"name"}) \o number[3]
    \o WhatsAppRestart \o Unawaited(InitFirstAgent)

RunWhatsAppChannel ==
  {WhatsAppPath(number, method) :
     number \in WhatsAppNumber,
     method \in {<<<<>>, "qr">>, <<AskPhoneNumber, "pairing-code">>}}
-----------------------------------------------------------------------------
(* Teams: nothing is wired; the last step hands over to a person or to Claude *)
ConfirmPrereqs == AskOrBack({})
StepPublicUrl == Ask({"url"})
AskAppType == Ask({"type"})
StepAppRegistration == AskAppType \o Ask({"app"}) \o AskOrBack({})
StepClientSecret == Ask({"secret"}) \o AskOrBack({})
StepAzureBot == <<[Stage("prompt", "ask", {"url", "type", "app"}, {}) EXCEPT !.back = TRUE]>>
StepEnableTeamsChannel == AskOrBack({})
StepGenerateManifest == Unawaited(Check("teams-manifest", {"app", "url"}, {"zip"}))
StepSideload == Strict(<<[Stage("prompt", "ask", {"zip"}, {}) EXCEPT !.back = TRUE]>>)
InstallAdapter == Unawaited(Installing("teams-install", {"app", "secret", "type"}))
FinishWithHandoff == Ask({})

\* Credentials found in .env skip every step in the portal.
ReuseTeamsCredentials == AskOrBack({"app", "secret", "type"})

RunTeamsChannel ==
  {ReuseTeamsCredentials \o InstallAdapter \o FinishWithHandoff,
   ConfirmPrereqs \o StepPublicUrl \o StepAppRegistration \o StepClientSecret \o StepAzureBot
     \o StepEnableTeamsChannel \o StepGenerateManifest \o StepSideload \o InstallAdapter
     \o FinishWithHandoff}
-----------------------------------------------------------------------------
(* Signal *)
EnsureSignalCli == Check("install-signal-cli", {}, {"cli"})
RunSignalAuth == <<Stage("signal-auth", "auth", {"cli"}, {}),
                   Stage("signal-auth", "account", {}, {"bot", "user", "chat"})>>
WriteSignalAccount == Settings({"bot"})
SignalRestart == Restarting
SignalAgentName == Ask({"name"})

RunSignalChannel ==
  {AskOrBack({}) \o EnsureSignalCli \o Installing("signal-install", {}) \o RunSignalAuth
     \o WriteSignalAccount \o SignalRestart \o AskOperatorRole \o SignalAgentName \o InitFirstAgent}
-----------------------------------------------------------------------------
(* iMessage: on this Mac, or by a remote server *)
AskMode == AskOrBack({"mode"})
WalkThroughFullDiskAccess == Ask({"creds"})
CollectRemoteCreds == Ask({"creds"})
AskOperatorHandle == Ask({"user", "chat"})
IMessageAgentName == Ask({"name"})

RunIMessageChannel ==
  {AskMode \o creds \o AskOperatorHandle \o Installing("imessage-install", {"mode", "creds"})
     \o AskOperatorRole \o IMessageAgentName \o InitFirstAgent :
   creds \in {WalkThroughFullDiskAccess, CollectRemoteCreds}}
-----------------------------------------------------------------------------
AllChannels == {"telegram", "discord", "slack", "whatsapp", "teams", "signal", "imessage"}

\* The paths through the flow of a channel.
FlowOf(channel) ==
  CASE channel = "telegram" -> RunTelegramChannel
    [] channel = "discord" -> RunDiscordChannel
    [] channel = "slack" -> RunSlackChannel
    [] channel = "whatsapp" -> RunWhatsAppChannel
    [] channel = "teams" -> RunTeamsChannel
    [] channel = "signal" -> RunSignalChannel
    [] channel = "imessage" -> RunIMessageChannel
-----------------------------------------------------------------------------
(* The scripts setup/add-<channel>.sh: the phases passed over when the     *)
(* channel's files and import line are there, and those always run         *)
Phases == {"files", "package", "build", "env", "restart"}
Script(guarded, always) == [guarded |-> guarded, always |-> always]

AddTelegram == Script({"files", "package", "build"}, {"env", "restart"})
AddDiscordQuietly == Script({"files", "package", "build"}, {"env"})
AddDiscord == Script({"files", "package", "build"}, {"env", "restart"})
AddSlack == Script({"files", "package", "build"}, {"env", "restart"})
AddTeams == Script({"files", "package", "build"}, {"env", "restart"})
AddIMessage == Script({"files", "package", "build"}, {"env", "restart"})
AddWhatsApp == Script({"files", "package", "build"}, {})
\* Its packages are for the linking only.
AddSignal == Script({"files"}, {"build"})

ScriptOf(channel) ==
  CASE channel = "telegram" -> AddTelegram
    [] channel = "discord" -> AddDiscord
    [] channel = "slack" -> AddSlack
    [] channel = "whatsapp" -> AddWhatsApp
    [] channel = "teams" -> AddTeams
    [] channel = "signal" -> AddSignal
    [] channel = "imessage" -> AddIMessage
Runs(channel, phase) == phase \in ScriptOf(channel).guarded \cup ScriptOf(channel).always
=============================================================================
