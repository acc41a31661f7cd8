# Verification of WrtMonitor

WrtMonitor is a self-hosted controller for OpenWrt routers. A FastAPI server
(`src/backend/app`, PostgreSQL) keeps devices, commands, telemetry and events; a
POSIX-shell agent on each router (`src/openwrt-agent`) polls the server for
commands, executes them and reports; a web interface and an Android client talk
to the server. The hard part is the distance between the two: commands change
the very connection they are reported over, requests and answers are lost, the
router is rebooted, and the server's handlers run concurrently.

This directory holds TLA+ models of that program, TLC runs that check them on
small instances, and TLAPS proofs for all values of the parameters.
`PROJECT.json` ties every definition to the lines it models.

Contents: [inventory](#inventory), [order of the work](#order-of-the-work),
[models](#models), [runs](#runs), [bounds](#bounds), [fairness](#fairness),
[proofs](#proofs), [what was found](#what-was-found), [where the guarantees
end](#where-the-guarantees-end), [not modelled](#not-modelled), [limits](#limits).

## Inventory

For every component: the state it keeps, its operations, who it interacts with,
what makes it hard, and what makes it correct.

### Commands and configuration

| component | state | operations | interacts with |
|---|---|---|---|
| Command lifecycle, server (`api/agent.py`, `services/command_store.py`) | `device_commands`: status, retry_count, expires_at, updated_at | create, claim (`_claim_commands`: expire, requeue, claim), result, expire, purge | agent over HTTP, housekeeping loop, UI, automations |
| Command lifecycle, agent (`lib/api.sh`, `idempotency.sh`, `commands.sh`) | result journal, batch in hand | poll, acknowledge, execute, report, resend | server, transactions |
| Creation of commands (`command_store.py`, `api/commands.py`, `api/fleet.py`) | unique index on (device, idempotency key) | find, write, flush, commit, for one router or a group | lifecycle, automations, offers of updates |
| Validation, forms and preview (`command_*.py`, `web/routes_command*.py`) | none (pure), the page's form | build from a form, validate twice, preview, send | creation |
| Preflight (`config_transactions.py`) | none, reads the newest report | compare a change of networks with it | creation, telemetry, the agent's handler |
| Configuration transactions (`lib/transaction*.sh`) | backups and a meta file per command, UCI files | begin, confirm, verify in the background, restore, recover at start | commands, init system, server as the proof of connectivity |
| Device token rotation (`api/agent.py`, `command_agent.sh`) | token hash, previous hash, expiry, nonce; token in UCI | rotate, confirm, roll back | every request of the agent |
| Agent update (`update*.sh`, `wrtmonitor-agent`, `agent_updates.py`, `agent_versions.py`) | release generations, pointers, entry point, fallback libraries, backup; result of the last check | offer, check, back up, install, verify, prune, roll back, hand over, start; what the page says | server (files, offers), commands, telemetry, init system |
| Hardware certification (`scripts/hardware_certify.py`) | report, router's archive and identity | baseline, commands, restore, resume, release gate | the whole command path |

Hard: a result handler that works on a row it read without a lock; polls served
after their client left; commands executed and not reported; background
verifiers that outlive the daemon; reboots between any two steps; whole-file
backups shared between transactions; answers lost after the server has acted;
an agent that replaces the files it runs from, with power cuts in between; two
requests with one key; checks against a report that is old when the command runs.

Correct when: no command is executed twice; success means executed; every
command is settled; only fresh commands are delivered; a key is one command; what
a page previews is what it sends, and the agent accepts it; what was reported
rolled back is undone and what was reported confirmed is applied; a transaction is
settled once; the agent is never locked out by one lost answer; a replaced token
stays replaced; the agent that starts has all libraries of its own version; an
update is asked for once an hour, of an agent that needs it.

### What the server keeps and shows

| component | state | hard | correct when |
|---|---|---|---|
| Long poll and realtime (`services/realtime.py`, `api/realtime.py`, `static/realtime.js`) | generation per device, subscriber queues of 64, panes of a page | a wait that begins while what it waits for is committed; a full queue | a waiting poll is woken, a page that missed something is told |
| Web terminal (`terminal_broker.py`, `api/ssh.py`, `command_terminal_*.sh`) | session status, numbered frames, cursors, loops on the router | a row five handlers write without a lock, duplicated uploads, trimming | keys arrive in order and once; a session ends and stays ended |
| Events and incidents (`services/events.py`, `operations.py`) | open incidents by fingerprint, device status | reports, housekeeping and the owner overtake each other | an outage or alert is told exactly while it lasts, once |
| Automations (`services/events.py`) | rules, runs | concurrent reports, rules loaded once | cooldown and hourly limit hold |
| Health of a router (`health_monitoring.py`, `api/telemetry.py`, `data_state.py`) | the last report, open incidents | four places with conditions of their own | they agree |
| Client presence (`client_presence.py`, `client_registry.py`) | state, two deadlines, activity log | evidence of different strength, stale neighbours | online and recent rest on evidence |
| Client policies and profiles (`api/clients.py`, `client_profile_commands.py`, `wifi_access_profiles.py`) | wish, profile, commands, router | profile changed beside an assignment, repeated deliveries | "applied" is true; what is wanted is asked for |
| Telemetry history (`telemetry_history.py`, `lib/telemetry.sh`) | buffered reports, metrics | counter resets, reports out of order | no invented rates |
| Sessions and pairing (`sessions.py`, `mobile_pairing.py`, the Android store) | refresh hash per session, codes; tokens in the app | concurrent renewals, lost answers, exchange beside revocation | a code is one session; renewals do not end a session |
| Backups (`database_backups.py`, `backup_cli.py`) | files, the database | dumps that fail or overlap, kills, incomplete copies | a file with a name is a whole dump |

`PROJECT.json` lists every component, with what is modelled of it and what is not,
and the hazards of the code at their lines.

## Order of the work

What changes a router came first, then what delivers it, what keeps the agent
alive, access, and display: `CommandLifecycle` with `CommandContract`,
`ConfigTransaction`, `TokenRotation`, `AgentUpdate`, `LongPoll`; then `Terminal` with
`TerminalChannel`, `CommandRequests`, `CommandChecks` and `CommandForms`,
`NetworkPlan`, `Certification`, `Incidents`, `Automations`, `ClientPresence`,
`ClientPolicies`, `Sessions`, `TelemetryHistory`, `RouterHealth`, `UpdateOffers` and
`DatabaseBackups`. All of them are checked by TLC, and the safety properties of all
of them are proved.

Worth doing next: the lock of the agent (`common.sh`) with several starting
daemons; the delivery of notifications; a composition of `CommandRequests` with
the claims of `LongPoll`.

## Models

### CommandLifecycle, CommandContract

State: per command `status`, `retryCount`, `age` (since `created_at`), `idle`
(since `updated_at`); per server thread a result request with the status its
handler has *seen*; polls whose client is gone (`orphans`); the daemon's control
state `pc`, command `cur`, `batch` and `reply`; background `verifiers`; on flash
`results`, `unconfirmed` and `tx`; the history variables `executions` and `belated`.
Commands are numbered by `created_at`, which is taken before the commit; they need not
appear in that order.

| code | actions |
|---|---|
| `create_device_command` | `Create` |
| `expire_old_commands` in `run_housekeeping` | `Expire` (and inside each claim) |
| `requeue_stale_sent_commands`, `_claim_commands`, `poll_commands` (server) | `ClaimAndDeliver`, `ClaimForNobody`, `RequeueByOtherDevice` |
| `command_result` | `LoadFinished`, `LoadRefused`, `LoadAccepted`, then `Commit` |
| `daemon`, `poll_commands` (agent) | `Poll`, `PollEmpty`, `PollFails`, `ResendResult`, `RejectContract`, `Acknowledge`, `PostFails`, `BatchDone` |
| `execute_command` | `Refuse`, `Execute`, `Finish`, `DeferToVerifier` |
| `verify_transaction`, reports | `VerifierReports`, `VerifierPostFails` |
| daemon killed, router rebooted, started again | `DaemonExits`, `Crash`, `Restart` |

A result handler is two steps because it reads the row without a lock
(`db.get`) and writes at commit; SQLAlchemy writes `status` only if it differs
from what was read, which `Commit` models. Claim, requeue and expiry are single
`UPDATE`s or `SELECT ... FOR UPDATE` and stay atomic. A request that was sent
may be lost (`Send`), and a served one may lose its client (`Forsake`).

`CommandContract` is what a user of the queue may rely on: bounded deliveries of
undecided jobs, one start after a delivery, success only after a start, a
verdict that may be revised. `JobView` maps rows and history to its jobs.

### ConfigTransaction

State: `files` (which changes each UCI file contains), `backup`, the meta file
(`state`, `started`, `recoveries`), the last `verdict` reported, the clock, the
daemon (`pc`, `cur`, `outcome`, `todo`, `now`), and `verifier[t][k]`: the k-th
background verifier of transaction t with its stage, the start time it read and
the outcome of its restore.

| code | actions |
|---|---|
| `transaction_begin` | `Begin`, `CannotBegin` |
| handlers and post-conditions in `execute_command` | `Write`, `ConfirmNow`, `NothingToChange`, `VerifyLater`, `HandlerFails` |
| `transaction_restore` | `CopyBack` in `HandlerFails`, `TimeOut`, `Undo`; the state in `RollBack`, `RestoreReported` |
| `verify_transaction` | `Probe`, `Confirm`, `ReportSuccess`, `TimeOut`, `RollBack`, `ReportFailure` |
| `transaction_recover_pending` | `Start`, `SkipSettled`, `Supersede`, `Resume`, `RestartWindow`, `Undo`, `Recovered` |
| reboot; restart by procd, update or signal | `Exit("reboot")`, `Exit("restart")` |

A restore is split after the copies (services are restarted in between) and a
settled verifier reports in a step of its own, so an exit can fall anywhere. A
copy that fails leaves any subset of the files restored. A reboot kills the
verifiers, a restart of the daemon does not: `init.d` starts the daemon as one
procd instance and a verifier is a background child that survives it.

### TokenRotation

State: the device row (`token`, `previous`, `until`, `nonce`, `issued`), the
agent (`stored` in UCI, `fresh` in the shell, `pc`), requests the agent gave up
that are still on their way (`late`), and the history variable `lost`. Tokens
are numbers in the order of issue. `RotateToken`, `ConfirmToken` and
`RollbackToken` are the three handlers (each under `SELECT ... FOR UPDATE`);
`RotateCommand`, `Answered`, `NotGranted`, `Abandon`, `ServedLate`, `Save`,
`SaveFails`, `Reported` and `Crash` are the agent's handler and the network.

### AgentUpdate

State: on flash the entry point's version, the generations `gen` (label,
version and completeness of the libraries), the pointers `current` and `alias`,
the `legacy` libraries and the `backup`; in memory the version `running`, the
step `pc`, the version to install `target` and whether a restore undoes an error.

| code | actions |
|---|---|
| start of `wrtmonitor-agent` (lines 22-64) | `Libraries`, `Starts`, in `Verify`, `Handoff`, `Boot` |
| `check_for_update` | `BeginUpdate`, `BackupFails`, `InstallFails`, `Verify` |
| `prepare_backup` | `ClearBackup`, `KeepEntry`, `CopyLibraries`, `LabelBackup` |
| `apply_downloaded_files` | `PublishGeneration`, `SetAlias`, `SwitchCurrent`, `SwitchEntry` |
| `prune_release_generations` | `Prune`, `Pruned` |
| `perform_rollback`, `restore_backup_files` | `RollbackRequested`, `MakeGeneration`, `FillGeneration`, `RestoreAlias`, `EmptyLegacy`, `RefillLegacy`, `ReturnEntry`, `Repoint` |
| `handoff_to_updated_agent`, procd | `Handoff`, `Boot` |

A rename is one step. Copying or removing many files is two, with any part of
them done in between, since `Cut` can fall there. `Init` is what
`install_payload` of the installer leaves behind.

### LongPoll

State: `command` (status), the announcements on their `wire` to the listener and
in the event loop (`tasks`), `generation`, each `poll` with its step and the
generation it has seen, and per page the `stream`, its `queue`, the panes it is
`due` to load and those that are `stale`. `unheard` and `missed` record what was
announced while nobody listened.

| code | actions |
|---|---|
| `create_device_command`, `command_result`, `agent_telemetry`, requeue | `CreateDeviceCommand`, `CommandResult`, `DeviceTelemetry`, `RequeueByOtherDevice` |
| `queue_realtime_event` and PostgreSQL's NOTIFY | `Commit` in each of them |
| `listen_to_postgres`, `publish_local` | `Receive`, `ListenerFails`, `ListenAgain` |
| `RealtimeBroker._publish` | `Publish`, `Put` |
| `poll_commands`, `wait_for_change` | `BeginPoll`, `FirstClaim`, `ReadGeneration`, `SecondClaim`, `Wake`, `TimeOut`, `LastClaim` |
| `device_events`, `subscribe`, the page's script | `Connect`, `Disconnect`, `Deliver`, `Load` |

A claim is one transaction in a thread, what runs in the event loop is one step
up to its next `await`. The stream's generator yields the snapshot before it
subscribes; it is resumed by the same event loop before an answer of the page
can have travelled, so `Connect` is one step.

### CommandRequests

State: the `rows` with the request each still belongs to, a `request` per client,
and what answers told. `Ask` begins a request for one router or a group, in any order
of its routers (the query has no `ORDER BY`); `Find`, `Conflict` and `NotFound` are the
look-up by key; `Write` and `WriteFails` the flush, which waits for another
writer of the same key; `Deadlocked`, `Commit` and `Restart` (of the server) its
end; `End` and `CleanUp` the later life of a row. `KeyIsOneCommand` says that a key
is one command of one type per router until it is cleaned up, and every answer names it.

### CommandChecks and CommandForms

`CommandChecks` has the validators of 57 commands as operators from payloads to an
error or a normal form; a value is the class the checks can tell of it.
`CommandForms` is the page: `Edit`, `AskPreview`, `Close`, `Send`. Its properties
relate four hand-written places: the form's builder, the preview (which reads the
form with a reader of its own, `NotPreviewed`, and shows the `Changes` against what the
router reported, `held`), the check on creation, and the agent's contract. Three forms
are previewed in part: that the preview tells what is sent is stated of the others
(`WholeForms`), and refuted for the three by the run `preview_in_part`. That what is
sent is accepted, and that no preview shows a secret, is stated of all forms.

### NetworkPlan

`preflight_errors` as operators (`LanErrors`, `SegmentErrors`, `PoolErrors`, `PortErrors`,
`VlanErrors`, `LeaseErrors`); `Create` checks a command against the last report or
against none, `Execute` is the agent's handler, which checks nothing, `Report` what
it tells. `PlanIsSound` compares the result with the conflicts as one would define
them: subnets that overlap, pools over an edge, a port in two bridges, an id twice.

### Certification

One run of `hardware_certify.py` with its baseline, commands, disconnection,
restore and report, and later runs that resume it; a step can be late, cut off or killed.

### Terminal, TerminalChannel

`TerminalChannel` is what the terminal promises of keys (in order, at most once, only the
oldest under way may be dropped); `Terminal` is shown to implement it
(`KeysInOrder`). State: the session row, what each handler has decided to write
to it (`writing`), the frame log with its trimming, whether half an hour has passed
since the last frame (`idle`, for `expires_at`), the browser's socket, and on
the router the supervisor and its two loops with a request given up. Each
handler reads, decides and commits in separate steps. `Store` ends `idle` with every
frame, `HalfHour` begins it, `CleanupRead` takes idle sessions only. The shell
may print beyond the chunks that are followed (`PrintsOn`, of which only the effect on
the expiry is kept) until it falls `silent`, which it need not.

### Incidents

Incidents of one type for one router. A report (`BeginReport`, `EndReport`),
housekeeping (`BeginKeeping`, `EndKeeping`) and an acknowledgement
(`BeginAcknowledge`, `EndAcknowledge`) read and later write the columns they
changed; `Disconnect`, `Disconnected`, `Provision` and `Snooze` are short
transactions. `revived` records the two races that the code has (see below).

### Automations

The limits of a rule: `Emit` is an event in a report's transaction, `Start` and `Skip`
the decision, `Commit` the end of the report; `Complete` a result, `Update` and
`Delete` the owner. `mingled` are the reports that were under way beside another.

### ClientPresence, ClientPolicies

`ClientPresence`: `Seen` is one report with what the router knows of the client,
`Missing` one without it, `Forget` the retention; the evidence, the state machine
and what is shown are operators named as in the code.

`ClientPolicies`: requests in steps, several at once (`drafts`). `BeginConfigure`,
`BeginPatch`, `BeginApply`, `BeginUpdateProfile`, `BeginDeleteProfile` and `BeginSetWifi`
read and work out what they change and ask for, `Stamp` gives the command its
`created_at`, `Commit` writes the columns whose value changed (`MemberAfter`, `OwnAfter`,
`ProfileAfter`) and makes the command visible, `Refuse` is a commit that fails; `Forget`
is `delete_client`. `Deliver`, `LeaseOver`, `Run`, `Answer` are the commands,
`Telemetry` what is told of Wi-Fi. The client and the interface are looked at one at a
time (`watched`): their commands do not touch each other.

### TelemetryHistory, RouterHealth

`TelemetryHistory`: the router carries traffic (`Tick`), the agent reports, buffers
and sends again (`Report`, `SendKept`, `GiveUp`), restarts; the server stores in any order
(`Store`) and deletes (`Clean`); the chart is an operator (`Arranged` and `Picked` are
what `ORDER BY` and `WHERE` do to rows). `RouterHealth`: reports with up
to two odd values; `Items`, `Overall`, `Alerts`, `Codes`, `Ended` and the states of the data
are translated from the four places that compute them.

### Sessions

Server: `sessions` and `codes`; app: `store`, the `calls` under way and the
logout. `Refresh` locks its row and is one step; exchange and
revocation of a code read first. `Enter`, `Persist`, `RefreshRefused` and `RefreshFails` are
`SessionRefreshCoordinator` and its caller. The calls of a page fail together.

### UpdateOffers

The versions of server and agent, the result of the last check, the report
the server heard last and the commands it queued by itself. `Scheduled` and `Run`
are `check_for_update` without its files (those are in `AgentUpdate`), `Receive` is
`queue_automatic_agent_update`, `State` the view of the page; `Deploy`, `Rollback`,
`Install` and `SetAuto` are people.

### DatabaseBackups

Runs of the utility in steps (`Dump`, `Dumped`, `Replace`; `Verify`; `DrillStarts`,
`DrillEnds`; `Clean`, `Fill`), any of which may be killed; the application, which writes
when it runs; and copies that lost their end, which the list of contents does not tell.

### Compositions

The modules above share little state, and TLC looks at them in a few runs:
`ServerRecords` (device tokens, incidents, codes, renewals, creation, automations,
health, updates, backups); `MCServer`, which extends it with forms, networks,
presence and history; `MCAgent` (installations with errors and with power cuts,
certification, a batch of commands, policies of clients); and `MCRealtime` (polls,
pages, terminal), which extends `LongPoll` and `Terminal`. A variable `part` says
which of them is at work; the others rest, so nothing is gained or lost by the
product. A property of such a module is that of the part, or the conjunction of
those of two parts that answer one question.

## Runs

| run | question |
|---|---|
| `lifecycle_safety` | One transactional command that some agents do not know, three result requests at a time, abandoned polls, two verifiers, exits: executed at most once, only fresh commands delivered, honest success, and the refinement of `CommandContract`; with a fair server alone the command ends in a verdict for good. |
| `config_exclusive` | Disjoint files, restarts *and* reboots: what was reported rolled back is in no file; until something restarts, a reported success is applied completely. |
| `config_reboot` | Overlapping files, two reboots: one process decides a transaction, reports agree with the meta file, nothing is settled twice; with fair processes every transaction is settled, slow or dead server or not. |
| `agent_changes` | Upgrades, downgrades and reinstallations of three versions with every step of an installation failing: an agent starts, an error is undone (`AgentStarts`, `ErrorUndone`). Two power cuts anywhere: never the libraries of a later version (`NeverLaterLibraries`). Two certifications with late, cut and killed steps: the router is given back and the report tells of the agent it was made on (`RouterIsGivenBack`, `ResumeKeepsOthers`). Two commands of different kinds, in one batch or not: what the daemon has yet to run is overtaken only by way of a lost delivery or a late commit (`BatchKeepsOrder`). Policies of clients from the wish to the router, with two requests at once (`AppliedIsInForce`, `WantedIsAsked`). |
| `realtime` | No wake-up is missed and, with fair polls and no time-outs, an announced command is delivered (`NoMissedWakeup`, `PromptDelivery`); a page behind by more than its queue, reconnecting, or after an outage still learns that it is out of date (`PagesAreTold`); keys and output of a terminal stay in order, its command tells the truth, and without its browser it ends unless its shell prints on (`KeysInOrder`, `OutputInOrder`, `OutcomeIsTrue`, `ShellEnds`). |
| `server_records` | One kind of record at a time; see the next table. |

| property of `server_records` | question |
|---|---|
| `Typed` | types of tokens, forms, presence, networks and telemetry |
| `OneLossSurvived`, `RevokedForGood` | the device token with five tokens, two late requests, crashes, a grace period that passes |
| `SentIsSound` | a preview tells no secrets and, but for the three forms it reads in part, what is sent (`CommandForms.PreviewTells`); what any form of the page sends is accepted again and by the agent as a whole (`SentIsAcceptable`); what the preflight accepted against a true report leaves no conflict (`NetworkPlan.PlanIsSound`) |
| `ShownIsTrue` | presence and its log rest on evidence (`ClientPresence.PresenceIsEvident`) |
| `RatesAreTrue` | rates and points of a chart are what was carried |
| `OutageTold`, `AlertTold` | incidents against housekeeping and the owner; the four places that tell of health agree (`RouterHealth.HealthIsTold`) |
| `CodesAreOneTime`, `StaysIn` | pairing codes; renewals under way at the same time |
| `RecordIsOne` | a key is one command (`CommandRequests.KeyIsOneCommand`); a file is one whole dump (`DatabaseBackups.BackupIsWhole`) |
| `LimitsKept` | cooldown and hourly limit (`Automations.LimitsKept`); offers of updates (`UpdateOffers.OffersAreDue`) |

Six more runs end in a counterexample each; see [what was
found](#what-was-found). Every property of a passing run has a mutant, a
plausible bug in the code that makes it fail: `Mutant:` comments in the modules
name them.

The configurations of these runs are also conditions: [where the guarantees
end](#where-the-guarantees-end) says what happens without them.

## Bounds

- `NumCommands`, `NumTxs`, `MaxTokens`: objects that are created. One command is
  enough for the races of its own requests; two make a batch. Two transactions show every overlap of two; five tokens
  let two rotations be lost and a third succeed.
- `Slots` (server threads with a result request): three hold the
  acknowledgement, an abandoned one and a verifier's report at once. No more
  than one is waited for by the daemon.
- `MaxOrphans`, `Lates`: polls and token requests served after their client
  left.
- `MaxVerifiers`: two, a recovered and an older one. In `ConfigTransaction` the
  number of verifiers of a transaction is at most `MaxExits + 1` and is no bound.
- `LeaseTicks`, `TtlTicks`, `Timeout`, `Grace`: only their order matters. The
  TTL is longer than two leases, so a command can be requeued and expire, or be
  delivered `MaxDeliveries` times first. The same holds for `OnlineTtl`, `RecentTtl`,
  `Retention`, `StaleAfter`, the dedupe intervals, `SnoozeFor`, `Cooldowns` and `Hour`.
- `MaxVersion`, `MaxRestores`, `MaxCuts`: three versions let an update go up,
  back and further with a generation to prune and one to find again. Each
  restore makes a generation. `Mishaps` says which steps may fail, `Downgrades`
  whether the router allows older versions.
- `QueueSize`: two instead of 64, so that three events overflow it. `Polls`,
  `Pages`, `MaxTelemetry`, `MaxRequeues`, `MaxOutages`, `MaxStreams`: two polls can
  take each other's command.
- `MaxFrames`, `MaxKeys`, `MaxOutput`, `MaxLosses`: a log of one frame instead of
  thousands, so that one more is trimmed. The terminal is looked at three times
  (`MCRealtime`): keys without losses, one chunk with a loss, two chunks in a
  session that nobody ends; all three at once are too many states. With one frame kept,
  most output is trimmed before it could come out of order, which `OutputInOrder` exempts;
  in general it rests on the theorem `OutputKeepsOrder`, for every `MaxFrames`.
- `MaxEdits`: a form with two fields that are not as first filled in; the checks
  compare at most two. `MaxOdd`: two odd values of a report, so that the sum of two is
  seen. `Segments`, `Addresses`, `Sizes`, `Starts`, `Counts`, `Ports`: two networks
  that can overlap in part, wholly or not, with pools at both edges.
- `MaxJobs`, `MaxTries`, `Requesters`: two commands of which one is delivered twice, and
  two requests at once, which are alike (the symmetry `Alike`). `Begin` counts the commands
  that requests have yet to create (`Places`).
  `Records`, `Reporting`: two incidents, and one report beside housekeeping and the owner.
- `SessionIds`, `SomeCodes`, `SomeCalls`, `CodeAccess`, `CallAccess`: two of each, and enough
  access tokens for a renewal after a renewal. `CodeCalls`, `RenewalCodes`: codes are
  looked at without renewals and renewals without codes; the theorems hold with both.
- `Reporters`: two reports at once may start one automation.
- `Clients`, `Keys`, `Types`, `Routers`, `MaxCommands`, `MaxAsked`: two clients, a key, a group of
  two routers; three requests, so that one comes after the clean-up; two rows, of a
  group or one after the other.
- `MaxEvents`, `MaxChanges`, `MaxReports`, `MaxRestarts`, `BufferLimit`, `Keep`, `Target`:
  three events or reports with one edit or restart; a buffer that overflows.
  `ReportTime`: two moments, so that a report can be later than one sent after it.
- `MaxHour`, `MaxMoves`: an offer, the hour after it, and one change by a person.
  `MaxRows`, `MaxKills`, `MaxCopies`, `BackupRuns`: two runs on one path, a write
  between them, a kill and a damaged copy.
- `MaxClock`, `MaxExits`: end of a history. `WindowFits` and the guard of `Tick`
  leave room for the verification windows that can still begin, so that the
  bound on the clock never stops a verifier from timing out.

`CHECK_DEADLOCK FALSE` is set for the runs whose bounded histories end when the
clock or the objects are used up, or where everything is loaded (all but those of
the lifecycle). The lifecycle never deadlocks and is checked for it: its ages are
capped, not its clock.

## Fairness

- `ServerFairness` (`lifecycle_safety`): time passes, an accepted request is
  served to its end (a thread pool and a database that answers), and the
  housekeeping loop expires commands. The loop has no error handling
  (`app_factory.py:30`); an exception ends it, and this assumption with it.
  Nothing is assumed of the agent or the network.
- `AgentFairness` (only for the counterexample `lifecycle_lost_result`): the
  daemon runs and its requests end. It is as strong as the code allows, so that
  the counterexample is no matter of scheduling.
- `Fairness` of `LongPoll` (`realtime`): the listener reads, the event loop
  runs what is scheduled, and a poll goes on but for its time-out. No new poll
  and no other handler has to come.
- `TerminalFairness` (`realtime`): the housekeeping loop looks for idle sessions, the
  browser's handler ends once its socket is gone, the supervisor's and the command's
  requests end, the loops on the router go on. Half an hour without a frame passes when no
  shell can print (`~Prints`): once the browser is gone, too, only finitely many frames
  are still to come. Nothing is assumed of time while a shell may print, for each of its
  frames puts the expiry off, and no shell has to fall silent. No key has to be typed and no output to come.
- `Fairness` of `ConfigTransaction` (`config_reboot`): the handlers return, the
  init system starts the daemon again, verifiers are processes of their own, and
  time passes. The number of exits is finite in every history. No fairness is
  assumed for `Probe` against `TimeOut`: the server may never answer.

## Proofs

Every invariant and action property that a passing run checks, and both
refinements, are theorems: they hold for all values of the constants that satisfy
the named assumptions, in particular for any number of commands, threads,
transactions, tokens, exits, late requests, pages, keys, reports, clients and rows.
The bounds on histories (`MaxClock` and its like) are constants, too, so a theorem is
one about every history.

Each proof has the same course. The property is not inductive as it stands; the
module states at its end ("Why ...") the invariant that is, as a conjunction of
parts with names; one lemma says that the initial states have it, one for each
action that the action keeps it, and one that the property follows. These invariants
were checked by TLC, as invariants of the runs, before they were proved.

**CommandLifecycleProofs.** `Inductive` is the invariant. `AtMostOnce` alone is
not inductive: one has to know that a command in the daemon's hands was not
executed before, hence that the batch of an answered poll holds unexecuted
commands, hence that a row with an execution can not be queued or sent (`Past`),
hence what each request in a thread can still write, given the status it has
*seen* (`RequestOK`), and what journal and transaction say about executions
(`JournalOK`). One lemma per action; lemmas on `Send`, `Report`, `Forsake`,
`Answer` and `ClaimRows` are shared. `ContractImplemented` maps initial states
to initial states and every step, row by row (`RowRefines`), to a step of the
contract or a stutter. `FreshDelivery` follows from the invariant and the claim. `OrderOfCommands` needs that the
claim takes the oldest first (`OldestFirst`, by counting), hence that what waits for its
first delivery, and did not appear late, is older than whatever was handed out
(`QueueClaimed`), and that the daemon takes the oldest of its batch (`OrderOK`).
It also says that the bound of 100 entries on the agent's journal (which the
model leaves out) cannot cause a second execution: what was executed is never
delivered again.

**ConfigTransactionProofs.** `RollbackUndoes` (for disjoint files) rests on
`RestoreInv`: a copy never holds the change that it can undo, and from the
moment of the restore, whoever did it, the change is gone. `VerdictsMatch` and
`SettledOnce` (when no exit leaves a verifier behind, `Exits \subseteq
{"reboot"}`) rest on `OwnerInv`: at any time at most one process, the daemon or
one verifier, holds a transaction that is not settled, and its stage says what
meta file and report are. `SuccessStays` (disjoint files, until something restarts)
adds to this that a verifier which may still confirm has the whole change before it
(`AppliedInv`, `VerifiersSeeAll`). The assumptions are not for convenience: without
the first a restore can bring back a change that was rolled back; without the
second two verifiers can decide differently.

**AgentUpdateProofs.** `TypeCorrect` holds whatever happens. `UpdateInv` holds
when only steps of the installation fail (`Mishaps \subseteq {"install"}`; with
cuts or failing backups it does not, see `update_interrupted` and [where the
guarantees end](#where-the-guarantees-end)). That the agent starts is not inductive: one has to know
that a generation named for a version is complete or absent (`NamedInv`), since
`PublishGeneration` uses one that it finds, hence that pruning never takes apart
the current one; and that the backup is the running agent from its label to the
end of the update (`BackupInv`), hence what a restore puts in place
(`RestoreInv`). `Starting`, `Undone` and `Usable` follow. `NeverLater` holds
whatever fails and wherever the power is cut, if nobody asks for an earlier version
(`~Downgrades`): half a backup is of versions that only go up (`BackupIsOlder`), and
a generation made from one has a label that no entry point can have again
(`LabelsOK`); `NoLaterInv` is the whole.

**AgentProofs** (of `MCAgent`). Policies: `PolicyInv`, for any number of requests at once.
`AppliedIsInForce` needs that commands that are not `late` are first delivered in their
order (`DeliveredInOrder`) and wait so in the agent's inbox (`InboxOK`), hence that only a
repeated delivery or a late command can have been executed after the newest one
(`InForce`). `WantedIsAsked` is `Asked`, of whichever command is the newest: a
request that no other has overtaken still leaves what it asks for (`Speaks`), and its
command is later than all that can be seen (`FreshOK`), since its time was taken after
the last commit it knows of (`StampsOK`: a command waits for one request only). Certification: `CertInv`. The token of the server is on the router, or in
memory while the archive is unpacked (`IdentityKept`); the archive is what the run
found (`BaselineKept`); a report names an agent only if it was made on it
(`AgentTested`), also one that is resumed (`ResultsOK`). Batches and power cuts
follow from `OrderOK` and `NoLaterInv` of the modules above.

**BrokerProofs.** `NoWakeupIsMissed`: a poll begins to wait only when nothing is
queued, what is queued later is announced, and an announcement leaves its way only
by being published, which changes the generation (`StillOnItsWay`, `StillWaiting`,
`StillQueued`). Reading the generation before the second claim is what makes it so:
without that claim the mutant `WaitAtOnce` fails. `TelemetryIsTold` (`PageInv`): a page
that is stale has an announcement before it, in a queue or in what it is due to
load, also when a full queue was replaced by a resynchronisation; this needs that a
resynchronisation is never one of the announcements on their way (`NoticesAreLocal`).
Terminal: `OutcomeInv` says what each handler that works on a copy of the row can
still decide (`Decisions`), and that the agent announces the session before its
loops ask for anything (`AnnouncedFirst`), so the status that they have found or
made is not lost. `OutputInv`: the next chunk is asked for when the last was
answered (`RequestsInOrder`), hence the log is in order (`LogInOrder`), and what is
behind the cursor was shown or trimmed (`SeenIsShown`). `TerminalIsAChannel` maps keys
to their ranks among the keys of the log (`KeysNumbered`) and each step to one of
`TerminalChannel` or a stutter. **RealtimeProofs** carries these to `MCRealtime`.

**ServerProofs** (of `ServerRecords`), one invariant per part:

- tokens: `RotationInv`. The row keeps the token before the last one issued, a nonce is
  good for that one only, and every request under way is older than what the agent
  has received since. From it `OneLoss` and `Revoked`.
- creation: `RequestInv`. Requests under way have numbers of their own and find
  what is theirs or committed, and the index lets a row be written only when no other
  of its key is there (`WrittenOnce`).
- backups: `BackupInv` relates what a run has in hand to the file it will put in place.
- codes and renewals: `CodesOK` (one code is active, and one that is being exchanged
  was nothing but made), `RenewalInv` (one call renews at a time, with the token that the
  app still has or has lost; an access token belongs to one refresh token).
- incidents: `IncidentInv`; health: `HealthInv`, what the last report left open.
- automations: `AutomationInv`. Reports that look at a rule at the same time know of
  each other (`MingledOK`), so who looks at it alone knows of the runs that count
  (`LastIsKnown`), and the limits are kept by what is stored and by what each report
  sees of it and its own.
- offers: `OfferInv`. Only an agent that has been the legacy version is allowed to go back.

**MCServerProofs** (of `MCServer`). `RecordsRun` shows that a run of all parts is one
of the records and one of the rotation of a token, so that all theorems of
ServerProofs hold of it. The four further parts:

- `PresenceInv`: each state ends with the evidence it rests on (`EndsInTime`), and the
  log agrees with what is shown (`LogAgrees`).
- `PlanInv`: what the router has is older than what waits (`Ordered`), so only the
  next command can have been checked against what the router has, and it has no
  errors still (`NextIsChecked`); one lemma for each kind of conflict says that a command without
  errors makes none (subnets, pools, ports, VLANs, leases).
- `FormInv`: the preview is the `Changes` of what its reader makes of the form
  (`Previewed`), what is sent is the outcome; for the whole forms the two are one. That it is accepted again is a lemma for every command: checking
  a payload that was checked changes nothing; that the agent accepts it as a
  whole, that every field of the page is handed on.
- `HistoryInv`: any two reports agree on one history of the router, whatever order they were
  stored in (`InTime`): the later knows of more bytes; counters of one boot differ
  by what was carried, and one of a later boot counts no more than that. A rate is that of a row
  and the one before it (`RatesComputed`), whose time and counters are copied. From
  there `RatesAreTrue` is arithmetic: rounding (`RoundIs`), a rate times its time
  (`RateIs`), an average between least and greatest (`AverageIs`), the buckets of the
  chart (`BucketsAre`). Sorting by time is the counting of what comes
  before; that this gives each row a place of its own is `Ranked`.

Sums have a proof by induction. The library's induction theorems take an operator
as their parameter, which the provers can not instantiate; the lemma `Induction`
has a set in its place (from `WFMin`, that a well-founded relation has minimal
elements), and a sum is bounded by showing that the set of lengths for which it is
holds all natural numbers (`SumBetween`).

What is assumed of the constants, besides types and positive limits: `PlanIsSound`
needs pools that begin after the address of the network (`Starts`; `dhcp_start` is at
least 1, `command_network.py:337`); `LimitsKept` limits of at least one
(`max_runs_per_hour`); `LogAgrees` a log that keeps an entry (`Retention`, 200 in the
code); `RatesAreTrue` a chart with a point and traffic that is not negative.
Session 0 is none, and sets over which the code loops are finite.

Theorems that state a property which no run lists by that name (`Inductive`,
`RotationInv`, `UpdateInv`, `BackupUsable`, bounded deliveries, those of BrokerProofs,
`NeverLater`, `RecordsRun`) are in `PROJECT.json` without one; their consequences are
what the runs check.

Only model-checked: the liveness properties (`EventuallySettled` of both
modules, `PromptDelivery`, `ShellEnds`), which the prover does not handle.

## What was found

Each is a run that ends in a counterexample to a sentence of the documentation
or of a comment; `PROJECT.json` quotes it.

- `lifecycle_unconfirmed_run`: the daemon looks at the HTTP code of the
  acknowledgement only, so a command that has expired is executed.
- `lifecycle_lost_result`: a final report that is lost is kept for sending it
  again, but nothing does.
- `update_interrupted`: after a power cut between the pointer and the entry
  point the old entry point does not look at its alias, and does not start.
- `command_repeated_request`: of two requests with one idempotency key the second
  is answered 500, since the flush that fails is outside the handler's `try`.
- `session_network_loss`: the app takes a lost connection during a renewal for a
  refusal and returns to the login.
- `preview_in_part`: `web_device_command_preview` does not read the ports and addresses of a
  segment, the id of a VLAN and the hosts of multi-WAN. The page shows a segment or
  multi-WAN with defaults in their place and sends what was entered; a VLAN it refuses.

## Where the guarantees end

The conditions of the passing runs and of the theorems are needed. Each entry
says what the code does without one, and which change of a configuration makes
TLC show it.

- A verdict may be revised. A result handler that read its row before an expiry
  overwrites the stored terminal status (`Commit`), which is why `Decide` of
  `CommandContract` may revise one.
- `SuccessIsApplied` needs disjoint files: a verifier that times out copies
  whole files back over a later confirmed change (`ConfigReboot.cfg` with
  `MaxExits = 0` and that invariant).
- It needs a history without exits: recovery hands a transaction that was
  interrupted before its handler was done to a verifier, which confirms it as
  soon as the server answers (the property without `exits = 0`, in
  `ConfigExclusive.cfg`).
- `RolledBackIsUndone` needs disjoint files: copies taken while another change is
  unverified bring that change back (`ConfigReboot.cfg` with that invariant).
- `VerdictMatchesState` and `SettledForGood` need exits that kill the verifiers:
  after a restart of the daemon two verifiers can decide differently
  (`ConfigReboot.cfg` with `Exits = {"reboot", "restart"}`).
- `BackupUsable` needs backups that do not fail: `prepare_backup` writes into the
  place of the last backup, and the half of one that failed is accepted by a
  later rollback (`Agent.cfg` with `Mishaps = {"backup"}` and that invariant).
- `OneLossSurvived` speaks of one lost answer. The server keeps the token it
  replaces, not the one the request came with: after a lost rotation the
  roll-back of the next one is refused, since the kept token is the lost one.
- `TelemetryTold` (`PagesAreTold`) has no counterpart for the command journal. The page's script
  answers `snapshot` and `resync_required` by loading telemetry (`Loads`), so
  what changed in the journal during a reconnect stays unknown until the next
  event of a command.
- `NoMissedWakeup` and `TelemetryTold` exempt what was not announced to the
  listener: everything during an outage, and expiry and requeueing always.

Later modules name their exceptions in the property itself, as history variables
(`revived`, `loose`, `mingled`, `astray`, `blind`) or as conditions:

- Incidents: an acknowledgement that read the record before it was resolved takes it up
  again, and housekeeping overwrites a status it has not just read (`revived`); it
  also opens a critical incident for a router that was provisioned and never came online.
  A repetition of an alert, and so the next report, ends its snooze and its
  acknowledgement (`events.py:405-408`; `docs/events-and-automation.md:7` says it can be put
  off for an hour): `SnoozeHolds` of `Incidents` fails.
- Automations: the hourly limit counts runs that are queued or dry, so runs that were
  answered no longer count (`events.py:319`; `docs/events-and-automation.md:53` says
  per hour); reports under way at the same time overwrite each other's
  `last_triggered_at`; a run whose command expires stays "queued".
- Policies: a `client.set_policy` whose delivery was lost, or whose request took its
  `created_at` first and committed last (`late`), may run after a newer one, and the page
  goes on saying "applied". Changes that queue nothing (`update_client`, `delete_client`) and
  interfaces telemetry does not tell of are not asked for. Two requests that race each
  write only the columns they changed (`clients.py:96`), so one that gives a profile and one
  that sets a policy leave a mix that no command asks for; `WantedIsAsked` promises
  nothing from a commit that another has overtaken to the next one that none has (`loose`).
- Order: a command whose delivery was lost, or that was committed after a later one had
  been handed out (`belated`), is executed after it.
- Terminal: `ShellEnds` excepts a shell that may still print (`Prints`). Every frame extends
  `expires_at` by half an hour (`terminal_broker.py:117`), so a session whose server stopped
  before it was closed, or one that a late status connected again, lives as long as its
  shell prints (`ShellEnds` without `Prints` fails).
- Telemetry: reports that are sent again come after newer ones and are dated on
  arrival, so they make spikes in the chart, and the newest snapshot is an old one
  until the next report; what a dying agent was sending is left in its file.
- Health: a high load raises an alert without an item; a status of the agent other
  than "running" hides a lost connection.
- Preflight: `network.set_lan` is not compared with the segments; a LAN whose address
  carries its mask is skipped by the overlap check; commands of groups and automations
  are checked without a report; two changes checked against one report may conflict.
- Forms: the preview reads fewer fields than the command (14 are left out; see
  `preview_in_part`). It does not tell the selectors `interface`, `radio` and `iface`, though
  for some commands (`network.set_route`) they are values, nor what the router reported
  with that value; it shows the archive of a restore, which is secret in the catalogue.
- Sessions: a refresh answer that is lost, or that arrives after a logout and a new
  login, leaves the app with a token the server refuses (`astray`); a lost answer to
  an exchange leaves a session nobody holds.
- Offers: a roll-back with automatic updates on is undone by the next check or report;
  a server older than the source of the agent's files asks in vain every hour; a
  command that was created with `allow_downgrade` for 0.9.0 may lower the agent
  that has replaced it.
- Backups: a damaged copy passes `verify`, only the drill reads it; a restore is not one
  transaction, so one that fails leaves half a database, until a restore succeeds.
- Certification: `--resume --deploy-worktree` puts the fingerprint of today's agent on
  results of an earlier one (`CertifiedUnlessMerged` excepts such reports).

## Not modelled

- Wi-Fi QR broker: one dictionary in memory, under a lock, for 30 seconds.
- Lock of the agent (`common.sh`): one daemon is assumed. A second one that starts
  between `mkdir` and the pid file finds no owner; `PROJECT.json` lists it as a hazard.
- Delivery of notifications, WAN transitions, the login guard, the first owner, archiving of
  devices, update lock, downloads and signatures.
- Handlers and collectors of the agent, the installer, hardware and firmware
  catalogues, templates, audit and metrics, presentation on Android: I/O, data of a
  single step or presentation, without a protocol of their own.

## Limits

- Statements are atomic at READ COMMITTED; a failing database is modelled where a
  handler catches it (`WriteFails`, `Deadlocked`), not elsewhere.
- Left out of the lifecycle: eviction from the journal, archived devices, several
  devices (their polls are there as `RequeueByOtherDevice`).
- Left out of `LongPoll`: several server processes (each has its own listener,
  generations and queues), the Android client, `event.created`, the fallback
  timer of the live chart. Expiry and requeueing are not announced by the code;
  the properties are about announced changes.
- Left out of the update: a rollback from the command line beside an update, the init
  script (switched with the entry point). The copies of a restore are assumed to succeed
  (the shell goes on when one fails, since `if ! restore_backup_files` suspends `set -e`).
  `UpdateOffers` takes an installation as one step and compares numbers, not the strings
  of versions; the option that always allows older versions is off.
- A configuration change is the set of files it touches; services and UCI
  contents are not modelled. `NothingToChange` counts as applied.
- `DatabaseBackups` has one restore at a time, with the application stopped, as the utility
  asks; schema changes between dump and restore are left out.
- Values of payloads are classes, networks small numbers, measurements the ranges between
  thresholds. Hashing and wording are left out.
- Liveness under fairness and `ENABLED` are outside what the prover handles. No
  recursive operator is used (the sum of an average is a recursive function).
