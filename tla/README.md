# Orqara: a verification development

Orqara runs a daemon (`packages/server`) that manages coding agents in
workspaces for clients (app, desktop, command line, plugins). This directory
holds TLA+ specifications of its own protocol logic, in the daemon and in the
application and the relay where they take part in it, model checking runs for
TLC, and proofs checked by TLAPS. Paths below are relative to
`packages/server/src/` unless they start with `packages/` or `docs/`.

## Inventory

Every component is listed in `PROJECT.json` with its status. The ones that hold
the program's own protocol logic:

| Component | State it keeps | Operations | What is hard | What makes it correct |
|---|---|---|---|---|
| Task service `tasks/task-service.ts` | SQLite tables `tasks`, `task_commands`, `task_evidence`; running checks in memory | create, command (start, accept, retry, cancel), verify, failStart, close | repeated and racing commands, checks that overlap each other and commands, a crash during a check | a command takes effect at most once and only at the revision it names; a task is accepted only on a passing check; every row is explained by a receipt or an evidence row |
| Task coordinator in a session `server/session.ts` | request handlers in progress | handleTaskCreate/Verify/CommandRequest, verifyFinishedTask | handlers of several sessions interleave at every await; launch failures; crash between commit and launch | one agent per start; a running task has somebody who works on it; a finished turn is verified |
| Agent request journal `server/agent/requests` | one receipt file per key; a promise chain per key | create, send | repeated requests, crash with the outcome unknown | a creation is never duplicated and never forgotten |
| Verification `tasks/verification.ts` | a disposable checkout | capture, materialize, run, recapture | the worktree is edited meanwhile, by the agent or the user | a pass is about the captured content |
| Schedule service and store `server/schedule` | one JSON file per schedule with its runs; runningScheduleIds in memory | create, createOrReplace, pause, resume, update, delete, runOnce, tick, run, recovery | ticks overlap each other and every mutation; a crash during a run | no two runs at once, no run of a paused schedule, at most maxRuns runs, no run left running for ever |
| Agent manager `server/agent/agent-manager.ts` | agents, their foreground run and turn, one queue of provider events and one lane of mutations per agent | createAgent, streamAgent, replaceAgentRun, cancelAgentRun, steer, archive, resume | turn events of a replaced run, events before the start has returned, cancel racing completion | one foreground turn per agent, and it is its waiter's; every call is answered; what is shown is what is |
| Timeline store `server/agent/agent-timeline-store.ts` and its synchronisation in the application `packages/app/src/timeline` | rows with sequence numbers per epoch; a client's range, catch-up, cache and subscription | append, fetch, replace; live rows, pages, tails, catch-ups and their retries | live rows and pages out of order, cursors from an old epoch, requests that outlive their connection | a client's copy has no hole, and a catch-up that says it is complete has missed nothing |
| WebSocket server `server/websocket-server.ts` | sessions, sockets, reconnect timers | hello, attach, detach, cleanup | reconnect racing the 90 s grace timer | one session per client key; nothing delivered to a dead one |
| Hub relationship `server/hub` | relationship file, retry state, executions | enrol, retry, revoke, execute | retries racing revocation | one live relationship; an execution ends |
| Relay `packages/relay/src` with the daemon's `server/relay-transport.ts` | sockets and kept frames of each connection; control and data sockets; handshake state | accept, forward, keep, flush, nudge; open and drop data sockets; hello, ready, send | half-open control sockets, restarts under an open client, retransmitted hellos, frames before the key | messages delivered in order and once; a client that keeps trying gets through |
| Daemon client `packages/client/src/daemon-client.ts` | pending requests, subscriptions, backoff | connect, request, dispose | answers after reconnect | every request settles once |
| Workspace labels, registry, archive, reconciliation, git service | JSON records and caches | mutations, observation | stale observations | records agree with worktrees |
| Git process scheduler `utils/git-process-scheduler.ts` and `utils/run-git-command.ts` | two queues and counters; per command a child, a timer and a promise | run, drain, execute; spawn, exit, close, time out | the caller's answer and the end of the process come apart | never more processes than the policy; no call is forgotten |
| Managed processes, pid lock, terminals, file observers, browser tools, plugins | ownership files, buffers | see `PROJECT.json` | process death | single owner |

Components interact as follows. A client session is an object in the daemon that
receives requests over WebSocket (directly or through the relay), calls the
shared services (task service, request journal, agent manager, schedule service)
and subscribes to the agent manager's events. The services are shared by all
sessions and interleave at the awaits of the single JavaScript thread; SQLite
transactions are synchronous and so atomic. Files are replaced atomically. The
application keeps its own copy of an agent's timeline, from live events and from
pages it fetches; over the relay, every one of its connections is a pair of
sockets, one to the client and one that the daemon opens when its control socket
tells it of the client.

## Modules

| Module | Models | Extends / uses |
|---|---|---|
| `TaskRegister` | abstract: what clients are promised of a task, a register with a revision and a lifecycle | |
| `TaskService` | `tasks/task-service.ts`: the three tables and every method that writes them | implements `TaskRegister` |
| `TaskCoordinator` | the session's task handlers, the request journal, launches, turn ends, sessions and crashes | extends `TaskService` |
| `TaskVerification` | `tasks/verification.ts`: one run of a check, read by read, beside edits of the worktree | |
| `ScheduleService` | `server/schedule`: the schedule files, ticks, runs, commands and recovery | |
| `GitProcessScheduler` | `utils/git-process-scheduler.ts`: the queues and counters, as operators on the scheduler's state | |
| `GitCommand` | `utils/run-git-command.ts`: git commands, their children and timers over the scheduler | extends `GitProcessScheduler` |
| `AgentRuns` | `server/agent/agent-manager.ts`, `agent-run-state.ts`: the runs of one agent, its prompts and stops, and the provider | |
| `CatchUp` | the catch-up of one viewed agent (`viewed-timeline-sync.ts`), as operators | |
| `TimelineReducer` | the daemon's timeline store and the client's reducers of rows and pages, as operators | extends `CatchUp` |
| `TimelineSync` | the daemon, the connection and the client's handlers around them | extends `TimelineReducer` |
| `RelayChannel` | the relay's durable object, the daemon's control and data sockets, the handshake | |
| `TaskCoordinatorProofs`, `TaskVerificationProofs`, `ScheduleServiceProofs`, `GitCommandProofs`, `AgentRunsProofs`, `RelayChannelProofs`, `TimelineSyncProofs` | theorems | extend the module they are about (`TaskCoordinatorProofs` is about `TaskService` too) |
| `TimelineCompleteProofs` | the theorem about complete catch-ups | extends `TimelineSyncProofs` |
| `MC...` | constants of the runs | extend the module they are about |

### TaskService and the code

`task`, `receipts` and `evidence` are the three tables, functions from primary
key to row; `jobs` is `activeVerifications`. Each action is one method from its
first read to its COMMIT, with the checks in the order of the code: `Create`,
`ApplyCommand` (guard `Commandable`, which is the error ladder of `command`),
`ClaimVerification` and `CompleteVerification` (the two transactions around the
check), `FailStart`, `Reopen` (a new daemon on the same file; the constructor
repairs nothing). Calls that change nothing (a replay, a conflict, a stale
revision) are stutters. Fields `claimed`, `finished`, `expected` and `agent` of
evidence rows and receipts record history for the properties; no guard of a
method reads `claimed`, `finished` or `agent`, and `expected` stands for the
part of the request hash that matters.

`TaskRegister` is the abstract specification. A request names a task, an action
and the revision the client has seen, any revision so far; the register's
`Command` takes effect only when that is its own revision, once per command id
and along the action's edge, and records the request in `effects`. The
refinement maps `effects` to the receipts (`Effect`), which keep what the client
sent: a `command` that did not compare the named revision would leave a receipt
that no step of the register explains. The daemon itself may move a task into
verification from any state and publish a verdict in any state, because `verify`
and `completeVerification` look at neither status nor revision.

### TaskCoordinator and the code

`ops[s]` is a request handler between two awaits, `stage` its place in
`handleTaskCommandRequest` and `AgentRequests.executeOnce`, or
`handleTaskVerifyRequest`. `journal` holds the receipt files, `agents` which ids
were minted and which agents exist (in memory or in storage, as `findAgent`
asks), `inbox` the running `verifyFinishedTask` calls, one per session and turn,
`connected` the sessions subscribed to agent events. `Crash` keeps SQLite, the
journal and agent storage and drops the rest. Calls of one journal key exclude
each other (the promise chain of `execute`); the model lets waiting calls go on
in any order, which includes the order of the chain. A launch may throw before
the agent exists (worktree, provider) or after (its first prompt could not be
sent). Two things are abstracted: the workspace is registered and trusted (the
automation gate lets it through), and a request of the client names a revision
the client has seen.

### TaskVerification and the code

`TaskService` takes the outcome of a check as given; this module is how it comes
about. A capture is a sequence of reads, each its own step (`ReadHead`,
`ReadDiff`, `ListFiles`, `ReadFile` in the order of the list), and so is the
copy of the untracked files into the checkout; an edit may fall between any two:
`Edit` writes new content or takes a file away, and `Restore` (an undo, a stash,
a checkout) brings back content of an earlier moment. `stage` is the place in
`runVerification`. The command's fate is `CommandExits`, which may leave a
process behind that holds the output (`left`); the run goes on at the close
event (`Closed`), which needs the output closed as well. `TimerFires` and
`KillTree` are the timer and `terminateWithTreeKill`, which does nothing for a
shell that has exited. Contents are version numbers, so that equal contents are
equal versions, and `restored` records that an old version has come back: two
equal captures are all the code knows of the time between them, so
`VerdictIsOfOneState` speaks of runs in which none has.

### ScheduleService and the code

`store` is the directory of schedule files, `running` is `runningScheduleIds`,
`acts[a]` a tick or `runOnce` call between two awaits, with the row or list it
has read (`seen`) and the moment it took as now. `Proceed` is the part of the
loop in `tick` from one await to the next. The actions that write the store are
its serialized updates, one step each: `AppendRun`, `FinishRun` (with `Finished`
for the whole ladder of `finishRun`), `TickCompletes`, the clients' commands and
`RecoverSchedule`. `runSchedule` is `AppendRun` followed by `FinishRun`, for
ticks and requests alike. A schedule is served (`Serving`) once `start` has
recovered all of them: the daemon listens and sets the timer only then. The list
of a tick is taken as read in one step. One period stands for the cadence of all
schedules; of a cron expression this keeps that its next time is later. A run in
the file is its status and the slot it is for.

### GitProcessScheduler, GitCommand and the code

The fields of the scheduler are one record (`queue` with the two priorities and
what p-throttle holds, `admitted`, `running`, `waiting`, `drain`), and each of
its methods an operator from that record to the next: `Run`, `ScheduleDrain`,
`DrainOne`, `Begin` and `Release` (the two ends of `execute`). p-throttle is
external: it starts what it was given in order, whenever it likes. `GitCommand`
adds the child, the timer and the promise of each command; its actions are the
callbacks of `setImmediate`, of the timer and of the child, with the microtasks
that follow. A child that could not be spawned emits an error and a close but no
exit. Output is only whether it went over the limit.

### AgentRuns and the code

`agent` is the fields of a `ManagedAgent` that runs touch (with `shown`, the
lifecycle last published), `run` the tracked run of `AgentRunState`, `staged`
and `queue` the provider's events before the start has returned and before they
are dispatched, `lane` the chain of foreground mutations, `call[c]` the place of
a prompt or a stop. Requests, timers and the provider come in when nothing is
ready to go on (`Quiet`), as macrotasks do; what is ready goes on in any order,
but for the one order the code's promise chain fixes. `Handled` is
`handleStreamEvent` with its dispatch; `SettlementTimesOut` is the end of the
wait in `cancelAgentRunNow`. Every event of the provider carries the id of its
turn, and a turn starts with a "started" event; of turns the provider begins by
itself (`BeginsAlone`) there is one only while none is alive. Steering,
`waitForAgentRunStart`, permissions, reload, rewind and calls that come after a
close are not modelled.

### CatchUp, TimelineReducer, TimelineSync and the code

A row is its epoch and sequence number. `CatchUp` is the entry of one agent in
the maps of `viewed-timeline-sync.ts`: the status and generation of its catch-up
(a fetch knows whether it still owns it), the parked request, the cache, the
retry timer. `TimelineReducer` holds the store's pages (`PageAnswered`) and what
the client's reducers make of events and pages (`BatchApplied`, `PageApplied`).
`TimelineSync` composes them with the daemon (`Append1`, `Replace`,
`HandleSubscribe`, `HandleFetch`), an ordered connection that may be lost, and
the client's handlers, each one action from the message to its last `await`.
Rows wait in `stream` for the next frame, and a page applies them first. One
answer may be waited for by several fetches (a request that somebody waits for
is not sent again, `Launched`): those of the latest tail go on first, as they
were asked first, and may complete the entry before the fetch that owns it goes
on (`Continued`).

Requests wait in `asked` and are handled in the order they were sent in: the
socket is ordered, the daemon starts the handlers of a socket's messages in the
order of the messages (`websocket-server.ts:2225`), `set_subscription` answers
without an await, and `fetch_agent_timeline` awaits only the loading of the
agent, which concurrent callers share (`agent-loading.ts:62`) and which
continues them in the order they came. A client gives a request up after a
minute (`FetchTimesOut`, `SubscriptionFails`): whoever waited fails, the request
and its answer stay under way as ones nobody waits for, and the answer is
applied when it comes. Any request may be given up or be answered with an error,
whoever waits for it. The catch-up tries again; the tail that a replacement
notice makes the client fetch is tried again by nobody
(`session-context.tsx:562`, which only logs the failure). `lapsed` records that
this has happened on the present connection with no catch-up waiting for the
same answer (`NobodyRetries`), and `Unreplaced` is the state it may leave
behind: the client still holds the timeline that was replaced.
`CompleteMissedNothing` and `BecomesCurrent` except that state and nothing else.
The agent stays visible and the application active; older pages, optimistic
prompts and the merging of rows for display are left out.

### RelayChannel and the code

`relay[c]` is what the durable object holds for a connection (the client's and
the daemon's sockets, kept frames, the nudge timers of
`nudgeOrResetControlForConnection`); a socket that is being closed is still
listed until its close event. `control` and `data[c]` are the daemon's sockets,
with what is on its way to them; `client[c]`, `up[c]` and `down[c]` are the
client's end. `ControlHandles` is the message handler of the control socket with
`ensureClientDataSocket`; `FirstFrame`, `NextFrame`, `AnswerSent` and
`ChannelFrame` are `createDaemonChannel` and `handleMessage`. A frame is a hello
or the n-th message of its client. A client that reconnects gets a fresh
connection id; the model uses the name again and forgets what was left of the
former one (so a data socket that nobody will close, see below, is out of its
view). Timers have no durations, but they are long and messages are quick: the
client's connect timeout, which counts from its socket, and the relay's reset
come in any order, and both only when nothing is on its way that would open the
data socket (`Stalled`). Left out: messages of the daemon (they take the way of
its answers), messages queued before the channel is open (the application sends
none), keys that do not match (they close the channel), version 1 of the relay
and several sockets of one connection.

## Runs

| Run | Bounds | Shows |
|---|---|---|
| `service_one` | 1 task, 3 command ids, 1 agent | a full lifecycle (start, failure, retry, or start, pass, accept) with up to three checks that interleave with it; rows stay explained, acceptance rests on a pass, revisions are unique, the register is implemented |
| `daemon_crash` | 1 task, 2 command ids, 2 agents, 2 handlers at once, 1 crash | the journal invariant: two handlers are enough for every race of two calls of a key or of two keys, two agents for a second launch |
| `daemon_live` | 1 command id, 2 agents, 2 handlers, 1 turn per agent, no crash | handlers end, checks end, a handled turn leads to a check |
| `verify_edited` | 2 untracked files, 2 edits | every verdict but stale is about one state of the worktree, unless earlier content has come back; the run ends |
| `schedule_any` | 2 schedules, 2 ticks, 1 request, 3 commands, 1 crash, 2 moments, limits and expiries of 1 or none | one run at a time and none without somebody who waits for it; no next time without being active; completion and history stay |
| `schedule_live` | 2 schedules, 2 ticks | a due schedule is served while another one's run never ends |
| `git_three` | 3 commands, 2 slots | counters are exact, processes bounded, no wakeup lost, every caller answered, and no child left behind that was not killed |
| `timeline_one` | pages of 1 row, 3 rows, 2 epochs, 1 fault (a lost connection, an error or a timeout) | no hole, an end that never retreats, nothing missed when complete, and in the end current, but for the tail of a notice that has failed alone |
| `agent_two` | 2 prompts, 1 stop, 2 turns | the caller that waits is the one the agent works for; what is shown is true; every call is answered |
| `relay_one` | 1 client, 2 messages a connection, 2 hellos under way, 1 kept frame, 3 failures | messages arrive in order and without a hole; after any three failures the client gets through, although it may give up before the relay resets the control |
| `timeline_retry`, `agent_stuck` | the smallest instance that shows the behaviour | two places where the program does not do what is written (see Findings) |

Bounds are constants: `MaxTurns` (turns an agent completes), `MaxCrashes`,
`Slots` (handlers at a time); `IdsLeft` keeps an unused agent id for every start
that waits, since real ids are random and never run out. Revisions are bounded
by the command and evidence ids. Symmetry (of ids that are only compared) is
used only in runs without liveness. `MaxEdits` bounds the versions of a
worktree's parts: two are enough to tear a capture and to change a file after it
was read and once more after it was copied. `MaxTime`, `MaxCommands` and the
numbers of ticks and requests bound the schedules' runs: two ticks and a request
give every pair that can meet at one schedule, two schedules one that holds up
the other, and three commands a schedule that is created and then changed twice
around its run. Three git commands over two slots are one that runs, one that is
admitted and one that waits. Pages of one row make three rows a catch-up of
several pages with live rows between them; `MaxFaults` bounds lost connections,
requests that fail or time out and failed subscriptions together, and two epochs
are one replacement. The safety properties of `timeline_one` also hold with
pages of 2 rows, with 4 rows, with 2 faults (1.3 million states) and, over 2
rows, with 3 faults. Two prompts and a stop are a replacement with a stop
before, in or after it. `PendingLimit` 1 with two hellos under way reaches the
limit of the kept frames (200 in the code); three failures are, for instance, a
half-open control, a data socket that is refused and a crash on the way back.

Deadlock is checked in the task, verification and schedule runs. In the others
the system may stop: commands, prompts, rows or messages are bounded and the
last one has been dealt with.

Fairness (`FairSpec`): weak fairness of each handler's next step, of turn
handlers and of each running check. A JavaScript promise that can settle does;
`runVerification` ends because its child is killed at the timeout; provider
launches are assumed to return or throw. No fairness is assumed of clients,
connections, turns or crashes. That a check ends is what `verify_edited` shows
(`RunEnds`, from weak fairness of the run's own steps: git commands and copies
return, the timer fires, the kill works, and nothing is assumed to fail but the
read of a file that is gone), under the condition that processes the command
leaves behind do not hold its output for ever; the command itself need not end.
`schedule_live` assumes that the timer fires and that the store answers; runs
need not end. `git_three` assumes `setImmediate` and timers, that p-throttle
starts what it holds, that a killed child exits and that a child that was not
spawned emits its events; a child need not exit by itself, nor its pipes close.
`agent_two` assumes the event loop, that `startTurn` and `interrupt` answer or
time out, and that the provider ends its turns. `timeline_one` assumes that the
daemon answers, the socket delivers and the client's frames, timers and
reconnection run; its three conditions are written out as weak fairness with the
enabling condition spelled. `relay_one` assumes that sockets deliver, that the
timers of the client, the relay and the daemon fire, and that the client says
hello again and reconnects. Its connect timeout may always come before the
relay's reset, so what ends a control that reaches nobody is the daemon's
keepalive (`ControlStale`: pings every 10 s, terminated after 30 s without a
sign of life, `relay-transport.ts:214`); without fairness of it the client would
connect and give up for ever. This is for a control that is half open between
the daemon and the relay's edge, where the pongs are lost like the messages. Of
one whose pings the edge answers while its durable object reaches nobody,
nothing is claimed.

## Findings

Two runs expect a violation. Each checks one sentence of the repository against
what the code does; `PROJECT.json` quotes it.

* `agent_stuck`: a stop while the start of a replacement is pending leaves the
  agent "running" with no run, until another prompt replaces the run that is not
  there.
* `timeline_retry`: a catch-up that the user retries with the request that
  failed, before the timeline is synced, takes its second page for a gap, drops
  it and reports the agent caught up with rows missing.

Further behaviours are visible in the models and not judged by a run.

* Tasks: the verdict of a check is written over whatever the task has become
  while the check ran, and an older check that overlaps a newer one may decide
  the status. Of two identical starts of which the first fails to launch, the
  second launches an agent the task row does not name. A crash between the
  commit of a start and its launch leaves the task running with an agent that
  does not exist, and it can be neither retried nor verified nor cancelled. A
  turn that completes while no client session exists is not verified by anyone.
* Verification: untracked files are copied from the live worktree after the
  capture, so a file that is edited and then restored is checked in a version
  the snapshot does not name, and the verdict is not stale: "Source changes
  during verification mark evidence stale" (`docs/architecture.md:26`) is not
  met there, because two equal captures are all that is compared
  (`verification.ts:197`). The deadline does not reach a process that outlives
  its shell and holds its output.
* Schedules: a tick decides from the list it read before it awaited other runs.
  A schedule that was paused, or that a later tick has run to completion,
  meanwhile, is run all the same, beyond `maxRuns` too.
* Git: a change of the policy replaces the scheduler
  (`server/bootstrap.ts:913`), so commands of the old one and of the new one
  together may exceed the bound. Calls of high priority can starve the others.
* Agents: while two replacements, or a replacement and a first start that fails,
  overlap, an agent may show idle although another call is about to start its
  turn. The active turn of an autonomous run may outlive the run.
* Timelines: after the await of the latest tail a superseded catch-up sets
  itself complete without asking whether it still owns the agent
  (`viewed-timeline-sync.ts:565`). The tail a replacement notice asks for is not
  tried again when it fails or times out (`session-context.tsx:562`): the client
  then shows the replaced timeline as complete and ready until a row of the new
  epoch, a catch-up or a new connection tells it better. A notice on a cold
  timeline keeps its painted old rows.
* Relay: the application's connect timeout of 15 s starts before the relay's
  first nudge at 10 s and its reset 5 s later, so that the reset usually finds
  no client any more and returns without one; the control is then left to the
  daemon's keepalive. A data socket that is still connecting while the control
  is lost and its client leaves is closed by nobody, and the daemon has no
  timeout for the handshake on it.

## Proofs

For all values of the constants and any bounds:

* `TaskCoordinatorProofs`, of the service: `ServiceTypeOK`, `EveryRowExplained`,
  `AcceptanceRestsOnEvidence`, `RevisionsAreUnique`, and that the service
  implements `TaskRegister` (commands at the revision they name included). Of
  the daemon: `TypeOK`, `JournalInv`, `OneAgentPerStart`, `RunningIsAttended`
  (as long as the daemon has not crashed), and that the daemon implements the
  service's specification (`DaemonUsesService`), from which acceptance on
  evidence, unique revisions and the register follow for the whole daemon.
* `TaskVerificationProofs`: `TypeOK`, and `VerdictIsOfOneState` for as long as
  no edit has brought earlier content back.
* `ScheduleServiceProofs`: `TypeOK`, `OneRunAtATime`, `NextIffActive` and the
  action property `HistoryStays`.
* `GitCommandProofs`: `TypeOK`, `CountsAreExact`, `ProcessesAreBounded`,
  `NoLostWakeup`, `AnsweredChildIsDying`.
* `AgentRunsProofs`: `TypeOK`, `WaiterIsCurrent`, `StateShown`, `IdleHasNoTurn`.
* `RelayChannelProofs`: `TypeOK` and `ChannelIsSound`.
* `TimelineSyncProofs`: `TypeOK`, `NoHole` and the action property
  `EndNeverRetreats`.
* `TimelineCompleteProofs`: `CompleteMissedNothing`, while no tail of a
  replacement notice has failed alone on the connection (`~lapsed`).

`EveryRowExplained` is inductive over type correctness: a step either leaves the
explaining receipt or evidence row alone or replaces the explanation together
with the row. `AcceptanceRestsOnEvidence` rests on it: a review-ready row is
explained by a passing verdict with the row's revision, an accept names that
revision, and finished verdicts never change. `OneAgentPerStart` is not
inductive; `JournalInv` strengthens it with what handlers inside `executeOnce`
rely on (the receipt they hold, alone; the committed start behind a launch),
with receipts naming distinct agents, and with the journal remembering every
agent that exists.

`RunningIsAttended` has two theorems. `AttendedUntilCrash` says of every
behaviour that it holds while `crashes = 0`, and `RunningAttended` that it holds
throughout when `MaxCrashes = 0`; a crash between the committed start and the
launch leaves a running task without an agent, which the daemon does not repair
(see the hazards). The invariant `AttendedInv` follows a start through the
handlers: a running task has an agent that lives, or a handler between commit
and launch that holds its receipt (`RunningHasAgent`), an agent that a completed
start names lives on (`CompletedAreLive`), and only a start makes a task run
(`OnlyStartsRun`).

`VerdictIsOfOneState` rests on the order of versions. As long as every version
written is new (`~restored`), what a run has read earlier is never newer than
what it reads later; `Inv` states this between capture, snapshot, checkout, the
worktree when the command started and the worktree now. When the second capture
equals the first, all that lies between is squeezed into equality. (When a
version comes back the argument ends, and so does the claim.)

`OneRunAtATime` needs of every actor what it holds at its await (`Placed`): who
is about to run a schedule has it marked, marks are exclusive because checking
and marking happen without an await between them, nobody is under way during
recovery, and recovery visits every schedule the crash has left. Because a
schedule never has two running runs, it does no harm that recovery ends only the
first one it finds. `HistoryStays` adds that rows are made in order (`Unborn`):
every write makes a row where none was, removes one, or replaces one by a row
that may come after it (`Later`), which the lemmas show of each ladder.

`CountsAreExact` counts slots against children, so its invariant says for every
command how its queue place, its child and its promise go together, and that no
command is queued twice; the lemmas about sequences without repetition carry
`Begin`, `DrainOne` and `Run`. `ProcessesAreBounded` follows from the counts,
because an admission is given back by the exit of its child alone.

`WaiterIsCurrent` is inductive with two facts about the run in the record
(`RunIsOfCaller`: a foreground run is that of a caller whose start is pending or
who streams its turn; `TurnsAreOwn`: no two calls share a turn, and a finalized
turn has been ended for its caller). An event names a turn, and either the turn
is the agent's, and then its waiter is told in the same step, or it changes
neither the foreground turn nor a foreground run.

`ChannelIsSound` is about the frames of a connection: hellos, then the messages,
numbered by their client from 1. Its invariant gives every frame under way a
place (`LinkOf`, with `Flow`): read from the daemon outward, what the opening
channel has buffered, the data socket's inbox, what the relay keeps and what is
in `up` follow each other without a hole behind some k-th frame, those up to the
0-th being hellos and the others the messages of these numbers, up to the last
one sent. An open channel has received the first k messages and nothing else; a
frame that is lost with a socket only moves k on, and a channel that is being
answered has k at most 0. A client that has had no answer has sent hellos alone
(`Quiet`), so that a first frame that is none comes to a replaced socket, or to
a connection that is being closed. Buffers are filtered by recursive functions
over positions, and what these compute is shown by induction (`Induction`, from
the library's `WFMin` and `NatLessThanWellFounded`, which have no operator
parameter): `MessagesNumbered` says that a buffer's messages are its numbered
frames in order.

`NoHole` and `EndNeverRetreats` rest on an order. Rows are ordered by epoch and
sequence number; rows and answers travel in the order in which the store made
them (`InOrder`), and what the client holds is behind all that is still on its
way (`Behind`). An "after" page therefore brings nothing older than its
request's row, and a live row is never older than a row that is held. The other
half is where requests come from (`RequestOK`): each one, whether sent, kept by
a fetch, parked or about to be retried, goes on from a row the client knows;
before the timeline is authoritative from the cached position alone; and while
the client holds nothing, only from an old epoch, so that the answer resets it.
Then a page joins what is held, replaces it, or is dropped (`PageApplies`). A
batch of live rows and the recoveries it asks for are followed by induction over
the batch (`BatchLengthens`, `FlushExists`), and the operators of `CatchUp` once
for all handlers, over the sets of fetches and requests that a timeline allows
(`Jobs`, `Pendings`). `EndNeverRetreats` comes from the same steps: each moves
the end forward in the order of rows (`Further`).

`CompleteMissedNothing` looks at the state when the client calls itself caught
up; everything that could have gone wrong lies before, and what could still go
wrong is on its way. Its invariant, `CompleteInv`, adds three parts to the one
above.

* What is under way is one line (`Line`): the answers on their way to the
  client, then the requests on their way to the daemon, which are answered in
  this order. An entry that `extends` is a page after a row of the current
  epoch: it is the one kind of answer that can leave the timeline detached from
  its end. `PairOK` says which entry may stand behind which: behind an answer
  that is waited for, no entry extends the timeline unless it goes on from a
  later row and the answer is not that of the catch-up's owner; so, when the
  owner is answered and the catch-up becomes complete, nothing that is left in
  the line takes that back (`Quiet`, `Harmless`). And nothing ahead of a tail
  that its waiters may lose extends the timeline. Lines change by entries that
  leave, come last, fail, or are given up, and the lemmas about `Taking`,
  `TakesOn` and `GoesOn` show once for all handlers that the pairs are kept.
* Rows lead on (`PageLeads`): from the end of each page on its way, the rows on
  their way behind it go without a gap to the end of the store, unless a
  replacement notice is among them. This is where the daemon's order counts, an
  answer is read of the store in the step that sends it, and where a lost
  connection is allowed for: the rows appended while nobody listens are behind
  no page, because a connection takes the pages under way with it. `Missed`,
  which is the property seen from the timeline's end rather than after the queue
  has been applied, is kept by a new row, made by the page that settles the
  timeline, and suspended by a notice until its tail has been asked for.
* A client waits for one acknowledgement at a time (`Lone`), that of the
  subscription it has asked for, and the daemon sends nothing to a client that
  has not subscribed (`Relayed`).

All three hold while `lapsed` does not; from then on only `Inv` is claimed,
until the connection is lost and its line, its catch-up and its notices with it
(`DisconnectCaught`). A notice's tail counts where it is given up or fails
together with a catch-up's: then the owner of the catch-up fails too, and asks
again.

The fallback to the latest tail needs a fact of its own (`LatestOK`): while it
is waited for, the forced reset is still recorded or the timeline is already
authoritative, and no gap is met in the queue. The induction over a batch of
rows (`BatchWalks`, `Leads`) then takes the rows on their way, one after the
other (`RowsInOrder`), to the end of the store (`CaughtImplies`).

The proofs assume only that `None` and `Null` are no ids or numbers, that the
bounds are naturals (the epochs at least one), that limits and expiries are what
the code accepts and that a period is positive; the assumptions are named in the
modules and evaluated by TLC on every run. `RunningAttended` alone has a
hypothesis of its own, that `MaxCrashes = 0`, which states what it is about.

Model checked only: liveness (`HandlersEnd`, `VerifyingEnds`,
`HandledTurnIsVerified`, `RunEnds`, `DueIsServed`, `EveryCallAnswered`,
`BecomesCurrent`, `EveryClientGetsThrough`), which needs fairness and ENABLED.
`UserRetry` is a step of `RetrySpec` alone (the run `timeline_retry`, see
Findings); the theorems about the timeline are of `Spec`.

## Not modelled

`PROJECT.json` lists every component. Left out on purpose: the user interface,
desktop and command line (clients of the protocol), provider adapters
(translations of data), forges, speech and push notifications (pure I/O),
configuration and permission tables. In the modelled parts: failures of the disk
and of SQLite itself, the automation gate's answer (a registered and trusted
workspace is assumed), ignored files of a worktree, workspaces and agents of
schedule runs, the calendar arithmetic of cron expressions, and text of any
kind.

What is not modelled although it has state of its own, and would come next:
`AgentRequests.send` with its prepare step; the agent manager's steering,
permissions and archive; the sessions of the WebSocket server and the pending
requests of the daemon client (attach, grace timer, resume, settlement); the hub
relationship; workspace labels, registry, archive and reconciliation; the
workspace git service's observations; the daemon's pid lock; terminals and their
output; coalescing of timeline rows; and the topological order of
`tasks/execution-order.ts` as a pure algorithm. Most of the repository's lines
are the user interface, the provider adapters, the message schemas and the
command line, which translate data and keep no protocol state that these
properties could be about; they are why the modelled share of the lines is
small.


