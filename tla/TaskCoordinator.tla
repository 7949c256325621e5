--------------------------- MODULE TaskCoordinator ---------------------------
(***************************************************************************)
(* The daemon around TaskService: the request handlers of the client       *)
(* sessions (server/session.ts, handleTask...Request), the keyed journal   *)
(* of agent creations all sessions share (server/agent/requests/index.ts), *)
(* the launch of a task's agent, and the handler every session runs when   *)
(* an agent's turn completes (verifyFinishedTask).                         *)
(*                                                                         *)
(* A handler is cut at its awaits: what it read before one is a field of   *)
(* its record, and every other handler may run before it goes on.  SQLite, *)
(* the journal directory and the agent storage survive a crash; handlers,  *)
(* running checks and sessions do not.  A handler whose request changes    *)
(* nothing (a replay, a conflict, a stale revision) is a step only where   *)
(* its outcome matters to another one.                                     *)
(***************************************************************************)
EXTENDS TaskService

CONSTANTS Slots,        \* bound: start and verify requests handled at a time
          Sessions,     \* client sessions of the daemon
          MaxCrashes    \* bound: crashes of the daemon

ASSUME CrashBound == MaxCrashes \in Nat

VARIABLES ops,        \* ops[s]: the request handler in slot s
          journal,    \* receipt files of AgentRequests, by task and command id
          agents,     \* agent storage: which ids were taken, which agents exist
          turns,      \* turns[a]: turns agent a has completed
          inbox,      \* verifyFinishedTask calls in progress
          connected,  \* sessions that receive agent events
          crashes

hostVars == <<ops, journal, agents, turns, inbox, connected, crashes>>
vars == <<serviceVars, hostVars>>

Keys == Tasks \X Commands

Idle == [stage |-> "idle", task |-> None, command |-> None, expected |-> 0, agent |-> None]
NoRow == [state |-> "absent", expected |-> 0, agent |-> None]
NoAgent == [state |-> "unused", task |-> None, command |-> None]
Minted == [state |-> "minted", task |-> None, command |-> None]

\* executeOnce runs one call per key at a time: these stages are inside it.
Inside == {"committing", "launching", "failing", "undoing", "settling"}

Op == [stage : {"waiting", "verifying"}, task : Tasks, command : Commands,
       expected : Nat, agent : Agents \cup {None}]
      \cup [stage : Inside \cup {"replying"}, task : Tasks, command : Commands,
            expected : Nat, agent : Agents]
JournalRow == [state : {"pending", "completed"}, expected : Nat, agent : Agents]
AgentRow == [state : {"live"}, task : Tasks, command : Commands]
TurnHandler == [session : Sessions, agent : Agents, turn : 1 .. MaxTurns,
                stage : {"new", "checked"}]

Init == /\ ServiceInit
        /\ ops = [s \in Slots |-> Idle]
        /\ journal = [k \in Keys |-> NoRow]
        /\ agents = [a \in Agents |-> NoAgent]
        /\ turns = [a \in Agents |-> 0]
        /\ inbox = {}
        /\ connected = {}
        /\ crashes = 0

-----------------------------------------------------------------------------
(* Helpers. *)

Live(a) == agents[a].state = "live"       \* findAgent: in memory or in storage
Key(s) == <<ops[s].task, ops[s].command>>

\* Mutant of KeyFree: a call also waits for the calls that wait, itself included.
KeyFree_Waiting(k) == \A s \in Slots : ops[s].stage # "idle" => Key(s) # k

KeyFree(k) == \A s \in Slots : ops[s].stage \in Inside => Key(s) # k

\* The handler in slot s goes on to a stage, still the same request's.
Continues(s, stage, agent) ==
    ops' = [ops EXCEPT ![s] =
        [stage |-> stage, task |-> ops[s].task, command |-> ops[s].command,
         expected |-> ops[s].expected, agent |-> agent]]
Goes(s, stage) == Continues(s, stage, ops[s].agent)

\* The receipt file of a key is rewritten as completed.
Completes(k) == journal' = [journal EXCEPT ![k] =
    [state |-> "completed", expected |-> journal[k].expected, agent |-> journal[k].agent]]

Ends(s) == ops' = [ops EXCEPT ![s] = Idle]

\* command() called with an outcome the caller does not branch on.
Issue(t, c, expected, action, agent) ==
    IF Commandable(t, c, expected, action, agent)
    THEN ApplyCommand(t, c, expected, action, agent)
    ELSE UNCHANGED serviceVars

\* verify() called with an outcome the caller does not branch on.
Verify(t, i) ==
    IF Exists(t) /\ evidence[i].state = "absent"
    THEN ClaimVerification(t, i)
    ELSE UNCHANGED serviceVars

\* Bound: enough unused ids remain for every start that waits for the journal.
IdsLeft == Cardinality({a \in Agents : agents[a].state = "unused"})
              > Cardinality({s \in Slots : ops[s].stage = "waiting"})

-----------------------------------------------------------------------------
(* Requests that end in one transaction. *)

CreateTask(t) == /\ connected # {}
                 /\ Create(t)
                 /\ UNCHANGED hostVars

\* handleTaskCommandRequest for accept, retry and cancel.  A start of a task
\* that is not queued takes this path too, without an agent id: it can only be
\* a replay or an error.
PlainCommand(t, c, expected, action) ==
    /\ connected # {}
    /\ action # "start"
    /\ ApplyCommand(t, c, expected, action, None)
    /\ UNCHANGED hostVars

-----------------------------------------------------------------------------
(* Starting a task: handleTaskCommandRequest and AgentRequests.create. *)

\* The handler has read a queued task at the revision the client named.
StartRequest(s, t, c) ==
    /\ connected # {}
    /\ ops[s].stage = "idle"
    /\ task[t].status = "queued"
    /\ IdsLeft
    /\ ops' = [ops EXCEPT ![s] = [stage |-> "waiting", task |-> t, command |-> c,
                                  expected |-> task[t].revision, agent |-> None]]
    /\ UNCHANGED <<serviceVars, journal, agents, turns, inbox, connected, crashes>>

\* executeOnce reads the receipt file once the calls of the same key before it
\* have ended.  Calls that wait for one key are taken in any order.
Reads(s) == ops[s].stage = "waiting" /\ KeyFree(Key(s))

\* No receipt: one is written, pending, with the fresh id of this call.
JournalFresh(s, a) ==
    /\ Reads(s)
    /\ journal[Key(s)].state = "absent"
    /\ agents[a].state = "unused"
    /\ journal' = [journal EXCEPT ![Key(s)] =
          [state |-> "pending", expected |-> ops[s].expected, agent |-> a]]
    /\ agents' = [agents EXCEPT ![a] = Minted]
    /\ Continues(s, "committing", a)
    /\ UNCHANGED <<serviceVars, turns, inbox, connected, crashes>>

\* The fingerprint (it covers the revision) differs, or the outcome of a pending
\* creation cannot be known because its agent is not there: the call throws.
JournalRefuses(s) ==
    /\ Reads(s)
    /\ journal[Key(s)].state # "absent"
    /\ \/ journal[Key(s)].expected # ops[s].expected
       \/ journal[Key(s)].state = "pending" /\ ~Live(journal[Key(s)].agent)
    /\ Ends(s)
    /\ UNCHANGED <<serviceVars, journal, agents, turns, inbox, connected, crashes>>

\* Completed, or pending with its agent found: the call returns that agent.
JournalReturns(s) ==
    /\ Reads(s)
    /\ LET row == journal[Key(s)]
       IN  /\ row.state # "absent"
           /\ row.expected = ops[s].expected
           /\ row.state = "pending" => Live(row.agent)
           /\ Completes(Key(s))
           /\ Continues(s, "replying", row.agent)
    /\ UNCHANGED <<serviceVars, agents, turns, inbox, connected, crashes>>

\* The create callback first commits the start to the task ...
CommitStart(s) ==
    /\ ops[s].stage = "committing"
    /\ ApplyCommand(ops[s].task, ops[s].command, ops[s].expected, "start", ops[s].agent)
    /\ Goes(s, "launching")
    /\ UNCHANGED <<journal, agents, turns, inbox, connected, crashes>>

\* ... which the service answers as a replay when the command id took effect
\* before: no error, and the callback goes on to launch.
ReplayStart(s) ==
    /\ ops[s].stage = "committing"
    /\ Replayed(ops[s].task, ops[s].command, ops[s].expected, "start")
    /\ Goes(s, "launching")
    /\ UNCHANGED <<serviceVars, journal, agents, turns, inbox, connected, crashes>>

\* Mutant of RejectStart: the error of command() is swallowed.
RejectStart_Ignored(s) ==
    /\ ops[s].stage = "committing"
    /\ ~Replayed(ops[s].task, ops[s].command, ops[s].expected, "start")
    /\ ~Commandable(ops[s].task, ops[s].command, ops[s].expected, "start", ops[s].agent)
    /\ Goes(s, "launching")
    /\ UNCHANGED <<serviceVars, journal, agents, turns, inbox, connected, crashes>>

\* ... or with an error when the task moved on or the id is taken.
RejectStart(s) ==
    /\ ops[s].stage = "committing"
    /\ ~Replayed(ops[s].task, ops[s].command, ops[s].expected, "start")
    /\ ~Commandable(ops[s].task, ops[s].command, ops[s].expected, "start", ops[s].agent)
    /\ Goes(s, "undoing")
    /\ UNCHANGED <<serviceVars, journal, agents, turns, inbox, connected, crashes>>

\* createSessionAgent: the agent is registered and stored, with its task labels.
AgentCreated(s) ==
    /\ ops[s].stage = "launching"
    /\ agents[ops[s].agent].state = "minted"
    /\ agents' = [agents EXCEPT ![ops[s].agent] =
          [state |-> "live", task |-> ops[s].task, command |-> ops[s].command]]
    /\ UNCHANGED <<serviceVars, ops, journal, turns, inbox, connected, crashes>>

\* It returns, the initial prompt having started ...
LaunchReturns(s) ==
    /\ ops[s].stage = "launching"
    /\ Live(ops[s].agent)
    /\ Goes(s, "settling")
    /\ UNCHANGED <<serviceVars, journal, agents, turns, inbox, connected, crashes>>

\* ... or throws: before the agent exists (worktree, provider), or after (the
\* initial prompt could not be sent), when the agent stays.
LaunchThrows(s) ==
    /\ ops[s].stage = "launching"
    /\ Goes(s, "failing")
    /\ UNCHANGED <<serviceVars, journal, agents, turns, inbox, connected, crashes>>

\* Mutant of RecordFailure: the launch error is thrown on without failStart.
RecordFailure_Skipped(s) ==
    /\ ops[s].stage = "failing"
    /\ Goes(s, "undoing")
    /\ UNCHANGED <<serviceVars, journal, agents, turns, inbox, connected, crashes>>

\* failStart, then the error is thrown on.
RecordFailure(s) ==
    /\ ops[s].stage = "failing"
    /\ \/ FailStart(ops[s].task, ops[s].agent)
       \/ /\ ~(/\ task[ops[s].task].status = "running"
               /\ task[ops[s].task].agent = ops[s].agent)
          /\ UNCHANGED serviceVars
    /\ Goes(s, "undoing")
    /\ UNCHANGED <<journal, agents, turns, inbox, connected, crashes>>

\* Mutant of UndoJournal: the receipt of a failed creation is always removed.
UndoJournal_Always(s) ==
    /\ ops[s].stage = "undoing"
    /\ journal' = [journal EXCEPT ![Key(s)] = NoRow]
    /\ Ends(s)
    /\ UNCHANGED <<serviceVars, agents, turns, inbox, connected, crashes>>

\* retrySafe: the receipt is removed only if the agent is not there.
UndoJournal(s) ==
    /\ ops[s].stage = "undoing"
    /\ journal' = IF Live(ops[s].agent) THEN journal
                  ELSE [journal EXCEPT ![Key(s)] = NoRow]
    /\ Ends(s)
    /\ UNCHANGED <<serviceVars, agents, turns, inbox, connected, crashes>>

\* The receipt is rewritten as completed.
Settle(s) ==
    /\ ops[s].stage = "settling"
    /\ Completes(Key(s))
    /\ Goes(s, "replying")
    /\ UNCHANGED <<serviceVars, agents, turns, inbox, connected, crashes>>

\* The handler issues the command again, now for its answer.
Reply(s) ==
    /\ ops[s].stage = "replying"
    /\ Issue(ops[s].task, ops[s].command, ops[s].expected, "start", ops[s].agent)
    /\ Ends(s)
    /\ UNCHANGED <<journal, agents, turns, inbox, connected, crashes>>

-----------------------------------------------------------------------------
(* Verification: handleTaskVerifyRequest and verifyFinishedTask. *)

\* The handler has read the task and found the agent whose worktree to check
\* (none yet: the workspace's own directory).
VerifyRequest(s, t, c) ==
    /\ connected # {}
    /\ ops[s].stage = "idle"
    /\ Exists(t)
    /\ task[t].agent # None => Live(task[t].agent)
    /\ ops' = [ops EXCEPT ![s] = [stage |-> "verifying", task |-> t, command |-> c,
                                  expected |-> 0, agent |-> task[t].agent]]
    /\ UNCHANGED <<serviceVars, journal, agents, turns, inbox, connected, crashes>>

\* After the automation gate it claims the evidence id; from then on the handler
\* only waits for the check, which is in jobs.
RunVerify(s) ==
    /\ ops[s].stage = "verifying"
    /\ Verify(ops[s].task, ops[s].command)
    /\ Ends(s)
    /\ UNCHANGED <<journal, agents, turns, inbox, connected, crashes>>

\* A turn of a live agent completes; every connected session starts a handler.
TurnCompleted(a) ==
    /\ Live(a)
    /\ turns[a] < MaxTurns
    /\ turns' = [turns EXCEPT ![a] = @ + 1]
    /\ inbox' = inbox \cup [session : connected, agent : {a},
                            turn : {turns[a] + 1}, stage : {"new"}]
    /\ UNCHANGED <<serviceVars, ops, journal, agents, connected, crashes>>

\* Mutant of Relevant: the handler gives up when its session has closed.
Relevant_Connected(h) == LET t == agents[h.agent].task
                         IN  /\ task[t].status = "running" /\ task[t].agent = h.agent
                             /\ h.session \in connected

\* The handler reads the task its agent is labelled with: only a running task
\* whose agent it is gets verified.
Relevant(h) == LET t == agents[h.agent].task
               IN  task[t].status = "running" /\ task[t].agent = h.agent

TurnRead(h) ==
    /\ h.stage = "new"
    /\ inbox' = (inbox \ {h}) \cup
                (IF Relevant(h) THEN {[h EXCEPT !.stage = "checked"]} ELSE {})
    /\ UNCHANGED <<serviceVars, ops, journal, agents, turns, connected, crashes>>

TurnVerify(h) ==
    /\ h.stage = "checked"
    /\ Verify(agents[h.agent].task, <<h.agent, h.turn>>)
    /\ inbox' = inbox \ {h}
    /\ UNCHANGED <<ops, journal, agents, turns, connected, crashes>>

\* The check of an evidence row ends, with any outcome runVerification has.
FinishCheck(i, outcome) ==
    /\ CompleteVerification(i, outcome)
    /\ UNCHANGED hostVars

-----------------------------------------------------------------------------
(* Sessions and crashes. *)

Connect(c) == /\ c \notin connected
              /\ connected' = connected \cup {c}
              /\ UNCHANGED <<serviceVars, ops, journal, agents, turns, inbox, crashes>>

\* The session closes (after the reconnect grace): its handlers run on.
Disconnect(c) == /\ c \in connected
                 /\ connected' = connected \ {c}
                 /\ UNCHANGED <<serviceVars, ops, journal, agents, turns, inbox, crashes>>

Crash == /\ crashes < MaxCrashes
         /\ Reopen
         /\ ops' = [s \in Slots |-> Idle]
         /\ inbox' = {}
         /\ connected' = {}
         /\ crashes' = crashes + 1
         /\ UNCHANGED <<journal, agents, turns>>

-----------------------------------------------------------------------------

StartStep(s) == \/ \E a \in Agents : JournalFresh(s, a)
                \/ JournalRefuses(s)
                \/ JournalReturns(s)
                \/ CommitStart(s)
                \/ ReplayStart(s)
                \/ RejectStart(s)
                \/ AgentCreated(s)
                \/ LaunchReturns(s)
                \/ LaunchThrows(s)
                \/ RecordFailure(s)
                \/ UndoJournal(s)
                \/ Settle(s)
                \/ Reply(s)

TurnStep(h) == TurnRead(h) \/ TurnVerify(h)

Next == \/ \E t \in Tasks : CreateTask(t)
        \/ \E t \in Tasks, c \in Commands :
              \/ \E expected \in 1 .. task[t].revision, action \in Actions :
                    PlainCommand(t, c, expected, action)
              \/ \E s \in Slots : StartRequest(s, t, c) \/ VerifyRequest(s, t, c)
        \/ \E s \in Slots : StartStep(s) \/ RunVerify(s)
        \/ \E a \in Agents : TurnCompleted(a)
        \/ \E h \in inbox : TurnStep(h)
        \/ \E i \in VerifyIds, outcome \in Outcomes : FinishCheck(i, outcome)
        \/ \E c \in Sessions : Connect(c) \/ Disconnect(c)
        \/ Crash

Spec == Init /\ [][Next]_vars

\* Promises settle, provider launches return or throw and a check ends or is
\* killed at its timeout; nobody has to connect, send a request or end a turn.
Fairness == /\ \A s \in Slots : WF_vars(StartStep(s) \/ RunVerify(s))
            /\ WF_vars(\E h \in inbox : TurnStep(h))
            /\ \A i \in VerifyIds : WF_vars(\E outcome \in Outcomes : FinishCheck(i, outcome))

FairSpec == Spec /\ Fairness

-----------------------------------------------------------------------------
(* Properties. *)

\* The host's variables have their types, and a turn handler's agent exists.
TypeOK ==
    /\ ServiceTypeOK
    /\ ops \in [Slots -> Op \cup {Idle}]
    /\ journal \in [Keys -> JournalRow \cup {NoRow}]
    /\ agents \in [Agents -> AgentRow \cup {Minted, NoAgent}]
    /\ turns \in [Agents -> 0 .. MaxTurns]
    /\ inbox \subseteq {h \in TurnHandler : Live(h.agent)}
    /\ connected \subseteq Sessions
    /\ crashes \in 0 .. MaxCrashes

\* However often a start is repeated, from several clients at once or across a
\* crash, one agent is created for a task and command id.
OneAgentPerStart ==
    \A a, b \in Agents : Live(a) /\ Live(b) /\ a # b
        => <<agents[a].task, agents[a].command>> # <<agents[b].task, agents[b].command>>

\* The journal never forgets an agent that exists: whatever failed after it was
\* created, its receipt stays and names it, so a repeated start finds it.
NoLaunchForgotten ==
    \A a \in Agents : Live(a) =>
        LET row == journal[<<agents[a].task, agents[a].command>>]
        IN  row.state # "absent" /\ row.agent = a

\* No agent is launched ahead of the task's start: an agent that exists works for
\* a start that task_commands holds, whatever the handler or the daemon did since.
LaunchIsCommitted ==
    \A a \in Agents : Live(a) =>
        /\ receipts[agents[a].command].action = "start"
        /\ receipts[agents[a].command].task = agents[a].task

\* A call inside the journal holds its key's pending receipt, whose agent is minted
\* for it or already created by it.
Holds(s) ==
    /\ journal[Key(s)] = [state |-> "pending", expected |-> ops[s].expected,
                          agent |-> ops[s].agent]
    /\ agents[ops[s].agent] \in {Minted, [state |-> "live", task |-> ops[s].task,
                                          command |-> ops[s].command]}

\* What a stage has behind it: the start is committed before the launch.
Ready(s) ==
    /\ ops[s].stage = "committing" => agents[ops[s].agent] = Minted
    /\ ops[s].stage \in {"launching", "failing", "settling"} =>
          /\ receipts[ops[s].command].action = "start"
          /\ receipts[ops[s].command].task = ops[s].task
    /\ ops[s].stage = "settling" => Live(ops[s].agent)

\* Calls of one key exclude each other; no two receipts share an agent.
KeysExclusive ==
    \A s, r \in Slots :
        s # r /\ ops[s].stage \in Inside /\ ops[r].stage \in Inside => Key(s) # Key(r)
RowsDistinct ==
    /\ \A k, l \in Keys : k # l /\ journal[k] # NoRow /\ journal[l] # NoRow
          => journal[k].agent # journal[l].agent
    /\ \A k \in Keys : journal[k] # NoRow => agents[journal[k].agent] # NoAgent

\* The journal, the agents and the handlers agree: each handler inside executeOnce
\* holds its receipt alone, with its start committed before the launch, and every
\* agent that exists is remembered by a receipt and a committed start.  This is
\* what makes launches idempotent across concurrent calls, failures and crashes.
JournalInv ==
    /\ \A s \in Slots : ops[s].stage \in Inside => Holds(s) /\ Ready(s)
    /\ KeysExclusive
    /\ RowsDistinct
    /\ NoLaunchForgotten
    /\ LaunchIsCommitted

\* A running task has its agent, or a handler that will create it or report that
\* it could not: there is no running task nobody works on.
RunningIsAttended ==
    \A t \in Tasks : task[t].status = "running" =>
        \/ Live(task[t].agent)
        \/ \E s \in Slots : /\ ops[s].stage \in {"launching", "failing"}
                            /\ ops[s].task = t
                            /\ ops[s].agent = task[t].agent

\* Every handler of a start or verify request ends: calls of one key that wait for
\* each other in the journal never wait for ever.
HandlersEnd == \A s \in Slots : ops[s].stage # "idle" ~> ops[s].stage = "idle"

\* No task stays in verification, however many checks of it overlap.
VerifyingEnds == \A t \in Tasks : task[t].status = "verifying" ~> task[t].status # "verifying"

\* Once a session handles the end of a turn of the running task's agent, the task
\* does not stay running.
HandledTurnIsVerified ==
    \A t \in Tasks, a \in Agents :
        (/\ task[t].status = "running"
         /\ task[t].agent = a
         /\ \E h \in inbox : h.agent = a)
            ~> task[t].status # "running"
=============================================================================
