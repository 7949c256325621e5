----------------------------- MODULE TaskService -----------------------------
(***************************************************************************)
(* packages/server/src/tasks/task-service.ts: the SQLite store behind the  *)
(* task coordinator.  The three tables (tasks, task_commands,              *)
(* task_evidence) are functions from their primary keys to rows, an absent *)
(* row being one whose status, action or state is "absent"; the rows of    *)
(* one trusted workspace are modelled.  Each action is the synchronous     *)
(* part of one method, from its reads to its COMMIT: node:sqlite is        *)
(* synchronous and one daemon owns the file, so no other method runs in    *)
(* between.  The verification command itself runs outside the transaction  *)
(* and is the pair ClaimVerification ... CompleteVerification.             *)
(*                                                                         *)
(* The fields claimed and finished of an evidence row, and expected and    *)
(* agent of a receipt, record history for the properties: the revision the *)
(* task row got from the claim and from the verdict, the revision the      *)
(* command named (hashed in the code) and the agent_id it left behind.     *)
(***************************************************************************)
EXTENDS Naturals, FiniteSets

CONSTANTS Tasks,      \* task ids (a hash of workspace and create command id)
          Commands,   \* command ids chosen by clients
          Agents,     \* agent ids (UUIDs)
          MaxTurns,   \* bound: turns an agent completes
          None        \* SQL NULL

ASSUME NoneIsNoId == None \notin Tasks \cup Commands \cup Agents
ASSUME TurnsBound == MaxTurns \in Nat

\* Ids of evidence rows: a client's command id, or the id the daemon builds
\* for a finished turn, `agent-finished:<agent>:<turn>`.
VerifyIds == Commands \cup (Agents \X (1 .. MaxTurns))

Actions == {"start", "accept", "retry", "cancel"}
Statuses == {"queued", "running", "verifying", "review_ready", "failed",
             "completed", "cancelled"}
Outcomes == {"passed", "failed", "timed_out", "stale"}

NoTask == [status |-> "absent", revision |-> 0, agent |-> None]
NoReceipt == [action |-> "absent", task |-> None, expected |-> 0,
              revision |-> 0, agent |-> None]
NoEvidence == [state |-> "absent", task |-> None, status |-> "pending",
               claimed |-> 0, finished |-> 0]

TaskRow == [status : Statuses, revision : Nat \ {0}, agent : Agents \cup {None}]
Receipt == [action : Actions, task : Tasks, expected : Nat, revision : Nat \ {0},
            agent : Agents \cup {None}]
EvidenceRow == [state : {"running", "finished"}, task : Tasks,
                status : Outcomes \cup {"pending"}, claimed : Nat \ {0}, finished : Nat]

VARIABLES task,       \* table tasks
          receipts,   \* table task_commands
          evidence,   \* table task_evidence
          jobs        \* activeVerifications: evidence ids whose check is running

serviceVars == <<task, receipts, evidence, jobs>>

ServiceInit == /\ task = [t \in Tasks |-> NoTask]
               /\ receipts = [c \in Commands |-> NoReceipt]
               /\ evidence = [i \in VerifyIds |-> NoEvidence]
               /\ jobs = {}

-----------------------------------------------------------------------------
(* Operators of the transactions. *)

Exists(t) == task[t].status # "absent"

\* nextStatus: the status an action requires, and the one it produces.
Source == [accept |-> "review_ready", start |-> "queued",
           retry |-> "failed", cancel |-> "queued"]
Target == [accept |-> "completed", start |-> "running",
           retry |-> "queued", cancel |-> "cancelled"]

NextStatusAllowed(action, status, agent) ==
    /\ status = Source[action]
    /\ action = "start" => agent # None

\* agent_id after a command: dropped by retry, else the argument or the old one.
AgentAfter(action, agent, old) ==
    IF action = "retry" THEN None ELSE IF agent # None THEN agent ELSE old

\* UPDATE tasks SET status = ?, revision = revision + 1, the agent kept.
SetStatus(t, status) ==
    task' = [task EXCEPT ![t] = [status |-> status, revision |-> task[t].revision + 1,
                                 agent |-> task[t].agent]]

\* A command id already used for the same request (its request hash covers
\* task, command id, expected revision and action, not the agent).
Replayed(t, c, expected, action) ==
    /\ Exists(t)
    /\ receipts[c].action = action
    /\ receipts[c].task = t
    /\ receipts[c].expected = expected

\* Mutant of Commandable: the expected revision is not compared.
Commandable_AnyRevision(t, c, expected, action, agent) ==
    /\ Exists(t)
    /\ receipts[c].action = "absent"
    /\ NextStatusAllowed(action, task[t].status, agent)

\* What command() accepts as new work.
Commandable(t, c, expected, action, agent) ==
    /\ Exists(t)
    /\ receipts[c].action = "absent"
    /\ task[t].revision = expected
    /\ NextStatusAllowed(action, task[t].status, agent)

-----------------------------------------------------------------------------
(* The methods. *)

\* Mutant of Create: the first revision is 0.
Create_RevisionZero(t) ==
    /\ ~Exists(t)
    /\ task' = [task EXCEPT ![t] = [status |-> "queued", revision |-> 0, agent |-> None]]
    /\ UNCHANGED <<receipts, evidence, jobs>>

\* create(): a second create of the same task finds the row and writes nothing.
Create(t) ==
    /\ ~Exists(t)
    /\ task' = [task EXCEPT ![t] = [status |-> "queued", revision |-> 1, agent |-> None]]
    /\ UNCHANGED <<receipts, evidence, jobs>>

\* command(), the branch that inserts a receipt and updates the row.
ApplyCommand(t, c, expected, action, agent) ==
    /\ Commandable(t, c, expected, action, agent)
    /\ LET owner == AgentAfter(action, agent, task[t].agent)
       IN  /\ receipts' = [receipts EXCEPT ![c] =
                 [action |-> action, task |-> t, expected |-> expected,
                  revision |-> task[t].revision + 1, agent |-> owner]]
           /\ task' = [task EXCEPT ![t] =
                 [status |-> Target[action], revision |-> task[t].revision + 1,
                  agent |-> owner]]
    /\ UNCHANGED <<evidence, jobs>>

\* verify(), the branch that claims a fresh evidence id.  The task's status is
\* not looked at.  With the id taken, verify() returns the row it finds.
ClaimVerification(t, i) ==
    /\ Exists(t)
    /\ evidence[i].state = "absent"
    /\ evidence' = [evidence EXCEPT ![i] =
          [state |-> "running", task |-> t, status |-> "pending",
           claimed |-> task[t].revision + 1, finished |-> 0]]
    /\ SetStatus(t, "verifying")
    /\ jobs' = jobs \cup {i}
    /\ UNCHANGED receipts

\* Mutants of CompleteVerification: the verdict does not advance the revision; a
\* check that timed out is recorded but leaves the task verifying.
CompleteVerification_SameRevision(i, outcome) ==
    /\ i \in jobs
    /\ LET t == evidence[i].task
       IN  /\ evidence' = [evidence EXCEPT ![i] =
                 [state |-> "finished", task |-> t, status |-> outcome,
                  claimed |-> evidence[i].claimed, finished |-> task[t].revision]]
           /\ task' = [task EXCEPT ![t].status =
                 IF outcome = "passed" THEN "review_ready" ELSE "failed"]
    /\ jobs' = jobs \ {i}
    /\ UNCHANGED receipts
CompleteVerification_TimeoutIgnored(i, outcome) ==
    /\ i \in jobs
    /\ LET t == evidence[i].task
       IN  /\ evidence' = [evidence EXCEPT ![i] =
                 [state |-> "finished", task |-> t, status |-> outcome,
                  claimed |-> evidence[i].claimed, finished |-> task[t].revision + 1]]
           /\ IF outcome = "timed_out" THEN UNCHANGED task
              ELSE SetStatus(t, IF outcome = "passed" THEN "review_ready" ELSE "failed")
    /\ jobs' = jobs \ {i}
    /\ UNCHANGED receipts

\* completeVerification(), after the check: a check that throws counts as failed.
\* The row is updated whatever happened to it since the claim.
CompleteVerification(i, outcome) ==
    /\ i \in jobs
    /\ LET t == evidence[i].task
       IN  /\ evidence' = [evidence EXCEPT ![i] =
                 [state |-> "finished", task |-> t, status |-> outcome,
                  claimed |-> evidence[i].claimed, finished |-> task[t].revision + 1]]
           /\ SetStatus(t, IF outcome = "passed" THEN "review_ready" ELSE "failed")
    /\ jobs' = jobs \ {i}
    /\ UNCHANGED receipts

\* Mutant of FailStart: UPDATE ... WHERE id = ?, whatever the status.
FailStart_AnyStatus(t, a) ==
    /\ Exists(t)
    /\ SetStatus(t, "failed")
    /\ UNCHANGED <<receipts, evidence, jobs>>

\* failStart(): only the running task of that very agent fails.
FailStart(t, a) ==
    /\ task[t].status = "running"
    /\ task[t].agent = a
    /\ SetStatus(t, "failed")
    /\ UNCHANGED <<receipts, evidence, jobs>>

\* The daemon stops and a new TaskService opens the same file.  close() waits
\* for the running checks; a crash drops them.  The constructor repairs nothing.
Reopen ==
    /\ jobs' = {}
    /\ UNCHANGED <<task, receipts, evidence>>

ServiceNext ==
    \/ \E t \in Tasks :
          \/ Create(t)
          \/ \E c \in Commands, expected \in 1 .. task[t].revision :
                \/ \E action \in Actions \ {"start"} :
                      ApplyCommand(t, c, expected, action, None)
                \/ \E a \in Agents : ApplyCommand(t, c, expected, "start", a)
          \/ \E i \in VerifyIds : ClaimVerification(t, i)
          \/ \E a \in Agents : FailStart(t, a)
    \/ \E i \in VerifyIds, outcome \in Outcomes : CompleteVerification(i, outcome)
    \/ Reopen

\* Any caller, any order of methods, at any revision a client may have seen; an
\* agent id comes with a start only (handleTaskCommandRequest passes none else).
ServiceSpec == ServiceInit /\ [][ServiceNext]_serviceVars

-----------------------------------------------------------------------------
(* Properties. *)

\* Receipts and evidence are rows of tasks that exist (FOREIGN KEY).
ForeignKeys ==
    /\ \A c \in Commands : receipts[c] # NoReceipt => Exists(receipts[c].task)
    /\ \A i \in VerifyIds : evidence[i] # NoEvidence => Exists(evidence[i].task)

\* The tables hold rows of their schemas, and only claimed checks run.
ServiceTypeOK ==
    /\ task \in [Tasks -> TaskRow \cup {NoTask}]
    /\ receipts \in [Commands -> Receipt \cup {NoReceipt}]
    /\ evidence \in [VerifyIds -> EvidenceRow \cup {NoEvidence}]
    /\ jobs \subseteq {i \in VerifyIds : evidence[i].state = "running"}
    /\ ForeignKeys

\* The table row that explains task t's row: the command, or the verdict, whose
\* revision it carries.
Commanded(t, action) ==
    \E c \in Commands : /\ receipts[c].action = action
                        /\ receipts[c].task = t
                        /\ receipts[c].revision = task[t].revision
                        /\ receipts[c].agent = task[t].agent

Judged(t, i) == /\ evidence[i].task = t
                /\ evidence[i].state = "finished"
                /\ evidence[i].finished = task[t].revision

RowExplained(t) ==
    /\ task[t].status = "absent" => task[t] = NoTask
    /\ task[t].status = "queued" => \/ task[t].revision = 1 /\ task[t].agent = None
                                    \/ Commanded(t, "retry")
    /\ task[t].status = "running" => Commanded(t, "start") /\ task[t].agent # None
    /\ task[t].status = "completed" => Commanded(t, "accept")
    /\ task[t].status = "cancelled" => Commanded(t, "cancel")
    /\ task[t].status = "verifying" =>
          \E i \in VerifyIds : /\ evidence[i].task = t
                               /\ evidence[i].state = "running"
                               /\ evidence[i].claimed = task[t].revision
    /\ task[t].status = "review_ready" =>
          \E i \in VerifyIds : Judged(t, i) /\ evidence[i].status = "passed"
    /\ task[t].status = "failed" =>
          \/ \E i \in VerifyIds : Judged(t, i) /\ evidence[i].status # "passed"
          \/ \E c \in Commands : /\ receipts[c].action = "start"
                                 /\ receipts[c].task = t
                                 /\ receipts[c].revision + 1 = task[t].revision

\* The status of a task is the work of the last receipt, claim or verdict in the
\* other two tables: the one whose revision the row carries.  A lost update, a
\* revision used twice or a row changed without its receipt would break the tie
\* between task_commands, task_evidence and tasks that the transactions keep.
EveryRowExplained == \A t \in Tasks : RowExplained(t)

\* An accepted task was accepted at the very revision at which a passing check
\* made it review-ready: nothing that happened to the task after the verdict the
\* user looked at can be accepted along with it.
AcceptanceRestsOnEvidence ==
    \A c \in Commands : receipts[c].action = "accept" =>
        \E i \in VerifyIds : /\ evidence[i].task = receipts[c].task
                             /\ evidence[i].state = "finished"
                             /\ evidence[i].status = "passed"
                             /\ evidence[i].finished = receipts[c].expected

\* Receipts and evidence carry revisions the task has reached, a receipt the one
\* after the revision its command named; a verdict comes after its claim.
RevisionsReached ==
    /\ \A c \in Commands : receipts[c].action # "absent" =>
          /\ receipts[c].revision = receipts[c].expected + 1
          /\ receipts[c].revision <= task[receipts[c].task].revision
    /\ \A i \in VerifyIds : evidence[i].state # "absent" =>
          /\ evidence[i].claimed <= task[evidence[i].task].revision
          /\ evidence[i].finished <= task[evidence[i].task].revision
          /\ evidence[i].state = "finished" => evidence[i].claimed < evidence[i].finished

CommandsDiffer ==
    \A c, d \in Commands :
        c # d /\ receipts[c].action # "absent" /\ receipts[c].task = receipts[d].task
            => receipts[c].revision # receipts[d].revision

CommandsMissChecks ==
    \A c \in Commands, i \in VerifyIds :
        receipts[c].action # "absent" /\ receipts[c].task = evidence[i].task
            => receipts[c].revision \notin {evidence[i].claimed, evidence[i].finished}

ChecksDiffer ==
    \A i, j \in VerifyIds :
        i # j /\ evidence[i].state # "absent" /\ evidence[i].task = evidence[j].task
            => /\ evidence[i].claimed \notin {evidence[j].claimed, evidence[j].finished}
               /\ evidence[i].state = "finished" => evidence[i].finished # evidence[j].finished

\* Of all the commands that name the same revision of a task, one takes effect,
\* and none lands on a revision a verification took: the revisions handed out by
\* commands, claims and verdicts are all different and none is in the future.
RevisionsAreUnique ==
    RevisionsReached /\ CommandsDiffer /\ CommandsMissChecks /\ ChecksDiffer

\* The request a receipt is the trace of, as the register records it.
Effect(receipt) == IF receipt.action = "absent" THEN None
                   ELSE [task |-> receipt.task, expected |-> receipt.expected,
                         action |-> receipt.action]

\* What clients are promised, for any interleaving of the methods: a command takes
\* effect at most once, on the task and with the action it asked for, and only at
\* the revision it named, whatever other commands, claims and verdicts came first.
Register == INSTANCE TaskRegister WITH
                Unused <- None,
                status <- [t \in Tasks |-> task[t].status],
                revision <- [t \in Tasks |-> task[t].revision],
                effects <- [c \in Commands |-> Effect(receipts[c])]
ImplementsRegister == Register!Spec
=============================================================================
