------------------------- MODULE TaskCoordinatorProofs -------------------------
(***************************************************************************)
(* Theorems about TaskService and about TaskCoordinator, for every set of  *)
(* tasks, commands, agents, slots and sessions and any number of turns and *)
(* crashes.  The first lemmas say what the methods of the service do to    *)
(* one table; its type invariant, then, is a hypothesis of everything      *)
(* else.  The handlers use the service only through its methods, so what   *)
(* the first part proves of the service holds in the daemon.               *)
(***************************************************************************)
EXTENDS TaskCoordinator, TLAPS

-----------------------------------------------------------------------------
(* Type correctness. *)

\* The initial tables are empty, hence well typed.
LEMMA InitTypeOK == ServiceInit => ServiceTypeOK
BY DEF ServiceInit, ServiceTypeOK, ForeignKeys, NoEvidence

\* A row that exists is a row of the schema.
LEMMA RowTypes ==
    ASSUME ServiceTypeOK
    PROVE  /\ \A t \in Tasks : Exists(t) => task[t] \in TaskRow
           /\ \A c \in Commands : receipts[c].action # "absent" => receipts[c] \in Receipt
           /\ \A i \in VerifyIds : evidence[i].state # "absent" => evidence[i] \in EvidenceRow
BY DEF ServiceTypeOK, Exists, NoTask, NoReceipt, NoEvidence

\* A status update of an existing task keeps the tasks table well typed, and
\* every task that existed exists after it.
LEMMA SetStatusTypeOK ==
    ASSUME ServiceTypeOK, NEW t \in Tasks, Exists(t), NEW status \in Statuses,
           SetStatus(t, status)
    PROVE  /\ task' \in [Tasks -> TaskRow \cup {NoTask}]
           /\ \A u \in Tasks : task[u].status # "absent" => task'[u].status # "absent"
<1>1. task[t] \in TaskRow
  BY RowTypes
<1>2. [status |-> status, revision |-> task[t].revision + 1, agent |-> task[t].agent]
         \in TaskRow
  BY <1>1 DEF TaskRow
<1> QED BY <1>2 DEF SetStatus, ServiceTypeOK, Exists, Statuses

\* What command() writes is a task row and a receipt.
LEMMA CommandTypeOK ==
    ASSUME ServiceTypeOK, NEW t \in Tasks, NEW c \in Commands, NEW expected \in Nat,
           NEW action \in Actions, NEW agent \in Agents \cup {None},
           ApplyCommand(t, c, expected, action, agent)
    PROVE  /\ task' \in [Tasks -> TaskRow \cup {NoTask}]
           /\ receipts' \in [Commands -> Receipt \cup {NoReceipt}]
           /\ receipts'[c].task = t
           /\ \A d \in Commands \ {c} : receipts'[d] = receipts[d]
           /\ \A u \in Tasks : task[u].status # "absent" => task'[u].status # "absent"
           /\ Exists(t)
<1> DEFINE owner == AgentAfter(action, agent, task[t].agent)
           row == [status |-> Target[action], revision |-> task[t].revision + 1,
                   agent |-> owner]
           receipt == [action |-> action, task |-> t, expected |-> expected,
                       revision |-> task[t].revision + 1, agent |-> owner]
<1>1. Exists(t) /\ task[t] \in TaskRow
  BY RowTypes DEF ApplyCommand, Commandable
<1>2. task[t].revision + 1 \in Nat \ {0}
  BY <1>1 DEF TaskRow
<1>3. owner \in Agents \cup {None}
  BY <1>1 DEF AgentAfter, TaskRow
<1>4. Target[action] \in Statuses
  BY DEF Target, Statuses, Actions
<1>5. /\ task' = [task EXCEPT ![t] = row]
      /\ receipts' = [receipts EXCEPT ![c] = receipt]
  BY DEF ApplyCommand
<1>6. row \in TaskRow /\ receipt \in Receipt /\ receipt.task = t
  <2> HIDE DEF owner
  <2> QED BY <1>2, <1>3, <1>4 DEF TaskRow, Receipt
<1>7. row.status # "absent"
  BY <1>6 DEF TaskRow, Statuses
<1> HIDE DEF row, receipt
<1> QED BY <1>1, <1>5, <1>6, <1>7 DEF ServiceTypeOK, Exists

\* Every method keeps the rows of the three tables within their schemas.
LEMMA StepTypeOK == ServiceTypeOK /\ [ServiceNext]_serviceVars => ServiceTypeOK'
<1> SUFFICES ASSUME ServiceTypeOK, [ServiceNext]_serviceVars
             PROVE  ServiceTypeOK'
  OBVIOUS
<1>1. CASE UNCHANGED serviceVars
  BY <1>1 DEF ServiceTypeOK, ForeignKeys, Exists, serviceVars
<1>2. ASSUME NEW t \in Tasks, Create(t) PROVE ServiceTypeOK'
  BY <1>2 DEF Create, ServiceTypeOK, ForeignKeys, Exists, TaskRow, Statuses
<1>3. ASSUME NEW t \in Tasks, NEW c \in Commands, NEW expected \in Nat,
             NEW action \in Actions, NEW agent \in Agents \cup {None},
             ApplyCommand(t, c, expected, action, agent)
      PROVE  ServiceTypeOK'
  <2>1. UNCHANGED <<evidence, jobs>>
    BY <1>3 DEF ApplyCommand
  <2>2. ForeignKeys'
    <3>1. ASSUME NEW d \in Commands, receipts'[d] # NoReceipt
          PROVE  task'[receipts'[d].task].status # "absent"
      <4>1. CASE d = c
        BY <1>3, <4>1, CommandTypeOK DEF Exists
      <4>2. CASE d # c
        BY <1>3, <3>1, <4>2, CommandTypeOK, RowTypes
           DEF ServiceTypeOK, ForeignKeys, Exists, Receipt
      <4> QED BY <4>1, <4>2
    <3>2. ASSUME NEW i \in VerifyIds, evidence'[i] # NoEvidence
          PROVE  task'[evidence'[i].task].status # "absent"
      BY <1>3, <2>1, <3>2, CommandTypeOK DEF ServiceTypeOK, ForeignKeys, Exists, EvidenceRow
    <3> QED BY <3>1, <3>2 DEF ForeignKeys, Exists
  <2> QED BY <1>3, <2>1, <2>2, CommandTypeOK DEF ServiceTypeOK
<1>4. ASSUME NEW t \in Tasks, NEW i \in VerifyIds, ClaimVerification(t, i)
      PROVE  ServiceTypeOK'
  <2>1. Exists(t) /\ task[t] \in TaskRow
    BY <1>4, RowTypes DEF ClaimVerification
  <2>2. /\ task' \in [Tasks -> TaskRow \cup {NoTask}]
        /\ \A u \in Tasks : task[u].status # "absent" => task'[u].status # "absent"
    BY <1>4, <2>1, SetStatusTypeOK DEF ClaimVerification, Statuses
  <2>3. /\ evidence' \in [VerifyIds -> EvidenceRow \cup {NoEvidence}]
        /\ evidence'[i].state = "running" /\ evidence'[i].task = t
        /\ \A j \in VerifyIds \ {i} : evidence'[j] = evidence[j]
    BY <1>4, <2>1 DEF ClaimVerification, ServiceTypeOK, EvidenceRow, TaskRow
  <2>4. receipts' = receipts /\ jobs' = jobs \cup {i}
    BY <1>4 DEF ClaimVerification
  <2>5. ForeignKeys'
    BY <2>1, <2>2, <2>3, <2>4 DEF ServiceTypeOK, ForeignKeys, Exists, Receipt, EvidenceRow
  <2> QED BY <2>2, <2>3, <2>4, <2>5 DEF ServiceTypeOK
<1>5. ASSUME NEW i \in VerifyIds, NEW outcome \in Outcomes,
             CompleteVerification(i, outcome)
      PROVE  ServiceTypeOK'
  <2> DEFINE t == evidence[i].task
  <2>1. evidence[i] \in EvidenceRow /\ evidence[i].state = "running"
    BY <1>5, RowTypes DEF CompleteVerification, ServiceTypeOK
  <2>2. t \in Tasks /\ Exists(t) /\ task[t] \in TaskRow
    BY <2>1, RowTypes DEF EvidenceRow, NoEvidence, ServiceTypeOK, ForeignKeys
  <2>3. /\ task' \in [Tasks -> TaskRow \cup {NoTask}]
        /\ \A u \in Tasks : task[u].status # "absent" => task'[u].status # "absent"
    BY <1>5, <2>2, SetStatusTypeOK DEF CompleteVerification, Statuses
  <2>4. /\ evidence' \in [VerifyIds -> EvidenceRow \cup {NoEvidence}]
        /\ evidence'[i].task = t
        /\ \A j \in VerifyIds \ {i} : evidence'[j] = evidence[j]
    BY <1>5, <2>1, <2>2 DEF CompleteVerification, ServiceTypeOK, EvidenceRow, TaskRow
  <2>5. receipts' = receipts /\ jobs' = jobs \ {i}
    BY <1>5 DEF CompleteVerification
  <2>6. ForeignKeys'
    BY <2>2, <2>3, <2>4, <2>5 DEF ServiceTypeOK, ForeignKeys, Exists, Receipt, EvidenceRow
  <2> QED BY <2>3, <2>4, <2>5, <2>6 DEF ServiceTypeOK
<1>6. ASSUME NEW t \in Tasks, NEW a \in Agents, FailStart(t, a)
      PROVE  ServiceTypeOK'
  <2>1. /\ task' \in [Tasks -> TaskRow \cup {NoTask}]
        /\ \A u \in Tasks : task[u].status # "absent" => task'[u].status # "absent"
    BY <1>6, SetStatusTypeOK DEF FailStart, Statuses, Exists
  <2>2. UNCHANGED <<receipts, evidence, jobs>>
    BY <1>6 DEF FailStart
  <2> QED BY <2>1, <2>2 DEF ServiceTypeOK, ForeignKeys, Exists, Receipt, EvidenceRow
<1>7. CASE Reopen
  BY <1>7 DEF Reopen, ServiceTypeOK, ForeignKeys, Exists
<1> QED
  <2>1. ASSUME NEW t \in Tasks, NEW c \in Commands, NEW expected \in 1 .. task[t].revision,
               \/ \E action \in Actions \ {"start"} :
                     ApplyCommand(t, c, expected, action, None)
               \/ \E a \in Agents : ApplyCommand(t, c, expected, "start", a)
        PROVE  ServiceTypeOK'
    <3>1. expected \in Nat /\ "start" \in Actions
      BY DEF Actions
    <3> QED BY <1>3, <2>1, <3>1
  <2> QED BY <1>1, <1>2, <1>4, <1>5, <1>6, <1>7, <2>1 DEF ServiceNext

\* The tables of the task service are well typed whatever its callers do.
THEOREM ServiceTypeCorrect == ServiceSpec => []ServiceTypeOK
<1> QED BY InitTypeOK, StepTypeOK, PTL DEF ServiceSpec

-----------------------------------------------------------------------------
(* Every status is the work of a row of the other two tables. *)

\* A task none of whose rows is touched keeps its explanation.
LEMMA ExplanationKept ==
    ASSUME NEW u \in Tasks, RowExplained(u), task'[u] = task[u],
           \A c \in Commands : receipts[c].action # "absent" => receipts'[c] = receipts[c],
           \A i \in VerifyIds : evidence[i].task = u => evidence'[i] = evidence[i]
    PROVE  RowExplained(u)'
<1>1. ASSUME NEW action \in Actions, Commanded(u, action) PROVE Commanded(u, action)'
  BY <1>1 DEF Commanded, Actions
<1>2. ASSUME NEW i \in VerifyIds, Judged(u, i) PROVE Judged(u, i)' /\ evidence'[i] = evidence[i]
  BY <1>2 DEF Judged
<1>3. task[u].status = "verifying" =>
         \E i \in VerifyIds : /\ evidence'[i].task = u
                              /\ evidence'[i].state = "running"
                              /\ evidence'[i].claimed = task'[u].revision
  BY DEF RowExplained
<1>4. ASSUME NEW c \in Commands, receipts[c].action = "start" PROVE receipts'[c] = receipts[c]
  BY <1>4
<1> QED BY <1>1, <1>2, <1>3, <1>4 DEF RowExplained, Actions

\* Every method explains the row it writes and leaves the others explained.
LEMMA StepExplained ==
    ServiceTypeOK /\ EveryRowExplained /\ [ServiceNext]_serviceVars => EveryRowExplained'
<1> SUFFICES ASSUME ServiceTypeOK, EveryRowExplained, [ServiceNext]_serviceVars,
                    NEW u \in Tasks
             PROVE  RowExplained(u)'
  BY DEF EveryRowExplained
<1>0. RowExplained(u)
  BY DEF EveryRowExplained
<1>1. CASE UNCHANGED serviceVars
  BY <1>0, <1>1, ExplanationKept DEF serviceVars
<1>2. ASSUME NEW t \in Tasks, Create(t) PROVE RowExplained(u)'
  <2>1. CASE u = t
    BY <1>2, <2>1 DEF Create, RowExplained, ServiceTypeOK
  <2>2. CASE u # t
    BY <1>0, <1>2, <2>2, ExplanationKept DEF Create, ServiceTypeOK
  <2> QED BY <2>1, <2>2
<1>3. ASSUME NEW t \in Tasks, NEW c \in Commands, NEW expected \in Nat,
             NEW action \in Actions, NEW agent \in Agents \cup {None},
             ApplyCommand(t, c, expected, action, agent)
      PROVE  RowExplained(u)'
  <2>1. CASE u = t
    <3> DEFINE owner == AgentAfter(action, agent, task[t].agent)
    <3>1. /\ task'[t] = [status |-> Target[action], revision |-> task[t].revision + 1,
                         agent |-> owner]
          /\ receipts'[c] = [action |-> action, task |-> t, expected |-> expected,
                             revision |-> task[t].revision + 1, agent |-> owner]
      BY <1>3 DEF ApplyCommand, ServiceTypeOK
    <3>2. action = "start" => owner # None
      BY <1>3, NoneIsNoId DEF ApplyCommand, Commandable, NextStatusAllowed, AgentAfter
    <3> HIDE DEF owner
    <3>3. Commanded(t, action)'
      BY <3>1 DEF Commanded
    <3> QED BY <2>1, <3>1, <3>2, <3>3 DEF RowExplained, Target, Actions
  <2>2. CASE u # t
    BY <1>0, <1>3, <2>2, ExplanationKept DEF ApplyCommand, Commandable, ServiceTypeOK
  <2> QED BY <2>1, <2>2
<1>4. ASSUME NEW t \in Tasks, NEW i \in VerifyIds, ClaimVerification(t, i)
      PROVE  RowExplained(u)'
  <2>1. CASE u = t
    <3>1. /\ task'[t].status = "verifying"
          /\ evidence'[i].task = t /\ evidence'[i].state = "running"
          /\ evidence'[i].claimed = task'[t].revision
      BY <1>4 DEF ClaimVerification, SetStatus, ServiceTypeOK
    <3> QED BY <2>1, <3>1 DEF RowExplained
  <2>2. CASE u # t
    <3>1. evidence[i].task = None
      BY <1>4 DEF ClaimVerification, ServiceTypeOK, EvidenceRow, NoEvidence
    <3> QED BY <1>0, <1>4, <2>2, <3>1, NoneIsNoId, ExplanationKept
            DEF ClaimVerification, SetStatus, ServiceTypeOK
  <2> QED BY <2>1, <2>2
<1>5. ASSUME NEW i \in VerifyIds, NEW outcome \in Outcomes,
             CompleteVerification(i, outcome)
      PROVE  RowExplained(u)'
  <2>1. CASE u = evidence[i].task
    <3>1. /\ task'[u].status = IF outcome = "passed" THEN "review_ready" ELSE "failed"
          /\ task'[u].revision = task[u].revision + 1
          /\ evidence'[i].task = u /\ evidence'[i].state = "finished"
          /\ evidence'[i].status = outcome
          /\ evidence'[i].finished = task[u].revision + 1
      BY <1>5, <2>1 DEF CompleteVerification, SetStatus, ServiceTypeOK
    <3>2. Judged(u, i)'
      BY <3>1 DEF Judged
    <3> QED BY <3>1, <3>2 DEF RowExplained
  <2>2. CASE u # evidence[i].task
    BY <1>0, <1>5, <2>2, ExplanationKept
       DEF CompleteVerification, SetStatus, ServiceTypeOK
  <2> QED BY <2>1, <2>2
<1>6. ASSUME NEW t \in Tasks, NEW a \in Agents, FailStart(t, a) PROVE RowExplained(u)'
  <2>1. CASE u = t
    <3>1. task'[t].status = "failed" /\ task'[t].revision = task[t].revision + 1
      BY <1>6 DEF FailStart, SetStatus, ServiceTypeOK
    <3>2. PICK c \in Commands : /\ receipts[c].action = "start"
                                /\ receipts[c].task = t
                                /\ receipts[c].revision = task[t].revision
      BY <1>0, <1>6, <2>1 DEF FailStart, RowExplained, Commanded
    <3> QED BY <1>6, <2>1, <3>1, <3>2 DEF FailStart, RowExplained
  <2>2. CASE u # t
    BY <1>0, <1>6, <2>2, ExplanationKept DEF FailStart, SetStatus, ServiceTypeOK
  <2> QED BY <2>1, <2>2
<1>7. CASE Reopen
  BY <1>0, <1>7, ExplanationKept DEF Reopen
<1>8. ASSUME NEW t \in Tasks, NEW c \in Commands, NEW expected \in 1 .. task[t].revision,
             \/ \E action \in Actions \ {"start"} :
                   ApplyCommand(t, c, expected, action, None)
             \/ \E a \in Agents : ApplyCommand(t, c, expected, "start", a)
      PROVE  RowExplained(u)'
  <2>1. expected \in Nat /\ "start" \in Actions
    BY DEF Actions
  <2> QED BY <1>3, <1>8, <2>1
<1> QED BY <1>1, <1>2, <1>4, <1>5, <1>6, <1>7, <1>8 DEF ServiceNext

\* The status of every task is, at all times, the one that the receipt, claim or
\* verdict at its revision gave it.
THEOREM RowsExplained == ServiceSpec => []EveryRowExplained
<1>1. ServiceInit => EveryRowExplained
  BY DEF ServiceInit, EveryRowExplained, RowExplained, NoTask
<1> QED BY <1>1, StepExplained, ServiceTypeCorrect, PTL DEF ServiceSpec

-----------------------------------------------------------------------------
(* What a user accepts. *)

\* A verdict, once recorded, is never written again: completeVerification runs
\* once for each claim, and a finished row's id cannot be claimed anew.
LEMMA VerdictsKept ==
    ASSUME ServiceTypeOK, [ServiceNext]_serviceVars,
           NEW i \in VerifyIds, evidence[i].state = "finished"
    PROVE  evidence'[i] = evidence[i]
<1>1. ASSUME NEW t \in Tasks, NEW j \in VerifyIds, ClaimVerification(t, j)
      PROVE  evidence'[i] = evidence[i]
  BY <1>1 DEF ClaimVerification, ServiceTypeOK
<1>2. ASSUME NEW j \in VerifyIds, NEW outcome \in Outcomes, CompleteVerification(j, outcome)
      PROVE  evidence'[i] = evidence[i]
  <2>1. evidence[j].state = "running"
    BY <1>2 DEF CompleteVerification, ServiceTypeOK
  <2> QED BY <1>2, <2>1 DEF CompleteVerification, ServiceTypeOK
<1> QED BY <1>1, <1>2 DEF ServiceNext, Create, ApplyCommand, FailStart, Reopen, serviceVars

\* A receipt, once recorded, is never written again; a new one is written only by
\* a command that found the task in the status the action requires.
LEMMA ReceiptsKept ==
    ASSUME ServiceTypeOK, [ServiceNext]_serviceVars, NEW c \in Commands
    PROVE  \/ receipts'[c] = receipts[c]
           \/ /\ receipts[c].action = "absent"
              /\ receipts'[c] \in Receipt
              /\ task[receipts'[c].task].status = Source[receipts'[c].action]
              /\ task[receipts'[c].task].revision = receipts'[c].expected
              /\ receipts'[c].revision = receipts'[c].expected + 1
              /\ task'[receipts'[c].task].revision = receipts'[c].revision
              /\ UNCHANGED evidence
              /\ \A d \in Commands \ {c} : receipts'[d] = receipts[d]
<1> DEFINE Kept == receipts'[c] = receipts[c]
           New == /\ receipts[c].action = "absent"
                  /\ receipts'[c] \in Receipt
                  /\ task[receipts'[c].task].status = Source[receipts'[c].action]
                  /\ task[receipts'[c].task].revision = receipts'[c].expected
                  /\ receipts'[c].revision = receipts'[c].expected + 1
                  /\ task'[receipts'[c].task].revision = receipts'[c].revision
                  /\ UNCHANGED evidence
                  /\ \A d \in Commands \ {c} : receipts'[d] = receipts[d]
<1>1. ASSUME NEW t \in Tasks, NEW d \in Commands, NEW expected \in Nat,
             NEW action \in Actions, NEW agent \in Agents \cup {None},
             ApplyCommand(t, d, expected, action, agent)
      PROVE  Kept \/ New
  <2>1. CASE d # c
    BY <1>1, <2>1 DEF ApplyCommand, ServiceTypeOK
  <2>2. CASE d = c
    <3> DEFINE owner == AgentAfter(action, agent, task[t].agent)
    <3>1. /\ receipts'[c] = [action |-> action, task |-> t, expected |-> expected,
                             revision |-> task[t].revision + 1, agent |-> owner]
          /\ task'[t].revision = task[t].revision + 1
          /\ task[t].revision = expected
          /\ task[t].status = Source[action]
          /\ receipts[c].action = "absent"
          /\ \A b \in Commands \ {c} : receipts'[b] = receipts[b]
          /\ UNCHANGED evidence
      BY <1>1, <2>2 DEF ApplyCommand, Commandable, NextStatusAllowed, ServiceTypeOK
    <3>2. receipts'[c] \in Receipt
      <4>1. receipts'[c] # NoReceipt
        BY <3>1 DEF NoReceipt, Actions
      <4> QED BY <1>1, <4>1, CommandTypeOK
    <3> HIDE DEF owner
    <3> QED BY <3>1, <3>2
  <2> QED BY <2>1, <2>2
<1>2. ASSUME NEW t \in Tasks, NEW d \in Commands, NEW expected \in 1 .. task[t].revision,
             \/ \E action \in Actions \ {"start"} :
                   ApplyCommand(t, d, expected, action, None)
             \/ \E a \in Agents : ApplyCommand(t, d, expected, "start", a)
      PROVE  Kept \/ New
  <2>1. expected \in Nat /\ "start" \in Actions
    BY DEF Actions
  <2> HIDE DEF Kept, New
  <2> QED BY <1>1, <1>2, <2>1
<1> QED BY <1>2 DEF ServiceNext, Create, ClaimVerification, CompleteVerification,
                    FailStart, Reopen, serviceVars

\* Acceptance always rests on a passing verdict at the revision accepted.
THEOREM AcceptanceIsEarned == ServiceSpec => []AcceptanceRestsOnEvidence
<1>1. ServiceInit => AcceptanceRestsOnEvidence
  BY DEF ServiceInit, AcceptanceRestsOnEvidence, NoReceipt
<1>2. ServiceTypeOK /\ EveryRowExplained /\ AcceptanceRestsOnEvidence
         /\ [ServiceNext]_serviceVars => AcceptanceRestsOnEvidence'
  <2> SUFFICES ASSUME ServiceTypeOK, EveryRowExplained, AcceptanceRestsOnEvidence,
                      [ServiceNext]_serviceVars,
                      NEW c \in Commands, receipts'[c].action = "accept"
               PROVE  \E i \in VerifyIds : /\ evidence'[i].task = receipts'[c].task
                                           /\ evidence'[i].state = "finished"
                                           /\ evidence'[i].status = "passed"
                                           /\ evidence'[i].finished = receipts'[c].expected
    BY DEF AcceptanceRestsOnEvidence
  <2>1. CASE receipts'[c] = receipts[c]
    <3>1. PICK i \in VerifyIds : /\ evidence[i].task = receipts[c].task
                                 /\ evidence[i].state = "finished"
                                 /\ evidence[i].status = "passed"
                                 /\ evidence[i].finished = receipts[c].expected
      BY <2>1 DEF AcceptanceRestsOnEvidence
    <3> QED BY <2>1, <3>1, VerdictsKept
  <2>2. CASE receipts'[c] # receipts[c]
    <3> DEFINE t == receipts'[c].task
    <3>1. /\ t \in Tasks
          /\ task[t].status = "review_ready"
          /\ task[t].revision = receipts'[c].expected
          /\ UNCHANGED evidence
      BY <2>2, ReceiptsKept DEF Receipt, Source
    <3>2. PICK i \in VerifyIds : Judged(t, i) /\ evidence[i].status = "passed"
      BY <3>1 DEF EveryRowExplained, RowExplained
    <3> QED BY <3>1, <3>2 DEF Judged
  <2> QED BY <2>1, <2>2
<1> QED BY <1>1, <1>2, ServiceTypeCorrect, RowsExplained, PTL DEF ServiceSpec

-----------------------------------------------------------------------------
(* Revisions are handed out once. *)

\* A method that touches no receipt and no evidence, and never lowers a task's
\* revision, keeps revisions unique.
LEMMA UniqueIfTablesKept ==
    ASSUME ServiceTypeOK, RevisionsAreUnique, UNCHANGED <<receipts, evidence>>,
           \A t \in Tasks : task'[t].revision \in Nat /\ task[t].revision <= task'[t].revision
    PROVE  RevisionsAreUnique'
<1>1. \A t \in Tasks : task[t].revision \in Nat
  BY DEF ServiceTypeOK, TaskRow, NoTask
<1>2. /\ \A c \in Commands : receipts[c].action # "absent" => receipts[c] \in Receipt
      /\ \A i \in VerifyIds : evidence[i].state # "absent" => evidence[i] \in EvidenceRow
  BY RowTypes
<1>3. ASSUME NEW c \in Commands, receipts[c].action # "absent"
      PROVE  receipts[c].revision <= task'[receipts[c].task].revision
  BY <1>1, <1>2, <1>3 DEF RevisionsAreUnique, RevisionsReached, Receipt
<1>4. ASSUME NEW i \in VerifyIds, evidence[i].state # "absent"
      PROVE  /\ evidence[i].claimed <= task'[evidence[i].task].revision
             /\ evidence[i].finished <= task'[evidence[i].task].revision
             /\ evidence[i].state = "finished" => evidence[i].claimed < evidence[i].finished
  BY <1>1, <1>2, <1>4 DEF RevisionsAreUnique, RevisionsReached, EvidenceRow
<1>5. RevisionsReached'
  BY <1>3, <1>4 DEF RevisionsAreUnique, RevisionsReached
<1> QED BY <1>5 DEF RevisionsAreUnique, CommandsDiffer, CommandsMissChecks, ChecksDiffer

\* Every method hands out the successor of the task's revision, which nothing has.
LEMMA StepUnique ==
    ServiceTypeOK /\ RevisionsAreUnique /\ [ServiceNext]_serviceVars => RevisionsAreUnique'
<1> SUFFICES ASSUME ServiceTypeOK, RevisionsAreUnique, [ServiceNext]_serviceVars
             PROVE  RevisionsAreUnique'
  OBVIOUS
<1>r. \A t \in Tasks : task[t].revision \in Nat
  BY DEF ServiceTypeOK, TaskRow, NoTask
<1>t. /\ \A c \in Commands : \/ receipts[c] = NoReceipt
                             \/ /\ receipts[c].task \in Tasks
                                /\ receipts[c].expected \in Nat
                                /\ receipts[c].revision \in Nat \ {0}
      /\ \A i \in VerifyIds : \/ evidence[i] = NoEvidence
                              \/ /\ evidence[i].task \in Tasks
                                 /\ evidence[i].claimed \in Nat \ {0}
                                 /\ evidence[i].finished \in Nat
  BY DEF ServiceTypeOK, Receipt, EvidenceRow
<1>u. ASSUME NEW u \in Tasks
      PROVE  /\ \A c \in Commands : receipts[c].task = u =>
                   receipts[c].action # "absent" /\ receipts[c].revision <= task[u].revision
             /\ \A i \in VerifyIds : evidence[i].task = u =>
                   /\ evidence[i].state # "absent"
                   /\ evidence[i].claimed <= task[u].revision
                   /\ evidence[i].finished <= task[u].revision
                   /\ evidence[i].state = "finished" => evidence[i].claimed < evidence[i].finished
  <2>1. \A c \in Commands : receipts[c].task = u => receipts[c].action # "absent"
    BY NoneIsNoId DEF ServiceTypeOK, Receipt, NoReceipt, Actions
  <2>2. \A i \in VerifyIds : evidence[i].task = u => evidence[i].state # "absent"
    BY NoneIsNoId DEF ServiceTypeOK, EvidenceRow, NoEvidence
  <2> QED BY <2>1, <2>2 DEF RevisionsAreUnique, RevisionsReached
<1>b. RevisionsReached /\ CommandsDiffer /\ CommandsMissChecks /\ ChecksDiffer
  BY DEF RevisionsAreUnique
<1>1. CASE UNCHANGED serviceVars
  BY <1>1, <1>r, UniqueIfTablesKept DEF serviceVars
<1>2. ASSUME NEW t \in Tasks, Create(t) PROVE RevisionsAreUnique'
  <2>1. task[t].revision = 0
    BY <1>2 DEF Create, Exists, ServiceTypeOK, TaskRow, Statuses, NoTask
  <2>2. \A u \in Tasks : task'[u].revision = IF u = t THEN 1 ELSE task[u].revision
    BY <1>2 DEF Create, ServiceTypeOK
  <2> QED BY <1>2, <1>r, <2>1, <2>2, UniqueIfTablesKept DEF Create
<1>3. ASSUME NEW t \in Tasks, NEW c \in Commands, NEW expected \in Nat,
             NEW action \in Actions, NEW agent \in Agents \cup {None},
             ApplyCommand(t, c, expected, action, agent)
      PROVE  RevisionsAreUnique'
  <2>1. /\ \A u \in Tasks : task'[u].revision =
              IF u = t THEN task[t].revision + 1 ELSE task[u].revision
        /\ receipts'[c].task = t /\ receipts'[c].action # "absent"
        /\ receipts'[c].revision = task[t].revision + 1
        /\ receipts'[c].expected = task[t].revision
        /\ \A d \in Commands \ {c} : receipts'[d] = receipts[d]
        /\ evidence' = evidence
    BY <1>3 DEF ApplyCommand, Commandable, ServiceTypeOK, Actions
  <2>5. RevisionsReached'
    BY <1>r, <1>t, <1>b, <2>1, NoneIsNoId DEF RevisionsReached, NoReceipt, NoEvidence
  <2>6. CommandsDiffer'
    <3> SUFFICES ASSUME NEW d \in Commands, NEW e \in Commands, d # e,
                        receipts'[d].action # "absent", receipts'[d].task = receipts'[e].task
                 PROVE  receipts'[d].revision # receipts'[e].revision
      BY DEF CommandsDiffer
    <3>1. CASE d = c
      BY <1>r, <1>t, <1>u, <2>1, <3>1
    <3>2. CASE e = c
      BY <1>r, <1>t, <1>u, <2>1, <3>2
    <3>3. CASE d # c /\ e # c
      BY <1>b, <2>1, <3>3 DEF CommandsDiffer
    <3> QED BY <3>1, <3>2, <3>3
  <2>7. CommandsMissChecks'
    <3> SUFFICES ASSUME NEW d \in Commands, NEW i \in VerifyIds,
                        receipts'[d].action # "absent", receipts'[d].task = evidence[i].task
                 PROVE  receipts'[d].revision \notin {evidence[i].claimed, evidence[i].finished}
      BY <2>1 DEF CommandsMissChecks
    <3>1. CASE d = c
      BY <1>r, <1>t, <1>u, <2>1, <3>1, NoneIsNoId DEF NoEvidence
    <3>2. CASE d # c
      BY <1>b, <2>1, <3>2 DEF CommandsMissChecks
    <3> QED BY <3>1, <3>2
  <2>8. ChecksDiffer'
    BY <1>r, <1>t, <1>b, <2>1, NoneIsNoId DEF ChecksDiffer, RevisionsReached, NoReceipt, NoEvidence
  <2> QED BY <2>5, <2>6, <2>7, <2>8 DEF RevisionsAreUnique
<1>4. ASSUME NEW t \in Tasks, NEW i \in VerifyIds, ClaimVerification(t, i)
      PROVE  RevisionsAreUnique'
  <2>1. /\ \A u \in Tasks : task'[u].revision =
              IF u = t THEN task[t].revision + 1 ELSE task[u].revision
        /\ evidence'[i].task = t /\ evidence'[i].state = "running"
        /\ evidence'[i].claimed = task[t].revision + 1 /\ evidence'[i].finished = 0
        /\ \A j \in VerifyIds \ {i} : evidence'[j] = evidence[j]
        /\ receipts' = receipts
    BY <1>4 DEF ClaimVerification, SetStatus, ServiceTypeOK
  <2>5. RevisionsReached'
    BY <1>r, <1>t, <1>b, <2>1, NoneIsNoId DEF RevisionsReached, NoReceipt, NoEvidence
  <2>6. CommandsDiffer'
    BY <1>r, <1>t, <1>b, <2>1, NoneIsNoId DEF CommandsDiffer, RevisionsReached, NoReceipt, NoEvidence
  <2>7. CommandsMissChecks'
    BY <1>r, <1>t, <1>b, <2>1, NoneIsNoId DEF CommandsMissChecks, RevisionsReached, NoReceipt, NoEvidence
  <2>8. ChecksDiffer'
    <3> SUFFICES ASSUME NEW j \in VerifyIds, NEW k \in VerifyIds, j # k,
                        evidence'[j].state # "absent", evidence'[j].task = evidence'[k].task
                 PROVE  /\ evidence'[j].claimed \notin
                               {evidence'[k].claimed, evidence'[k].finished}
                        /\ evidence'[j].state = "finished" =>
                               evidence'[j].finished # evidence'[k].finished
      BY DEF ChecksDiffer
    <3>1. CASE j = i
      BY <1>r, <1>t, <1>u, <1>b, <2>1, <3>1 DEF ChecksDiffer
    <3>2. CASE k = i
      BY <1>r, <1>t, <1>u, <1>b, <2>1, <3>2, NoneIsNoId DEF ChecksDiffer, NoEvidence
    <3>3. CASE j # i /\ k # i
      BY <1>b, <2>1, <3>3 DEF ChecksDiffer
    <3> QED BY <3>1, <3>2, <3>3
  <2> QED BY <2>5, <2>6, <2>7, <2>8 DEF RevisionsAreUnique
<1>5. ASSUME NEW i \in VerifyIds, NEW outcome \in Outcomes,
             CompleteVerification(i, outcome)
      PROVE  RevisionsAreUnique'
  <2> DEFINE t == evidence[i].task
  <2>1. evidence[i].state = "running" /\ t \in Tasks
    BY <1>5, <1>t DEF CompleteVerification, ServiceTypeOK, NoEvidence
  <2>2. /\ \A u \in Tasks : task'[u].revision =
              IF u = t THEN task[t].revision + 1 ELSE task[u].revision
        /\ evidence'[i].task = t /\ evidence'[i].state = "finished"
        /\ evidence'[i].claimed = evidence[i].claimed
        /\ evidence'[i].finished = task[t].revision + 1
        /\ \A j \in VerifyIds \ {i} : evidence'[j] = evidence[j]
        /\ receipts' = receipts
    BY <1>5, <2>1 DEF CompleteVerification, SetStatus, ServiceTypeOK
  <2>5. RevisionsReached'
    BY <1>r, <1>t, <1>b, <2>1, <2>2, NoneIsNoId DEF RevisionsReached, NoReceipt, NoEvidence
  <2>6. CommandsDiffer'
    BY <1>r, <1>t, <1>b, <2>1, <2>2, NoneIsNoId DEF CommandsDiffer, RevisionsReached, NoReceipt, NoEvidence
  <2>7. CommandsMissChecks'
    BY <1>r, <1>t, <1>b, <2>1, <2>2, NoneIsNoId DEF CommandsMissChecks, RevisionsReached, NoReceipt, NoEvidence
  <2>8. ChecksDiffer'
    <3> SUFFICES ASSUME NEW j \in VerifyIds, NEW k \in VerifyIds, j # k,
                        evidence'[j].state # "absent", evidence'[j].task = evidence'[k].task
                 PROVE  /\ evidence'[j].claimed \notin
                               {evidence'[k].claimed, evidence'[k].finished}
                        /\ evidence'[j].state = "finished" =>
                               evidence'[j].finished # evidence'[k].finished
      BY DEF ChecksDiffer
    <3>1. CASE j = i
      BY <1>r, <1>t, <1>u, <1>b, <2>1, <2>2, <3>1 DEF ChecksDiffer
    <3>2. CASE k = i
      BY <1>r, <1>t, <1>u, <1>b, <2>1, <2>2, <3>2, NoneIsNoId DEF ChecksDiffer, NoEvidence
    <3>3. CASE j # i /\ k # i
      BY <1>b, <2>1, <2>2, <3>3 DEF ChecksDiffer
    <3> QED BY <3>1, <3>2, <3>3
  <2> QED BY <2>5, <2>6, <2>7, <2>8 DEF RevisionsAreUnique
<1>6. ASSUME NEW t \in Tasks, NEW a \in Agents, FailStart(t, a) PROVE RevisionsAreUnique'
  <2>1. \A u \in Tasks : task'[u].revision =
           IF u = t THEN task[t].revision + 1 ELSE task[u].revision
    BY <1>6 DEF FailStart, SetStatus, ServiceTypeOK
  <2> QED BY <1>6, <1>r, <2>1, UniqueIfTablesKept DEF FailStart
<1>7. CASE Reopen
  BY <1>7, <1>r, UniqueIfTablesKept DEF Reopen
<1>8. ASSUME NEW t \in Tasks, NEW c \in Commands, NEW expected \in 1 .. task[t].revision,
             \/ \E action \in Actions \ {"start"} :
                   ApplyCommand(t, c, expected, action, None)
             \/ \E a \in Agents : ApplyCommand(t, c, expected, "start", a)
      PROVE  RevisionsAreUnique'
  <2>1. expected \in Nat /\ "start" \in Actions
    BY DEF Actions
  <2> QED BY <1>3, <1>8, <2>1
<1> QED BY <1>1, <1>2, <1>4, <1>5, <1>6, <1>7, <1>8 DEF ServiceNext

\* No revision of a task is handed out twice, and a command takes effect only at
\* the revision it named.
THEOREM RevisionsUnique == ServiceSpec => []RevisionsAreUnique
<1>1. ServiceInit => RevisionsAreUnique
  BY DEF ServiceInit, RevisionsAreUnique, RevisionsReached, CommandsDiffer,
         CommandsMissChecks, ChecksDiffer, NoReceipt, NoEvidence
<1> QED BY <1>1, StepUnique, ServiceTypeCorrect, PTL DEF ServiceSpec

-----------------------------------------------------------------------------
(* The service implements the register its clients are promised. *)

\* A write of one task's row that takes the next revision moves the register.
LEMMA RowMoves ==
    ASSUME ServiceTypeOK, NEW t \in Tasks, NEW row \in TaskRow,
           task' = [task EXCEPT ![t] = row], row.revision = task[t].revision + 1
    PROVE  Register!Moves(t, row.status)
<1> DEFINE status == [u \in Tasks |-> task[u].status]
           revision == [u \in Tasks |-> task[u].revision]
<1>1. \A u \in Tasks : task'[u] = IF u = t THEN row ELSE task[u]
  BY DEF ServiceTypeOK
<1>2. status' = [status EXCEPT ![t] = row.status]
  <2>1. \A u \in Tasks : status'[u] = IF u = t THEN row.status ELSE status[u]
    BY <1>1
  <2>2. status = [u \in Tasks |-> status[u]] /\ status' = [u \in Tasks |-> status'[u]]
    OBVIOUS
  <2> HIDE DEF status
  <2> QED BY <2>1, <2>2
<1>3. revision' = [revision EXCEPT ![t] = @ + 1]
  <2>1. \A u \in Tasks : revision'[u] = IF u = t THEN revision[t] + 1 ELSE revision[u]
    BY <1>1
  <2>2. revision = [u \in Tasks |-> revision[u]] /\ revision' = [u \in Tasks |-> revision'[u]]
    OBVIOUS
  <2> HIDE DEF revision
  <2> QED BY <2>1, <2>2
<1> QED BY <1>2, <1>3 DEF Register!Moves

\* The same for the update every verification and failStart make.
LEMMA StatusMoves ==
    ASSUME ServiceTypeOK, NEW t \in Tasks, Exists(t), NEW status \in Statuses,
           SetStatus(t, status)
    PROVE  Register!Moves(t, status)
<1> DEFINE row == [status |-> status, revision |-> task[t].revision + 1,
                   agent |-> task[t].agent]
<1>1. task[t] \in TaskRow
  BY RowTypes
<1>2. row \in TaskRow /\ row.status = status /\ row.revision = task[t].revision + 1
  BY <1>1 DEF TaskRow
<1>3. task' = [task EXCEPT ![t] = row]
  BY DEF SetStatus
<1> HIDE DEF row
<1> QED BY <1>2, <1>3, RowMoves

\* Every method is a step of the register, or invisible in it.
LEMMA StepRefines ==
    ServiceTypeOK /\ [ServiceNext]_serviceVars => [Register!Next]_(Register!vars)
<1> SUFFICES ASSUME ServiceTypeOK, [ServiceNext]_serviceVars
             PROVE  [Register!Next]_(Register!vars)
  OBVIOUS
<1>1. CASE UNCHANGED serviceVars
  BY <1>1 DEF serviceVars, Register!vars
<1>2. ASSUME NEW t \in Tasks, Create(t) PROVE Register!Next
  <2> DEFINE row == [status |-> "queued", revision |-> 1, agent |-> None]
  <2>1. task[t].status = "absent" /\ task[t].revision = 0
    BY <1>2 DEF Create, Exists, ServiceTypeOK, TaskRow, Statuses, NoTask
  <2>2. row \in TaskRow /\ row.status = "queued" /\ row.revision = task[t].revision + 1
    BY <2>1 DEF TaskRow, Statuses
  <2>3. task' = [task EXCEPT ![t] = row] /\ UNCHANGED receipts
    BY <1>2 DEF Create
  <2> HIDE DEF row
  <2>4. Register!Moves(t, "queued")
    BY <2>2, <2>3, RowMoves
  <2>5. Register!Create(t)
    BY <2>1, <2>3, <2>4 DEF Register!Create
  <2> QED BY <2>5 DEF Register!Next
<1>3. ASSUME NEW t \in Tasks, NEW c \in Commands, NEW expected \in Nat,
             NEW action \in Actions, NEW agent \in Agents \cup {None},
             ApplyCommand(t, c, expected, action, agent)
      PROVE  Register!Next
  <2> DEFINE row == [status |-> Target[action], revision |-> task[t].revision + 1,
                     agent |-> AgentAfter(action, agent, task[t].agent)]
  <2>1. task' = [task EXCEPT ![t] = row]
    BY <1>3 DEF ApplyCommand
  <2>2. /\ task[t].status = Source[action] /\ task[t].revision = expected
        /\ receipts[c].action = "absent"
    BY <1>3 DEF ApplyCommand, Commandable, NextStatusAllowed
  <2>3. row \in TaskRow
    <3>1. task'[t] = row
      BY <2>1 DEF ServiceTypeOK
    <3>2. row.status # "absent" /\ row # NoTask
      BY DEF Target, Actions, NoTask
    <3> HIDE DEF row
    <3> QED BY <1>3, <3>1, <3>2, CommandTypeOK
  <2>4. row.status = Target[action] /\ row.revision = task[t].revision + 1
    OBVIOUS
  <2>5. Register!Moves(t, Target[action])
    <3> HIDE DEF row
    <3> QED BY <2>1, <2>3, <2>4, RowMoves
  <2>6. /\ action \in DOMAIN Register!Edge
        /\ Register!Edge[action][1] = Source[action]
        /\ Register!Edge[action][2] = Target[action]
    BY DEF Source, Target, Actions, Register!Edge
  <2> DEFINE effects == [d \in Commands |-> Effect(receipts[d])]
  <2>7. /\ effects[c] = None
        /\ effects' = [effects EXCEPT ![c] = Register!Request(t, expected, action)]
    <3>1. /\ receipts'[c].task = t /\ receipts'[c].expected = expected
          /\ receipts'[c].action = action /\ action # "absent"
          /\ \A d \in Commands \ {c} : receipts'[d] = receipts[d]
      BY <1>3 DEF ApplyCommand, ServiceTypeOK, Actions
    <3>2. effects[c] = None
      BY <2>2 DEF Effect
    <3>3. \A d \in Commands : effects'[d] = IF d = c THEN Register!Request(t, expected, action)
                                              ELSE effects[d]
      BY <3>1 DEF Effect, Register!Request
    <3>4. /\ effects = [d \in Commands |-> effects[d]]
          /\ effects' = [d \in Commands |-> effects'[d]]
      OBVIOUS
    <3> HIDE DEF effects
    <3> QED BY <3>2, <3>3, <3>4
  <2>8. Register!Command(t, c, expected, action)
    BY <2>2, <2>5, <2>6, <2>7 DEF Register!Command
  <2>9. expected \in 0 .. task[t].revision
    BY <1>3, <2>2
  <2> QED BY <2>6, <2>8, <2>9 DEF Register!Next
<1>4. ASSUME NEW t \in Tasks, NEW i \in VerifyIds, ClaimVerification(t, i)
      PROVE  Register!Next
  <2>1. Register!Moves(t, "verifying")
    BY <1>4, StatusMoves DEF ClaimVerification, Statuses
  <2>2. Register!Verifying(t)
    BY <1>4, <2>1 DEF ClaimVerification, Exists, Register!Verifying
  <2> QED BY <2>2 DEF Register!Next
<1>5. ASSUME NEW i \in VerifyIds, NEW outcome \in Outcomes,
             CompleteVerification(i, outcome)
      PROVE  Register!Next
  <2> DEFINE t == evidence[i].task
             status == IF outcome = "passed" THEN "review_ready" ELSE "failed"
  <2>1. evidence[i] \in EvidenceRow
    BY <1>5, RowTypes DEF CompleteVerification, ServiceTypeOK
  <2>2. t \in Tasks /\ Exists(t)
    BY <2>1 DEF EvidenceRow, NoEvidence, ServiceTypeOK, ForeignKeys
  <2>3. SetStatus(t, status) /\ UNCHANGED receipts
    BY <1>5 DEF CompleteVerification
  <2>4. status \in Register!Verdicts /\ status \in Statuses
    BY DEF Register!Verdicts, Statuses
  <2> HIDE DEF t, status
  <2>5. Register!Moves(t, status)
    BY <2>2, <2>3, <2>4, StatusMoves
  <2>6. Register!Verdict(t)
    BY <2>2, <2>3, <2>4, <2>5 DEF Exists, Register!Verdict
  <2> QED BY <2>2, <2>6 DEF Register!Next
<1>6. ASSUME NEW t \in Tasks, NEW a \in Agents, FailStart(t, a) PROVE Register!Next
  <2>1. Register!Moves(t, "failed")
    BY <1>6, StatusMoves DEF FailStart, Statuses, Exists
  <2>2. Register!LaunchFailed(t)
    BY <1>6, <2>1 DEF FailStart, Register!LaunchFailed
  <2> QED BY <2>2 DEF Register!Next
<1>7. CASE Reopen
  BY <1>7 DEF Reopen, Register!vars
<1>8. ASSUME NEW t \in Tasks, NEW c \in Commands, NEW expected \in 1 .. task[t].revision,
             \/ \E action \in Actions \ {"start"} :
                   ApplyCommand(t, c, expected, action, None)
             \/ \E a \in Agents : ApplyCommand(t, c, expected, "start", a)
      PROVE  Register!Next
  <2>1. expected \in Nat /\ "start" \in Actions
    BY DEF Actions
  <2> QED BY <1>3, <1>8, <2>1
<1> QED BY <1>1, <1>2, <1>4, <1>5, <1>6, <1>7, <1>8 DEF ServiceNext

\* For any set of tasks, commands and agents, and any interleaving of its methods,
\* the task service is the revision register its clients are promised: a command
\* id takes effect once, with the action it asked for, at the revision it named.
THEOREM RegisterImplemented == ServiceSpec => ImplementsRegister
<1>1. ServiceInit => Register!Init
  BY DEF ServiceInit, Register!Init, NoTask, NoReceipt, Effect
<1> QED BY <1>1, StepRefines, ServiceTypeCorrect, PTL
        DEF ServiceSpec, ImplementsRegister, Register!Spec

-----------------------------------------------------------------------------
(* Handlers use the service through its methods. *)

\* The request of a busy slot names a task, a command and, where the stage needs
\* one, an agent.
LEMMA OpTypes ==
    ASSUME TypeOK, NEW s \in Slots, ops[s].stage # "idle"
    PROVE  /\ ops[s] \in Op
           /\ ops[s].task \in Tasks /\ ops[s].command \in Commands
           /\ ops[s].expected \in Nat
           /\ Key(s) \in Keys
           /\ ops[s].stage \in Inside \cup {"replying"} => ops[s].agent \in Agents
<1>1. ops[s] \in Op
  BY DEF TypeOK, Idle
<1> QED BY <1>1 DEF Op, Inside, Key, Keys

\* A command at the task's own revision is one the service's callers may send.
LEMMA CommandIsService ==
    ASSUME ServiceTypeOK, NEW t \in Tasks, NEW c \in Commands, NEW expected \in Nat,
           NEW action \in Actions, NEW agent \in Agents \cup {None},
           action = "start" => agent \in Agents,
           action # "start" => agent = None,
           ApplyCommand(t, c, expected, action, agent)
    PROVE  ServiceNext
<1>1. task[t] \in TaskRow /\ task[t].revision = expected
  BY RowTypes DEF ApplyCommand, Commandable
<1>2. expected \in 1 .. task[t].revision
  BY <1>1 DEF TaskRow
<1>3. CASE action = "start"
  <2>1. \E a \in Agents : ApplyCommand(t, c, expected, "start", a)
    BY <1>3
  <2> QED BY <1>2, <2>1 DEF ServiceNext
<1>4. CASE action # "start"
  <2>1. \E act \in Actions \ {"start"} : ApplyCommand(t, c, expected, act, None)
    BY <1>4
  <2> QED BY <1>2, <2>1 DEF ServiceNext
<1> QED BY <1>3, <1>4

\* verify(), called for a task that exists or not, is a method of the service.
LEMMA VerifyIsService ==
    ASSUME NEW t \in Tasks, NEW i \in VerifyIds, Verify(t, i)
    PROVE  [ServiceNext]_serviceVars
BY DEF Verify, ServiceNext

\* Every step of the daemon is a step of the service or leaves its tables alone.
LEMMA StepIsService ==
    TypeOK /\ [Next]_vars => [ServiceNext]_serviceVars
<1> SUFFICES ASSUME TypeOK, [Next]_vars
             PROVE  [ServiceNext]_serviceVars
  OBVIOUS
<1>t. ServiceTypeOK
  BY DEF TypeOK
<1>1. CASE UNCHANGED vars
  BY <1>1 DEF vars
<1>2. ASSUME NEW t \in Tasks, CreateTask(t) PROVE ServiceNext
  BY <1>2 DEF CreateTask, ServiceNext
<1>3. ASSUME NEW t \in Tasks, NEW c \in Commands, NEW expected \in 1 .. task[t].revision,
             NEW action \in Actions, PlainCommand(t, c, expected, action)
      PROVE  ServiceNext
  BY <1>3, <1>t, CommandIsService DEF PlainCommand
<1>4. ASSUME NEW s \in Slots, StartStep(s) PROVE [ServiceNext]_serviceVars
  <2>1. CASE CommitStart(s)
    BY <1>t, <2>1, OpTypes, CommandIsService DEF CommitStart, Inside, Actions
  <2>2. CASE RecordFailure(s)
    <3>1. ops[s].task \in Tasks /\ ops[s].agent \in Agents
      BY <2>2, OpTypes DEF RecordFailure, Inside
    <3>2. FailStart(ops[s].task, ops[s].agent) \/ UNCHANGED serviceVars
      BY <2>2 DEF RecordFailure
    <3> QED BY <3>1, <3>2 DEF ServiceNext
  <2>3. CASE Reply(s)
    BY <1>t, <2>3, OpTypes, CommandIsService DEF Reply, Issue, Actions
  <2> QED BY <1>4, <2>1, <2>2, <2>3
          DEF StartStep, JournalFresh, JournalRefuses, JournalReturns, ReplayStart,
              RejectStart, AgentCreated, LaunchReturns, LaunchThrows, UndoJournal, Settle
<1>5. ASSUME NEW s \in Slots, RunVerify(s) PROVE [ServiceNext]_serviceVars
  BY <1>5, OpTypes, VerifyIsService DEF RunVerify, VerifyIds
<1>6. ASSUME NEW h \in inbox, TurnStep(h) PROVE [ServiceNext]_serviceVars
  <2>1. CASE TurnRead(h)
    BY <2>1 DEF TurnRead
  <2>2. CASE TurnVerify(h)
    <3>1. h \in TurnHandler /\ Live(h.agent)
      BY DEF TypeOK
    <3>2. h.agent \in Agents /\ <<h.agent, h.turn>> \in VerifyIds
      BY <3>1 DEF TurnHandler, VerifyIds
    <3>3. agents[h.agent].task \in Tasks
      BY <3>1, <3>2 DEF TypeOK, Live, AgentRow, Minted, NoAgent
    <3> QED BY <2>2, <3>2, <3>3, VerifyIsService DEF TurnVerify
  <2> QED BY <1>6, <2>1, <2>2 DEF TurnStep
<1>7. ASSUME NEW i \in VerifyIds, NEW outcome \in Outcomes, FinishCheck(i, outcome)
      PROVE  ServiceNext
  BY <1>7 DEF FinishCheck, ServiceNext
<1>8. CASE Crash
  BY <1>8 DEF Crash, ServiceNext
<1> QED BY <1>1, <1>2, <1>3, <1>4, <1>5, <1>6, <1>7, <1>8
        DEF Next, StartRequest, VerifyRequest, TurnCompleted, Connect, Disconnect

-----------------------------------------------------------------------------
(* Type correctness of the daemon. *)

\* A handler that continues stays a well-typed request.
LEMMA ContinuesTypeOK ==
    ASSUME TypeOK, NEW s \in Slots, ops[s].stage # "idle",
           NEW stage \in Inside \cup {"replying"}, NEW a \in Agents,
           Continues(s, stage, a)
    PROVE  ops' \in [Slots -> Op \cup {Idle}]
<1>1. [stage |-> stage, task |-> ops[s].task, command |-> ops[s].command,
       expected |-> ops[s].expected, agent |-> a] \in Op
  BY OpTypes DEF Op
<1> QED BY <1>1 DEF Continues, TypeOK

\* Completing a receipt keeps the journal well typed.
LEMMA CompletesTypeOK ==
    ASSUME TypeOK, NEW k \in Keys, journal[k].state # "absent", Completes(k)
    PROVE  journal' \in [Keys -> JournalRow \cup {NoRow}]
<1>1. journal[k] \in JournalRow
  BY DEF TypeOK, NoRow
<1>2. [state |-> "completed", expected |-> journal[k].expected, agent |-> journal[k].agent]
         \in JournalRow
  BY <1>1 DEF JournalRow
<1> QED BY <1>2 DEF Completes, TypeOK

\* Receipts of task_commands that exist are kept by every step of the daemon.
LEMMA CommandsKept ==
    ASSUME TypeOK, [Next]_vars, NEW c \in Commands, receipts[c].action # "absent"
    PROVE  receipts'[c] = receipts[c]
<1>1. ServiceTypeOK /\ [ServiceNext]_serviceVars
  BY StepIsService DEF TypeOK
<1> QED BY <1>1, ReceiptsKept

\* Every step keeps the types, given that handlers hold their receipts.
LEMMA StepHostTypeOK == TypeOK /\ JournalInv /\ [Next]_vars => TypeOK'
<1> SUFFICES ASSUME TypeOK, JournalInv, [Next]_vars
             PROVE  TypeOK'
  OBVIOUS
<1>0. ServiceTypeOK'
  BY StepIsService, StepTypeOK DEF TypeOK
<1> DEFINE HostOK == /\ ops \in [Slots -> Op \cup {Idle}]
                     /\ journal \in [Keys -> JournalRow \cup {NoRow}]
                     /\ agents \in [Agents -> AgentRow \cup {Minted, NoAgent}]
                     /\ turns \in [Agents -> 0 .. MaxTurns]
                     /\ inbox \subseteq {h \in TurnHandler : Live(h.agent)}
                     /\ connected \subseteq Sessions
                     /\ crashes \in 0 .. MaxCrashes
<1> SUFFICES HostOK'
  BY <1>0 DEF TypeOK
<1>h. HostOK
  BY DEF TypeOK
<1>k. ASSUME UNCHANGED <<journal, agents, turns, inbox, connected, crashes>>,
             ops' \in [Slots -> Op \cup {Idle}]
      PROVE  HostOK'
  BY <1>h, <1>k DEF Live
<1>e. ASSUME NEW s \in Slots, Ends(s) PROVE ops' \in [Slots -> Op \cup {Idle}]
  BY <1>h, <1>e DEF Ends
<1>1. CASE UNCHANGED vars
  BY <1>h, <1>1 DEF vars, hostVars, Live
<1>2. ASSUME NEW t \in Tasks, CreateTask(t) PROVE HostOK'
  BY <1>h, <1>2 DEF CreateTask, hostVars, Live
<1>3. ASSUME NEW t \in Tasks, NEW c \in Commands, NEW expected \in 1 .. task[t].revision,
             NEW action \in Actions, PlainCommand(t, c, expected, action)
      PROVE  HostOK'
  BY <1>h, <1>3 DEF PlainCommand, hostVars, Live
<1>4. ASSUME NEW s \in Slots, NEW t \in Tasks, NEW c \in Commands,
             StartRequest(s, t, c) \/ VerifyRequest(s, t, c)
      PROVE  HostOK'
  <2>1. task[t].revision \in Nat /\ task[t].agent \in Agents \cup {None}
    BY DEF TypeOK, ServiceTypeOK, TaskRow, NoTask
  <2>2. ops' \in [Slots -> Op \cup {Idle}]
    BY <1>h, <1>4, <2>1 DEF StartRequest, VerifyRequest, Op
  <2> QED BY <1>4, <1>k, <2>2 DEF StartRequest, VerifyRequest
<1>5. ASSUME NEW s \in Slots, StartStep(s) PROVE HostOK'
  <2>1. ASSUME NEW a \in Agents, JournalFresh(s, a) PROVE HostOK'
    <3>1. Key(s) \in Keys /\ ops[s].expected \in Nat /\ ops[s].stage # "idle"
      BY <2>1, OpTypes DEF JournalFresh, Reads
    <3>2. ops' \in [Slots -> Op \cup {Idle}]
      BY <2>1, <3>1, ContinuesTypeOK DEF JournalFresh, Inside
    <3>3. journal' \in [Keys -> JournalRow \cup {NoRow}]
      BY <1>h, <2>1, <3>1 DEF JournalFresh, JournalRow
    <3>4. /\ agents' \in [Agents -> AgentRow \cup {Minted, NoAgent}]
          /\ \A b \in Agents : Live(b) => agents'[b].state = "live"
      BY <1>h, <2>1 DEF JournalFresh, Live
    <3> QED BY <1>h, <2>1, <3>2, <3>3, <3>4 DEF JournalFresh, TurnHandler, Live
  <2>2. CASE JournalRefuses(s)
    BY <2>2, <1>k, <1>e DEF JournalRefuses
  <2>3. CASE JournalReturns(s)
    <3>1. Key(s) \in Keys /\ ops[s].stage # "idle" /\ journal[Key(s)].state # "absent"
      BY <2>3, OpTypes DEF JournalReturns, Reads
    <3>2. journal[Key(s)].agent \in Agents
      BY <1>h, <3>1 DEF JournalRow, NoRow
    <3>3. ops' \in [Slots -> Op \cup {Idle}]
      BY <2>3, <3>1, <3>2, ContinuesTypeOK DEF JournalReturns
    <3>4. journal' \in [Keys -> JournalRow \cup {NoRow}]
      BY <2>3, <3>1, CompletesTypeOK DEF JournalReturns
    <3> QED BY <1>h, <2>3, <3>3, <3>4 DEF JournalReturns, Live
  <2>4. CASE CommitStart(s) \/ ReplayStart(s) \/ RejectStart(s) \/ LaunchReturns(s)
                \/ LaunchThrows(s) \/ RecordFailure(s)
    <3>1. ops[s].stage \in Inside /\ ops[s].stage # "idle" /\ ops[s].agent \in Agents
      BY <2>4, OpTypes
         DEF CommitStart, ReplayStart, RejectStart, LaunchReturns, LaunchThrows,
             RecordFailure, Inside
    <3>2. \E stage \in Inside : Goes(s, stage)
      BY <2>4 DEF CommitStart, ReplayStart, RejectStart, LaunchReturns, LaunchThrows,
                  RecordFailure, Inside
    <3>3. ops' \in [Slots -> Op \cup {Idle}]
      BY <3>1, <3>2, ContinuesTypeOK DEF Goes
    <3> QED BY <2>4, <3>3, <1>k
            DEF CommitStart, ReplayStart, RejectStart, LaunchReturns, LaunchThrows,
                RecordFailure
  <2>5. CASE AgentCreated(s)
    <3>1. ops[s].agent \in Agents /\ ops[s].task \in Tasks /\ ops[s].command \in Commands
      BY <2>5, OpTypes DEF AgentCreated, Inside
    <3>2. /\ agents' \in [Agents -> AgentRow \cup {Minted, NoAgent}]
          /\ \A b \in Agents : Live(b) => agents'[b].state = "live"
      BY <1>h, <2>5, <3>1 DEF AgentCreated, Live, AgentRow
    <3> QED BY <1>h, <2>5, <3>2 DEF AgentCreated, TurnHandler, Live
  <2>6. CASE UndoJournal(s)
    <3>1. Key(s) \in Keys
      BY <2>6, OpTypes DEF UndoJournal
    <3>2. journal' \in [Keys -> JournalRow \cup {NoRow}]
      BY <1>h, <2>6, <3>1 DEF UndoJournal
    <3> QED BY <1>h, <1>e, <2>6, <3>2 DEF UndoJournal, Live
  <2>7. CASE Settle(s)
    <3>1. Key(s) \in Keys /\ ops[s].stage \in Inside /\ ops[s].agent \in Agents
      BY <2>7, OpTypes DEF Settle, Inside
    <3>2. journal[Key(s)].state # "absent"
      <4>1. Holds(s)
        BY <3>1 DEF JournalInv
      <4> QED BY <4>1 DEF Holds
    <3>3. journal' \in [Keys -> JournalRow \cup {NoRow}]
      BY <2>7, <3>1, <3>2, CompletesTypeOK DEF Settle
    <3>4. ops' \in [Slots -> Op \cup {Idle}]
      BY <2>7, <3>1, ContinuesTypeOK DEF Settle, Goes
    <3> QED BY <1>h, <2>7, <3>3, <3>4 DEF Settle, Live
  <2>8. CASE Reply(s)
    BY <2>8, <1>k, <1>e DEF Reply
  <2> QED BY <1>5, <2>1, <2>2, <2>3, <2>4, <2>5, <2>6, <2>7, <2>8 DEF StartStep
<1>6. ASSUME NEW s \in Slots, RunVerify(s) PROVE HostOK'
  BY <1>6, <1>k, <1>e DEF RunVerify
<1>7. ASSUME NEW a \in Agents, TurnCompleted(a) PROVE HostOK'
  <2>1. turns[a] \in 0 .. MaxTurns /\ turns[a] < MaxTurns
    BY <1>h, <1>7 DEF TurnCompleted
  <2>2. turns[a] + 1 \in 1 .. MaxTurns
    BY <2>1, TurnsBound
  <2>3. turns' \in [Agents -> 0 .. MaxTurns]
    BY <1>h, <1>7, <2>2, TurnsBound DEF TurnCompleted
  <2>4. [session : connected, agent : {a}, turn : {turns[a] + 1}, stage : {"new"}]
           \subseteq {h \in TurnHandler : Live(h.agent)}
    BY <1>h, <1>7, <2>2 DEF TurnCompleted, TurnHandler
  <2> QED BY <1>h, <1>7, <2>3, <2>4 DEF TurnCompleted, Live
<1>8. ASSUME NEW h \in inbox, TurnStep(h) PROVE HostOK'
  <2>1. h \in TurnHandler /\ Live(h.agent)
    BY <1>h
  <2>2. [h EXCEPT !.stage = "checked"] \in TurnHandler
           /\ [h EXCEPT !.stage = "checked"].agent = h.agent
    BY <2>1 DEF TurnHandler
  <2>3. inbox' \subseteq {g \in TurnHandler : Live(g.agent)}
    BY <1>h, <1>8, <2>1, <2>2 DEF TurnStep, TurnRead, TurnVerify
  <2> QED BY <1>h, <1>8, <2>3 DEF TurnStep, TurnRead, TurnVerify, Live
<1>9. ASSUME NEW i \in VerifyIds, NEW outcome \in Outcomes, FinishCheck(i, outcome)
      PROVE  HostOK'
  BY <1>h, <1>9 DEF FinishCheck, hostVars, Live
<1>10. ASSUME NEW c \in Sessions, Connect(c) \/ Disconnect(c) PROVE HostOK'
  BY <1>h, <1>10 DEF Connect, Disconnect, Live
<1>11. CASE Crash
  BY <1>h, <1>11, CrashBound DEF Crash, Live
<1> HIDE DEF HostOK
<1> QED BY <1>1, <1>2, <1>3, <1>4, <1>5, <1>6, <1>7, <1>8, <1>9, <1>10, <1>11 DEF Next

-----------------------------------------------------------------------------
(* The journal invariant. *)

\* An agent's storage entry is one of three: unused, minted or created.
LEMMA AgentStates ==
    ASSUME TypeOK, NEW a \in Agents
    PROVE  /\ agents[a].state = "unused" <=> agents[a] = NoAgent
           /\ agents[a].state = "minted" <=> agents[a] = Minted
           /\ Live(a) => agents[a].task \in Tasks /\ agents[a].command \in Commands
           /\ NoAgent # Minted
BY DEF TypeOK, AgentRow, Minted, NoAgent, Live

\* A handler inside the journal whose receipt, agent and request are left alone
\* keeps what it relies on, whatever else the step does.
LEMMA HandlerKept ==
    ASSUME TypeOK, JournalInv, [Next]_vars, NEW r \in Slots, ops[r].stage \in Inside,
           ops'[r] = ops[r],
           journal'[Key(r)] = journal[Key(r)],
           agents'[ops[r].agent] = agents[ops[r].agent]
    PROVE  Holds(r)' /\ Ready(r)'
<1>1. ops[r].command \in Commands
  BY OpTypes DEF Inside
<1>2. Holds(r) /\ Ready(r)
  BY DEF JournalInv
<1>3. Holds(r)'
  BY <1>2 DEF Holds, Key, Minted
<1>4. receipts[ops[r].command].action = "start" => receipts'[ops[r].command] = receipts[ops[r].command]
  BY <1>1, CommandsKept
<1> QED BY <1>2, <1>3, <1>4 DEF Ready, Live

\* An agent that exists keeps its committed start.
LEMMA LaunchKept ==
    ASSUME TypeOK, JournalInv, [Next]_vars, NEW a \in Agents, Live(a),
           agents'[a] = agents[a]
    PROVE  /\ receipts'[agents'[a].command].action = "start"
           /\ receipts'[agents'[a].command].task = agents'[a].task
<1>1. agents[a].command \in Commands
  BY AgentStates
<1>2. /\ receipts[agents[a].command].action = "start"
      /\ receipts[agents[a].command].task = agents[a].task
  BY DEF JournalInv, LaunchIsCommitted
<1> QED BY <1>1, <1>2, CommandsKept

\* A step that leaves the journal and the agents alone and only moves handlers
\* between stages they are ready for keeps the invariant.
LEMMA StageMoves ==
    ASSUME TypeOK, JournalInv, [Next]_vars, UNCHANGED <<journal, agents>>,
           \A s \in Slots : ops'[s].stage \in Inside =>
              /\ ops[s].stage \in Inside
              /\ ops'[s].task = ops[s].task /\ ops'[s].command = ops[s].command
              /\ ops'[s].expected = ops[s].expected /\ ops'[s].agent = ops[s].agent
              /\ Ready(s)'
    PROVE  JournalInv'
<1>1. ASSUME NEW s \in Slots, ops'[s].stage \in Inside PROVE Holds(s)' /\ Ready(s)'
  <2>1. Holds(s)
    BY <1>1 DEF JournalInv
  <2> QED BY <1>1, <2>1 DEF Holds, Key, Minted
<1>2. KeysExclusive'
  BY DEF JournalInv, KeysExclusive, Key
<1>3. RowsDistinct' /\ NoLaunchForgotten'
  BY DEF JournalInv, RowsDistinct, NoLaunchForgotten, Live
<1>4. LaunchIsCommitted'
  BY LaunchKept DEF LaunchIsCommitted, Live
<1> QED BY <1>1, <1>2, <1>3, <1>4 DEF JournalInv

\* The same when one handler moves and the others stay where they are.
LEMMA OneStageMoves ==
    ASSUME TypeOK, JournalInv, [Next]_vars, UNCHANGED <<journal, agents>>, NEW s \in Slots,
           \A r \in Slots : r # s => ops'[r] = ops[r],
           \/ ops'[s].stage \notin Inside
           \/ /\ ops[s].stage \in Inside
              /\ ops'[s].task = ops[s].task /\ ops'[s].command = ops[s].command
              /\ ops'[s].expected = ops[s].expected /\ ops'[s].agent = ops[s].agent
              /\ Ready(s)'
    PROVE  JournalInv'
<1>1. ASSUME NEW r \in Slots, r # s, ops'[r].stage \in Inside
      PROVE  ops[r].stage \in Inside /\ Ready(r)'
  BY <1>1, HandlerKept
<1> QED BY <1>1, StageMoves

\* A first start writes a receipt under a free key for an agent id nobody has.
LEMMA FreshKeepsJournal ==
    ASSUME TypeOK, JournalInv, [Next]_vars, NEW s \in Slots, NEW a \in Agents,
           JournalFresh(s, a)
    PROVE  JournalInv'
<1>k. Key(s) \in Keys /\ ops \in [Slots -> Op \cup {Idle}] /\ ops[s] \in Op
  BY OpTypes DEF JournalFresh, Reads, TypeOK
<1>j. journal \in [Keys -> JournalRow \cup {NoRow}] /\ agents \in [Agents -> AgentRow \cup {Minted, NoAgent}]
  BY DEF TypeOK
<1>a. agents[a] = NoAgent /\ journal[Key(s)] = NoRow
  BY <1>j, <1>k, AgentStates DEF JournalFresh, JournalRow
<1>n. /\ journal' = [journal EXCEPT ![Key(s)] =
            [state |-> "pending", expected |-> ops[s].expected, agent |-> a]]
      /\ agents' = [agents EXCEPT ![a] = Minted]
      /\ ops' = [ops EXCEPT ![s] = [stage |-> "committing", task |-> ops[s].task,
            command |-> ops[s].command, expected |-> ops[s].expected, agent |-> a]]
  BY DEF JournalFresh, Continues
<1>f. \A r \in Slots : ops[r].stage \in Inside => Key(r) # Key(s) /\ r # s
  BY DEF JournalFresh, Reads, KeyFree
<1>r. \A k \in Keys : journal[k] # NoRow => journal[k].agent # a
  BY <1>a DEF JournalInv, RowsDistinct
<1>1. ASSUME NEW r \in Slots, ops'[r].stage \in Inside PROVE Holds(r)' /\ Ready(r)'
  <2>1. CASE r = s
    <3>1. ops'[s] = [stage |-> "committing", task |-> ops[s].task,
             command |-> ops[s].command, expected |-> ops[s].expected, agent |-> a]
      BY <1>k, <1>n
    <3>2. agents'[a] = Minted
      BY <1>j, <1>n
    <3>3. journal'[Key(s)] = [state |-> "pending", expected |-> ops[s].expected, agent |-> a]
      BY <1>j, <1>k, <1>n
    <3> QED BY <2>1, <3>1, <3>2, <3>3 DEF Holds, Ready, Key
  <2>2. CASE r # s
    <3>1. ops'[r] = ops[r] /\ ops[r].stage \in Inside /\ Key(r) # Key(s)
      BY <1>1, <1>k, <1>n, <1>f, <2>2
    <3>2. Key(r) \in Keys /\ ops[r].agent \in Agents
      BY <3>1, OpTypes DEF Inside
    <3>3. agents[ops[r].agent] # NoAgent
      <4>1. Holds(r)
        BY <3>1 DEF JournalInv
      <4> QED BY <4>1 DEF Holds, Minted, NoAgent
    <3>4. journal'[Key(r)] = journal[Key(r)] /\ agents'[ops[r].agent] = agents[ops[r].agent]
      BY <1>a, <1>j, <1>n, <3>1, <3>2, <3>3
    <3> QED BY <3>1, <3>4, HandlerKept
  <2> QED BY <2>1, <2>2
<1>2. KeysExclusive'
  <2>1. \A r \in Slots : ops'[r].stage \in Inside =>
           r = s \/ (ops[r].stage \in Inside /\ ops'[r] = ops[r])
    BY <1>k, <1>n
  <2>2. ops'[s].task = ops[s].task /\ ops'[s].command = ops[s].command
    BY <1>k, <1>n
  <2> QED BY <2>1, <2>2, <1>f DEF JournalInv, KeysExclusive, Key
<1>3. RowsDistinct'
  <2>1. \A k \in Keys : journal'[k] # NoRow =>
           \/ k = Key(s) /\ journal'[k].agent = a
           \/ k # Key(s) /\ journal'[k] = journal[k]
    BY <1>j, <1>k, <1>n
  <2>2. \A k \in Keys : journal[k] # NoRow =>
           journal[k].agent \in Agents /\ agents[journal[k].agent] # NoAgent
    BY <1>j DEF JournalInv, RowsDistinct, JournalRow
  <2>3. \A b \in Agents : agents[b] # NoAgent => agents'[b] # NoAgent
    BY <1>j, <1>n DEF Minted, NoAgent
  <2>4. agents'[a] # NoAgent
    BY <1>j, <1>n DEF Minted, NoAgent
  <2>5. \A k, l \in Keys : k # l /\ journal[k] # NoRow /\ journal[l] # NoRow
          => journal[k].agent # journal[l].agent
    BY DEF JournalInv, RowsDistinct
  <2> QED BY <1>r, <2>1, <2>2, <2>3, <2>4, <2>5 DEF RowsDistinct
<1>l. ASSUME NEW b \in Agents, Live(b)' PROVE Live(b) /\ b # a /\ agents'[b] = agents[b]
  BY <1>j, <1>l, <1>n DEF Live, Minted
<1>4. NoLaunchForgotten'
  <2> SUFFICES ASSUME NEW b \in Agents, Live(b)'
               PROVE  /\ journal'[<<agents[b].task, agents[b].command>>].state # "absent"
                      /\ journal'[<<agents[b].task, agents[b].command>>].agent = b
    BY <1>l DEF NoLaunchForgotten
  <2> DEFINE k == <<agents[b].task, agents[b].command>>
  <2>1. k \in Keys
    BY <1>l, AgentStates DEF Keys
  <2>2. journal[k].state # "absent" /\ journal[k].agent = b
    BY <1>l DEF JournalInv, NoLaunchForgotten
  <2>3. k # Key(s)
    BY <1>a, <2>2 DEF NoRow
  <2>4. journal'[k] = journal[k]
    BY <1>j, <1>n, <2>1, <2>3
  <2> QED BY <2>2, <2>4
<1>5. LaunchIsCommitted'
  BY <1>l, LaunchKept DEF LaunchIsCommitted
<1> QED BY <1>1, <1>2, <1>3, <1>4, <1>5 DEF JournalInv

\* Completing a receipt changes neither its agent nor that it is there.
LEMMA CompletesKeepsRows ==
    ASSUME TypeOK, JournalInv, NEW k \in Keys, journal[k].state # "absent",
           Completes(k), UNCHANGED agents
    PROVE  RowsDistinct' /\ NoLaunchForgotten'
<1>1. journal \in [Keys -> JournalRow \cup {NoRow}]
  BY DEF TypeOK
<1>2. \A l \in Keys : /\ journal'[l].agent = journal[l].agent
                      /\ journal'[l].state # "absent" <=> journal[l].state # "absent"
                      /\ journal'[l] # NoRow <=> journal[l] # NoRow
  BY <1>1 DEF Completes, NoRow, JournalRow
<1>3. RowsDistinct'
  BY <1>2 DEF JournalInv, RowsDistinct
<1>4. NoLaunchForgotten'
  <2>1. \A b \in Agents : Live(b) => <<agents[b].task, agents[b].command>> \in Keys
    BY AgentStates DEF Keys
  <2> QED BY <1>2, <2>1 DEF JournalInv, NoLaunchForgotten, Live
<1> QED BY <1>3, <1>4

\* A receipt is completed by a call that holds its key alone and leaves the
\* journal: by the one that returns its agent, or by the one that created it.
LEMMA CompletingKeepsJournal ==
    ASSUME TypeOK, JournalInv, [Next]_vars, NEW s \in Slots,
           JournalReturns(s) \/ Settle(s)
    PROVE  JournalInv'
<1>k. Key(s) \in Keys /\ ops \in [Slots -> Op \cup {Idle}]
  BY OpTypes DEF JournalReturns, Settle, Reads, TypeOK
<1>j. journal \in [Keys -> JournalRow \cup {NoRow}]
  BY DEF TypeOK
<1>n. /\ Completes(Key(s)) /\ agents' = agents
      /\ \E agent : Continues(s, "replying", agent)
  BY DEF JournalReturns, Settle, Goes
<1>a. journal[Key(s)].state # "absent"
  <2>1. CASE Settle(s)
    <3>1. Holds(s)
      BY <2>1 DEF Settle, Inside, JournalInv
    <3> QED BY <3>1 DEF Holds
  <2> QED BY <2>1 DEF JournalReturns
<1>f. \A r \in Slots : r # s /\ ops[r].stage \in Inside => Key(r) # Key(s)
  BY DEF JournalReturns, Reads, KeyFree, Settle, JournalInv, KeysExclusive, Inside
<1>o. /\ \A r \in Slots : r # s => ops'[r] = ops[r]
      /\ ops'[s].stage \notin Inside
  BY <1>k, <1>n DEF Continues, Inside
<1>1. ASSUME NEW r \in Slots, ops'[r].stage \in Inside PROVE Holds(r)' /\ Ready(r)'
  <2>1. r # s /\ ops'[r] = ops[r] /\ ops[r].stage \in Inside /\ Key(r) # Key(s)
    BY <1>1, <1>o, <1>f
  <2>2. Key(r) \in Keys
    BY <2>1, OpTypes DEF Inside
  <2>3. journal'[Key(r)] = journal[Key(r)]
    BY <1>j, <1>n, <2>1, <2>2 DEF Completes
  <2> QED BY <1>n, <2>1, <2>3, HandlerKept
<1>2. KeysExclusive'
  BY <1>o DEF JournalInv, KeysExclusive, Key
<1>3. RowsDistinct' /\ NoLaunchForgotten'
  BY <1>k, <1>n, <1>a, CompletesKeepsRows
<1>4. LaunchIsCommitted'
  BY <1>n, LaunchKept DEF LaunchIsCommitted, Live
<1> QED BY <1>1, <1>2, <1>3, <1>4 DEF JournalInv

\* The agent of a launching handler is the one its receipt names, its start is
\* committed, and no other handler waits for it.
LEMMA CreationKeepsJournal ==
    ASSUME TypeOK, JournalInv, [Next]_vars, NEW s \in Slots, AgentCreated(s)
    PROVE  JournalInv'
<1>k. /\ Key(s) \in Keys /\ ops[s].agent \in Agents
      /\ ops[s].task \in Tasks /\ ops[s].command \in Commands
  BY OpTypes DEF AgentCreated, Inside
<1>j. /\ agents \in [Agents -> AgentRow \cup {Minted, NoAgent}]
      /\ journal \in [Keys -> JournalRow \cup {NoRow}]
  BY DEF TypeOK
<1>n. /\ agents' = [agents EXCEPT ![ops[s].agent] =
            [state |-> "live", task |-> ops[s].task, command |-> ops[s].command]]
      /\ ops' = ops /\ journal' = journal /\ receipts' = receipts
  BY DEF AgentCreated, serviceVars
<1>h. Holds(s) /\ Ready(s) /\ ops[s].stage = "launching"
  BY DEF AgentCreated, JournalInv, Inside
<1>o. \A b \in Agents : b # ops[s].agent => agents'[b] = agents[b]
  BY <1>j, <1>n
<1>s. agents'[ops[s].agent] = [state |-> "live", task |-> ops[s].task, command |-> ops[s].command]
  BY <1>j, <1>k, <1>n
<1>1. ASSUME NEW r \in Slots, ops'[r].stage \in Inside PROVE Holds(r)' /\ Ready(r)'
  <2>1. CASE r = s
    <3>1. Holds(s)'
      BY <1>h, <1>n, <1>s DEF Holds, Key
    <3>2. Ready(s)'
      BY <1>h, <1>n, <1>s DEF Ready, Live
    <3> QED BY <2>1, <3>1, <3>2
  <2>2. CASE r # s
    <3>1. ops[r].stage \in Inside /\ Key(r) # Key(s)
      BY <1>1, <1>n, <1>h, <2>2 DEF JournalInv, KeysExclusive, Inside
    <3>2. Key(r) \in Keys /\ ops[r].agent \in Agents
      BY <3>1, OpTypes DEF Inside
    <3>3. journal[Key(r)].agent = ops[r].agent /\ journal[Key(r)] # NoRow
      <4>1. Holds(r)
        BY <3>1 DEF JournalInv
      <4> QED BY <4>1 DEF Holds, NoRow
    <3>4. journal[Key(s)].agent = ops[s].agent /\ journal[Key(s)] # NoRow
      BY <1>h DEF Holds, NoRow
    <3>5. ops[r].agent # ops[s].agent
      BY <1>k, <3>1, <3>2, <3>3, <3>4 DEF JournalInv, RowsDistinct
    <3>6. agents'[ops[r].agent] = agents[ops[r].agent]
      BY <1>o, <3>2, <3>5
    <3> QED BY <1>n, <3>1, <3>6, HandlerKept
  <2> QED BY <2>1, <2>2
<1>2. KeysExclusive'
  BY <1>n DEF JournalInv, KeysExclusive, Key
<1>3. RowsDistinct'
  <2>1. \A b \in Agents : agents[b] # NoAgent => agents'[b] # NoAgent
    BY <1>o, <1>s DEF NoAgent
  <2>2. \A k \in Keys : journal[k] # NoRow => journal[k].agent \in Agents
    BY <1>j DEF JournalRow
  <2> QED BY <1>n, <2>1, <2>2 DEF JournalInv, RowsDistinct
<1>4. NoLaunchForgotten'
  <2>1. /\ journal[<<ops[s].task, ops[s].command>>].state # "absent"
        /\ journal[<<ops[s].task, ops[s].command>>].agent = ops[s].agent
    BY <1>h DEF Holds, Key
  <2>2. \A b \in Agents : Live(b) =>
           /\ journal[<<agents[b].task, agents[b].command>>].state # "absent"
           /\ journal[<<agents[b].task, agents[b].command>>].agent = b
    BY DEF JournalInv, NoLaunchForgotten
  <2> QED BY <1>n, <1>o, <1>s, <2>1, <2>2 DEF NoLaunchForgotten, Live
<1>5. LaunchIsCommitted'
  <2>1. /\ receipts[ops[s].command].action = "start"
        /\ receipts[ops[s].command].task = ops[s].task
    BY <1>h DEF Ready
  <2> QED BY <1>n, <1>o, <1>s, <2>1 DEF JournalInv, LaunchIsCommitted, Live
<1> QED BY <1>1, <1>2, <1>3, <1>4, <1>5 DEF JournalInv

\* A receipt is removed only while its agent does not exist.
LEMMA UndoKeepsJournal ==
    ASSUME TypeOK, JournalInv, [Next]_vars, NEW s \in Slots, UndoJournal(s)
    PROVE  JournalInv'
<1>k. Key(s) \in Keys /\ ops \in [Slots -> Op \cup {Idle}]
  BY OpTypes DEF UndoJournal, TypeOK
<1>j. journal \in [Keys -> JournalRow \cup {NoRow}]
  BY DEF TypeOK
<1>n. /\ journal' = journal \/ (~Live(ops[s].agent) /\ journal' = [journal EXCEPT ![Key(s)] = NoRow])
      /\ agents' = agents /\ ops' = [ops EXCEPT ![s] = Idle]
  BY DEF UndoJournal, Ends
<1>h. Holds(s)
  BY DEF UndoJournal, JournalInv, Inside
<1>o. \A k \in Keys : journal'[k] # NoRow => journal'[k] = journal[k]
  BY <1>j, <1>n
<1>p. \A k \in Keys : k # Key(s) => journal'[k] = journal[k]
  BY <1>j, <1>n
<1>q. /\ \A r \in Slots : r # s => ops'[r] = ops[r]
      /\ ops'[s].stage \notin Inside
  BY <1>k, <1>n DEF Idle, Inside
<1>1. ASSUME NEW r \in Slots, ops'[r].stage \in Inside PROVE Holds(r)' /\ Ready(r)'
  <2>1. r # s /\ ops'[r] = ops[r] /\ ops[r].stage \in Inside
    BY <1>1, <1>q
  <2>2. Key(r) # Key(s)
    BY <2>1 DEF UndoJournal, Inside, JournalInv, KeysExclusive
  <2>3. Key(r) \in Keys
    BY <2>1, OpTypes DEF Inside
  <2> QED BY <1>n, <1>p, <2>1, <2>2, <2>3, HandlerKept
<1>2. KeysExclusive'
  BY <1>q DEF JournalInv, KeysExclusive, Key
<1>3. RowsDistinct'
  BY <1>n, <1>o DEF JournalInv, RowsDistinct
<1>4. NoLaunchForgotten'
  <2> SUFFICES ASSUME NEW b \in Agents, Live(b)
               PROVE  /\ journal'[<<agents[b].task, agents[b].command>>].state # "absent"
                      /\ journal'[<<agents[b].task, agents[b].command>>].agent = b
    BY <1>n DEF NoLaunchForgotten, Live
  <2> DEFINE k == <<agents[b].task, agents[b].command>>
  <2>1. k \in Keys
    BY AgentStates DEF Keys
  <2>2. journal[k].state # "absent" /\ journal[k].agent = b
    BY DEF JournalInv, NoLaunchForgotten
  <2>3. CASE k # Key(s)
    BY <1>p, <2>1, <2>2, <2>3
  <2>4. CASE k = Key(s)
    BY <1>h, <1>n, <2>2, <2>4 DEF Holds
  <2> QED BY <2>3, <2>4
<1>5. LaunchIsCommitted'
  BY <1>n, LaunchKept DEF LaunchIsCommitted, Live
<1> QED BY <1>1, <1>2, <1>3, <1>4, <1>5 DEF JournalInv

\* Every step of a start keeps the invariant.
LEMMA StartKeepsJournal ==
    ASSUME TypeOK, JournalInv, [Next]_vars, NEW s \in Slots, StartStep(s)
    PROVE  JournalInv'
<1>o. ops \in [Slots -> Op \cup {Idle}]
  BY DEF TypeOK
<1>e. ASSUME Ends(s) PROVE /\ \A r \in Slots : r # s => ops'[r] = ops[r]
                           /\ ops'[s].stage \notin Inside
  BY <1>o, <1>e DEF Ends, Idle, Inside
<1>g. ASSUME NEW stage, Goes(s, stage)
      PROVE  /\ \A r \in Slots : r # s => ops'[r] = ops[r]
             /\ ops'[s].task = ops[s].task /\ ops'[s].command = ops[s].command
             /\ ops'[s].expected = ops[s].expected /\ ops'[s].agent = ops[s].agent
             /\ ops'[s].stage = stage
  BY <1>o, <1>g DEF Goes, Continues
<1>1. CASE \E a \in Agents : JournalFresh(s, a)
  BY <1>1, FreshKeepsJournal
<1>2. CASE JournalRefuses(s) \/ Reply(s)
  BY <1>2, <1>e, OneStageMoves DEF JournalRefuses, Reply
<1>3. CASE JournalReturns(s) \/ Settle(s)
  BY <1>3, CompletingKeepsJournal
<1>4. CASE CommitStart(s) \/ ReplayStart(s)
  <2>1. /\ ops[s].stage = "committing" /\ Goes(s, "launching")
        /\ journal' = journal /\ agents' = agents
    BY <1>4 DEF CommitStart, ReplayStart
  <2>2. ops[s].command \in Commands
    BY <2>1, OpTypes
  <2>3. /\ receipts'[ops[s].command].action = "start"
        /\ receipts'[ops[s].command].task = ops[s].task
    <3>1. CASE CommitStart(s)
      BY <2>2, <3>1 DEF CommitStart, ApplyCommand, Receipt, TypeOK, ServiceTypeOK
    <3>2. CASE ReplayStart(s)
      BY <3>2 DEF ReplayStart, Replayed, serviceVars
    <3> QED BY <1>4, <3>1, <3>2
  <2>4. Ready(s)' /\ ops[s].stage \in Inside
    BY <1>g, <2>1, <2>3 DEF Ready, Inside
  <2> QED BY <1>g, <2>1, <2>4, OneStageMoves
<1>5. CASE RejectStart(s) \/ LaunchReturns(s) \/ LaunchThrows(s) \/ RecordFailure(s)
  <2>1. /\ ops[s].stage \in {"committing", "launching", "failing"}
        /\ \/ Goes(s, "undoing")
           \/ /\ ops[s].stage = "launching"
              /\ Goes(s, "failing") \/ (Live(ops[s].agent) /\ Goes(s, "settling"))
        /\ journal' = journal /\ agents' = agents
    BY <1>5 DEF RejectStart, LaunchReturns, LaunchThrows, RecordFailure
  <2>2. ops[s].stage \in Inside /\ ops[s].command \in Commands /\ Ready(s)
    BY <2>1, OpTypes DEF Inside, JournalInv
  <2>3. receipts[ops[s].command].action = "start" => receipts'[ops[s].command] = receipts[ops[s].command]
    BY <2>2, CommandsKept
  <2>4. Ready(s)'
    BY <1>g, <2>1, <2>2, <2>3 DEF Ready, Live
  <2> QED BY <1>g, <2>1, <2>2, <2>4, OneStageMoves
<1>6. CASE AgentCreated(s)
  BY <1>6, CreationKeepsJournal
<1>7. CASE UndoJournal(s)
  BY <1>7, UndoKeepsJournal
<1> QED BY <1>1, <1>2, <1>3, <1>4, <1>5, <1>6, <1>7 DEF StartStep

\* The journal invariant is kept by every step of the daemon.
LEMMA StepJournal == TypeOK /\ JournalInv /\ [Next]_vars => JournalInv'
<1> SUFFICES ASSUME TypeOK, JournalInv, [Next]_vars
             PROVE  JournalInv'
  OBVIOUS
<1>o. ops \in [Slots -> Op \cup {Idle}]
  BY DEF TypeOK
<1>u. ASSUME UNCHANGED <<ops, journal, agents>> PROVE JournalInv'
  BY <1>u, HandlerKept, StageMoves
<1>1. ASSUME NEW s \in Slots, NEW t \in Tasks, NEW c \in Commands,
             StartRequest(s, t, c) \/ VerifyRequest(s, t, c)
      PROVE  JournalInv'
  <2>1. /\ \A r \in Slots : r # s => ops'[r] = ops[r]
        /\ ops'[s].stage \notin Inside
    BY <1>o, <1>1 DEF StartRequest, VerifyRequest, Inside
  <2> QED BY <1>1, <2>1, OneStageMoves DEF StartRequest, VerifyRequest
<1>2. ASSUME NEW s \in Slots, RunVerify(s) PROVE JournalInv'
  <2>1. /\ \A r \in Slots : r # s => ops'[r] = ops[r]
        /\ ops'[s].stage \notin Inside
    BY <1>o, <1>2 DEF RunVerify, Ends, Idle, Inside
  <2> QED BY <1>2, <2>1, OneStageMoves DEF RunVerify
<1>3. CASE Crash
  BY <1>3, StageMoves DEF Crash, Idle, Inside
<1> QED BY <1>u, <1>1, <1>2, <1>3, StartKeepsJournal
        DEF Next, vars, hostVars, CreateTask, PlainCommand, TurnCompleted, TurnStep,
            TurnRead, TurnVerify, FinishCheck, Connect, Disconnect

-----------------------------------------------------------------------------
(* Until the first crash, somebody works on every running task. *)

\* A receipt that is completed, and a handler that replies, name an agent that exists.
CompletedAreLive ==
    /\ \A k \in Keys : journal[k].state = "completed" => Live(journal[k].agent)
    /\ \A s \in Slots : ops[s].stage = "replying" => Live(ops[s].agent)

RunningHasAgent == \A t \in Tasks : task[t].status = "running" => task[t].agent \in Agents

AttendedInv == CompletedAreLive /\ RunningHasAgent /\ (crashes = 0 => RunningIsAttended)

\* What a step of a slot's handler leaves of the others, and what it needs of types.
LEMMA SlotMoves ==
    ASSUME TypeOK, NEW s \in Slots
    PROVE  /\ Ends(s) => /\ \A r \in Slots : r # s => ops'[r] = ops[r]
                         /\ ops'[s].stage = "idle"
           /\ \A stage, agent : Continues(s, stage, agent) =>
                 /\ \A r \in Slots : r # s => ops'[r] = ops[r]
                 /\ ops'[s].stage = stage /\ ops'[s].agent = agent /\ ops'[s].task = ops[s].task
<1>1. ops \in [Slots -> Op \cup {Idle}]
  BY DEF TypeOK
<1> QED BY <1>1 DEF Ends, Continues, Idle

\* An agent that exists is never taken back.
LEMMA AgentsStay ==
    ASSUME TypeOK, [Next]_vars, NEW a \in Agents, Live(a)
    PROVE  Live(a)'
<1>1. agents \in [Agents -> AgentRow \cup {Minted, NoAgent}] /\ agents[a].state = "live"
  BY DEF TypeOK, Live
<1>2. ASSUME NEW s \in Slots, NEW b \in Agents, JournalFresh(s, b) PROVE Live(a)'
  BY <1>1, <1>2 DEF JournalFresh, Live
<1>3. ASSUME NEW s \in Slots, AgentCreated(s) PROVE Live(a)'
  BY <1>1, <1>3 DEF AgentCreated, Live
<1>4. CASE UNCHANGED agents
  BY <1>1, <1>4 DEF Live
<1> QED BY <1>2, <1>3, <1>4
        DEF Next, vars, hostVars, CreateTask, PlainCommand, StartRequest, VerifyRequest, StartStep,
            JournalRefuses, JournalReturns, CommitStart, ReplayStart, RejectStart, LaunchReturns,
            LaunchThrows, RecordFailure, UndoJournal, Settle, Reply, RunVerify, TurnCompleted,
            TurnStep, TurnRead, TurnVerify, FinishCheck, Connect, Disconnect, Crash

\* A receipt is completed for an agent that exists.
LEMMA StepCompleted == TypeOK /\ JournalInv /\ CompletedAreLive /\ [Next]_vars => CompletedAreLive'
<1> SUFFICES ASSUME TypeOK, JournalInv, CompletedAreLive, [Next]_vars
             PROVE  CompletedAreLive'
  OBVIOUS
<1>t. /\ ops \in [Slots -> Op \cup {Idle}] /\ journal \in [Keys -> JournalRow \cup {NoRow}]
      /\ \A k \in Keys : journal[k].state = "completed" => journal[k].agent \in Agents
      /\ \A s \in Slots : ops[s].stage = "replying" => ops[s].agent \in Agents
  BY OpTypes DEF TypeOK, JournalRow, NoRow
<1>1. ASSUME \A k \in Keys : journal'[k].state = "completed" =>
                 journal'[k] = journal[k] \/ (journal'[k].agent \in Agents /\ Live(journal'[k].agent)),
             \A s \in Slots : ops'[s].stage = "replying" =>
                 ops'[s] = ops[s] \/ (ops'[s].agent \in Agents /\ Live(ops'[s].agent))
      PROVE  CompletedAreLive'
  <2>1. \A a \in Agents : Live(a) => Live(a)'
    BY AgentsStay
  <2>2. \A a : Live(a)' <=> agents'[a].state = "live"
    BY DEF Live
  <2>3. \A k \in Keys : journal'[k].state = "completed" => agents'[journal'[k].agent].state = "live"
    BY <1>t, <1>1, <2>1, <2>2 DEF CompletedAreLive
  <2>4. \A s \in Slots : ops'[s].stage = "replying" => agents'[ops'[s].agent].state = "live"
    BY <1>t, <1>1, <2>1, <2>2 DEF CompletedAreLive
  <2> QED BY <2>3, <2>4 DEF CompletedAreLive, Live
<1>2. ASSUME NEW s \in Slots, JournalReturns(s) \/ Settle(s) PROVE CompletedAreLive'
  <2> DEFINE k == Key(s)
             a == journal[k].agent
  <2>1. k \in Keys /\ journal[k].state # "absent" /\ a \in Agents
    <3>1. k \in Keys /\ ops[s].agent \in Agents \cup {None}
      BY <1>2, OpTypes DEF JournalReturns, Settle, Reads, Op
    <3>2. journal[k].state # "absent"
      <4>1. CASE JournalReturns(s)
        BY <4>1 DEF JournalReturns
      <4>2. CASE Settle(s)
        <5>1. Holds(s)
          BY <4>2 DEF Settle, Inside, JournalInv
        <5> QED BY <5>1 DEF Holds
      <4> QED BY <1>2, <4>1, <4>2
    <3> QED BY <1>t, <3>1, <3>2 DEF JournalRow, NoRow
  <2>2. Live(a) /\ Continues(s, "replying", a) /\ Completes(k)
    <3>1. CASE JournalReturns(s)
      <4>1. journal[k].state \in {"pending", "completed"}
        BY <1>t, <2>1 DEF JournalRow, NoRow
      <4> QED BY <2>1, <3>1, <4>1 DEF JournalReturns, CompletedAreLive
    <3>2. CASE Settle(s)
      <4>1. Holds(s) /\ Ready(s)
        BY <3>2 DEF Settle, Inside, JournalInv
      <4> QED BY <3>2, <4>1 DEF Settle, Goes, Holds, Ready
    <3> QED BY <1>2, <3>1, <3>2
  <2>3. \A l \in Keys : journal'[l] = journal[l] \/ journal'[l].agent = a
    BY <1>t, <2>1, <2>2 DEF Completes
  <2> HIDE DEF k, a
  <2> QED BY <1>1, <2>1, <2>2, <2>3, SlotMoves
<1>3. ASSUME NEW s \in Slots, NEW b \in Agents, JournalFresh(s, b) PROVE CompletedAreLive'
  <2>1. \A l \in Keys : journal'[l].state = "completed" => journal'[l] = journal[l]
    BY <1>t, <1>3 DEF JournalFresh
  <2>2. \A r \in Slots : ops'[r].stage = "replying" => ops'[r] = ops[r]
    BY <1>3, SlotMoves DEF JournalFresh
  <2> QED BY <1>1, <2>1, <2>2
<1>4. ASSUME NEW s \in Slots, UndoJournal(s) PROVE CompletedAreLive'
  <2>1. \A l \in Keys : journal'[l].state = "completed" => journal'[l] = journal[l]
    BY <1>t, <1>4 DEF UndoJournal, NoRow
  <2>2. \A r \in Slots : ops'[r].stage = "replying" => ops'[r] = ops[r]
    BY <1>4, SlotMoves DEF UndoJournal
  <2> QED BY <1>1, <2>1, <2>2
<1>5. ASSUME UNCHANGED journal, NEW s \in Slots, NEW stage, NEW agent, stage # "replying",
             Ends(s) \/ Continues(s, stage, agent)
      PROVE  CompletedAreLive'
  <2>1. \A r \in Slots : ops'[r].stage = "replying" => ops'[r] = ops[r]
    BY <1>5, SlotMoves
  <2> QED BY <1>1, <1>5, <2>1
<1>6. ASSUME NEW s \in Slots, StartStep(s) PROVE CompletedAreLive'
  <2>1. CASE AgentCreated(s)
    BY <1>1, <2>1 DEF AgentCreated
  <2> QED BY <1>2, <1>3, <1>4, <1>5, <1>6, <2>1
          DEF StartStep, Goes, JournalRefuses, CommitStart, ReplayStart, RejectStart, LaunchReturns,
              LaunchThrows, RecordFailure, Reply
<1>7. ASSUME NEW s \in Slots, NEW t \in Tasks, NEW c \in Commands,
             StartRequest(s, t, c) \/ VerifyRequest(s, t, c)
      PROVE  CompletedAreLive'
  <2>1. \A r \in Slots : ops'[r].stage = "replying" => ops'[r] = ops[r]
    BY <1>t, <1>7 DEF StartRequest, VerifyRequest
  <2> QED BY <1>1, <1>7, <2>1 DEF StartRequest, VerifyRequest
<1>8. ASSUME NEW s \in Slots, RunVerify(s) PROVE CompletedAreLive'
  BY <1>5, <1>8 DEF RunVerify
<1>9. CASE UNCHANGED <<ops, journal>>
  BY <1>1, <1>9
<1>10. CASE Crash
  BY <1>1, <1>10 DEF Crash, Idle
<1> QED BY <1>6, <1>7, <1>8, <1>9, <1>10
        DEF Next, vars, hostVars, CreateTask, PlainCommand, TurnCompleted, TurnStep, TurnRead,
            TurnVerify, FinishCheck, Connect, Disconnect

\* A handler that will create the agent of a running task, or report that it could not.
Works(s, t) == /\ ops[s].stage \in {"launching", "failing"}
               /\ ops[s].task = t /\ ops[s].agent = task[t].agent

\* Of the commands, only a start makes a task run, for the agent it names ...
LEMMA CommandRuns ==
    ASSUME ServiceTypeOK, NEW t \in Tasks, task'[t].status = "running",
           NEW u \in Tasks, NEW c, NEW expected, NEW action \in Actions, NEW a,
           ApplyCommand(u, c, expected, action, a)
    PROVE  \/ task'[t] = task[t]
           \/ action = "start" /\ u = t /\ task'[t].agent = a
<1> DEFINE owner == AgentAfter(action, a, task[u].agent)
<1>1. task' = [task EXCEPT ![u] =
         [status |-> Target[action], revision |-> task[u].revision + 1, agent |-> owner]]
  BY DEF ApplyCommand
<1>2. action = "start" => owner = a
  BY DEF ApplyCommand, Commandable, NextStatusAllowed, AgentAfter
<1>3. Target[action] = "running" => action = "start"
  BY DEF Actions, Target
<1>4. task \in [Tasks -> TaskRow \cup {NoTask}]
  BY DEF ServiceTypeOK
<1> HIDE DEF owner
<1> QED BY <1>1, <1>2, <1>3, <1>4

\* ... and no claim, verdict, failure or creation does.
LEMMA OnlyStartsRun ==
    ASSUME ServiceTypeOK, NEW t \in Tasks, task'[t].status = "running"
    PROVE  /\ UNCHANGED serviceVars => task'[t] = task[t]
           /\ \A u \in Tasks : Create(u) => task'[t] = task[t]
           /\ \A u \in Tasks : \A i : ClaimVerification(u, i) => task'[t] = task[t]
           /\ \A i \in VerifyIds : \A outcome : CompleteVerification(i, outcome) => task'[t] = task[t]
           /\ \A u \in Tasks : \A a : FailStart(u, a) =>
                 task'[t] = task[t] /\ (task[t].agent = a => u # t)
<1>1. task \in [Tasks -> TaskRow \cup {NoTask}]
  BY DEF ServiceTypeOK
<1>2. ASSUME NEW u \in Tasks, NEW status, status # "running", SetStatus(u, status)
      PROVE  task'[t] = task[t] /\ u # t
  BY <1>1, <1>2 DEF SetStatus
<1>3. ASSUME NEW u \in Tasks, Create(u) PROVE task'[t] = task[t]
  BY <1>1, <1>3 DEF Create
<1>4. ASSUME NEW u \in Tasks, NEW i, ClaimVerification(u, i) PROVE task'[t] = task[t]
  BY <1>2, <1>4 DEF ClaimVerification
<1>5. ASSUME NEW i \in VerifyIds, NEW outcome, CompleteVerification(i, outcome) PROVE task'[t] = task[t]
  <2>1. evidence[i].task \in Tasks
    BY <1>5 DEF ServiceTypeOK, CompleteVerification, EvidenceRow, NoEvidence
  <2>2. \/ SetStatus(evidence[i].task, "review_ready")
        \/ SetStatus(evidence[i].task, "failed")
    BY <1>5 DEF CompleteVerification
  <2> QED BY <1>2, <2>1, <2>2
<1>6. ASSUME NEW u \in Tasks, NEW a, FailStart(u, a)
      PROVE  task'[t] = task[t] /\ (task[t].agent = a => u # t)
  BY <1>2, <1>6 DEF FailStart
<1> QED BY <1>3, <1>4, <1>5, <1>6 DEF serviceVars

\* Every step keeps running tasks attended.
LEMMA StepAttended ==
    TypeOK /\ JournalInv /\ AttendedInv /\ [Next]_vars => AttendedInv'
<1> SUFFICES ASSUME TypeOK, JournalInv, AttendedInv, [Next]_vars
             PROVE  RunningHasAgent' /\ (crashes' = 0 => RunningIsAttended')
  BY StepCompleted DEF AttendedInv
<1>t. /\ ServiceTypeOK /\ ops \in [Slots -> Op \cup {Idle}]
      /\ CompletedAreLive /\ RunningHasAgent
  BY DEF TypeOK, AttendedInv
<1>w. RunningIsAttended <=> \A t \in Tasks : task[t].status = "running" =>
                              Live(task[t].agent) \/ \E s \in Slots : Works(s, t)
  BY DEF RunningIsAttended, Works
<1>v. RunningIsAttended' <=> \A t \in Tasks : task'[t].status = "running" =>
                              Live(task[t].agent)' \/ \E s \in Slots : Works(s, t)'
  BY DEF RunningIsAttended, Works
\* What is left to show of a step, for the tasks that run after it.
<1>1. ASSUME UNCHANGED crashes,
             \A t \in Tasks : task'[t].status = "running" =>
                \/ /\ task'[t] = task[t]
                   /\ \A s \in Slots : Works(s, t) => Works(s, t)' \/ Live(task[t].agent)'
                \/ task'[t].agent \in Agents /\ (Live(task[t].agent)' \/ \E s \in Slots : Works(s, t)')
      PROVE  RunningHasAgent' /\ (crashes' = 0 => RunningIsAttended')
  <2>1. RunningHasAgent'
    BY <1>1, <1>t DEF RunningHasAgent
  <2>2. ASSUME crashes' = 0, NEW t \in Tasks, task'[t].status = "running"
        PROVE  Live(task[t].agent)' \/ \E s \in Slots : Works(s, t)'
    <3>1. CASE task'[t] = task[t] /\ \A s \in Slots : Works(s, t) => Works(s, t)' \/ Live(task[t].agent)'
      <4>1. RunningIsAttended /\ task[t].agent \in Agents
        BY <1>1, <1>t, <2>2, <3>1 DEF AttendedInv, RunningHasAgent
      <4>2. CASE Live(task[t].agent)
        <5>1. \A a \in Agents : Live(a) => Live(a)'
          BY AgentsStay
        <5>2. Live(task[t].agent)' <=> agents'[task'[t].agent].state = "live"
          BY DEF Live
        <5>3. agents'[task[t].agent].state = "live"
          BY <4>1, <4>2, <5>1 DEF Live
        <5> QED BY <3>1, <5>2, <5>3
      <4>3. CASE \E s \in Slots : Works(s, t)
        BY <3>1, <4>3
      <4> QED BY <1>w, <2>2, <3>1, <4>1, <4>2, <4>3
    <3> QED BY <1>1, <2>2, <3>1
  <2> QED BY <1>v, <2>1, <2>2
\* A step in which no task starts and no handler that works stops.
<1>2. ASSUME UNCHANGED crashes,
             \A t \in Tasks : task'[t].status = "running" => task'[t] = task[t],
             \A s \in Slots : ops[s].stage \in {"launching", "failing"} => ops'[s] = ops[s]
      PROVE  RunningHasAgent' /\ (crashes' = 0 => RunningIsAttended')
  <2>1. ASSUME NEW t \in Tasks, task'[t].status = "running", NEW s \in Slots, Works(s, t)
        PROVE  Works(s, t)'
    BY <1>2, <2>1 DEF Works
  <2> QED BY <1>1, <1>2, <2>1
\* A handler that does not work goes on, or one that works goes on working.
<1>3. ASSUME UNCHANGED <<serviceVars, crashes>>, NEW s \in Slots, NEW stage, NEW agent,
             Ends(s) \/ Continues(s, stage, agent),
             ops[s].stage \in {"launching", "failing"} =>
                Live(ops[s].agent) \/
                (stage \in {"launching", "failing"} /\ agent = ops[s].agent /\ Continues(s, stage, agent))
      PROVE  RunningHasAgent' /\ (crashes' = 0 => RunningIsAttended')
  <2>1. task' = task /\ crashes' = crashes
    BY <1>3 DEF serviceVars
  <2>2. ASSUME NEW t \in Tasks, NEW r \in Slots, Works(r, t)
        PROVE  Works(r, t)' \/ Live(task[t].agent)'
    <3>1. CASE r # s
      BY <1>3, <2>1, <2>2, <3>1, SlotMoves DEF Works
    <3>2. CASE r = s /\ Live(ops[s].agent)
      <4>1. ops[s].agent \in Agents /\ ops[s].agent = task[t].agent
        BY <2>2, <3>2, OpTypes DEF Works, Inside
      <4>2. agents'[ops[s].agent].state = "live"
        BY <3>2, <4>1, AgentsStay DEF Live
      <4> QED BY <2>1, <4>1, <4>2 DEF Live
    <3>3. CASE r = s /\ ~Live(ops[s].agent)
      BY <1>3, <2>1, <2>2, <3>3, SlotMoves DEF Works
    <3> QED BY <3>1, <3>2, <3>3
  <2> QED BY <1>1, <2>1, <2>2
<1>4. ASSUME NEW s \in Slots, JournalFresh(s, ops'[s].agent) \/ JournalRefuses(s) \/ JournalReturns(s)
                              \/ ReplayStart(s) \/ RejectStart(s) \/ LaunchReturns(s) \/ LaunchThrows(s)
                              \/ UndoJournal(s) \/ Settle(s)
      PROVE  RunningHasAgent' /\ (crashes' = 0 => RunningIsAttended')
  <2>1. UNCHANGED <<serviceVars, crashes>>
    BY <1>4 DEF JournalFresh, JournalRefuses, JournalReturns, ReplayStart, RejectStart, LaunchReturns,
                LaunchThrows, UndoJournal, Settle
  <2>2. ops[s].stage \notin {"launching", "failing"} \/ LaunchReturns(s) \/ LaunchThrows(s)
    BY <1>4 DEF JournalFresh, JournalRefuses, JournalReturns, ReplayStart, RejectStart, UndoJournal,
                Settle, Reads
  <2>3. \E stage, agent : Ends(s) \/ Continues(s, stage, agent)
    BY <1>4 DEF JournalFresh, JournalRefuses, JournalReturns, ReplayStart, RejectStart, LaunchReturns,
                LaunchThrows, UndoJournal, Settle, Goes
  <2>4. CASE ops[s].stage \notin {"launching", "failing"}
    BY <1>3, <2>1, <2>3, <2>4
  <2>5. CASE LaunchReturns(s)
    BY <1>3, <2>1, <2>5 DEF LaunchReturns, Goes
  <2>6. CASE LaunchThrows(s)
    BY <1>3, <2>1, <2>6 DEF LaunchThrows, Goes
  <2> QED BY <2>2, <2>4, <2>5, <2>6
<1>5. ASSUME NEW s \in Slots, CommitStart(s)
      PROVE  RunningHasAgent' /\ (crashes' = 0 => RunningIsAttended')
  <2>1. /\ ops[s].stage = "committing" /\ Continues(s, "launching", ops[s].agent)
        /\ ops[s].task \in Tasks /\ ops[s].agent \in Agents /\ crashes' = crashes
    BY <1>5, OpTypes DEF CommitStart, Goes, Inside
  <2>2. ASSUME NEW t \in Tasks, task'[t].status = "running"
        PROVE  task'[t] = task[t] \/ (ops[s].task = t /\ task'[t].agent = ops[s].agent)
    <3>1. ApplyCommand(ops[s].task, ops[s].command, ops[s].expected, "start", ops[s].agent)
             /\ "start" \in Actions
      BY <1>5 DEF CommitStart, Actions
    <3> QED BY <1>t, <2>1, <2>2, <3>1, CommandRuns
  <2>3. ASSUME NEW t \in Tasks, ops[s].task = t, task'[t].agent = ops[s].agent
        PROVE  Works(s, t)'
    BY <2>1, <2>3, SlotMoves DEF Works
  <2>4. ASSUME NEW t \in Tasks, task'[t] = task[t], NEW r \in Slots, Works(r, t)
        PROVE  Works(r, t)'
    <3>1. r # s /\ ops'[r] = ops[r]
      BY <2>1, <2>4, SlotMoves DEF Works
    <3> QED BY <2>4, <3>1 DEF Works
  <2> QED BY <1>1, <2>1, <2>2, <2>3, <2>4
<1>6. ASSUME NEW s \in Slots, RecordFailure(s)
      PROVE  RunningHasAgent' /\ (crashes' = 0 => RunningIsAttended')
  <2>1. /\ ops[s].stage = "failing" /\ Continues(s, "undoing", ops[s].agent)
        /\ ops[s].task \in Tasks /\ crashes' = crashes
    BY <1>6, OpTypes DEF RecordFailure, Goes, Inside
  <2>2. ASSUME NEW t \in Tasks, task'[t].status = "running"
        PROVE  task'[t] = task[t] /\ ~Works(s, t)
    <3>1. CASE FailStart(ops[s].task, ops[s].agent)
      BY <1>t, <2>1, <2>2, <3>1, OnlyStartsRun DEF Works
    <3>2. CASE ~(/\ task[ops[s].task].status = "running"
                 /\ task[ops[s].task].agent = ops[s].agent)
               /\ UNCHANGED serviceVars
      BY <2>2, <3>2 DEF Works, serviceVars
    <3> QED BY <1>6, <3>1, <3>2 DEF RecordFailure
  <2>3. ASSUME NEW t \in Tasks, task'[t] = task[t], NEW r \in Slots, r # s, Works(r, t)
        PROVE  Works(r, t)'
    BY <2>1, <2>3, SlotMoves DEF Works
  <2> QED BY <1>1, <2>1, <2>2, <2>3
<1>7. ASSUME NEW s \in Slots, Reply(s)
      PROVE  RunningHasAgent' /\ (crashes' = 0 => RunningIsAttended')
  <2>1. /\ ops[s].stage = "replying" /\ Ends(s) /\ crashes' = crashes
        /\ ops[s].task \in Tasks /\ ops[s].agent \in Agents /\ agents' = agents
    BY <1>7, OpTypes DEF Reply
  <2>2. Live(ops[s].agent)
    BY <1>t, <2>1 DEF CompletedAreLive
  <2>3. ASSUME NEW t \in Tasks, task'[t].status = "running"
        PROVE  task'[t] = task[t] \/ task'[t].agent = ops[s].agent
    <3>1. CASE UNCHANGED serviceVars
      BY <3>1 DEF serviceVars
    <3>2. CASE ApplyCommand(ops[s].task, ops[s].command, ops[s].expected, "start", ops[s].agent)
      <4>1. "start" \in Actions
        BY DEF Actions
      <4> QED BY <1>t, <2>1, <2>3, <3>2, <4>1, CommandRuns
    <3> QED BY <1>7, <3>1, <3>2 DEF Reply, Issue
  <2>4. ASSUME NEW t \in Tasks, task'[t].agent = ops[s].agent
        PROVE  Live(task[t].agent)'
    BY <2>1, <2>2, <2>4 DEF Live
  <2>5. ASSUME NEW t \in Tasks, task'[t] = task[t], NEW r \in Slots, Works(r, t)
        PROVE  Works(r, t)'
    <3>1. r # s /\ ops'[r] = ops[r]
      BY <2>1, <2>5, SlotMoves DEF Works
    <3> QED BY <2>5, <3>1 DEF Works
  <2> QED BY <1>1, <2>1, <2>3, <2>4, <2>5
<1>8. ASSUME NEW s \in Slots, AgentCreated(s)
      PROVE  RunningHasAgent' /\ (crashes' = 0 => RunningIsAttended')
  BY <1>2, <1>8 DEF AgentCreated, serviceVars
<1>9. ASSUME NEW s \in Slots, StartStep(s)
      PROVE  RunningHasAgent' /\ (crashes' = 0 => RunningIsAttended')
  <2>1. ASSUME NEW a \in Agents, JournalFresh(s, a) PROVE JournalFresh(s, ops'[s].agent)
    <3>1. ops'[s].agent = a
      BY <2>1, SlotMoves DEF JournalFresh
    <3> QED BY <2>1, <3>1
  <2> QED BY <1>4, <1>5, <1>6, <1>7, <1>8, <1>9, <2>1 DEF StartStep
<1>10. ASSUME NEW s \in Slots, NEW t \in Tasks, NEW c \in Commands,
              StartRequest(s, t, c) \/ VerifyRequest(s, t, c)
       PROVE  RunningHasAgent' /\ (crashes' = 0 => RunningIsAttended')
  <2>1. \A r \in Slots : ops[r].stage \in {"launching", "failing"} => ops'[r] = ops[r]
    BY <1>t, <1>10 DEF StartRequest, VerifyRequest
  <2>2. task' = task /\ crashes' = crashes
    BY <1>10 DEF StartRequest, VerifyRequest, serviceVars
  <2> QED BY <1>2, <2>1, <2>2
<1>11. ASSUME NEW t \in Tasks, NEW i \in VerifyIds, Verify(t, i)
       PROVE  \A u \in Tasks : task'[u].status = "running" => task'[u] = task[u]
  BY <1>t, <1>11, OnlyStartsRun DEF Verify
<1>12. ASSUME NEW s \in Slots, RunVerify(s)
       PROVE  RunningHasAgent' /\ (crashes' = 0 => RunningIsAttended')
  <2>1. /\ ops[s].task \in Tasks /\ ops[s].command \in VerifyIds /\ crashes' = crashes
        /\ Verify(ops[s].task, ops[s].command) /\ Ends(s) /\ ops[s].stage = "verifying"
    BY <1>12, OpTypes DEF RunVerify, VerifyIds
  <2>2. \A r \in Slots : ops[r].stage \in {"launching", "failing"} => ops'[r] = ops[r]
    BY <2>1, SlotMoves
  <2> QED BY <1>2, <1>11, <2>1, <2>2
<1>13. ASSUME NEW h \in inbox, TurnStep(h)
       PROVE  RunningHasAgent' /\ (crashes' = 0 => RunningIsAttended')
  <2>1. CASE TurnRead(h)
    BY <1>2, <2>1 DEF TurnRead, serviceVars
  <2>2. CASE TurnVerify(h)
    <3>1. h \in TurnHandler /\ Live(h.agent)
      BY DEF TypeOK
    <3>2. h.agent \in Agents /\ <<h.agent, h.turn>> \in VerifyIds
      BY <3>1 DEF TurnHandler, VerifyIds
    <3>3. agents[h.agent].task \in Tasks
      BY <3>1, <3>2, AgentStates
    <3>4. \A u \in Tasks : task'[u].status = "running" => task'[u] = task[u]
      BY <1>11, <2>2, <3>2, <3>3 DEF TurnVerify
    <3> QED BY <1>2, <2>2, <3>4 DEF TurnVerify
  <2> QED BY <1>13, <2>1, <2>2 DEF TurnStep
<1>14. ASSUME NEW i \in VerifyIds, NEW outcome \in Outcomes, FinishCheck(i, outcome)
       PROVE  RunningHasAgent' /\ (crashes' = 0 => RunningIsAttended')
  BY <1>2, <1>14, <1>t, OnlyStartsRun DEF FinishCheck, hostVars
<1>15. ASSUME NEW t \in Tasks, CreateTask(t)
       PROVE  RunningHasAgent' /\ (crashes' = 0 => RunningIsAttended')
  BY <1>2, <1>15, <1>t, OnlyStartsRun DEF CreateTask, hostVars
<1>16. ASSUME NEW t \in Tasks, NEW c \in Commands, NEW expected \in 1 .. task[t].revision,
              NEW action \in Actions, PlainCommand(t, c, expected, action)
       PROVE  RunningHasAgent' /\ (crashes' = 0 => RunningIsAttended')
  <2>1. \A u \in Tasks : task'[u].status = "running" => task'[u] = task[u]
    BY <1>16, <1>t, CommandRuns DEF PlainCommand
  <2> QED BY <1>2, <1>16, <2>1 DEF PlainCommand, hostVars
<1>17. CASE Crash
  <2>1. crashes' # 0 /\ task' = task
    BY <1>17 DEF Crash, Reopen, TypeOK
  <2> QED BY <1>t, <2>1 DEF RunningHasAgent
<1>18. CASE UNCHANGED <<serviceVars, ops, crashes>>
  BY <1>2, <1>18 DEF serviceVars
<1> QED BY <1>9, <1>10, <1>12, <1>13, <1>14, <1>15, <1>16, <1>17, <1>18
        DEF Next, vars, hostVars, TurnCompleted, Connect, Disconnect

-----------------------------------------------------------------------------
(* Theorems. *)

\* The daemon starts well typed, with an empty journal.
LEMMA InitHost == Init => TypeOK /\ JournalInv
<1> SUFFICES ASSUME Init PROVE TypeOK /\ JournalInv
  OBVIOUS
<1>1. ServiceTypeOK
  BY InitTypeOK DEF Init
<1>2. TypeOK
  BY <1>1, TurnsBound, CrashBound DEF Init, TypeOK
<1>3. JournalInv
  BY DEF Init, JournalInv, KeysExclusive, RowsDistinct, NoLaunchForgotten,
         LaunchIsCommitted, Live, Idle, Inside, NoRow, NoAgent
<1> QED BY <1>2, <1>3

\* The daemon's variables keep their types and its journal agrees with its agents
\* and handlers, in every interleaving of handlers and across every crash.
THEOREM HostCorrect == Spec => [](TypeOK /\ JournalInv)
<1>1. TypeOK /\ JournalInv /\ [Next]_vars => (TypeOK /\ JournalInv)'
  BY StepHostTypeOK, StepJournal
<1> QED BY InitHost, <1>1, PTL DEF Spec

\* What the journal remembers makes the launch of a start unique.
LEMMA RememberedOnce == JournalInv => OneAgentPerStart
BY DEF JournalInv, NoLaunchForgotten, OneAgentPerStart

\* However often a start is repeated, at most one agent exists for it.
THEOREM StartsLaunchOnce == Spec => []OneAgentPerStart
BY HostCorrect, RememberedOnce, PTL

\* The daemon uses the task service only as the service's specification allows.
THEOREM DaemonUsesService == Spec => ServiceSpec
<1>1. Init => ServiceInit
  BY DEF Init
<1> QED BY <1>1, HostCorrect, StepIsService, PTL DEF Spec, ServiceSpec

\* So in the daemon too, a task reaches acceptance only on evidence of a pass.
THEOREM DaemonAcceptsOnEvidence == Spec => []AcceptanceRestsOnEvidence
BY DaemonUsesService, AcceptanceIsEarned, PTL

\* And each revision of a task is the work of one command or one check.
THEOREM DaemonRevisionsUnique == Spec => []RevisionsAreUnique
BY DaemonUsesService, RevisionsUnique, PTL

\* And the tasks of the daemon move as the abstract register does.
THEOREM DaemonImplementsRegister == Spec => ImplementsRegister
BY DaemonUsesService, RegisterImplemented, PTL

\* The operations, the journal, the agents and the turns of the daemon keep their types.
THEOREM DaemonTypes == Spec => []TypeOK
BY HostCorrect, PTL

\* The invariant holds throughout.
LEMMA AttendedInvariant == Spec => []AttendedInv
<1>1. Init => AttendedInv
  BY DEF Init, ServiceInit, NoTask, AttendedInv, CompletedAreLive, RunningHasAgent, RunningIsAttended,
         NoRow, Idle
<1> QED BY HostCorrect, <1>1, StepAttended, PTL DEF Spec

\* Until the daemon crashes, every running task has its agent, or a handler that
\* will create it or record that it could not: whatever fails in a launch, no task
\* is left running for nobody.
THEOREM AttendedUntilCrash == Spec => [](crashes = 0 => RunningIsAttended)
<1>1. AttendedInv => (crashes = 0 => RunningIsAttended)
  BY DEF AttendedInv
<1> QED BY AttendedInvariant, <1>1, PTL

\* So a daemon that does not crash never leaves a running task unattended.
THEOREM RunningAttended ==
    ASSUME MaxCrashes = 0
    PROVE  Spec => []RunningIsAttended
<1>1. TypeOK => crashes = 0
  BY DEF TypeOK
<1> QED BY HostCorrect, AttendedUntilCrash, <1>1, PTL
=============================================================================
