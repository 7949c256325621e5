---------------------------- MODULE TaskRegister ----------------------------
(***************************************************************************)
(* What the task service promises its clients, with nothing said about     *)
(* tables, receipts, evidence rows or verification jobs: every task is a   *)
(* register with a revision.  A client's command names a task, an action   *)
(* and the revision it has seen; the command may be refused for ever, and  *)
(* when it takes effect it does so once, at the revision it named and      *)
(* along the edge of its action.  The daemon itself may only move a task   *)
(* into verification, publish a verdict, or report that a launch failed;   *)
(* it never queues, starts, completes or cancels one.                      *)
(***************************************************************************)
EXTENDS Naturals

CONSTANTS Tasks,      \* task ids of one workspace
          Commands,   \* command ids a client may send
          Unused      \* a command id that has not taken effect

VARIABLES status,     \* status[t], "absent" before the task is created
          revision,   \* revision[t], 0 before the task is created
          effects     \* effects[c], the request that took effect as c

vars == <<status, revision, effects>>

Verdicts == {"review_ready", "failed"}

\* The lifecycle edge of each action a client may ask for.
Edge == [accept |-> <<"review_ready", "completed">>, start |-> <<"queued", "running">>,
         retry |-> <<"failed", "queued">>, cancel |-> <<"queued", "cancelled">>]

\* A client's request: what it asks of which task, at which revision.
Request(t, expected, action) == [task |-> t, expected |-> expected, action |-> action]

Init == /\ status = [t \in Tasks |-> "absent"]
        /\ revision = [t \in Tasks |-> 0]
        /\ effects = [c \in Commands |-> Unused]

Moves(t, s) == /\ status' = [status EXCEPT ![t] = s]
               /\ revision' = [revision EXCEPT ![t] = @ + 1]

Create(t) == /\ status[t] = "absent"
             /\ Moves(t, "queued")
             /\ UNCHANGED effects

Command(t, c, expected, action) ==
    /\ effects[c] = Unused
    /\ revision[t] = expected
    /\ status[t] = Edge[action][1]
    /\ Moves(t, Edge[action][2])
    /\ effects' = [effects EXCEPT ![c] = Request(t, expected, action)]

Verifying(t) == /\ status[t] # "absent"
                /\ Moves(t, "verifying")
                /\ UNCHANGED effects

Verdict(t) == /\ status[t] # "absent"
              /\ \E s \in Verdicts : Moves(t, s)
              /\ UNCHANGED effects

LaunchFailed(t) == /\ status[t] = "running"
                   /\ Moves(t, "failed")
                   /\ UNCHANGED effects

Next == \E t \in Tasks :
           \/ Create(t)
           \/ \E c \in Commands, expected \in 0 .. revision[t], action \in DOMAIN Edge :
                 Command(t, c, expected, action)
           \/ Verifying(t)
           \/ Verdict(t)
           \/ LaunchFailed(t)

Spec == Init /\ [][Next]_vars
=============================================================================
