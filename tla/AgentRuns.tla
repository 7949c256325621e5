------------------------------- MODULE AgentRuns -------------------------------
(***************************************************************************)
(* The runs of one agent in the daemon: prompts, replacements and          *)
(* cancellations that call the agent manager (agent-manager.ts,            *)
(* agent-run-state.ts), the queue of events of its provider session, and   *)
(* the generators that stream a turn.  The provider is external: when it   *)
(* answers startTurn and interrupt, and when its turns end, is open.       *)
(*                                                                         *)
(* The daemon is one thread.  Requests, timers and the provider come in    *)
(* while nothing is ready to continue (Quiet); what is ready continues in  *)
(* any order, except that the next in the lane of foreground mutations     *)
(* begins before the caller that left it goes on (agent-manager.ts:2662    *)
(* chains it on the tail, three promise steps; the caller takes four).     *)
(***************************************************************************)
EXTENDS Integers, Sequences

CONSTANTS Prompts,          \* calls of startAgentRun
          Cancels,          \* calls of cancelAgentRun
          NoCaller,
          MaxTurns          \* turns the provider may begin

Callers == Prompts \union Cancels
Turns == 1..MaxTurns
NoTurn == 0

ASSUME CallersAssumption == /\ Prompts \intersect Cancels = {}
                            /\ NoCaller \notin Callers
ASSUME MaxTurnsAssumption == MaxTurns \in Nat

VARIABLES
  agent,                    \* the ManagedAgent: lifecycle, turns, replacement, error
  run,                      \* the tracked run, AgentRunState.runs
  staged,                   \* its stagedEvents
  queue,                    \* the session events not yet dispatched
  lane,                     \* foregroundMutationTails: callers in order, head inside
  call,                     \* where each call is
  open,                     \* the agent has not been closed
  live,                     \* turns the provider has not ended
  begun                     \* turns begun

provider == <<live, begun>>
vars == <<agent, run, staged, queue, lane, call, open, live, begun>>

NoRun == [kind |-> "none", by |-> NoCaller, turn |-> NoTurn]
PendingRun(c) == [kind |-> "foreground", by |-> c, turn |-> NoTurn]
AutonomousRun(t) == [kind |-> "autonomous", by |-> NoCaller, turn |-> t]
SameRun(r, s) == r.kind = s.kind /\ r.by = s.by /\ (r.kind = "autonomous" => r.turn = s.turn)
StartPending == run.kind = "foreground" /\ run.turn = NoTurn

Event(type, turn) == [type |-> type, turn |-> turn]

(* A call: what it waits for; the run it saw in cancelAgentRunNow and      *)
(* whether the interrupt was acknowledged; whether it replaces a run; its  *)
(* turn, and whether the stream of the turn has seen its end.              *)
NewCall ==
  [at |-> "idle", saw |-> NoRun, acked |-> FALSE, replaces |-> FALSE,
   turn |-> NoTurn, ended |-> FALSE]

Init ==
  /\ agent = [lifecycle |-> "idle", foreground |-> NoTurn, active |-> NoTurn,
              replacing |-> FALSE, failed |-> FALSE, finalized |-> {}, shown |-> "idle"]
  /\ run = NoRun /\ staged = <<>> /\ queue = <<>> /\ lane = <<>>
  /\ call = [c \in Callers |-> NewCall]
  /\ open = TRUE
  /\ live = {} /\ begun = 0

At(c, place) == call[c].at = place
Goes(c, place) == call' = [call EXCEPT ![c].at = place]
Answered(c) == call' = [call EXCEPT ![c] = [NewCall EXCEPT !.at = "done"]]

(* emitState.                                                              *)
Shown(a) == [a EXCEPT !.shown = a.lifecycle]
ShownIf(a, condition) == IF condition THEN Shown(a) ELSE a

-----------------------------------------------------------------------------
(* handleStreamEvent, on the pair of agent and run.                        *)
Both(a, r) == [agent |-> a, run |-> r]

IdentityOf(a, turn) ==
  IF turn # NoTurn THEN turn
  ELSE IF a.foreground # NoTurn THEN a.foreground ELSE a.active

(* onStreamTurnStarted.                                                    *)
TurnStarted(a, r, turn) ==
  IF a.foreground # NoTurn THEN Both(a, r)
  ELSE Both(Shown([a EXCEPT !.active = turn, !.lifecycle = "running"]),
            IF r = NoRun THEN AutonomousRun(turn) ELSE r)

(* applyActiveTurnTerminal.                                                *)
Disposition(a, turn) ==
  CASE a.active = NoTurn -> "untracked"
    [] a.active # NoTurn /\ turn # NoTurn /\ a.active # turn -> "stale"
    [] OTHER -> "closed_current"
Closed(a, turn) == IF Disposition(a, turn) = "closed_current" THEN [a EXCEPT !.active = NoTurn] ELSE a

(* onStreamTurnCompleted, onStreamTurnFailed, onStreamTurnCanceled.        *)
AfterTerminal(a, type, turn) ==
  LET alone == a.foreground = NoTurn
      settles == alone /\ ~a.replacing
      b == Closed(a, turn)
  IN CASE Disposition(a, turn) = "stale" -> b
       [] Disposition(a, turn) # "stale" /\ type = "completed" ->
            ShownIf([b EXCEPT !.failed = FALSE, !.lifecycle = IF settles THEN "idle" ELSE @],
                    settles /\ a.lifecycle # "idle")
       [] Disposition(a, turn) # "stale" /\ type = "failed" ->
            ShownIf([b EXCEPT !.failed = TRUE, !.lifecycle = IF alone THEN "error" ELSE @], alone)
       [] Disposition(a, turn) # "stale" /\ type = "canceled" ->
            ShownIf([b EXCEPT !.failed = FALSE, !.lifecycle = IF settles THEN "idle" ELSE @], alone)

(* settleTerminalRun.                                                      *)
RunEndedBy(r, turn) ==
  CASE r.kind = "foreground" -> r.turn # NoTurn /\ r.turn = turn
    [] r.kind = "autonomous" -> r.turn = NoTurn \/ turn = NoTurn \/ r.turn = turn
    [] OTHER -> FALSE

\* Mutant of Finalized: a failed turn is held for the replacement, unpublished.
Finalized_HoldsFailure(a, turn) ==
  ShownIf([Closed(a, turn) EXCEPT !.foreground = NoTurn,
             !.finalized = IF turn = NoTurn THEN @ ELSE @ \union {turn},
             !.lifecycle = IF a.failed THEN "error" ELSE IF a.replacing THEN "running" ELSE "idle"],
          ~a.replacing)

(* finalizeForegroundTurn.                                                 *)
Finalized(a, turn) ==
  LET hold == a.replacing /\ ~a.failed
      b == [Closed(a, turn) EXCEPT !.foreground = NoTurn,
              !.finalized = IF turn = NoTurn THEN @ ELSE @ \union {turn},
              !.lifecycle = IF hold THEN "running" ELSE IF a.failed THEN "error" ELSE "idle"]
  IN ShownIf(b, ~hold)

Ignored(a, turn) == turn # NoTurn /\ turn \in a.finalized

\* Mutant of TurnEnded: any terminal event ends the foreground turn.
TurnEnded_AnyTerminal(a, r, type, given) ==
  LET turn == IdentityOf(a, given)
      b == AfterTerminal(a, type, turn)
  IN IF Ignored(a, turn) THEN Both(a, r)
     ELSE Both(IF a.foreground # NoTurn THEN Finalized(b, turn) ELSE b,
               IF RunEndedBy(r, turn) THEN NoRun ELSE r)

TurnEnded(a, r, type, given) ==
  LET turn == IdentityOf(a, given)
      own == a.foreground # NoTurn /\ a.foreground = turn
      b == AfterTerminal(a, type, turn)
  IN IF Ignored(a, turn) THEN Both(a, r)
     ELSE Both(IF own THEN Finalized(b, turn) ELSE b, IF RunEndedBy(r, turn) THEN NoRun ELSE r)

(* dispatchSessionEvent: the agent, then the waiters of the event's turn.  *)
Handled(event) ==
  IF event.type = "started" THEN TurnStarted(agent, run, event.turn)
  ELSE TurnEnded(agent, run, event.type, event.turn)
Notified(event) ==
  [c \in Callers |->
     IF event.type # "started" /\ event.turn # NoTurn /\ ~Ignored(agent, event.turn)
        /\ At(c, "streaming") /\ call[c].turn = event.turn
     THEN [call[c] EXCEPT !.ended = TRUE] ELSE call[c]]

-----------------------------------------------------------------------------
(* The staged events without the start of the accepted turn, which is      *)
(* staged once at most.                                                    *)
Without(events, event) ==
  IF \E i \in DOMAIN events : events[i] = event
  THEN LET i == CHOOSE i \in DOMAIN events : events[i] = event
       IN SubSeq(events, 1, i - 1) \o SubSeq(events, i + 1, Len(events))
  ELSE events

\* Mutant of Emits: events are staged for a run that has started, too.
Emits_EvenStarted(event) ==
  CASE ~open -> UNCHANGED <<staged, queue>>
    [] open /\ run.kind = "foreground" -> staged' = Append(staged, event) /\ UNCHANGED queue
    [] open /\ run.kind # "foreground" -> queue' = Append(queue, event) /\ UNCHANGED staged

(* enqueueSessionEvent, for an event of the provider.                      *)
Emits(event) ==
  CASE ~open -> UNCHANGED <<staged, queue>>
    [] open /\ StartPending -> staged' = Append(staged, event) /\ UNCHANGED queue
    [] open /\ ~StartPending -> queue' = Append(queue, event) /\ UNCHANGED staged

(* streamAgent, as far as the provider's startTurn.                        *)
Streams(c) ==
  IF ~open \/ agent.foreground # NoTurn \/ run # NoRun
  THEN /\ agent' = IF call[c].replaces THEN [agent EXCEPT !.replacing = FALSE] ELSE agent
       /\ Answered(c)
       /\ UNCHANGED <<run, staged>>
  ELSE /\ agent' = [agent EXCEPT !.failed = FALSE]
       /\ run' = PendingRun(c) /\ staged' = <<>>
       /\ call' = [call EXCEPT ![c].at = "starting", ![c].replaces = agent.replacing]

(* The lane is left: a cancelled run is answered, or goes on to stream.    *)
Leaves(c, next) ==
  /\ lane # <<>> /\ lane' = Tail(lane)
  /\ IF c \in Cancels THEN Answered(c)
     ELSE call' = [call EXCEPT ![c] = [NewCall EXCEPT !.at = next, !.replaces = TRUE]]

-----------------------------------------------------------------------------
(* What is ready to continue.                                              *)

(* The head of the queue is dispatched.                                    *)
Dispatch ==
  /\ queue # <<>>
  /\ queue' = Tail(queue)
  /\ IF open
     THEN /\ agent' = Handled(Head(queue)).agent
          /\ run' = Handled(Head(queue)).run
          /\ call' = Notified(Head(queue))
     ELSE UNCHANGED <<agent, run, call>>
  /\ UNCHANGED <<staged, lane, open, provider>>

(* cancelAgentRunNow begins, and interrupts the session.                   *)
Begin(c) ==
  /\ At(c, "lane") /\ Head(lane) = c
  /\ LET seen == IF run = NoRun /\ agent.lifecycle = "running" THEN AutonomousRun(NoTurn) ELSE run
     IN IF ~open
        THEN Leaves(c, "throwing") /\ UNCHANGED run
        ELSE IF seen = NoRun
        THEN Leaves(c, "replacing") /\ UNCHANGED run
        ELSE /\ run' = seen
             /\ call' = [call EXCEPT ![c].at = "interrupting", ![c].saw = seen]
             /\ UNCHANGED lane
  /\ UNCHANGED <<agent, staged, queue, open, provider>>

(* The run it waits for has settled.                                       *)
SeesSettled(c) ==
  /\ call[c].at \in {"settling", "forced"}
  /\ ~SameRun(run, call[c].saw)
  /\ Leaves(c, "replacing")
  /\ UNCHANGED <<agent, run, staged, queue, open, provider>>

(* After the cancellation the replacement streams, or the error is passed  *)
(* on; before either, the next in the lane has begun.                      *)
LaneBegun == lane # <<>> => ~At(Head(lane), "lane")
Replaces(c) ==
  /\ At(c, "replacing") /\ LaneBegun
  /\ Streams(c)
  /\ UNCHANGED <<queue, lane, open, provider>>
Throws(c) ==
  /\ At(c, "throwing") /\ LaneBegun
  /\ agent' = [agent EXCEPT !.replacing = FALSE]
  /\ Answered(c)
  /\ UNCHANGED <<run, staged, queue, lane, open, provider>>

(* The generator has yielded the end of its turn and is done.              *)
Finishes(c) ==
  /\ At(c, "streaming") /\ call[c].ended
  /\ run' = IF run.by = c THEN NoRun ELSE run
  /\ Answered(c)
  /\ UNCHANGED <<agent, staged, queue, lane, open, provider>>

Continues ==
  \/ Dispatch
  \/ \E c \in Callers : Begin(c) \/ SeesSettled(c) \/ Replaces(c) \/ Throws(c) \/ Finishes(c)

Quiet ==
  /\ queue = <<>>
  /\ LaneBegun
  /\ \A c \in Callers :
       /\ call[c].at \in {"settling", "forced"} => SameRun(run, call[c].saw)
       /\ ~At(c, "replacing") /\ ~At(c, "throwing")
       /\ At(c, "streaming") => ~call[c].ended

-----------------------------------------------------------------------------
(* Requests.  startAgentRun replaces a run in flight if it is told to.     *)
InFlight == agent.lifecycle = "running" \/ agent.foreground # NoTurn \/ run # NoRun

Prompt(c) ==
  /\ Quiet /\ open /\ At(c, "idle") /\ c \in Prompts
  /\ \/ /\ InFlight
        /\ agent' = Shown([agent EXCEPT !.replacing = TRUE, !.lifecycle = "running"])
        /\ lane' = Append(lane, c)
        /\ call' = [call EXCEPT ![c].at = "lane", ![c].replaces = TRUE]
        /\ UNCHANGED <<run, staged>>
     \/ Streams(c) /\ UNCHANGED lane
  /\ UNCHANGED <<queue, open, provider>>

Cancel(c) ==
  /\ Quiet /\ open /\ At(c, "idle") /\ c \in Cancels
  /\ lane' = Append(lane, c)
  /\ Goes(c, "lane")
  /\ UNCHANGED <<agent, run, staged, queue, open, provider>>

(* closeAgentRuntime: the events are drained, the waiters get a cancelled  *)
(* turn and the run is cleared.                                            *)
Close ==
  /\ Quiet /\ open
  /\ open' = FALSE
  /\ run' = NoRun
  /\ call' = [c \in Callers |-> IF At(c, "streaming") THEN [call[c] EXCEPT !.ended = TRUE] ELSE call[c]]
  /\ agent' = [agent EXCEPT !.lifecycle = "closed", !.foreground = NoTurn, !.active = NoTurn,
                            !.replacing = FALSE, !.finalized = {}, !.shown = "closed"]
  /\ staged' = <<>>
  /\ UNCHANGED <<queue, lane, provider>>

-----------------------------------------------------------------------------
(* The provider and the timers.                                            *)

(* The provider begins the turn of a pending startTurn, or one of its own. *)
BeginsTurn(c) ==
  /\ Quiet /\ At(c, "starting") /\ call[c].turn = NoTurn /\ begun < MaxTurns
  /\ begun' = begun + 1 /\ live' = live \union {begun + 1}
  /\ call' = [call EXCEPT ![c].turn = begun + 1]
  /\ Emits(Event("started", begun + 1))
  /\ UNCHANGED <<agent, run, lane, open>>

BeginsAlone ==
  /\ Quiet /\ open /\ begun < MaxTurns /\ live = {}
  /\ begun' = begun + 1 /\ live' = live \union {begun + 1}
  /\ Emits(Event("started", begun + 1))
  /\ UNCHANGED <<agent, run, lane, call, open>>

Ends(t) ==
  /\ Quiet /\ t \in live
  /\ live' = live \ {t}
  /\ \E type \in {"completed", "failed", "canceled"} : Emits(Event(type, t))
  /\ UNCHANGED <<agent, run, lane, call, open, begun>>

(* startTurn returns.  A run that was settled meanwhile throws; else the   *)
(* turn becomes the agent's and the staged events follow, but for its own  *)
(* start.                                                                  *)
StartReturns(c) ==
  /\ Quiet /\ At(c, "starting") /\ call[c].turn # NoTurn
  /\ IF run.by # c
     THEN Answered(c) /\ UNCHANGED <<agent, run, staged, queue>>
     ELSE LET t == call[c].turn
          IN /\ run' = [run EXCEPT !.turn = t]
             /\ agent' = Shown([agent EXCEPT !.foreground = t, !.active = t, !.lifecycle = "running",
                                  !.replacing = IF call[c].replaces THEN FALSE ELSE @])
             /\ queue' = queue \o Without(staged, Event("started", t))
             /\ staged' = <<>>
             /\ Goes(c, "streaming")
  /\ UNCHANGED <<lane, open, provider>>

(* startTurn rejects: the agent fails, unless the run was settled.         *)
StartFails(c) ==
  /\ Quiet /\ At(c, "starting")
  /\ live' = live \ {call[c].turn}
  /\ IF run.by # c
     THEN Answered(c) /\ UNCHANGED <<agent, run, staged>>
     ELSE LET told == TurnEnded([agent EXCEPT !.replacing = FALSE], [run EXCEPT !.turn = NoTurn], "failed", NoTurn)
          IN /\ agent' = Finalized(told.agent, NoTurn)
             /\ run' = NoRun /\ staged' = <<>>
             /\ Answered(c)
  /\ UNCHANGED <<queue, lane, open, begun>>

(* interrupt answers, or fails or times out (then it is not acked).        *)
InterruptReturns(c) ==
  /\ Quiet /\ At(c, "interrupting")
  /\ \E acked \in BOOLEAN : call' = [call EXCEPT ![c].at = "settling", ![c].acked = acked]
  /\ UNCHANGED <<agent, run, staged, queue, lane, open, provider>>

\* Mutants of SettlementTimesOut: the run is cleared and its turn left to the
\* provider; the run is waited for without ending its turn.
SettlementTimesOut_ClearsRun(c) ==
  /\ Quiet /\ At(c, "settling")
  /\ \/ ~call[c].acked /\ Leaves(c, "throwing") /\ UNCHANGED <<agent, run, staged>>
     \/ /\ call[c].acked
        /\ run' = NoRun /\ staged' = <<>>
        /\ agent' = IF agent.replacing THEN agent ELSE Shown([agent EXCEPT !.lifecycle = "idle"])
        /\ Leaves(c, "replacing")
  /\ UNCHANGED <<queue, open, provider>>
SettlementTimesOut_Waits(c) ==
  /\ Quiet /\ At(c, "settling")
  /\ IF call[c].acked THEN Goes(c, "forced") /\ UNCHANGED lane ELSE Leaves(c, "throwing")
  /\ UNCHANGED <<agent, run, staged, queue, open, provider>>

(* The run has not settled in time.  The turn of an acknowledged interrupt *)
(* is ended here; a start that is still pending is given up.               *)
SettlementTimesOut(c) ==
  /\ Quiet /\ At(c, "settling")
  /\ \/ /\ ~call[c].acked
        /\ Leaves(c, "throwing")
        /\ UNCHANGED <<agent, run, staged>>
     \/ /\ call[c].acked /\ ~StartPending
        /\ LET event == Event("canceled", run.turn)
           IN /\ agent' = Handled(event).agent
              /\ run' = Handled(event).run
              /\ call' = [Notified(event) EXCEPT ![c].at = "forced"]
        /\ UNCHANGED <<staged, lane>>
     \/ /\ call[c].acked /\ StartPending
        /\ run' = NoRun /\ staged' = <<>>
        /\ agent' = IF agent.replacing THEN agent ELSE Shown([agent EXCEPT !.lifecycle = "idle"])
        /\ Leaves(c, "replacing")
  /\ UNCHANGED <<queue, open, provider>>

Answers(c) == StartReturns(c) \/ StartFails(c) \/ InterruptReturns(c) \/ SettlementTimesOut(c)

Next ==
  \/ Continues
  \/ \E c \in Callers : Prompt(c) \/ Cancel(c) \/ BeginsTurn(c) \/ Answers(c)
  \/ BeginsAlone \/ Close
  \/ \E t \in Turns : Ends(t)

(* The event loop runs, startTurn, interrupt and the timers answer, and    *)
(* the provider ends its turns.                                            *)
Fairness ==
  /\ WF_vars(Continues)
  /\ \A c \in Callers : WF_vars(Answers(c))
  /\ \A t \in Turns : WF_vars(Ends(t))

Spec == Init /\ [][Next]_vars
FairSpec == Spec /\ Fairness

-----------------------------------------------------------------------------
Lifecycles == {"idle", "running", "error", "closed"}
SomeTurn == Turns \union {NoTurn}
Agents == [lifecycle : Lifecycles, foreground : SomeTurn, active : SomeTurn, replacing : BOOLEAN,
           failed : BOOLEAN, finalized : SUBSET Turns, shown : Lifecycles]
Runs == {NoRun} \union [kind : {"foreground"}, by : Callers, turn : SomeTurn]
                \union [kind : {"autonomous"}, by : {NoCaller}, turn : SomeTurn]
Terminals == {"completed", "failed", "canceled"}
Events == [type : {"started"} \union Terminals, turn : Turns]
Places == {"idle", "lane", "interrupting", "settling", "forced", "replacing", "throwing",
           "starting", "streaming", "done"}
Calls == [at : Places, saw : Runs, acked : BOOLEAN, replaces : BOOLEAN, turn : SomeTurn, ended : BOOLEAN]

(* Types; and events are staged for a start that is still pending only.    *)
TypeOK ==
  /\ agent \in Agents /\ run \in Runs
  /\ staged \in Seq(Events) /\ queue \in Seq(Events) /\ lane \in Seq(Callers)
  /\ call \in [Callers -> Calls]
  /\ open \in BOOLEAN
  /\ begun \in 0..MaxTurns /\ live \subseteq 1..begun
  /\ staged # <<>> => StartPending

(* A caller that still waits for its turn is the one the agent and the     *)
(* tracked run name, and nobody else is: an event of a replaced turn never *)
(* ends the turn that replaced it, and no waiter is left behind.           *)
Waits(c) == At(c, "streaming") /\ ~call[c].ended
WaiterIsCurrent ==
  /\ \A c \in Callers : Waits(c) =>
       agent.foreground = call[c].turn /\ SameRun(run, PendingRun(c)) /\ run.turn = call[c].turn
  /\ agent.foreground # NoTurn => \E c \in Callers : Waits(c)

(* What clients were last shown is the agent's lifecycle: no path forgets  *)
(* to publish, and the one that holds a replaced agent busy need not.      *)
StateShown == agent.shown = agent.lifecycle

(* An agent that says it is idle, failed or closed has no foreground turn: *)
(* no step ends the run in the record and leaves its turn behind.          *)
IdleHasNoTurn == agent.lifecycle # "running" => agent.foreground = NoTurn

(* Every call is answered.                                                 *)
EveryCallAnswered == \A c \in Callers : ~At(c, "idle") ~> At(c, "done")

(* An agent at rest that says it is running has a run, or a call is under  *)
(* way.                                                                    *)
UnderWay(c) == ~At(c, "idle") /\ ~At(c, "done")
RunningHasRun ==
  Quiet /\ agent.lifecycle = "running" => run # NoRun \/ \E c \in Callers : UnderWay(c)
=============================================================================
