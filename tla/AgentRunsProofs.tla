---------------------------- MODULE AgentRunsProofs ----------------------------
(***************************************************************************)
(* The run the manager tracks, the turn the agent names and the caller     *)
(* that waits for it agree, for any number of callers and turns.           *)
(***************************************************************************)
EXTENDS AgentRuns, SequenceTheorems, TLAPS

USE CallersAssumption, MaxTurnsAssumption

(* A tracked foreground run belongs to a caller that still starts it, or   *)
(* streams its turn.                                                       *)
RunIsOfCaller ==
  run.kind = "foreground" =>
    \/ At(run.by, "starting") /\ run.turn = NoTurn
    \/ At(run.by, "streaming") /\ run.turn = call[run.by].turn

(* No two calls have the same turn; a finalized turn has been ended for    *)
(* the caller it belongs to.                                               *)
TurnsAreOwn ==
  /\ \A c \in Callers : call[c].turn <= begun
  /\ \A c \in Callers : At(c, "streaming") => call[c].turn # NoTurn
  /\ \A c \in Callers : call[c].ended => At(c, "streaming")
  /\ agent.finalized \subseteq 1..begun
  /\ \A c \in Callers : call[c].turn \in agent.finalized => At(c, "streaming") /\ call[c].ended
  /\ \A c, d \in Callers : c # d /\ call[c].turn = call[d].turn => call[c].turn = NoTurn

Linked == WaiterIsCurrent /\ RunIsOfCaller /\ TurnsAreOwn
Inv == TypeOK /\ StateShown /\ IdleHasNoTurn /\ Linked

-----------------------------------------------------------------------------
(* What the handlers of events do to the record of the agent.              *)

Fit(a) == a \in Agents /\ a.shown = a.lifecycle /\ (a.foreground # NoTurn => a.lifecycle = "running")

\* Closing the active turn touches neither the foreground turn nor what is shown.
LEMMA ClosedKeeps ==
  ASSUME NEW a \in Agents, NEW turn \in SomeTurn
  PROVE  LET b == Closed(a, turn) IN
         /\ b \in Agents /\ b.foreground = a.foreground /\ b.finalized = a.finalized
         /\ b.lifecycle = a.lifecycle /\ b.shown = a.shown
         /\ b.replacing = a.replacing /\ b.failed = a.failed
BY DEF Closed, Agents, SomeTurn

\* The end of a turn that is not the foreground's keeps the agent fit.
LEMMA AfterTerminalKeeps ==
  ASSUME NEW a, Fit(a), NEW turn \in SomeTurn, NEW type \in Terminals
  PROVE  LET b == AfterTerminal(a, type, turn) IN
         Fit(b) /\ b.foreground = a.foreground /\ b.finalized = a.finalized /\ b.replacing = a.replacing
<1> DEFINE b == Closed(a, turn)
<1>1. /\ b \in Agents /\ b.foreground = a.foreground /\ b.finalized = a.finalized
      /\ b.lifecycle = a.lifecycle /\ b.shown = a.shown /\ b.replacing = a.replacing
  BY ClosedKeeps DEF Fit
<1> HIDE DEF b
<1>2. CASE Disposition(a, turn) = "stale"
  BY <1>1, <1>2 DEF AfterTerminal, Fit, b
<1>3. CASE Disposition(a, turn) # "stale" /\ type = "completed"
  BY <1>1, <1>3 DEF AfterTerminal, Fit, b, ShownIf, Shown, Agents, Lifecycles
<1>4. CASE Disposition(a, turn) # "stale" /\ type = "failed"
  BY <1>1, <1>4 DEF AfterTerminal, Fit, b, ShownIf, Shown, Agents, Lifecycles
<1>5. CASE Disposition(a, turn) # "stale" /\ type = "canceled"
  BY <1>1, <1>5 DEF AfterTerminal, Fit, b, ShownIf, Shown, Agents, Lifecycles
<1> QED BY <1>2, <1>3, <1>4, <1>5 DEF Terminals

\* finalizeForegroundTurn clears the foreground turn and remembers the turn as finalized.
LEMMA FinalizedEnds ==
  ASSUME NEW a, Fit(a), NEW turn \in SomeTurn, a.foreground # NoTurn \/ ~a.replacing
  PROVE  LET b == Finalized(a, turn) IN
         /\ Fit(b) /\ b.foreground = NoTurn
         /\ b.finalized = IF turn = NoTurn THEN a.finalized ELSE a.finalized \union {turn}
<1> DEFINE b == Closed(a, turn)
<1>1. /\ b \in Agents /\ b.foreground = a.foreground /\ b.finalized = a.finalized
      /\ b.lifecycle = a.lifecycle /\ b.shown = a.shown /\ b.replacing = a.replacing
  BY ClosedKeeps DEF Fit
<1> HIDE DEF b
<1> QED BY <1>1 DEF Finalized, Fit, b, ShownIf, Shown, Agents, Lifecycles, SomeTurn, NoTurn

(* The turn an event ends: the foreground turn of the agent, or none that  *)
(* a caller waits for.                                                     *)
EndsOwn(a, turn) == a.foreground # NoTurn /\ a.foreground = turn /\ ~Ignored(a, turn)

\* An event that ends a turn keeps the agent fit and drops the run of that turn alone.
LEMMA TurnEndedKeeps ==
  ASSUME NEW a, Fit(a), NEW r \in Runs, NEW type \in Terminals, NEW given \in SomeTurn
  PROVE  LET turn == IdentityOf(a, given)
             e == TurnEnded(a, r, type, given) IN
         /\ Fit(e.agent) /\ e.run \in {r, NoRun}
         /\ EndsOwn(a, turn) => /\ e.agent.foreground = NoTurn
                                /\ e.agent.finalized = a.finalized \union {turn}
                                /\ RunEndedBy(r, turn) => e.run = NoRun
         /\ ~EndsOwn(a, turn) => /\ e.agent.foreground = a.foreground
                                 /\ e.agent.finalized = a.finalized
                                 /\ ~RunEndedBy(r, turn) => e.run = r
<1> DEFINE turn == IdentityOf(a, given)
           b == AfterTerminal(a, type, turn)
           f == Finalized(b, turn)
<1>1. turn \in SomeTurn
  BY DEF IdentityOf, Fit, Agents
<1>2. Fit(b) /\ b.foreground = a.foreground /\ b.finalized = a.finalized /\ b.replacing = a.replacing
  BY <1>1, AfterTerminalKeeps
<1>3. a.foreground # NoTurn /\ a.foreground = turn
         => /\ Fit(f) /\ f.foreground = NoTurn
            /\ f.finalized = IF turn = NoTurn THEN b.finalized ELSE b.finalized \union {turn}
  <2> HIDE DEF b, turn
  <2> SUFFICES ASSUME a.foreground # NoTurn
               PROVE  /\ Fit(f) /\ f.foreground = NoTurn
                      /\ f.finalized = IF turn = NoTurn THEN b.finalized
                                       ELSE b.finalized \union {turn}
    OBVIOUS
  <2>1. b.foreground # NoTurn
    BY <1>2
  <2>2. Fit(b)
    BY <1>2
  <2> QED BY ONLY <1>1, <2>1, <2>2, FinalizedEnds
<1>4. /\ TurnEnded(a, r, type, given).agent =
           IF Ignored(a, turn) THEN a
           ELSE IF a.foreground # NoTurn /\ a.foreground = turn THEN f ELSE b
      /\ TurnEnded(a, r, type, given).run =
           IF Ignored(a, turn) THEN r ELSE IF RunEndedBy(r, turn) THEN NoRun ELSE r
  BY Zenon DEF TurnEnded, Both
<1> HIDE DEF b, f, turn
<1>5. EndsOwn(a, turn) => /\ TurnEnded(a, r, type, given).agent = f
                          /\ turn # NoTurn
                          /\ RunEndedBy(r, turn) => TurnEnded(a, r, type, given).run = NoRun
  BY <1>4 DEF EndsOwn
<1>6. ~EndsOwn(a, turn) => /\ TurnEnded(a, r, type, given).agent \in {a, b}
                           /\ ~RunEndedBy(r, turn) => TurnEnded(a, r, type, given).run = r
  BY <1>4 DEF EndsOwn
<1>7. TurnEnded(a, r, type, given).run \in {r, NoRun}
  BY <1>4
<1>8. CASE EndsOwn(a, turn)
  BY <1>2, <1>3, <1>5, <1>7, <1>8 DEF EndsOwn, turn
<1>9. CASE ~EndsOwn(a, turn)
  BY <1>2, <1>6, <1>7, <1>9 DEF turn
<1> QED BY <1>8, <1>9

\* An event that begins a turn makes a run only where none is.
LEMMA TurnStartedKeeps ==
  ASSUME NEW a, Fit(a), NEW r \in Runs, NEW turn \in Turns
  PROVE  LET e == TurnStarted(a, r, turn) IN
         /\ Fit(e.agent) /\ e.run \in Runs
         /\ e.agent.foreground = a.foreground /\ e.agent.finalized = a.finalized
         /\ e.run # r => r = NoRun /\ a.foreground = NoTurn /\ e.run.kind # "foreground"
<1>1. CASE a.foreground # NoTurn
  BY <1>1 DEF TurnStarted, Both
<1>2. CASE a.foreground = NoTurn
  <2> DEFINE b == Shown([a EXCEPT !.active = turn, !.lifecycle = "running"])
  <2>1. Fit(b) /\ b.foreground = a.foreground /\ b.finalized = a.finalized
    BY DEF Shown, Fit, Agents, SomeTurn, Lifecycles
  <2>2. AutonomousRun(turn) \in Runs /\ AutonomousRun(turn).kind # "foreground"
    BY DEF AutonomousRun, Runs, SomeTurn
  <2>3. TurnStarted(a, r, turn) = Both(b, IF r = NoRun THEN AutonomousRun(turn) ELSE r)
    BY <1>2 DEF TurnStarted
  <2>4. /\ TurnStarted(a, r, turn).agent = b
        /\ TurnStarted(a, r, turn).run = IF r = NoRun THEN AutonomousRun(turn) ELSE r
    <3> HIDE DEF b
    <3> QED BY <2>3 DEF Both
  <2> HIDE DEF b
  <2> QED BY <1>2, <2>1, <2>2, <2>4
<1> QED BY <1>1, <1>2

(* Only who waits names the turn and the run.                              *)
LEMMA NobodyWaits ==
  ASSUME Inv, agent.foreground = NoTurn, NEW c \in Callers
  PROVE  ~Waits(c)
BY DEF Inv, Linked, WaiterIsCurrent, TurnsAreOwn, Waits

\* Who waits is the caller of the foreground run, alone.
LEMMA WaiterIsOne ==
  ASSUME Inv, NEW c \in Callers, Waits(c)
  PROVE  /\ agent.foreground = call[c].turn /\ call[c].turn # NoTurn
         /\ run.kind = "foreground" /\ run.by = c /\ run.turn = call[c].turn
         /\ call[c].turn \notin agent.finalized
         /\ \A d \in Callers : Waits(d) => d = c
BY DEF Inv, Linked, WaiterIsCurrent, TurnsAreOwn, Waits, SameRun, PendingRun

(* A call that neither starts nor streams moves on.                        *)
Aside(c) ==
  /\ call[c].at \notin {"starting", "streaming"} /\ call'[c].at \notin {"starting", "streaming"}
  /\ call'[c].turn \in {call[c].turn, NoTurn} /\ (call'[c].ended => call[c].ended)

(* Who starts or streams stands, and the run stands or is dropped while    *)
(* nobody waits.                                                           *)
LEMMA CallsStand ==
  ASSUME Inv, \A c \in Callers : call'[c] = call[c] \/ Aside(c), begun' = begun,
         agent'.foreground = agent.foreground, agent'.finalized = agent.finalized,
         run' = run \/ (agent.foreground = NoTurn /\ run'.kind # "foreground")
  PROVE  Linked'
<1>0. /\ \A c \in Callers : Waits(c)' <=> Waits(c)
      /\ \A c \in Callers : Waits(c) => call'[c] = call[c]
  BY DEF Waits, At, Aside
<1>1. TurnsAreOwn'
  <2>1. agent'.finalized \subseteq 1..begun'
    BY DEF Inv, Linked, TurnsAreOwn
  <2>2. begun \in Nat /\ NoTurn <= begun /\ NoTurn \notin agent.finalized
    BY <2>1 DEF Inv, TypeOK, NoTurn
  <2>3. \A c \in Callers : call'[c].turn <= begun
    BY <2>2 DEF Inv, Linked, TurnsAreOwn, Aside
  <2>4. \A c \in Callers : At(c, "streaming")' => call'[c].turn # NoTurn
    BY DEF Inv, Linked, TurnsAreOwn, At, Aside
  <2>5. \A c \in Callers : call'[c].turn \in agent.finalized => At(c, "streaming")' /\ call'[c].ended
    BY <2>2 DEF Inv, Linked, TurnsAreOwn, At, Aside
  <2>6. \A c, d \in Callers : c # d /\ call'[c].turn = call'[d].turn => call'[c].turn = NoTurn
    BY DEF Inv, Linked, TurnsAreOwn, Aside
  <2>7. \A c \in Callers : call'[c].ended => At(c, "streaming")'
    BY DEF Inv, Linked, TurnsAreOwn, At, Aside
  <2> QED BY <2>1, <2>3, <2>4, <2>5, <2>6, <2>7 DEF TurnsAreOwn
<1>2. CASE run' = run
  <2>1. WaiterIsCurrent'
    BY <1>0, <1>2 DEF Inv, Linked, WaiterIsCurrent
  <2>2. run.kind = "foreground" => run.by \in Callers
    BY DEF Inv, TypeOK, Runs, NoRun
  <2>3. RunIsOfCaller'
    BY <1>2, <2>2 DEF Inv, Linked, RunIsOfCaller, Aside, At
  <2> QED BY <1>1, <2>1, <2>3 DEF Linked
<1>3. CASE agent.foreground = NoTurn /\ run'.kind # "foreground"
  BY <1>0, <1>1, <1>3, NobodyWaits DEF Linked, WaiterIsCurrent, RunIsOfCaller
<1> QED BY <1>2, <1>3

(* An event that the daemon handles, and the waiters it notifies.          *)
LEMMA HandledKeeps ==
  ASSUME Inv, NEW event \in [type : {"started"} \union Terminals, turn : SomeTurn],
         event.type = "started" => event.turn # NoTurn,
         event.turn = NoTurn => agent.foreground = NoTurn,
         agent' = Handled(event).agent, run' = Handled(event).run,
         call' \in [Callers -> Calls],
         \A c \in Callers : call'[c] = Notified(event)[c] \/ Aside(c),
         UNCHANGED <<begun, staged>>
  PROVE  /\ Fit(agent') /\ run' \in Runs
         /\ staged # <<>> => StartPending'
         /\ Linked'
<1> DEFINE turn == IdentityOf(agent, event.turn)
<1>0. Fit(agent) /\ run \in Runs /\ call \in [Callers -> Calls]
      /\ call = [c \in Callers |-> call[c]]
  BY DEF Inv, TypeOK, StateShown, IdleHasNoTurn, Fit
<1>1. CASE event.type = "started"
  <2>1. event.turn \in Turns
    BY <1>1 DEF SomeTurn
  <2>2. /\ Fit(agent') /\ run' \in Runs
        /\ agent'.foreground = agent.foreground /\ agent'.finalized = agent.finalized
        /\ run' # run => run = NoRun /\ agent.foreground = NoTurn /\ run'.kind # "foreground"
    BY <1>0, <1>1, <2>1, TurnStartedKeeps DEF Handled
  <2>3. \A c \in Callers : call'[c] = call[c] \/ Aside(c)
    BY <1>0, <1>1 DEF Notified
  <2>4. Linked'
    BY <2>2, <2>3, CallsStand
  <2> QED BY <1>0, <2>2, <2>3, <2>4 DEF Inv, TypeOK, StartPending, NoRun
<1>2. CASE event.type # "started"
  <2>0. event.type \in Terminals /\ event.turn \in SomeTurn
    BY <1>2
  <2>1. /\ Fit(agent') /\ run' \in {run, NoRun}
        /\ EndsOwn(agent, turn) => /\ agent'.foreground = NoTurn
                                   /\ agent'.finalized = agent.finalized \union {turn}
                                   /\ RunEndedBy(run, turn) => run' = NoRun
        /\ ~EndsOwn(agent, turn) => /\ agent'.foreground = agent.foreground
                                    /\ agent'.finalized = agent.finalized
                                    /\ ~RunEndedBy(run, turn) => run' = run
    BY <1>0, <1>2, <2>0, TurnEndedKeeps DEF Handled
  <2>2. \A c \in Callers :
          Notified(event)[c] = IF /\ event.turn # NoTurn /\ ~Ignored(agent, event.turn)
                                  /\ At(c, "streaming") /\ call[c].turn = event.turn
                               THEN [call[c] EXCEPT !.ended = TRUE] ELSE call[c]
    BY <1>2 DEF Notified
  <2>3. \A c \in Callers : call[c] \in Calls
    BY <1>0
  <2>4. run' \in Runs
    BY <1>0, <2>1 DEF Runs
  <2>5. event.turn # NoTurn => turn = event.turn
    BY DEF IdentityOf
  <2> HIDE DEF turn
  <2>6. staged # <<>> => StartPending'
    <3>1. StartPending => ~RunEndedBy(run, turn)
      BY DEF StartPending, RunEndedBy
    <3>2. StartPending => ~EndsOwn(agent, turn)
      BY WaiterIsOne DEF StartPending, EndsOwn, Inv, Linked, WaiterIsCurrent
    <3> QED BY <2>1, <3>1, <3>2 DEF Inv, TypeOK, StartPending
  <2>7. CASE EndsOwn(agent, turn)
    <3>1. PICK c \in Callers : Waits(c)
      BY <2>7 DEF EndsOwn, Inv, Linked, WaiterIsCurrent
    <3>2. /\ agent.foreground = call[c].turn /\ call[c].turn # NoTurn
          /\ run.kind = "foreground" /\ run.by = c /\ run.turn = call[c].turn
          /\ \A d \in Callers : Waits(d) => d = c
      BY <3>1, WaiterIsOne
    <3>3. event.turn = turn /\ turn = call[c].turn
      BY <2>5, <2>7, <3>2 DEF EndsOwn
    <3>4. run' = NoRun
      BY <2>1, <2>7, <3>2, <3>3 DEF RunEndedBy
    <3>5. Notified(event)[c] = [call[c] EXCEPT !.ended = TRUE] /\ ~Aside(c)
      BY <2>2, <2>7, <3>1, <3>2, <3>3 DEF EndsOwn, Waits, At, Aside
    <3>6. call'[c].ended
      BY <3>5, <2>3 DEF Calls
    <3>7. \A d \in Callers :
            \/ call'[d].turn = call[d].turn /\ call'[d].at = call[d].at /\ (call[d].ended => call'[d].ended)
            \/ Aside(d)
      <4> SUFFICES ASSUME NEW d \in Callers, ~Aside(d)
                   PROVE  call'[d].turn = call[d].turn /\ call'[d].at = call[d].at /\ (call[d].ended => call'[d].ended)
        OBVIOUS
      <4>1. call'[d] \in {call[d], [call[d] EXCEPT !.ended = TRUE]}
        BY <2>2
      <4> QED BY <4>1, <2>3 DEF Calls
    <3>8. \A d \in Callers : ~Waits(d)'
      BY <3>2, <3>6, <3>7 DEF Waits, At, Aside
    <3>9. WaiterIsCurrent' /\ RunIsOfCaller'
      BY <2>1, <2>7, <3>4, <3>8 DEF WaiterIsCurrent, RunIsOfCaller, NoRun
    <3>10. TurnsAreOwn'
      <4>1. agent'.finalized = agent.finalized \union {call[c].turn}
        BY <2>1, <2>7, <3>3
      <4>2. call[c].turn \in 1..begun
        BY <1>0, <3>2 DEF Inv, Linked, TurnsAreOwn, Calls, SomeTurn, Turns, TypeOK, NoTurn
      <4>3. \A d \in Callers : call'[d].turn \in {call[d].turn, NoTurn}
        BY <3>7 DEF Aside
      <4>5. \A d \in Callers : call'[d].turn <= begun
        BY <4>3 DEF Inv, Linked, TurnsAreOwn, TypeOK, NoTurn
      <4>6. \A d \in Callers : At(d, "streaming")' => call'[d].turn # NoTurn
        BY <3>7 DEF Inv, Linked, TurnsAreOwn, At, Aside
      <4>7. \A d, e \in Callers : d # e /\ call'[d].turn = call'[e].turn => call'[d].turn = NoTurn
        BY <4>3 DEF Inv, Linked, TurnsAreOwn
      <4>4. \A d \in Callers : call'[d].turn \in agent'.finalized => At(d, "streaming")' /\ call'[d].ended
        <5> SUFFICES ASSUME NEW d \in Callers, call'[d].turn \in agent'.finalized
                     PROVE  At(d, "streaming")' /\ call'[d].ended
          OBVIOUS
        <5>1. CASE d = c
          BY <3>1, <3>5, <3>6, <3>7, <5>1 DEF At, Waits
        <5>2. CASE d # c
          <6>1. NoTurn \notin agent'.finalized
            BY <4>1, <4>2 DEF Inv, Linked, TurnsAreOwn, NoTurn
          <6>2. call'[d].turn = call[d].turn /\ call[d].turn # call[c].turn
            BY <3>7, <4>2, <5>2, <6>1 DEF Aside, Inv, Linked, TurnsAreOwn, NoTurn
          <6>3. call[d].turn \in agent.finalized
            BY <4>1, <6>2
          <6> QED BY <3>7, <6>3 DEF Inv, Linked, TurnsAreOwn, At, Aside
        <5> QED BY <5>1, <5>2
      <4>8. \A d \in Callers : call'[d].ended => At(d, "streaming")'
        <5> SUFFICES ASSUME NEW d \in Callers, call'[d].ended PROVE At(d, "streaming")'
          OBVIOUS
        <5>1. CASE Aside(d)
          BY <5>1 DEF Aside, Inv, Linked, TurnsAreOwn, At
        <5>2. CASE call'[d] = call[d]
          BY <5>2 DEF Inv, Linked, TurnsAreOwn, At
        <5>3. CASE call'[d] = [call[d] EXCEPT !.ended = TRUE] /\ At(d, "streaming")
          BY <5>3, <2>3 DEF At, Calls
        <5> QED BY <5>1, <5>2, <5>3, <2>2
      <4> QED BY <4>1, <4>2, <4>4, <4>5, <4>6, <4>7, <4>8 DEF Inv, Linked, TurnsAreOwn
    <3> QED BY <2>1, <2>4, <2>6, <3>9, <3>10 DEF Linked
  <2>8. CASE ~EndsOwn(agent, turn)
    <3>1. \A c \in Callers : Notified(event)[c] = call[c]
      <4> SUFFICES ASSUME NEW c \in Callers,
                          event.turn # NoTurn, ~Ignored(agent, event.turn),
                          At(c, "streaming"), call[c].turn = event.turn
                   PROVE  call[c] = [call[c] EXCEPT !.ended = TRUE]
        BY <2>2
      <4>1. ~Waits(c)
        BY <2>5, <2>8, WaiterIsOne DEF EndsOwn
      <4>2. call[c].ended
        BY <4>1 DEF Waits
      <4> QED BY <1>0, <4>2 DEF Calls
    <3>2. \A c \in Callers : call'[c] = call[c] \/ Aside(c)
      BY <3>1
    <3>3. run' = run \/ (agent.foreground = NoTurn /\ run'.kind # "foreground")
      <4> SUFFICES ASSUME agent.foreground # NoTurn, run' # run PROVE FALSE
        BY <2>1 DEF NoRun
      <4>1. PICK c \in Callers : Waits(c)
        BY DEF Inv, Linked, WaiterIsCurrent
      <4>2. RunEndedBy(run, turn)
        BY <2>1, <2>8
      <4> QED BY <2>8, <4>1, <4>2, WaiterIsOne DEF EndsOwn, RunEndedBy, Ignored
    <3> QED BY <2>1, <2>4, <2>6, <2>8, <3>2, <3>3, CallsStand
  <2> QED BY <2>7, <2>8
<1> QED BY <1>1, <1>2
-----------------------------------------------------------------------------
(* What the steps are made of.                                             *)

(* A caller that starts a turn in vain, or has seen its turn end, is       *)
(* answered; its run goes with it.                                         *)
LEMMA CallerLeaves ==
  ASSUME Inv, NEW c \in Callers, ~Waits(c), Answered(c), begun' = begun,
         agent'.foreground = agent.foreground, agent'.finalized = agent.finalized,
         \/ run' = run /\ (run.kind = "foreground" => run.by # c)
         \/ run' = NoRun /\ agent.foreground = NoTurn
  PROVE  Linked'
<1> DEFINE done == [NewCall EXCEPT !.at = "done"]
<1>0. done.at = "done" /\ done.turn = NoTurn /\ ~done.ended
  BY DEF NewCall
<1>1. call \in [Callers -> Calls] /\ call' = [call EXCEPT ![c] = done]
  BY DEF Inv, TypeOK, Answered
<1> HIDE DEF done
<1>2. call'[c] = done /\ \A d \in Callers : d # c => call'[d] = call[d]
  BY <1>1
<1>3. \A d \in Callers : (Waits(d)' <=> Waits(d)) /\ (Waits(d) => d # c)
  BY <1>0, <1>2 DEF Waits, At
<1>4. WaiterIsCurrent'
  BY <1>2, <1>3, NobodyWaits DEF Inv, Linked, WaiterIsCurrent
<1>5. RunIsOfCaller'
  <2>1. run.kind = "foreground" => run.by \in Callers
    BY DEF Inv, TypeOK, Runs, NoRun
  <2> QED BY <1>2, <2>1 DEF Inv, Linked, RunIsOfCaller, At, NoRun
<1>6. TurnsAreOwn'
  <2>1. NoTurn <= begun /\ NoTurn \notin agent.finalized
    BY DEF Inv, Linked, TurnsAreOwn, TypeOK, NoTurn
  <2>2. \A d \in Callers : call'[d].turn \in {call[d].turn, NoTurn}
    BY <1>0, <1>2
  <2>3. \A d \in Callers : call'[d].turn <= begun
    BY <2>1, <2>2 DEF Inv, Linked, TurnsAreOwn
  <2>4. \A d \in Callers : At(d, "streaming")' => call'[d].turn # NoTurn
    BY <1>0, <1>2 DEF Inv, Linked, TurnsAreOwn, At
  <2>5. \A d \in Callers : call'[d].turn \in agent.finalized => At(d, "streaming")' /\ call'[d].ended
    BY <1>0, <1>2, <2>1 DEF Inv, Linked, TurnsAreOwn, At
  <2>6. \A d, e \in Callers : d # e /\ call'[d].turn = call'[e].turn => call'[d].turn = NoTurn
    BY <2>2 DEF Inv, Linked, TurnsAreOwn
  <2>7. \A d \in Callers : call'[d].ended => At(d, "streaming")'
    BY <1>0, <1>2 DEF Inv, Linked, TurnsAreOwn, At
  <2> QED BY <2>3, <2>4, <2>5, <2>6, <2>7 DEF Inv, Linked, TurnsAreOwn
<1> QED BY <1>4, <1>5, <1>6 DEF Linked

\* A caller that begins to stream its turn (streamAgent).
LEMMA StreamsKeeps ==
  ASSUME Inv, NEW c \in Callers, call[c].at \notin {"starting", "streaming"},
         Streams(c), begun' = begun
  PROVE  /\ Fit(agent') /\ run' \in Runs /\ call' \in [Callers -> Calls]
         /\ staged' \in Seq(Events) /\ (staged' # <<>> => StartPending')
         /\ Linked'
<1>0. Fit(agent) /\ run \in Runs /\ call \in [Callers -> Calls] /\ call[c] \in Calls
  BY DEF Inv, TypeOK, StateShown, IdleHasNoTurn, Fit
<1>1. CASE ~open \/ agent.foreground # NoTurn \/ run # NoRun
  <2>1. Fit(agent') /\ agent'.foreground = agent.foreground /\ agent'.finalized = agent.finalized
    BY <1>0, <1>1 DEF Streams, Fit, Agents
  <2>2. Answered(c) /\ run' = run /\ staged' = staged
    BY <1>1 DEF Streams
  <2>3. ~Waits(c) /\ (run.kind = "foreground" => run.by # c)
    BY DEF Waits, At, Inv, Linked, RunIsOfCaller
  <2>4. call' \in [Callers -> Calls]
    BY <1>0, <2>2 DEF Answered, NewCall, Calls, Places, Runs, SomeTurn
  <2>5. Linked'
    BY <2>1, <2>2, <2>3, CallerLeaves
  <2> QED BY <1>0, <2>1, <2>2, <2>4, <2>5 DEF Inv, TypeOK, StartPending
<1>2. CASE ~(~open \/ agent.foreground # NoTurn \/ run # NoRun)
  <2>1. Fit(agent') /\ agent'.foreground = agent.foreground /\ agent'.finalized = agent.finalized
    BY <1>0, <1>2 DEF Streams, Fit, Agents
  <2>2. run' = PendingRun(c) /\ staged' = <<>> /\ agent.foreground = NoTurn
    BY <1>2 DEF Streams
  <2>3. run' \in Runs
    BY <2>2 DEF PendingRun, Runs, SomeTurn
  <2> DEFINE new == [call[c] EXCEPT !.at = "starting", !.replaces = agent.replacing]
  <2>4. new \in Calls /\ new.at = "starting" /\ new.turn = call[c].turn /\ new.ended = call[c].ended
    BY <1>0 DEF Calls, Places, Fit, Agents
  <2>5. call' = [call EXCEPT ![c] = new]
    BY <1>2 DEF Streams
  <2> HIDE DEF new
  <2>6. /\ call' \in [Callers -> Calls]
        /\ call'[c] = new /\ \A d \in Callers : d # c => call'[d] = call[d]
    BY <1>0, <2>4, <2>5
  <2>7. WaiterIsCurrent' /\ RunIsOfCaller'
    BY <2>1, <2>2, <2>4, <2>6, NobodyWaits DEF WaiterIsCurrent, RunIsOfCaller, Waits, At, PendingRun
  <2>8. TurnsAreOwn'
    BY <2>1, <2>4, <2>6 DEF Inv, Linked, TurnsAreOwn, At
  <2> QED BY <2>1, <2>2, <2>3, <2>6, <2>7, <2>8 DEF Linked
<1> QED BY <1>1, <1>2

(* A caller in the lane leaves it, and neither starts nor streams.         *)
LEMMA LeavesAside ==
  ASSUME Inv, NEW c \in Callers, call[c].at \notin {"starting", "streaming"},
         NEW next \in {"throwing", "replacing"}, Leaves(c, next)
  PROVE  /\ lane' \in Seq(Callers) /\ call' \in [Callers -> Calls]
         /\ \A d \in Callers : call'[d] = call[d] \/ Aside(d)
<1> DEFINE new == IF c \in Cancels THEN [NewCall EXCEPT !.at = "done"]
                  ELSE [NewCall EXCEPT !.at = next, !.replaces = TRUE]
<1>1. new \in Calls /\ new.at \notin {"starting", "streaming"} /\ new.turn = NoTurn /\ ~new.ended
  BY DEF NewCall, Calls, Places, Runs, SomeTurn
<1>2. call' = [call EXCEPT ![c] = new]
  <2>1. CASE c \in Cancels
    BY <2>1 DEF Leaves, Answered
  <2>2. CASE c \notin Cancels
    BY <2>2 DEF Leaves
  <2> QED BY <2>1, <2>2
<1> HIDE DEF new
<1>3. call \in [Callers -> Calls] /\ lane \in Seq(Callers) /\ lane # <<>> /\ lane' = Tail(lane)
  BY DEF Inv, TypeOK, Leaves
<1>4. call'[c] = new /\ \A d \in Callers : d # c => call'[d] = call[d]
  BY <1>2, <1>3
<1> QED BY <1>1, <1>2, <1>3, <1>4, HeadTailProperties DEF Aside

\* A caller that neither starts nor streams moves on.
LEMMA GoesAside ==
  ASSUME Inv, NEW c \in Callers, NEW new \in Calls, call' = [call EXCEPT ![c] = new],
         call[c].at \notin {"starting", "streaming"}, new.at \notin {"starting", "streaming"},
         new.turn = call[c].turn, new.ended = call[c].ended
  PROVE  /\ call' \in [Callers -> Calls]
         /\ \A d \in Callers : call'[d] = call[d] \/ Aside(d)
BY DEF Inv, TypeOK, Aside

\* The provider emits an event: it is staged while a start is pending and queued otherwise.
LEMMA EmitsKeeps ==
  ASSUME Inv, NEW event \in Events, Emits(event), run' = run
  PROVE  /\ staged' \in Seq(Events) /\ queue' \in Seq(Events)
         /\ staged' # <<>> => StartPending'
<1>1. staged \in Seq(Events) /\ queue \in Seq(Events) /\ (staged # <<>> => StartPending)
  BY DEF Inv, TypeOK
<1>2. Append(staged, event) \in Seq(Events) /\ Append(queue, event) \in Seq(Events)
  BY <1>1
<1>3. CASE ~open
  BY <1>1, <1>3 DEF Emits, StartPending
<1>4. CASE open /\ StartPending
  BY <1>1, <1>2, <1>4 DEF Emits, StartPending
<1>5. CASE open /\ ~StartPending
  BY <1>1, <1>2, <1>5 DEF Emits, StartPending
<1> QED BY <1>3, <1>4, <1>5

\* An event taken out of a queue leaves a queue.
LEMMA WithoutKeeps ==
  ASSUME NEW events \in Seq(Events), NEW event
  PROVE  Without(events, event) \in Seq(Events)
<1>1. CASE \E i \in DOMAIN events : events[i] = event
  <2> DEFINE i == CHOOSE i \in DOMAIN events : events[i] = event
  <2>1. i \in 1..Len(events)
    BY <1>1
  <2> HIDE DEF i
  <2>2. SubSeq(events, 1, i - 1) \in Seq(Events) /\ SubSeq(events, i + 1, Len(events)) \in Seq(Events)
    BY <2>1, SubSeqProperties
  <2> QED BY <1>1, <2>2 DEF Without, i
<1>2. CASE ~\E i \in DOMAIN events : events[i] = event
  BY <1>2 DEF Without
<1> QED BY <1>1, <1>2
-----------------------------------------------------------------------------
(* One step for each action.                                               *)

\* The invariant by its parts.
LEMMA InvParts ==
  ASSUME Inv
  PROVE  /\ Fit(agent) /\ run \in Runs /\ call \in [Callers -> Calls]
         /\ staged \in Seq(Events) /\ queue \in Seq(Events) /\ lane \in Seq(Callers)
         /\ open \in BOOLEAN /\ begun \in 0..MaxTurns /\ live \subseteq 1..begun
         /\ (staged # <<>> => StartPending)
BY DEF Inv, TypeOK, StateShown, IdleHasNoTurn, Fit

\* The invariant from its parts.
LEMMA InvFromParts ==
  ASSUME Fit(agent'), run' \in Runs, call' \in [Callers -> Calls],
         staged' \in Seq(Events), queue' \in Seq(Events), lane' \in Seq(Callers),
         open' \in BOOLEAN, begun' \in 0..MaxTurns, live' \subseteq 1..begun',
         staged' # <<>> => StartPending',
         Linked'
  PROVE  Inv'
BY DEF Inv, TypeOK, StateShown, IdleHasNoTurn, Fit

\* Each step of the agent manager, its callers and the provider.
LEMMA DispatchStep == Inv /\ Dispatch => Inv'
<1> SUFFICES ASSUME Inv, Dispatch PROVE Inv'
  OBVIOUS
<1>0. queue # <<>> /\ queue \in Seq(Events) /\ queue' = Tail(queue) /\ queue' \in Seq(Events)
  BY InvParts, HeadTailProperties DEF Dispatch
<1>1. CASE open
  <2> DEFINE event == Head(queue)
  <2>1. event \in Events
    BY <1>0, HeadTailProperties
  <2>2. /\ agent' = Handled(event).agent /\ run' = Handled(event).run /\ call' = Notified(event)
        /\ UNCHANGED <<staged, lane, open, begun, live>>
    BY <1>1 DEF Dispatch, provider
  <2> HIDE DEF event
  <2>3. /\ event \in [type : {"started"} \union Terminals, turn : SomeTurn]
        /\ event.turn # NoTurn
    BY <2>1 DEF Events, SomeTurn, Turns, NoTurn
  <2>4. call' \in [Callers -> Calls]
    <3>1. \A c \in Callers : call[c] \in Calls /\ [call[c] EXCEPT !.ended = TRUE] \in Calls
      BY InvParts DEF Calls
    <3> QED BY <2>2, <3>1 DEF Notified
  <2>5. /\ Fit(agent') /\ run' \in Runs /\ (staged # <<>> => StartPending') /\ Linked'
    <3>1. \A c \in Callers : call'[c] = Notified(event)[c] \/ Aside(c)
      BY <2>2
    <3> QED BY <2>2, <2>3, <2>4, <3>1, HandledKeeps
  <2> QED BY <1>0, <2>2, <2>4, <2>5, InvParts, InvFromParts
<1>2. CASE ~open
  <2>1. UNCHANGED <<agent, run, call, staged, lane, open, begun, live>>
    BY <1>2 DEF Dispatch, provider
  <2>2. Linked'
    BY <2>1, CallsStand
  <2> QED BY <1>0, <2>1, <2>2, InvParts, InvFromParts DEF StartPending
<1> QED BY <1>1, <1>2

LEMMA BeginStep == \A c \in Callers : Inv /\ Begin(c) => Inv'
<1> SUFFICES ASSUME NEW c \in Callers, Inv, Begin(c) PROVE Inv'
  OBVIOUS
<1> DEFINE seen == IF run = NoRun /\ agent.lifecycle = "running" THEN AutonomousRun(NoTurn) ELSE run
<1>0. /\ UNCHANGED <<agent, staged, queue, open, begun, live>>
      /\ call[c].at = "lane"
  BY DEF Begin, provider, At
<1>1. \/ lane' = lane /\ run' = seen
         /\ call' = [call EXCEPT ![c] = [call[c] EXCEPT !.at = "interrupting", !.saw = seen]]
      \/ run' = run /\ (Leaves(c, "throwing") \/ Leaves(c, "replacing"))
  BY DEF Begin
<1>2. seen \in Runs /\ (seen # run => run = NoRun /\ seen.kind # "foreground")
  BY InvParts DEF AutonomousRun, Runs, SomeTurn
<1> HIDE DEF seen
<1>3. CASE run' = run /\ (Leaves(c, "throwing") \/ Leaves(c, "replacing"))
  <2>1. /\ lane' \in Seq(Callers) /\ call' \in [Callers -> Calls]
        /\ \A d \in Callers : call'[d] = call[d] \/ Aside(d)
    BY <1>0, <1>3, LeavesAside
  <2>2. Linked'
    BY <1>0, <1>3, <2>1, CallsStand
  <2> QED BY <1>0, <1>3, <2>1, <2>2, InvParts, InvFromParts DEF StartPending
<1>4. CASE lane' = lane /\ run' = seen
           /\ call' = [call EXCEPT ![c] = [call[c] EXCEPT !.at = "interrupting", !.saw = seen]]
  <2> DEFINE new == [call[c] EXCEPT !.at = "interrupting", !.saw = seen]
  <2>1. new \in Calls /\ new.at = "interrupting" /\ new.turn = call[c].turn /\ new.ended = call[c].ended
    BY <1>2, InvParts DEF Calls, Places
  <2>2. /\ call' \in [Callers -> Calls]
        /\ \A d \in Callers : call'[d] = call[d] \/ Aside(d)
    <3>1. call' = [call EXCEPT ![c] = new]
      BY <1>4
    <3> HIDE DEF new
    <3> QED BY <1>0, <2>1, <3>1, GoesAside
  <2>3. run' = run \/ (agent.foreground = NoTurn /\ run'.kind # "foreground")
    BY <1>2, <1>4, WaiterIsOne DEF Inv, Linked, WaiterIsCurrent, NoRun
  <2>4. Linked'
    BY <1>0, <2>2, <2>3, CallsStand
  <2>5. staged' # <<>> => StartPending'
    BY <1>0, <1>2, <1>4, InvParts DEF StartPending, NoRun
  <2> QED BY <1>0, <1>2, <1>4, <2>2, <2>4, <2>5, InvParts, InvFromParts
<1> QED BY <1>1, <1>3, <1>4

LEMMA SeesSettledStep == \A c \in Callers : Inv /\ SeesSettled(c) => Inv'
<1> SUFFICES ASSUME NEW c \in Callers, Inv, SeesSettled(c) PROVE Inv'
  OBVIOUS
<1>0. /\ UNCHANGED <<agent, run, staged, queue, open, begun, live>>
      /\ call[c].at \in {"settling", "forced"} /\ Leaves(c, "replacing")
  BY DEF SeesSettled, provider
<1>1. /\ lane' \in Seq(Callers) /\ call' \in [Callers -> Calls]
      /\ \A d \in Callers : call'[d] = call[d] \/ Aside(d)
  BY <1>0, LeavesAside
<1>2. Linked'
  BY <1>0, <1>1, CallsStand
<1> QED BY <1>0, <1>1, <1>2, InvParts, InvFromParts DEF StartPending

LEMMA ReplacesStep == \A c \in Callers : Inv /\ Replaces(c) => Inv'
<1> SUFFICES ASSUME NEW c \in Callers, Inv, Replaces(c) PROVE Inv'
  OBVIOUS
<1>0. /\ UNCHANGED <<queue, lane, open, begun, live>> /\ Streams(c) /\ call[c].at = "replacing"
  BY DEF Replaces, provider, At
<1> QED BY <1>0, StreamsKeeps, InvParts, InvFromParts

LEMMA ThrowsStep == \A c \in Callers : Inv /\ Throws(c) => Inv'
<1> SUFFICES ASSUME NEW c \in Callers, Inv, Throws(c) PROVE Inv'
  OBVIOUS
<1>0. /\ UNCHANGED <<run, staged, queue, lane, open, begun, live>> /\ Answered(c)
      /\ call[c].at = "throwing" /\ agent' = [agent EXCEPT !.replacing = FALSE]
  BY DEF Throws, provider, At
<1>1. Fit(agent') /\ agent'.foreground = agent.foreground /\ agent'.finalized = agent.finalized
  BY <1>0, InvParts DEF Fit, Agents
<1>2. ~Waits(c) /\ (run.kind = "foreground" => run.by # c)
  BY <1>0 DEF Waits, At, Inv, Linked, RunIsOfCaller
<1>3. Linked' /\ call' \in [Callers -> Calls]
  BY <1>0, <1>1, <1>2, CallerLeaves, InvParts DEF Answered, NewCall, Calls, Places, Runs, SomeTurn
<1> QED BY <1>0, <1>1, <1>3, InvParts, InvFromParts DEF StartPending

LEMMA FinishesStep == \A c \in Callers : Inv /\ Finishes(c) => Inv'
<1> SUFFICES ASSUME NEW c \in Callers, Inv, Finishes(c) PROVE Inv'
  OBVIOUS
<1>0. /\ UNCHANGED <<agent, staged, queue, lane, open, begun, live>> /\ Answered(c)
      /\ At(c, "streaming") /\ call[c].ended
      /\ run' = IF run.by = c THEN NoRun ELSE run
  BY DEF Finishes, provider
<1>1. ~Waits(c) /\ call[c].at # "starting"
  BY <1>0 DEF Waits, At
<1>2. run.by = c => agent.foreground = NoTurn /\ ~StartPending
  <2>1. run.by = c => run.kind = "foreground"
    BY InvParts DEF Runs, NoRun, Callers
  <2>2. run.by = c => ~StartPending
    BY <1>0, <2>1 DEF StartPending, Inv, Linked, RunIsOfCaller, TurnsAreOwn, At
  <2>3. run.by = c => agent.foreground = NoTurn
    BY <1>1, WaiterIsOne DEF Inv, Linked, WaiterIsCurrent
  <2> QED BY <2>2, <2>3
<1>3. Linked' /\ call' \in [Callers -> Calls]
  BY <1>0, <1>1, <1>2, CallerLeaves, InvParts DEF Answered, NewCall, Calls, Places, Runs, SomeTurn
<1>4. run' \in Runs /\ (staged' # <<>> => StartPending')
  BY <1>0, <1>2, InvParts DEF Runs, StartPending
<1> QED BY <1>0, <1>3, <1>4, InvParts, InvFromParts

LEMMA PromptStep == \A c \in Callers : Inv /\ Prompt(c) => Inv'
<1> SUFFICES ASSUME NEW c \in Callers, Inv, Prompt(c) PROVE Inv'
  OBVIOUS
<1>0. UNCHANGED <<queue, open, begun, live>> /\ call[c].at = "idle"
  BY DEF Prompt, provider, At
<1>1. CASE Streams(c) /\ lane' = lane
  BY <1>0, <1>1, StreamsKeeps, InvParts, InvFromParts
<1>2. CASE /\ agent' = Shown([agent EXCEPT !.replacing = TRUE, !.lifecycle = "running"])
           /\ lane' = Append(lane, c)
           /\ call' = [call EXCEPT ![c] = [call[c] EXCEPT !.at = "lane", !.replaces = TRUE]]
           /\ UNCHANGED <<run, staged>>
  <2>1. Fit(agent') /\ agent'.foreground = agent.foreground /\ agent'.finalized = agent.finalized
    BY <1>2, InvParts DEF Fit, Agents, Shown, Lifecycles
  <2> DEFINE new == [call[c] EXCEPT !.at = "lane", !.replaces = TRUE]
  <2>2. new \in Calls /\ new.at = "lane" /\ new.turn = call[c].turn /\ new.ended = call[c].ended
    BY InvParts DEF Calls, Places
  <2>3. /\ call' \in [Callers -> Calls]
        /\ \A d \in Callers : call'[d] = call[d] \/ Aside(d)
    <3>1. call' = [call EXCEPT ![c] = new]
      BY <1>2
    <3> HIDE DEF new
    <3> QED BY <1>0, <2>2, <3>1, GoesAside
  <2>4. Linked'
    BY <1>0, <1>2, <2>1, <2>3, CallsStand
  <2>5. lane' \in Seq(Callers)
    BY <1>2, InvParts
  <2> QED BY <1>0, <1>2, <2>1, <2>3, <2>4, <2>5, InvParts, InvFromParts DEF StartPending
<1> QED BY <1>1, <1>2 DEF Prompt

LEMMA CancelStep == \A c \in Callers : Inv /\ Cancel(c) => Inv'
<1> SUFFICES ASSUME NEW c \in Callers, Inv, Cancel(c) PROVE Inv'
  OBVIOUS
<1> DEFINE new == [call[c] EXCEPT !.at = "lane"]
<1>0. /\ UNCHANGED <<agent, run, staged, queue, open, begun, live>> /\ call[c].at = "idle"
      /\ lane' = Append(lane, c) /\ call' = [call EXCEPT ![c] = new]
  BY DEF Cancel, provider, At, Goes
<1>1. new \in Calls /\ new.at = "lane" /\ new.turn = call[c].turn /\ new.ended = call[c].ended
  BY InvParts DEF Calls, Places
<1> HIDE DEF new
<1>2. /\ call' \in [Callers -> Calls]
      /\ \A d \in Callers : call'[d] = call[d] \/ Aside(d)
  BY <1>0, <1>1, GoesAside
<1>3. Linked'
  BY <1>0, <1>2, CallsStand
<1>4. lane' \in Seq(Callers)
  BY <1>0, InvParts
<1> QED BY <1>0, <1>2, <1>3, <1>4, InvParts, InvFromParts DEF StartPending

LEMMA InterruptReturnsStep == \A c \in Callers : Inv /\ InterruptReturns(c) => Inv'
<1> SUFFICES ASSUME NEW c \in Callers, Inv, InterruptReturns(c) PROVE Inv'
  OBVIOUS
<1>0. UNCHANGED <<agent, run, staged, queue, lane, open, begun, live>> /\ call[c].at = "interrupting"
  BY DEF InterruptReturns, provider, At
<1>1. PICK acked \in BOOLEAN : call' = [call EXCEPT ![c] = [call[c] EXCEPT !.at = "settling", !.acked = acked]]
  BY DEF InterruptReturns
<1> DEFINE new == [call[c] EXCEPT !.at = "settling", !.acked = acked]
<1>2. new \in Calls /\ new.at = "settling" /\ new.turn = call[c].turn /\ new.ended = call[c].ended
  BY InvParts DEF Calls, Places
<1>3. call' = [call EXCEPT ![c] = new]
  BY <1>1
<1> HIDE DEF new
<1>4. /\ call' \in [Callers -> Calls]
      /\ \A d \in Callers : call'[d] = call[d] \/ Aside(d)
  BY <1>0, <1>2, <1>3, GoesAside
<1>5. Linked'
  BY <1>0, <1>4, CallsStand
<1> QED BY <1>0, <1>4, <1>5, InvParts, InvFromParts DEF StartPending

LEMMA CloseStep == Inv /\ Close => Inv'
<1> SUFFICES ASSUME Inv, Close PROVE Inv'
  OBVIOUS
<1>0. /\ open' = FALSE /\ run' = NoRun /\ staged' = <<>> /\ UNCHANGED <<queue, lane, begun, live>>
      /\ call' = [c \in Callers |-> IF At(c, "streaming") THEN [call[c] EXCEPT !.ended = TRUE] ELSE call[c]]
  BY DEF Close, provider
<1>1. Fit(agent') /\ agent'.foreground = NoTurn /\ agent'.finalized = {}
  BY InvParts DEF Close, Fit, Agents, Lifecycles, SomeTurn
<1>2. \A c \in Callers : /\ call[c] \in Calls /\ call'[c] \in Calls
                         /\ call'[c].at = call[c].at /\ call'[c].turn = call[c].turn
                         /\ ~Waits(c)'
  BY <1>0, InvParts DEF Calls, Waits, At
<1>3. call' \in [Callers -> Calls] /\ run' \in Runs
  BY <1>0, <1>2 DEF Runs
<1>4. WaiterIsCurrent' /\ RunIsOfCaller'
  BY <1>0, <1>1, <1>2 DEF WaiterIsCurrent, RunIsOfCaller, NoRun
<1>5. TurnsAreOwn'
  BY <1>0, <1>1, <1>2 DEF Inv, Linked, TurnsAreOwn, At
<1>6. staged' \in Seq(Events) /\ ~(staged' # <<>>)
  BY <1>0
<1>7. open' \in BOOLEAN
  BY <1>0
<1>8. queue' \in Seq(Events) /\ lane' \in Seq(Callers) /\ begun' \in 0..MaxTurns /\ live' \subseteq 1..begun'
  BY <1>0, InvParts
<1> QED BY <1>1, <1>3, <1>4, <1>5, <1>6, <1>7, <1>8, InvFromParts DEF Linked

LEMMA BeginsAloneStep == Inv /\ BeginsAlone => Inv'
<1> SUFFICES ASSUME Inv, BeginsAlone PROVE Inv'
  OBVIOUS
<1>0. /\ UNCHANGED <<agent, run, lane, call, open>>
      /\ begun < MaxTurns /\ begun' = begun + 1 /\ live' = live \union {begun + 1}
      /\ Emits(Event("started", begun + 1))
  BY DEF BeginsAlone
<1>1. begun' \in 0..MaxTurns /\ live' \subseteq 1..begun' /\ begun + 1 \in Turns
  BY <1>0, InvParts DEF Turns
<1>2. Event("started", begun + 1) \in Events
  BY <1>1 DEF Event, Events
<1>3. /\ staged' \in Seq(Events) /\ queue' \in Seq(Events) /\ (staged' # <<>> => StartPending')
  BY <1>0, <1>2, EmitsKeeps
<1>4. TurnsAreOwn'
  <2>1. begun \in Nat /\ begun' = begun + 1 /\ \A c \in Callers : call[c].turn \in Nat
    BY <1>0, InvParts DEF Calls, SomeTurn, Turns, NoTurn
  <2> QED BY <1>0, <2>1 DEF Inv, Linked, TurnsAreOwn, At
<1>5. WaiterIsCurrent' /\ RunIsOfCaller'
  BY <1>0 DEF Inv, Linked, WaiterIsCurrent, RunIsOfCaller, Waits, At
<1> QED BY <1>0, <1>1, <1>3, <1>4, <1>5, InvParts, InvFromParts DEF Linked

LEMMA EndsStep == \A t \in Turns : Inv /\ Ends(t) => Inv'
<1> SUFFICES ASSUME NEW t \in Turns, Inv, Ends(t) PROVE Inv'
  OBVIOUS
<1>0. /\ UNCHANGED <<agent, run, lane, call, open, begun>> /\ live' = live \ {t}
  BY DEF Ends
<1>1. PICK type \in Terminals : Emits(Event(type, t))
  BY DEF Ends, Terminals
<1>2. Event(type, t) \in Events
  BY DEF Event, Events
<1>3. /\ staged' \in Seq(Events) /\ queue' \in Seq(Events) /\ (staged' # <<>> => StartPending')
  BY <1>0, <1>1, <1>2, EmitsKeeps
<1>4. Linked'
  BY <1>0, CallsStand
<1>5. begun' \in 0..MaxTurns /\ live' \subseteq 1..begun'
  BY <1>0, InvParts
<1> QED BY <1>0, <1>3, <1>4, <1>5, InvParts, InvFromParts

LEMMA BeginsTurnStep == \A c \in Callers : Inv /\ BeginsTurn(c) => Inv'
<1> SUFFICES ASSUME NEW c \in Callers, Inv, BeginsTurn(c) PROVE Inv'
  OBVIOUS
<1> DEFINE new == [call[c] EXCEPT !.turn = begun + 1]
<1>0. /\ UNCHANGED <<agent, run, lane, open>> /\ At(c, "starting")
      /\ begun < MaxTurns /\ begun' = begun + 1 /\ live' = live \union {begun + 1}
      /\ Emits(Event("started", begun + 1)) /\ call' = [call EXCEPT ![c] = new]
  BY DEF BeginsTurn
<1>1. begun' \in 0..MaxTurns /\ live' \subseteq 1..begun' /\ begun + 1 \in Turns
  BY <1>0, InvParts DEF Turns
<1>2. Event("started", begun + 1) \in Events
  BY <1>1 DEF Event, Events
<1>3. /\ staged' \in Seq(Events) /\ queue' \in Seq(Events) /\ (staged' # <<>> => StartPending')
  BY <1>0, <1>2, EmitsKeeps
<1>4. new \in Calls /\ new.at = "starting" /\ new.turn = begun + 1 /\ new.ended = call[c].ended
  BY <1>0, <1>1, InvParts DEF Calls, SomeTurn, At
<1> HIDE DEF new
<1>5. /\ call' \in [Callers -> Calls]
      /\ call'[c] = new /\ \A d \in Callers : d # c => call'[d] = call[d]
  BY <1>0, <1>4, InvParts
<1>6. WaiterIsCurrent'
  <2>1. \A d \in Callers : (Waits(d)' <=> Waits(d)) /\ (Waits(d) => d # c)
    BY <1>0, <1>4, <1>5 DEF Waits, At
  <2> QED BY <1>0, <1>5, <2>1 DEF Inv, Linked, WaiterIsCurrent
<1>7. RunIsOfCaller'
  <2>1. run.kind = "foreground" => run.by \in Callers
    BY InvParts DEF Runs, NoRun
  <2> QED BY <1>0, <1>4, <1>5, <2>1 DEF Inv, Linked, RunIsOfCaller, At
<1>8. TurnsAreOwn'
  <2>1. begun \in Nat /\ begun' = begun + 1 /\ \A d \in Callers : call[d].turn \in Nat
    BY <1>0, InvParts DEF Calls, SomeTurn, Turns, NoTurn
  <2>2. \A d \in Callers : call'[d].turn <= begun'
    BY <1>4, <1>5, <2>1 DEF Inv, Linked, TurnsAreOwn
  <2>3. \A d \in Callers : At(d, "streaming")' => call'[d].turn # NoTurn
    BY <1>4, <1>5 DEF Inv, Linked, TurnsAreOwn, At
  <2>4. agent'.finalized \subseteq 1..begun'
    BY <1>0, <2>1 DEF Inv, Linked, TurnsAreOwn
  <2>5. \A d \in Callers : call'[d].turn \in agent'.finalized => At(d, "streaming")' /\ call'[d].ended
    <3>1. begun + 1 \notin agent.finalized
      BY <2>1 DEF Inv, Linked, TurnsAreOwn
    <3> QED BY <1>0, <1>4, <1>5, <3>1 DEF Inv, Linked, TurnsAreOwn, At
  <2>6. \A d, e \in Callers : d # e /\ call'[d].turn = call'[e].turn => call'[d].turn = NoTurn
    <3>1. \A d \in Callers : call[d].turn # begun + 1
      BY <2>1 DEF Inv, Linked, TurnsAreOwn
    <3> QED BY <1>4, <1>5, <3>1 DEF Inv, Linked, TurnsAreOwn
  <2>7. \A d \in Callers : call'[d].ended => At(d, "streaming")'
    BY <1>0, <1>4, <1>5 DEF Inv, Linked, TurnsAreOwn, At
  <2> QED BY <2>2, <2>3, <2>4, <2>5, <2>6, <2>7 DEF TurnsAreOwn
<1> QED BY <1>0, <1>1, <1>3, <1>5, <1>6, <1>7, <1>8, InvParts, InvFromParts DEF Linked

LEMMA StartReturnsStep == \A c \in Callers : Inv /\ StartReturns(c) => Inv'
<1> SUFFICES ASSUME NEW c \in Callers, Inv, StartReturns(c) PROVE Inv'
  OBVIOUS
<1>0. /\ UNCHANGED <<lane, open, begun, live>> /\ call[c].at = "starting" /\ call[c].turn # NoTurn
  BY DEF StartReturns, provider, At
<1>1. ~Waits(c) /\ call[c] \in Calls
  BY <1>0, InvParts DEF Waits, At
<1>2. CASE run.by # c
  <2>1. Answered(c) /\ UNCHANGED <<agent, run, staged, queue>>
    BY <1>2 DEF StartReturns
  <2>2. Linked' /\ call' \in [Callers -> Calls]
    BY <1>0, <1>1, <1>2, <2>1, CallerLeaves, InvParts DEF Answered, NewCall, Calls, Places, Runs, SomeTurn
  <2> QED BY <1>0, <2>1, <2>2, InvParts, InvFromParts DEF StartPending
<1>3. CASE run.by = c
  <2> DEFINE t == call[c].turn
             new == [call[c] EXCEPT !.at = "streaming"]
  <2>1. /\ run' = [run EXCEPT !.turn = t]
        /\ agent' = Shown([agent EXCEPT !.foreground = t, !.active = t, !.lifecycle = "running",
                             !.replacing = IF call[c].replaces THEN FALSE ELSE @])
        /\ queue' = queue \o Without(staged, Event("started", t))
        /\ staged' = <<>>
        /\ call' = [call EXCEPT ![c] = new]
    BY <1>3 DEF StartReturns, Goes
  <2>2. t \in Turns
    BY <1>0, <1>1 DEF Calls, SomeTurn
  <2>3. run.kind = "foreground" /\ run.turn = NoTurn
    BY <1>0, <1>3, InvParts DEF Runs, NoRun, Callers, Inv, Linked, RunIsOfCaller, At
  <2>4. agent.foreground = NoTurn
    BY <1>1, <1>3, WaiterIsOne DEF Inv, Linked, WaiterIsCurrent
  <2>5. Fit(agent') /\ agent'.foreground = t /\ agent'.finalized = agent.finalized
    <3> HIDE DEF t
    <3> QED BY <2>1, <2>2, <1>1, InvParts DEF Fit, Shown, Agents, Lifecycles, SomeTurn, Calls
  <2>6. run' \in Runs /\ run'.kind = "foreground" /\ run'.by = c /\ run'.turn = t
    <3> HIDE DEF t
    <3> QED BY <1>3, <2>1, <2>2, <2>3, InvParts DEF Runs, NoRun, SomeTurn
  <2>7. new \in Calls /\ new.at = "streaming" /\ new.turn = t /\ new.ended = call[c].ended
    BY <1>1 DEF Calls, Places
  <2> HIDE DEF new
  <2>8. /\ call' \in [Callers -> Calls]
        /\ call'[c] = new /\ \A d \in Callers : d # c => call'[d] = call[d]
    BY <2>1, <2>7, InvParts
  <2>9. queue' \in Seq(Events)
    BY <2>1, InvParts, WithoutKeeps
  <2>10. t \notin agent.finalized
    BY <1>0 DEF Inv, Linked, TurnsAreOwn, At
  <2>11. ~call[c].ended
    BY <1>0 DEF Inv, Linked, TurnsAreOwn, At
  <2>12. Waits(c)' /\ \A d \in Callers : d # c => ~Waits(d)'
    <3>1. \A d \in Callers : ~Waits(d)
      BY <2>4, NobodyWaits
    <3> QED BY <2>7, <2>8, <2>11, <3>1 DEF Waits, At
  <2>13. WaiterIsCurrent' /\ RunIsOfCaller'
    BY <2>5, <2>6, <2>7, <2>8, <2>12
       DEF WaiterIsCurrent, RunIsOfCaller, SameRun, PendingRun, At
  <2>14. TurnsAreOwn'
    <3>1. \A d \in Callers : call'[d].turn = call[d].turn /\ call'[d].ended = call[d].ended
      BY <2>7, <2>8
    <3>2. \A d \in Callers : At(d, "streaming") => At(d, "streaming")'
      BY <2>7, <2>8 DEF At
    <3>3. \A d \in Callers : At(d, "streaming")' => call'[d].turn # NoTurn
      BY <1>0, <2>8, <3>1 DEF Inv, Linked, TurnsAreOwn, At
    <3> HIDE DEF t
    <3> QED BY <1>0, <2>5, <3>1, <3>2, <3>3 DEF Inv, Linked, TurnsAreOwn
  <2> HIDE DEF t
  <2>15. staged' \in Seq(Events) /\ ~(staged' # <<>>)
    BY <2>1
  <2> QED BY <1>0, <2>5, <2>6, <2>8, <2>9, <2>13, <2>14, <2>15, InvParts, InvFromParts DEF Linked
<1> QED BY <1>2, <1>3

LEMMA StartFailsStep == \A c \in Callers : Inv /\ StartFails(c) => Inv'
<1> SUFFICES ASSUME NEW c \in Callers, Inv, StartFails(c) PROVE Inv'
  OBVIOUS
<1>0. /\ UNCHANGED <<queue, lane, open, begun>> /\ call[c].at = "starting"
      /\ live' = live \ {call[c].turn} /\ Answered(c)
  BY DEF StartFails, At
<1>1. ~Waits(c) /\ begun' \in 0..MaxTurns /\ live' \subseteq 1..begun'
  BY <1>0, InvParts DEF Waits, At
<1>2. call' \in [Callers -> Calls]
  BY <1>0, InvParts DEF Answered, NewCall, Calls, Places, Runs, SomeTurn
<1>3. CASE run.by # c
  <2>1. UNCHANGED <<agent, run, staged>>
    BY <1>3 DEF StartFails
  <2>2. Linked'
    BY <1>0, <1>1, <1>3, <2>1, CallerLeaves
  <2> QED BY <1>0, <1>1, <1>2, <2>1, <2>2, InvParts, InvFromParts DEF StartPending
<1>4. CASE run.by = c
  <2> DEFINE a == [agent EXCEPT !.replacing = FALSE]
             r == [run EXCEPT !.turn = NoTurn]
             told == TurnEnded(a, r, "failed", NoTurn)
  <2>1. agent' = Finalized(told.agent, NoTurn) /\ run' = NoRun /\ staged' = <<>>
    BY <1>4 DEF StartFails
  <2>2. agent.foreground = NoTurn
    BY <1>1, <1>4, WaiterIsOne DEF Inv, Linked, WaiterIsCurrent
  <2>3. Fit(a) /\ a.foreground = NoTurn /\ a.finalized = agent.finalized /\ a.replacing = FALSE
    BY <2>2, InvParts DEF Fit, Agents
  <2>4. r \in Runs
    BY <1>0, <1>4, InvParts DEF Runs, NoRun, SomeTurn
  <2> HIDE DEF a, r
  <2>5. /\ Fit(told.agent) /\ told.agent.foreground = NoTurn /\ told.agent.finalized = agent.finalized
    BY <2>3, <2>4, TurnEndedKeeps DEF EndsOwn, Terminals, SomeTurn
  <2>6. told.agent.replacing = FALSE
    <3>1. IdentityOf(a, NoTurn) \in SomeTurn
      BY <2>3 DEF IdentityOf, Fit, Agents
    <3>2. told.agent = IF Ignored(a, IdentityOf(a, NoTurn)) THEN a
                       ELSE AfterTerminal(a, "failed", IdentityOf(a, NoTurn))
      BY <2>3 DEF TurnEnded, Both
    <3> QED BY <2>3, <3>1, <3>2, AfterTerminalKeeps DEF Terminals
  <2> HIDE DEF told
  <2>7. Fit(agent') /\ agent'.foreground = NoTurn /\ agent'.finalized = agent.finalized
    BY <2>1, <2>5, <2>6, FinalizedEnds DEF SomeTurn
  <2>8. Linked'
    BY <1>0, <1>1, <2>1, <2>2, <2>7, CallerLeaves
  <2>9. staged' \in Seq(Events) /\ ~(staged' # <<>>) /\ run' \in Runs
    BY <2>1 DEF Runs
  <2> QED BY <1>0, <1>1, <1>2, <2>7, <2>8, <2>9, InvParts, InvFromParts
<1> QED BY <1>3, <1>4

LEMMA SettlementTimesOutStep == \A c \in Callers : Inv /\ SettlementTimesOut(c) => Inv'
<1> SUFFICES ASSUME NEW c \in Callers, Inv, SettlementTimesOut(c) PROVE Inv'
  OBVIOUS
<1>0. UNCHANGED <<queue, open, begun, live>> /\ call[c].at = "settling"
  BY DEF SettlementTimesOut, provider, At
<1>1. CASE Leaves(c, "throwing") /\ UNCHANGED <<agent, run, staged>>
  <2>1. /\ lane' \in Seq(Callers) /\ call' \in [Callers -> Calls]
        /\ \A d \in Callers : call'[d] = call[d] \/ Aside(d)
    BY <1>0, <1>1, LeavesAside
  <2>2. Linked'
    BY <1>0, <1>1, <2>1, CallsStand
  <2> QED BY <1>0, <1>1, <2>1, <2>2, InvParts, InvFromParts DEF StartPending
<1>2. CASE /\ StartPending
           /\ run' = NoRun /\ staged' = <<>>
           /\ agent' = IF agent.replacing THEN agent ELSE Shown([agent EXCEPT !.lifecycle = "idle"])
           /\ Leaves(c, "replacing")
  <2>1. /\ lane' \in Seq(Callers) /\ call' \in [Callers -> Calls]
        /\ \A d \in Callers : call'[d] = call[d] \/ Aside(d)
    BY <1>0, <1>2, LeavesAside
  <2>2. agent.foreground = NoTurn
    BY <1>2, WaiterIsOne DEF StartPending, Inv, Linked, WaiterIsCurrent
  <2>3. Fit(agent') /\ agent'.foreground = agent.foreground /\ agent'.finalized = agent.finalized
    BY <1>2, <2>2, InvParts DEF Fit, Agents, Shown, Lifecycles
  <2>4. Linked'
    BY <1>0, <1>2, <2>1, <2>2, <2>3, CallsStand DEF NoRun
  <2>5. staged' \in Seq(Events) /\ ~(staged' # <<>>) /\ run' \in Runs
    BY <1>2 DEF Runs
  <2> QED BY <1>0, <2>1, <2>3, <2>4, <2>5, InvParts, InvFromParts
<1>3. CASE /\ ~StartPending
           /\ agent' = Handled(Event("canceled", run.turn)).agent
           /\ run' = Handled(Event("canceled", run.turn)).run
           /\ call' = [Notified(Event("canceled", run.turn)) EXCEPT ![c].at = "forced"]
           /\ UNCHANGED <<staged, lane>>
  <2> DEFINE event == Event("canceled", run.turn)
  <2>1. /\ event \in [type : {"started"} \union Terminals, turn : SomeTurn]
        /\ event.type = "canceled" /\ event.turn = run.turn
    BY InvParts DEF Event, Terminals, Runs, NoRun, SomeTurn
  <2>2. event.turn = NoTurn => agent.foreground = NoTurn
    BY <2>1, WaiterIsOne DEF Inv, Linked, WaiterIsCurrent
  <2>3. agent' = Handled(event).agent /\ run' = Handled(event).run
        /\ call' = [Notified(event) EXCEPT ![c].at = "forced"]
    BY <1>3
  <2> HIDE DEF event
  <2>4. /\ Notified(event) \in [Callers -> Calls]
        /\ Notified(event)[c] = call[c]
    <3>1. \A d \in Callers : call[d] \in Calls /\ [call[d] EXCEPT !.ended = TRUE] \in Calls
      BY InvParts DEF Calls
    <3> QED BY <1>0, <3>1 DEF Notified, At
  <2> DEFINE new == [call[c] EXCEPT !.at = "forced"]
  <2>5. new \in Calls /\ new.at = "forced" /\ new.turn = call[c].turn /\ new.ended = call[c].ended
    BY InvParts DEF Calls, Places
  <2>6. call' = [Notified(event) EXCEPT ![c] = new]
    BY <2>3, <2>4
  <2> HIDE DEF new
  <2>7. /\ call' \in [Callers -> Calls]
        /\ \A d \in Callers : call'[d] = Notified(event)[d] \/ Aside(d)
    BY <1>0, <2>4, <2>5, <2>6 DEF Aside
  <2>8. /\ Fit(agent') /\ run' \in Runs /\ (staged # <<>> => StartPending') /\ Linked'
    BY <1>0, <1>3, <2>1, <2>2, <2>3, <2>7, HandledKeeps
  <2> QED BY <1>0, <1>3, <2>7, <2>8, InvParts, InvFromParts
<1> QED BY <1>1, <1>2, <1>3 DEF SettlementTimesOut

-----------------------------------------------------------------------------
(* The theorems.                                                           *)

\* No run, no call and no turn at first.
LEMMA InitEstablishes == Init => Inv
<1> SUFFICES ASSUME Init PROVE Inv
  OBVIOUS
<1>1. Fit(agent) /\ agent.foreground = NoTurn /\ agent.finalized = {}
  BY DEF Init, Fit, Agents, Lifecycles, SomeTurn
<1>2. NewCall \in Calls /\ NewCall.at = "idle" /\ NewCall.turn = NoTurn /\ ~NewCall.ended
  BY DEF NewCall, Calls, Places, Runs, SomeTurn
<1>3. call \in [Callers -> Calls] /\ \A c \in Callers : call[c] = NewCall
  BY <1>2 DEF Init
<1>4. TypeOK
  BY <1>1, <1>3 DEF Init, TypeOK, Fit, Runs
<1>5. WaiterIsCurrent /\ RunIsOfCaller
  BY <1>1, <1>2, <1>3 DEF Init, WaiterIsCurrent, RunIsOfCaller, Waits, At, NoRun
<1>6. TurnsAreOwn
  BY <1>1, <1>2, <1>3 DEF Init, TurnsAreOwn, At, NoTurn
<1> QED BY <1>1, <1>4, <1>5, <1>6 DEF Inv, Linked, StateShown, IdleHasNoTurn, Fit

\* Every step.
LEMMA NextPreserves == Inv /\ [Next]_vars => Inv'
<1> SUFFICES ASSUME Inv, [Next]_vars PROVE Inv'
  OBVIOUS
<1>1. CASE Continues
  BY <1>1, DispatchStep, BeginStep, SeesSettledStep, ReplacesStep, ThrowsStep, FinishesStep DEF Continues
<1>2. CASE \E c \in Callers : Prompt(c) \/ Cancel(c) \/ BeginsTurn(c) \/ Answers(c)
  BY <1>2, PromptStep, CancelStep, BeginsTurnStep, StartReturnsStep, StartFailsStep,
     InterruptReturnsStep, SettlementTimesOutStep DEF Answers
<1>3. CASE BeginsAlone \/ Close
  BY <1>3, BeginsAloneStep, CloseStep
<1>4. CASE \E t \in Turns : Ends(t)
  BY <1>4, EndsStep
<1>5. CASE UNCHANGED vars
  <2>1. UNCHANGED <<agent, run, staged, queue, lane, call, open, begun, live>>
    BY <1>5 DEF vars, provider
  <2>2. Linked'
    BY <2>1, CallsStand
  <2> QED BY <2>1, <2>2, InvParts, InvFromParts DEF StartPending
<1> QED BY <1>1, <1>2, <1>3, <1>4, <1>5 DEF Next

(* The invariant the other theorems follow from.                           *)
THEOREM RunsAreLinked == Spec => []Inv
BY InitEstablishes, NextPreserves, PTL DEF Spec

(* agent-manager.ts, agent-run-state.ts: the records keep their types, and *)
(* events are staged for a start that is still pending only.               *)
THEOREM RunTypes == Spec => []TypeOK
<1>1. Inv => TypeOK
  BY DEF Inv
<1> QED BY <1>1, RunsAreLinked, PTL

(* streamAgent, handleStreamEvent, cancelAgentRunNow, closeAgentRuntime:   *)
(* the caller that waits, the agent's foreground turn and the tracked run  *)
(* name each other, for any number of prompts, cancellations and turns.    *)
THEOREM WaitersAreCurrent == Spec => []WaiterIsCurrent
<1>1. Inv => WaiterIsCurrent
  BY DEF Inv, Linked
<1> QED BY <1>1, RunsAreLinked, PTL

(* finalizeForegroundTurn, onStreamTurnFailed and the others: no path      *)
(* changes the lifecycle without publishing it.                            *)
THEOREM StatesAreShown == Spec => []StateShown
<1>1. Inv => StateShown
  BY DEF Inv
<1> QED BY <1>1, RunsAreLinked, PTL

(* cancelAgentRunNow, applyActiveTurnTerminal: an agent that is not        *)
(* running has no foreground turn.                                         *)
THEOREM IdleAgentsHaveNoTurn == Spec => []IdleHasNoTurn
<1>1. Inv => IdleHasNoTurn
  BY DEF Inv
<1> QED BY <1>1, RunsAreLinked, PTL
=============================================================================
