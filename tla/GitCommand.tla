------------------------------ MODULE GitCommand ------------------------------
(***************************************************************************)
(* packages/server/src/utils/run-git-command.ts: one git command is a call *)
(* of the scheduler, a child process, a timer and the promise its caller   *)
(* awaits.  The caller is answered by whichever comes first of the child's *)
(* close and the timer; the scheduler's slot is given back by the child's  *)
(* exit alone, because a child that was sent SIGKILL still runs.           *)
(*                                                                         *)
(* A callback of the child, of the timer or of setImmediate is one action, *)
(* with the microtasks that follow it (the continuation of `await          *)
(* process.exited` runs before any other callback).  Output, traces and    *)
(* metrics are left out, but for the output limit, which kills the child.  *)
(***************************************************************************)
EXTENDS GitProcessScheduler

VARIABLE cmd      \* per call: its promise, timer and child

vars == <<sched, cmd>>

\* child: "failed" is a child that could not be spawned (it emits error and
\* close, no exit); code: what acceptExitCodes says of the exit code.
Command == [promise : {"none", "pending", "resolved", "rejected"},
            timer : {"off", "armed", "fired"},
            child : {"none", "alive", "failed", "exited", "closed"},
            killed : BOOLEAN, truncated : BOOLEAN, error : BOOLEAN,
            code : {"none", "accepted", "refused"}]

NoCommand == [promise |-> "none", timer |-> "off", child |-> "none", killed |-> FALSE,
              truncated |-> FALSE, error |-> FALSE, code |-> "none"]

Init == SchedInit /\ cmd = [c \in Calls |-> NoCommand]

Settled(r) == r.promise \in {"resolved", "rejected"}

\* settle: only the first answer counts, and it clears the timer.
Settle(r, answer) ==
    IF Settled(r) THEN r
    ELSE [r EXCEPT !.promise = answer, !.timer = IF @ = "armed" THEN "off" ELSE @]

\* The calls whose process slot has not been released.
Holders == {c \in Calls : cmd[c].child \in {"alive", "failed"}}

-----------------------------------------------------------------------------

Submit(c, p) ==
    /\ cmd[c].promise = "none"
    /\ cmd' = [cmd EXCEPT ![c].promise = "pending"]
    /\ sched' = Run(sched, c, p)

\* The setImmediate callback.
Immediate ==
    /\ sched.drain
    /\ sched' = DrainOne(sched)
    /\ UNCHANGED cmd

\* startCommand, a child was made: it runs, or its spawn error will be emitted.
Spawn(c) ==
    /\ sched.queue["throttled"] # <<>> /\ c = Head(sched.queue["throttled"])
    /\ \E outcome \in {"alive", "failed"} :
          cmd' = [cmd EXCEPT ![c].child = outcome, ![c].timer = "armed"]
    /\ sched' = Begin(sched)

\* startCommand, spawnProcess throws or the child has no pipes: answered and
\* released at once.
SpawnThrows(c) ==
    /\ sched.queue["throttled"] # <<>> /\ c = Head(sched.queue["throttled"])
    /\ cmd' = [cmd EXCEPT ![c] = Settle([@ EXCEPT !.error = TRUE, !.child = "closed"],
                                        "rejected")]
    /\ sched' = Release(Begin(sched))

\* Mutant of Timeout: the timer answers and does not kill the child.
Timeout_NoKill(c) ==
    /\ cmd[c].timer = "armed"
    /\ cmd' = [cmd EXCEPT ![c] = Settle([@ EXCEPT !.timer = "fired"], "rejected")]
    /\ UNCHANGED sched

\* Mutant of Timeout: the slot is given back with the answer.
Timeout_Releases(c) ==
    /\ cmd[c].timer = "armed"
    /\ cmd' = [cmd EXCEPT ![c] = Settle([@ EXCEPT !.timer = "fired", !.killed = TRUE],
                                        "rejected")]
    /\ sched' = Release(sched)

\* The timer: SIGKILL and a rejection.
Timeout(c) ==
    /\ cmd[c].timer = "armed"
    /\ cmd' = [cmd EXCEPT ![c] = Settle([@ EXCEPT !.timer = "fired", !.killed = TRUE],
                                        "rejected")]
    /\ UNCHANGED sched

\* stdout "data" beyond maxOutputBytes.
Overflow(c) ==
    /\ cmd[c].child \in {"alive", "exited"}
    /\ ~Settled(cmd[c]) /\ ~cmd[c].truncated
    /\ cmd' = [cmd EXCEPT ![c].truncated = TRUE, ![c].killed = TRUE]
    /\ UNCHANGED sched

\* The child's "error" event, of a child that could not be spawned.
SpawnError(c) ==
    /\ cmd[c].child = "failed" /\ ~cmd[c].error
    /\ cmd' = [cmd EXCEPT ![c].error = TRUE]
    /\ UNCHANGED sched

\* The child's "exit" event: markProcessExited.
Exit(c) ==
    /\ cmd[c].child = "alive"
    /\ \E code \in {"accepted", "refused"} :
          cmd' = [cmd EXCEPT ![c].child = "exited", ![c].code = code]
    /\ sched' = Release(sched)

\* What the "close" handler answers; a call that timed out has its answer.
Verdict(r) == IF r.error \/ (~r.truncated /\ r.code # "accepted")
              THEN "rejected" ELSE "resolved"

\* The child's "close" event.  After an exit the pipes may be held open by a
\* process the child left behind, so that it may never come.
Close(c) ==
    /\ cmd[c].child = "exited"
    /\ cmd' = [cmd EXCEPT ![c] = Settle([@ EXCEPT !.child = "closed"], Verdict(@))]
    /\ UNCHANGED sched

\* The "close" of a child that never ran is also its exit.
CloseUnspawned(c) ==
    /\ cmd[c].child = "failed" /\ cmd[c].error
    /\ cmd' = [cmd EXCEPT ![c] = Settle([@ EXCEPT !.child = "closed"], Verdict(@))]
    /\ sched' = Release(sched)

Next == \/ Immediate
        \/ \E c \in Calls, p \in Priorities : Submit(c, p)
        \/ \E c \in Calls : \/ Spawn(c) \/ SpawnThrows(c) \/ Timeout(c) \/ Overflow(c)
                            \/ SpawnError(c) \/ Exit(c) \/ Close(c) \/ CloseUnspawned(c)

Spec == Init /\ [][Next]_vars

\* The event loop runs immediates and timers, the throttle starts what it was
\* given, a killed child exits and a spawn failure is reported.  Nothing is
\* assumed of a child that runs, nor of the close of its pipes.
Fairness == /\ WF_vars(Immediate)
            /\ \A c \in Calls : /\ WF_vars(Spawn(c) \/ SpawnThrows(c))
                                /\ WF_vars(Timeout(c))
                                /\ WF_vars(cmd[c].killed /\ Exit(c))
                                /\ WF_vars(SpawnError(c) \/ CloseUnspawned(c))

FairSpec == Spec /\ Fairness

-----------------------------------------------------------------------------
(* Properties. *)

TypeOK == sched \in Schedulers /\ cmd \in [Calls -> Command]

\* activeCount and pendingCount are what the scheduler really holds, and an
\* admission is counted until the process is gone, however often timers,
\* closes and spawn failures end the call before (the finally of execute).
CountsAreExact ==
    /\ sched.running = Cardinality(Holders)
    /\ sched.admitted = Len(sched.queue["throttled"]) + sched.running
    /\ sched.waiting = Len(sched.queue["high"]) + Len(sched.queue["normal"])
                       + Len(sched.queue["throttled"])

\* No more git processes run than the policy allows, those that were killed and
\* whose caller has been answered included (releaseProcessSlot at the exit).
ProcessesAreBounded ==
    Cardinality({c \in Calls : cmd[c].child = "alive"}) <= MaxProcs

\* No lost wakeup: while a call is queued and a slot is free a drain is pending
\* (every path that frees a slot or queues a call schedules one).
NoLostWakeup == Queued(sched) /\ sched.admitted < MaxProcs => sched.drain

\* A caller that has its answer left no running child behind, but one that was
\* sent SIGKILL (the timer, and the order of exit, close and timer).
AnsweredChildIsDying ==
    \A c \in Calls : Settled(cmd[c]) /\ cmd[c].child = "alive" => cmd[c].killed

\* Every call is answered although children hang and pipes never close: the
\* timer answers those that were started, and killing them frees the slots for
\* those that wait.
EveryCallAnswered ==
    \A c \in Calls : cmd[c].promise = "pending" ~> Settled(cmd[c])
=============================================================================
