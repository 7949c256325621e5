------------------------- MODULE GitProcessScheduler -------------------------
(***************************************************************************)
(* packages/server/src/utils/git-process-scheduler.ts: every git process   *)
(* of the daemon is started through one scheduler that admits at most      *)
(* maxProcessConcurrency of them, one per turn of the event loop.          *)
(*                                                                         *)
(* A submitted call waits in the queue of its priority; drainOne moves one *)
(* to p-throttle (external: it starts what it was given in order, now or   *)
(* later, to keep to maxProcessesPerSecond); execute starts the process    *)
(* and gives the slot back when the process has exited.  The operators     *)
(* below map the state of the scheduler before a call to the one after it, *)
(* because the methods call each other within one turn.                    *)
(***************************************************************************)
EXTENDS Integers, Sequences, FiniteSets

CONSTANTS Calls,      \* calls of runGitCommand
          MaxProcs    \* policy.maxProcessConcurrency

ASSUME CallsFinite == IsFiniteSet(Calls)
ASSUME MaxProcsPositive == MaxProcs \in Nat \ {0}

Priorities == {"high", "normal"}
QueueNames == Priorities \cup {"throttled"}

VARIABLE sched    \* the fields of the GitProcessScheduler

\* queue: highPriorityQueue, normalPriorityQueue and what p-throttle holds;
\* drain: drainScheduled, a setImmediate of drainOne is pending.
Schedulers == [queue : [QueueNames -> Seq(Calls)], admitted : Nat, running : Nat,
               waiting : Nat, drain : BOOLEAN]

SchedInit == sched = [queue |-> [q \in QueueNames |-> <<>>], admitted |-> 0,
                      running |-> 0, waiting |-> 0, drain |-> FALSE]

Queued(s) == \E p \in Priorities : s.queue[p] # <<>>

\* Math.max(0, n - 1)
Less(n) == IF n = 0 THEN 0 ELSE n - 1

ScheduleDrain(s) ==
    [s EXCEPT !.drain = @ \/ (s.admitted < MaxProcs /\ Queued(s))]

\* The queue drainOne shifts from.
NextQueue(s) == IF s.queue["high"] # <<>> THEN "high" ELSE "normal"

\* The oldest call of a queue goes to the throttle.
Shift(q, from) == [q EXCEPT ![from] = Tail(@),
                            !["throttled"] = Append(@, Head(q[from]))]

\* Mutant of DrainOne: the drain is not rescheduled after an admission.
DrainOne_OnlyOnce(s) ==
    IF s.admitted >= MaxProcs \/ ~Queued(s)
    THEN [s EXCEPT !.drain = FALSE]
    ELSE [s EXCEPT !.drain = FALSE, !.admitted = @ + 1,
                   !.queue = Shift(@, NextQueue(s))]

DrainOne(s) ==
    IF s.admitted >= MaxProcs \/ ~Queued(s)
    THEN [s EXCEPT !.drain = FALSE]
    ELSE ScheduleDrain([s EXCEPT !.drain = FALSE, !.admitted = @ + 1,
                                 !.queue = Shift(@, NextQueue(s))])

\* run: queued, and drained at once when nothing is admitted or scheduled.
Run(s, c, p) ==
    LET pushed == [s EXCEPT !.waiting = @ + 1, !.queue[p] = Append(@, c)]
    IN  IF s.admitted = 0 /\ ~s.drain THEN DrainOne(pushed) ELSE ScheduleDrain(pushed)

\* execute up to the await: the throttle's oldest call starts.
Begin(s) == [s EXCEPT !.queue["throttled"] = Tail(@), !.waiting = Less(@),
                      !.running = @ + 1]

\* Mutant of Release: the counts go down and nobody is woken.
Release_Silent(s) == [s EXCEPT !.running = Less(@), !.admitted = Less(@)]

\* Mutant of Release: the call is taken off the waiting ones a second time.
Release_CountsWaiting(s) ==
    ScheduleDrain([s EXCEPT !.running = Less(@), !.admitted = Less(@), !.waiting = @ - 1])

\* The finally of execute.
Release(s) == ScheduleDrain([s EXCEPT !.running = Less(@), !.admitted = Less(@)])
=============================================================================
