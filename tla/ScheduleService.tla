--------------------------- MODULE ScheduleService ---------------------------
(***************************************************************************)
(* packages/server/src/server/schedule: schedules and their runs.          *)
(* A timer starts a tick every second, whether or not the tick before has  *)
(* ended.  A tick reads all schedules once and then works through what it  *)
(* has read, waiting for each run to end.  Clients change schedules and    *)
(* run them by hand meanwhile; the store applies the updates of a schedule *)
(* one after the other.  A restarted daemon repairs what a crash has left  *)
(* before it serves anyone.                                                *)
(*                                                                         *)
(* Time is a number that advances by itself.  The cadence is one period    *)
(* for all schedules; of a cron expression only this is used: the next     *)
(* time is later.  Whether an agent or directory is gone is any moment's   *)
(* guess of the environment.  Workspaces and agents of runs are left out,  *)
(* and so are failures of the disk.                                        *)
(***************************************************************************)
EXTENDS Integers, Sequences, FiniteSets

CONSTANTS NumSchedules,  \* schedules that may be created, in the order of creation
          Ticks,         \* ticks that may be under way at the same time
          Requests,      \* runOnce requests that may be under way at the same time
          Limits,        \* values of maxRuns clients choose
          Expiries,      \* values of expiresAt clients choose
          Period,        \* time from one slot of a schedule to the next
          MaxTime,       \* bound: the last moment
          MaxCommands,   \* bound: what clients and archived agents ask for
          MaxCrashes,    \* bound: crashes of the daemon
          Null           \* no schedule, no time, no limit

ASSUME SchedulesBound == NumSchedules \in Nat
ASSUME ActorsDiffer == Ticks \cap Requests = {}
ASSUME LimitsAreCounts == Limits \subseteq (Nat \ {0}) \cup {Null}
ASSUME ExpiriesAreTimes == Expiries \subseteq Nat \cup {Null}
ASSUME PeriodPositive == Period \in Nat \ {0}
ASSUME BoundsAreCounts == MaxTime \in Nat /\ MaxCommands \in Nat /\ MaxCrashes \in Nat
ASSUME NullIsNothing == Null \notin Nat

Schedules == 1 .. NumSchedules
Actors == Ticks \cup Requests

VARIABLES clock,       \* this.now()
          store,       \* the schedule files
          born,        \* schedules 1 .. born have been created
          running,     \* runningScheduleIds
          acts,        \* ticks and runOnce requests under way
          recovering,  \* schedules start() has yet to look at
          commands, crashes

vars == <<clock, store, born, running, acts, recovering, commands, crashes>>

\* A run and the slot it is for.  Its place in the list stands for its id.
Runs == [status : {"running", "ended"}, slot : Nat]
Rows == [status : {"active", "paused", "completed"}, next : Nat \cup {Null},
         limit : Nat \cup {Null}, expires : Nat \cup {Null}, runs : Seq(Runs)]
Acts == [phase : {"idle", "list", "complete", "read", "append", "execute"},
         at : 0 .. NumSchedules, run : Nat, now : Nat,
         seen : [Schedules -> Rows \cup {Null}]]

Idle == [phase |-> "idle", at |-> 0, run |-> 0, now |-> 0, seen |-> [s \in Schedules |-> Null]]

Init == /\ clock = 0
        /\ store = [s \in Schedules |-> Null]
        /\ born = 0
        /\ running = {}
        /\ acts = [a \in Actors |-> Idle]
        /\ recovering = {}
        /\ commands = 0
        /\ crashes = 0

Serving == recovering = {}

-----------------------------------------------------------------------------
(* Rows. *)

Ended(r) == {k \in DOMAIN r.runs : r.runs[k].status = "ended"}
RunningRuns(r) == {k \in DOMAIN r.runs : r.runs[k].status = "running"}

ShouldComplete(r, now) == \/ r.expires # Null /\ r.expires <= now
                          \/ r.limit # Null /\ Cardinality(Ended(r)) >= r.limit

CompletedRow(r) == [r EXCEPT !.status = "completed", !.next = Null]

\* The first slot after the given one that is still to come.
NextSlot(slot, now) == IF slot + Period > now
                       THEN slot + Period
                       ELSE slot + Period * ((now - slot) \div Period + 1)

-----------------------------------------------------------------------------
(* What clients do to a schedule. *)

Commanded == Serving /\ commands < MaxCommands /\ commands' = commands + 1

\* create, or createOrReplace of a new name; with or without an immediate run.
Create == /\ Commanded
          /\ born < NumSchedules
          /\ born' = born + 1
          /\ \E next \in {clock, clock + Period}, limit \in Limits, expires \in Expiries :
                store' = [store EXCEPT ![born + 1] =
                    [status |-> "active", next |-> next, limit |-> limit,
                     expires |-> expires, runs |-> <<>>]]
          /\ UNCHANGED <<clock, running, acts, recovering, crashes>>

\* ScheduleStore.update: the row is read and written with no other update between.
Rewrite(s, r) == /\ Commanded
                 /\ store[s] # Null
                 /\ store' = [store EXCEPT ![s] = r]
                 /\ UNCHANGED <<clock, born, running, acts, recovering, crashes>>

\* createOrReplace of a name that exists: in place, with its runs.
Replace(s) == /\ store[s] # Null
              /\ store[s].status # "completed"
              /\ \E next \in {clock, clock + Period}, limit \in Limits, expires \in Expiries :
                    Rewrite(s, [store[s] EXCEPT !.status = "active", !.next = next,
                                                !.limit = limit, !.expires = expires])

Pause(s) == /\ store[s] # Null
            /\ store[s].status = "active"
            /\ Rewrite(s, [store[s] EXCEPT !.status = "paused", !.next = Null])

Resume(s) == /\ store[s] # Null
             /\ store[s].status = "paused"
             /\ Rewrite(s, [store[s] EXCEPT !.status = "active", !.next = clock + Period])

\* update of the cadence, of maxRuns or of expiresAt, whatever the status.
Update(s) ==
    /\ store[s] # Null
    /\ \/ Rewrite(s, [store[s] EXCEPT !.next =
                         IF store[s].status = "active" THEN clock + Period ELSE Null])
       \/ \E limit \in Limits : Rewrite(s, [store[s] EXCEPT !.limit = limit])
       \/ \E expires \in Expiries : Rewrite(s, [store[s] EXCEPT !.expires = expires])

Delete(s) == /\ store[s] # Null
             /\ Rewrite(s, Null)

\* The agent a schedule belongs to is archived.
CompleteForAgent(s) == /\ store[s] # Null
                       /\ store[s].status # "completed"
                       /\ Rewrite(s, CompletedRow(store[s]))

-----------------------------------------------------------------------------
(* A tick.  What it does about a schedule it decides from the row it has     *)
(* read, however long ago, and from runningScheduleIds as it is.             *)

Attends(r, now) == /\ r # Null
                   /\ r.status = "active"
                   /\ r.next # Null
                   /\ ShouldComplete(r, now) \/ r.next <= now

\* Mutant of Pending: runningScheduleIds is not looked at.
Pending_EvenRunning(seen, now, from, busy) ==
    {s \in Schedules : s >= from /\ Attends(seen[s], now)}

\* The schedules a tick has left to attend to.
Pending(seen, now, from, busy) ==
    {s \in Schedules : s >= from /\ s \notin busy /\ Attends(seen[s], now)}

\* The loop goes on to the next such schedule: it waits for an update of the store,
\* or marks the schedule as running and waits for its run.
Proceed(t, seen, now, from, busy) ==
    LET pending == Pending(seen, now, from, busy)
        Waiting(phase, s) == [phase |-> phase, at |-> s, run |-> 0, now |-> now, seen |-> seen]
    IN \/ /\ pending = {}
          /\ acts' = [acts EXCEPT ![t] = Idle]
          /\ running' = busy
       \/ \E s \in pending :
             /\ \A u \in pending : s <= u
             /\ \/ /\ ShouldComplete(seen[s], now)
                   /\ acts' = [acts EXCEPT ![t] = Waiting("complete", s)]
                   /\ running' = busy
                \/ /\ ~ShouldComplete(seen[s], now)
                   /\ acts' = [acts EXCEPT ![t] = Waiting("append", s)]
                   /\ running' = busy \cup {s}

\* The timer fires.
TickStarts(t) ==
    /\ Serving
    /\ acts[t].phase = "idle"
    /\ acts' = [acts EXCEPT ![t] = [Idle EXCEPT !.phase = "list", !.now = clock]]
    /\ UNCHANGED <<clock, store, born, running, recovering, commands, crashes>>

TickLists(t) ==
    /\ acts[t].phase = "list"
    /\ Proceed(t, store, acts[t].now, 1, running)
    /\ UNCHANGED <<clock, store, born, recovering, commands, crashes>>

\* Mutant of TickCompletes: the row that was read by the tick is written back.
TickCompletes_StaleRow(t) ==
    LET s == acts[t].at
    IN /\ acts[t].phase = "complete"
       /\ store[s] # Null
       /\ store' = [store EXCEPT ![s] = CompletedRow(acts[t].seen[s])]
       /\ Proceed(t, acts[t].seen, acts[t].now, s + 1, running)
       /\ UNCHANGED <<clock, born, recovering, commands, crashes>>

\* completeScheduleIfDue looks again at the row before it completes it.  If the row
\* has been deleted it throws, which ends the tick.
TickCompletes(t) ==
    LET s == acts[t].at
        r == store[s]
        now == acts[t].now
    IN /\ acts[t].phase = "complete"
       /\ \/ /\ r = Null
             /\ acts' = [acts EXCEPT ![t] = Idle]
             /\ UNCHANGED <<store, running>>
          \/ /\ r # Null
             /\ store' = [store EXCEPT ![s] =
                   IF r.status = "active" /\ r.next # Null /\ ShouldComplete(r, now)
                   THEN CompletedRow(r) ELSE r]
             /\ Proceed(t, acts[t].seen, now, s + 1, running)
       /\ UNCHANGED <<clock, born, recovering, commands, crashes>>

-----------------------------------------------------------------------------
(* runOnce. *)

RequestReads(q, s) ==
    /\ Commanded
    /\ acts[q].phase = "idle"
    /\ store[s] # Null
    /\ acts' = [acts EXCEPT ![q] = [phase |-> "read", at |-> s, run |-> 0, now |-> 0,
                                    seen |-> [Idle.seen EXCEPT ![s] = store[s]]]]
    /\ UNCHANGED <<clock, store, born, running, recovering, crashes>>

\* Mutant of RequestRuns: the schedule is not marked as running.
RequestRuns_Unmarked(q) ==
    LET s == acts[q].at
    IN /\ acts[q].phase = "read"
       /\ acts[q].seen[s].status # "completed"
       /\ s \notin running
       /\ acts' = [acts EXCEPT ![q] = [@ EXCEPT !.phase = "append", !.now = clock]]
       /\ UNCHANGED <<clock, store, born, running, recovering, commands, crashes>>

RequestRuns(q) ==
    LET s == acts[q].at
    IN /\ acts[q].phase = "read"
       /\ acts[q].seen[s].status # "completed"
       /\ s \notin running
       /\ acts' = [acts EXCEPT ![q] = [@ EXCEPT !.phase = "append", !.now = clock]]
       /\ running' = running \cup {s}
       /\ UNCHANGED <<clock, store, born, recovering, commands, crashes>>

RequestRejected(q) ==
    LET s == acts[q].at
    IN /\ acts[q].phase = "read"
       /\ acts[q].seen[s].status = "completed" \/ s \in running
       /\ acts' = [acts EXCEPT ![q] = Idle]
       /\ UNCHANGED <<clock, store, born, running, recovering, commands, crashes>>

-----------------------------------------------------------------------------
(* runSchedule. *)

\* The run is added to the row as it is now.  If the row has been deleted this throws
\* outside the try: the id stays in runningScheduleIds.
AppendRun(a) ==
    LET s == acts[a].at
        r == store[s]
        run == [status |-> "running",
                slot |-> IF a \in Requests THEN acts[a].now ELSE acts[a].seen[s].next]
    IN /\ acts[a].phase = "append"
       /\ \/ /\ r = Null
             /\ acts' = [acts EXCEPT ![a] = Idle]
             /\ UNCHANGED store
          \/ /\ r # Null
             /\ store' = [store EXCEPT ![s].runs = Append(@, run)]
             /\ acts' = [acts EXCEPT ![a] = [@ EXCEPT !.phase = "execute",
                                                      !.run = Len(r.runs) + 1]]
       /\ UNCHANGED <<clock, born, running, recovering, commands, crashes>>

\* Mutant of Finished: a schedule that was completed meanwhile is advanced.
Finished_Resurrects(r, k, gone, manual) ==
    LET ended == [r EXCEPT !.runs[k].status = "ended"]
    IN CASE gone -> CompletedRow(ended)
         [] ~gone /\ manual -> ended
         [] ~gone /\ ~manual /\ ShouldComplete(ended, clock) -> CompletedRow(ended)
         [] OTHER -> [ended EXCEPT
               !.next = NextSlot(IF r.next = Null THEN clock ELSE r.next, clock)]

\* The row after its run has ended.
Finished(r, k, gone, manual) ==
    LET ended == [r EXCEPT !.runs[k].status = "ended"]
        going == ~gone /\ r.status # "completed" /\ ~manual
    IN CASE gone -> CompletedRow(ended)
         [] ~gone /\ (r.status = "completed" \/ manual) -> ended
         [] going /\ ShouldComplete(ended, clock) -> CompletedRow(ended)
         [] going /\ ~ShouldComplete(ended, clock) /\ r.status = "paused" ->
               [ended EXCEPT !.next = Null]
         [] OTHER -> [ended EXCEPT
               !.next = NextSlot(IF r.next = Null THEN clock ELSE r.next, clock)]

\* Mutant of FinishRun: the id stays in runningScheduleIds.
FinishRun_StaysRunning(a) ==
    LET s == acts[a].at
        r == store[s]
    IN /\ acts[a].phase = "execute"
       /\ r # Null
       /\ store' = [store EXCEPT ![s] = Finished(r, acts[a].run, FALSE, a \in Requests)]
       /\ \/ a \in Requests /\ acts' = [acts EXCEPT ![a] = Idle] /\ UNCHANGED running
          \/ a \in Ticks /\ Proceed(a, acts[a].seen, acts[a].now, s + 1, running)
       /\ UNCHANGED <<clock, born, recovering, commands, crashes>>

\* The run succeeds, fails, or finds its target gone, and is recorded.  If the row has
\* been deleted this throws, which ends the tick or the request.
FinishRun(a) ==
    LET s == acts[a].at
        r == store[s]
        busy == running \ {s}
        Leave == acts' = [acts EXCEPT ![a] = Idle] /\ running' = busy
    IN /\ acts[a].phase = "execute"
       /\ \/ /\ r = Null
             /\ Leave
             /\ UNCHANGED store
          \/ /\ r # Null
             /\ \E gone \in BOOLEAN :
                   store' = [store EXCEPT ![s] = Finished(r, acts[a].run, gone, a \in Requests)]
             /\ \/ a \in Requests /\ Leave
                \/ a \in Ticks /\ Proceed(a, acts[a].seen, acts[a].now, s + 1, busy)
       /\ UNCHANGED <<clock, born, recovering, commands, crashes>>

-----------------------------------------------------------------------------
(* Crashes, recovery and time. *)

Crash == /\ crashes < MaxCrashes
         /\ crashes' = crashes + 1
         /\ acts' = [a \in Actors |-> Idle]
         /\ running' = {}
         /\ recovering' = {s \in Schedules : store[s] # Null}
         /\ UNCHANGED <<clock, store, born, commands>>

\* Mutant of Recovered: the run that was interrupted is left as it is.
Recovered_NextOnly(r) ==
    [r EXCEPT !.next = IF r.status = "active" /\ r.next # Null /\ r.next <= clock
                       THEN NextSlot(r.next, clock) ELSE @]

\* The first run that was interrupted has failed, and slots that were missed are given up.
Recovered(r) ==
    [r EXCEPT !.runs = [k \in DOMAIN @ |->
                  IF k \in RunningRuns(r) /\ \A j \in RunningRuns(r) : k <= j
                  THEN [@[k] EXCEPT !.status = "ended"] ELSE @[k]],
              !.next = IF r.status = "active" /\ r.next # Null /\ r.next <= clock
                       THEN NextSlot(r.next, clock) ELSE @]

\* start(): the schedules are recovered in any order before the timer is set.
RecoverSchedule(s) ==
    /\ s \in recovering
    /\ store' = [store EXCEPT ![s] = Recovered(@)]
    /\ recovering' = recovering \ {s}
    /\ UNCHANGED <<clock, born, running, acts, commands, crashes>>

Advance == /\ clock < MaxTime
           /\ clock' = clock + 1
           /\ UNCHANGED <<store, born, running, acts, recovering, commands, crashes>>

-----------------------------------------------------------------------------

TickStep(t) == TickStarts(t) \/ TickLists(t) \/ TickCompletes(t) \/ AppendRun(t)
RequestStep(q) == RequestRuns(q) \/ RequestRejected(q) \/ AppendRun(q)

Next == \/ Create
        \/ \E s \in Schedules : \/ Replace(s) \/ Pause(s) \/ Resume(s) \/ Update(s)
                                \/ Delete(s) \/ CompleteForAgent(s) \/ RecoverSchedule(s)
        \/ \E t \in Ticks : TickStep(t)
        \/ \E q \in Requests : RequestStep(q) \/ \E s \in Schedules : RequestReads(q, s)
        \/ \E a \in Actors : FinishRun(a)
        \/ Crash
        \/ Advance

Spec == Init /\ [][Next]_vars

\* The timer fires and the store answers; a run need not end, nor clients do anything.
FairSpec == /\ Spec
            /\ \A t \in Ticks : WF_vars(TickStep(t))
            /\ \A q \in Requests : WF_vars(RequestStep(q))
            /\ \A s \in Schedules : WF_vars(RecoverSchedule(s))

-----------------------------------------------------------------------------
(* Properties. *)

\* The types; and a schedule that somebody is about to run, or runs, is marked.
TypeOK == /\ clock \in 0 .. MaxTime
          /\ store \in [Schedules -> Rows \cup {Null}]
          /\ born \in 0 .. NumSchedules
          /\ running \subseteq Schedules
          /\ acts \in [Actors -> Acts]
          /\ \A a \in Actors : acts[a].phase \in {"append", "execute"} => acts[a].at \in running
          /\ recovering \subseteq Schedules
          /\ commands \in 0 .. MaxCommands
          /\ crashes \in 0 .. MaxCrashes

\* Actor a runs schedule s, or is about to.
RunsSchedule(a, s) == acts[a].phase \in {"append", "execute"} /\ acts[a].at = s

\* A schedule has at most one run at a time, whatever ticks, requests and crashes come
\* together, and no run is left running for ever: a tick or request of this daemon
\* waits for it, or its schedule has yet to be recovered.
OneRunAtATime ==
    /\ \A a, b \in Actors, s \in Schedules : RunsSchedule(a, s) /\ RunsSchedule(b, s) => a = b
    /\ \A s \in Schedules : store[s] # Null =>
          /\ \A j, k \in RunningRuns(store[s]) : j = k
          /\ \A k \in RunningRuns(store[s]) :
                \/ s \in recovering
                \/ \E a \in Actors : acts[a].phase = "execute" /\ acts[a].at = s /\ acts[a].run = k

\* A schedule that is paused or completed has no next time, also when a run ends after
\* the pause or the completion; and an active one has, so that it does not fall silent.
NextIffActive == \A s \in Schedules : store[s] # Null =>
                    (store[s].next # Null <=> store[s].status = "active")

\* A completed schedule stays completed, and none forgets a run that has ended.
HistoryStays ==
    [][\A s \in Schedules : store[s] # Null /\ store'[s] # Null =>
          /\ store[s].status = "completed" => store'[s].status = "completed"
          /\ Ended(store[s]) \subseteq Ended(store'[s])]_vars

Due(s) == store[s] # Null /\ store[s].next # Null /\ store[s].next <= clock

\* A schedule that is due is attended to, even while runs of other schedules never end,
\* unless it is running already.
DueIsServed == \A s \in Schedules :
    Due(s) /\ Serving ~> ~Due(s) \/ RunningRuns(store[s]) # {}
=============================================================================
