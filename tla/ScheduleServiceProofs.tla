------------------------ MODULE ScheduleServiceProofs ------------------------
(***************************************************************************)
(* A schedule has at most one run at a time and none is left running, and  *)
(* a schedule has a next time exactly while it is active: for any number   *)
(* of schedules, ticks, requests and crashes.  The invariant adds what an  *)
(* actor between two awaits relies on.  From it follows that a schedule    *)
(* that is completed stays completed, and the runs it has ended stay       *)
(* ended: every write makes a row where none was, removes one, or replaces *)
(* one by a later one.                                                     *)
(***************************************************************************)
EXTENDS ScheduleService, SequenceTheorems, TLAPS

\* What an actor has in hand at its await, and when anybody is under way at all.
Placed ==
    /\ \A a \in Actors :
          /\ acts[a].phase \in {"complete", "read", "append", "execute"} => acts[a].at \in Schedules
          /\ acts[a].phase = "read" => acts[a].seen[acts[a].at] # Null
          /\ acts[a].phase = "append" /\ a \notin Requests =>
                /\ acts[a].seen[acts[a].at] # Null
                /\ acts[a].seen[acts[a].at].next # Null
          /\ acts[a].phase # "idle" => recovering = {}
    /\ \A s \in recovering : store[s] # Null

Inv == TypeOK /\ Placed /\ OneRunAtATime /\ NextIffActive

GoodRow(r) == r \in Rows /\ (r.next # Null <=> r.status = "active")

-----------------------------------------------------------------------------
(* Rows. *)

\* The next slot is a time.
LEMMA NextSlotTime ==
    ASSUME NEW slot \in Nat, NEW now \in Nat
    PROVE  NextSlot(slot, now) \in Nat
  <1> USE PeriodPositive
  <1>1. CASE slot + Period > now
    BY <1>1 DEF NextSlot
  <1>2. CASE ~(slot + Period > now)
    <2>1. (now - slot) \div Period + 1 \in Nat
      BY <1>2
    <2>2. \A x, y \in Nat : x * y \in Nat
      OBVIOUS
    <2>3. Period * ((now - slot) \div Period + 1) \in Nat
      BY <2>1, <2>2
    <2> QED
      BY <1>2, <2>3 DEF NextSlot
  <1> QED
    BY <1>1, <1>2

\* To end run k keeps the list and leaves the other runs as they are.
LEMMA EndRun ==
    ASSUME NEW r \in Rows, NEW k
    PROVE  LET e == [r EXCEPT !.runs[k].status = "ended"]
           IN /\ e \in Rows
              /\ e = [r EXCEPT !.runs = e.runs]
              /\ RunningRuns(e) = RunningRuns(r) \ {k}
  <1> DEFINE runs == [r.runs EXCEPT ![k].status = "ended"]
             e == [r EXCEPT !.runs[k].status = "ended"]
  <1>1. r.runs \in Seq(Runs)
    BY DEF Rows
  <1>2. runs \in Seq(Runs) /\ DOMAIN runs = DOMAIN r.runs
    <2>1. CASE k \in DOMAIN r.runs
      <3>1. k \in 1 .. Len(r.runs)
        BY <1>1, <2>1, LenProperties
      <3>2. r.runs[k] \in Runs
        BY <1>1, <3>1, ElementOfSeq
      <3>3. [r.runs[k] EXCEPT !.status = "ended"] \in Runs
        BY <3>2 DEF Runs
      <3> HIDE DEF runs
      <3>4. runs = [r.runs EXCEPT ![k] = [r.runs[k] EXCEPT !.status = "ended"]]
        BY DEF runs
      <3>5. runs \in Seq(Runs)
        BY <1>1, <3>1, <3>3, <3>4, ExceptSeq
      <3> QED
        BY <3>4, <3>5
    <2>2. CASE k \notin DOMAIN r.runs
      <3>1. r.runs \in [DOMAIN r.runs -> Runs]
        BY <1>1, LenProperties
      <3>2. runs = r.runs
        BY <2>2, <3>1
      <3> QED
        BY <1>1, <3>2
    <2> QED
      BY <2>1, <2>2
  <1>3. e = [r EXCEPT !.runs = runs] /\ e.runs = runs
    BY DEF Rows
  <1>4. e \in Rows
    BY <1>2, <1>3 DEF Rows
  <1>5. \A j \in DOMAIN r.runs : runs[j].status = "running" <=> r.runs[j].status = "running" /\ j # k
    BY <1>1 DEF Runs
  <1>6. RunningRuns(e) = RunningRuns(r) \ {k}
    BY <1>2, <1>3, <1>5 DEF RunningRuns
  <1> QED
    BY <1>3, <1>4, <1>6

\* The row after a run has ended is a good one, in which the run is not running.
LEMMA FinishedRow ==
    ASSUME NEW r \in Rows, GoodRow(r), NEW k, NEW gone \in BOOLEAN, NEW manual \in BOOLEAN,
           clock \in Nat
    PROVE  /\ GoodRow(Finished(r, k, gone, manual))
           /\ RunningRuns(Finished(r, k, gone, manual)) = RunningRuns(r) \ {k}
  <1> DEFINE e == [r EXCEPT !.runs[k].status = "ended"]
             f == Finished(r, k, gone, manual)
             slot == IF r.next = Null THEN clock ELSE r.next
  <1>1. /\ e \in Rows
        /\ e = [r EXCEPT !.runs = e.runs]
        /\ RunningRuns(e) = RunningRuns(r) \ {k}
    BY EndRun
  <1>2. e.next = r.next /\ e.status = r.status
    BY <1>1 DEF Rows
  <1>3. NextSlot(slot, clock) \in Nat
    BY NextSlotTime DEF Rows
  <1>4. \/ f = CompletedRow(e)
        \/ f = e
        \/ r.status = "paused" /\ f = [e EXCEPT !.next = Null]
        \/ r.status = "active" /\ f = [e EXCEPT !.next = NextSlot(slot, clock)]
    BY DEF Finished, Rows
  <1> HIDE DEF e, f, slot
  <1>5. f \in Rows /\ f.runs = e.runs /\ (f.next # Null <=> f.status = "active")
    BY <1>1, <1>2, <1>3, <1>4, NullIsNothing DEF CompletedRow, Rows, GoodRow
  <1>6. RunningRuns(f) = RunningRuns(e)
    BY <1>5 DEF RunningRuns
  <1> QED
    BY <1>1, <1>5, <1>6 DEF f, GoodRow

\* The row after recovery is a good one; its only running run is running no more.
LEMMA RecoveredRow ==
    ASSUME NEW r \in Rows, GoodRow(r), clock \in Nat, \A j, k \in RunningRuns(r) : j = k
    PROVE  GoodRow(Recovered(r)) /\ RunningRuns(Recovered(r)) = {}
  <1> DEFINE First(k) == k \in RunningRuns(r) /\ \A j \in RunningRuns(r) : k <= j
             runs == [k \in DOMAIN r.runs |->
                        IF First(k) THEN [r.runs[k] EXCEPT !.status = "ended"] ELSE r.runs[k]]
             next == IF r.status = "active" /\ r.next # Null /\ r.next <= clock
                     THEN NextSlot(r.next, clock) ELSE r.next
  <1>1. r.runs \in Seq(Runs) /\ Len(r.runs) \in Nat /\ DOMAIN r.runs = 1 .. Len(r.runs)
    BY LenProperties DEF Rows
  <1>2. \A k \in DOMAIN r.runs : r.runs[k] \in Runs
    BY <1>1, ElementOfSeq
  <1>3. runs \in Seq(Runs) /\ DOMAIN runs = DOMAIN r.runs
    <2>1. runs \in [1 .. Len(r.runs) -> Runs]
      BY <1>1, <1>2 DEF Runs
    <2> QED
      BY <1>1, <2>1, SeqDef
  <1>4. next \in Nat \cup {Null} /\ (next # Null <=> r.status = "active")
    <2>1. r.next \in Nat \cup {Null} /\ (r.next # Null <=> r.status = "active")
      BY DEF Rows, GoodRow
    <2>2. CASE r.status = "active" /\ r.next # Null /\ r.next <= clock
      <3>1. NextSlot(r.next, clock) \in Nat
        BY <2>1, <2>2, NextSlotTime
      <3> QED
        BY <2>2, <3>1, NullIsNothing
    <2>3. CASE ~(r.status = "active" /\ r.next # Null /\ r.next <= clock)
      BY <2>1, <2>3
    <2> QED
      BY <2>2, <2>3
  <1>5. Recovered(r) = [r EXCEPT !.runs = runs, !.next = next]
    BY DEF Recovered, Rows
  <1>6. \A k \in DOMAIN runs : runs[k].status # "running"
    <2> SUFFICES ASSUME NEW k \in DOMAIN r.runs, r.runs[k].status = "running"
                 PROVE  runs[k].status = "ended"
      BY <1>2, <1>3 DEF Runs
    <2>1. First(k)
      BY <1>1 DEF RunningRuns
    <2> QED
      BY <1>2, <2>1 DEF Runs
  <1> HIDE DEF runs, next
  <1>7. /\ Recovered(r) \in Rows
        /\ Recovered(r).runs = runs
        /\ Recovered(r).next = next
        /\ Recovered(r).status = r.status
    BY <1>3, <1>4, <1>5 DEF Rows
  <1> QED
    BY <1>4, <1>6, <1>7 DEF GoodRow, RunningRuns

-----------------------------------------------------------------------------
(* A tick going on to its next schedule. *)

\* It becomes idle, waits to complete a schedule, or marks one that was not running.
LEMMA ProceedStep ==
    ASSUME NEW t \in Ticks, NEW seen \in [Schedules -> Rows \cup {Null}], NEW now \in Nat,
           NEW from \in Nat, NEW busy \in SUBSET Schedules,
           Proceed(t, seen, now, from, busy)
    PROVE  \E w \in Acts :
              /\ acts' = [acts EXCEPT ![t] = w]
              /\ \/ /\ w.phase \in {"idle", "complete"}
                    /\ running' = busy
                 \/ /\ w.phase = "append"
                    /\ w.at \in Schedules \ busy
                    /\ w.at >= from
                    /\ running' = busy \cup {w.at}
              /\ w.phase # "idle" => /\ w.at \in Schedules
                                     /\ w.seen[w.at] # Null
                                     /\ w.seen[w.at].next # Null
  <1> USE SchedulesBound
  <1> DEFINE Waiting(phase, s) == [phase |-> phase, at |-> s, run |-> 0, now |-> now,
                                   seen |-> seen]
  <1>1. Idle \in Acts
    BY DEF Idle, Acts
  <1>2. \A s \in Schedules : Waiting("complete", s) \in Acts /\ Waiting("append", s) \in Acts
    BY DEF Acts, Schedules
  <1>3. \A s \in Pending(seen, now, from, busy) :
            /\ s \in Schedules \ busy /\ s >= from
            /\ seen[s] # Null /\ seen[s].next # Null
    BY DEF Pending, Attends
  <1>4. CASE Pending(seen, now, from, busy) = {} /\ acts' = [acts EXCEPT ![t] = Idle]
             /\ running' = busy
    BY <1>1, <1>4 DEF Idle
  <1>5. ASSUME NEW s \in Pending(seen, now, from, busy), NEW phase \in {"complete", "append"},
               acts' = [acts EXCEPT ![t] = Waiting(phase, s)],
               phase = "complete" => running' = busy,
               phase = "append" => running' = busy \cup {s}
        PROVE  \E w \in Acts :
                  /\ acts' = [acts EXCEPT ![t] = w]
                  /\ \/ w.phase = "complete" /\ running' = busy
                     \/ /\ w.phase = "append"
                        /\ w.at \in Schedules \ busy
                        /\ w.at >= from
                        /\ running' = busy \cup {w.at}
                  /\ w.at \in Schedules
                  /\ w.seen[w.at] # Null
                  /\ w.seen[w.at].next # Null
    <2>1. Waiting(phase, s) \in Acts
      BY <1>2, <1>3, <1>5
    <2> WITNESS Waiting(phase, s) \in Acts
    <2> QED
      BY <1>3, <1>5
  <1> QED
    BY <1>4, <1>5 DEF Proceed

-----------------------------------------------------------------------------
(* What the steps of a component do to the invariant. *)

\* Every running run of the store is alone and waited for.
RunsHeld == \A s \in Schedules : store[s] # Null =>
    /\ \A j, k \in RunningRuns(store[s]) : j = k
    /\ \A k \in RunningRuns(store[s]) :
          \/ s \in recovering
          \/ \E a \in Actors : acts[a].phase = "execute" /\ acts[a].at = s /\ acts[a].run = k

\* A step of the store only: a row is removed, or rewritten to a good one that has the
\* same running runs or none.
LEMMA StoreStep ==
    ASSUME Inv, NEW s \in Schedules, NEW r,
           store' = [store EXCEPT ![s] = r],
           r # Null => /\ GoodRow(r)
                       /\ \/ RunningRuns(r) = {}
                          \/ /\ store[s] # Null /\ recovering' = recovering
                             /\ RunningRuns(r) = RunningRuns(store[s]),
           recovering \ {s} \subseteq recovering', recovering' \subseteq recovering,
           s \in recovering' => r # Null,
           UNCHANGED <<clock, running, acts, crashes>>,
           born' \in 0 .. NumSchedules, commands' \in 0 .. MaxCommands
    PROVE  Inv'
  <1> USE DEF Inv
  <1>1. TypeOK'
    BY DEF TypeOK, GoodRow
  <1>2. Placed'
    BY DEF Placed, TypeOK
  <1>3. \A u \in Schedules : u # s => store'[u] = store[u]
    BY DEF TypeOK
  <1>4. store'[s] = r
    BY DEF TypeOK
  <1>5. OneRunAtATime'
    BY <1>3, <1>4 DEF OneRunAtATime, RunsSchedule
  <1>6. NextIffActive'
    BY <1>3, <1>4 DEF NextIffActive, GoodRow
  <1> QED
    BY <1>1, <1>2, <1>5, <1>6

\* A step of an actor, which enters its next await with w in hand.  Of the marks it
\* keeps those of the others, and its own while it runs a schedule.
LEMMA ActStep ==
    ASSUME Inv, NEW a \in Actors, NEW w \in Acts, NEW busy \in SUBSET running,
           acts' = [acts EXCEPT ![a] = w],
           recovering = {}, recovering' = {},
           \A b \in Actors \ {a} :
               acts[b].phase \in {"append", "execute"} => acts[b].at \in busy,
           \/ w.phase \notin {"append", "execute"} /\ running' = busy
           \/ /\ w.phase = "append" /\ w.at \in Schedules \ busy
              /\ running' = busy \cup {w.at}
           \/ /\ w.phase = "execute" /\ acts[a].phase = "append"
              /\ w.at = acts[a].at /\ running' = running,
           w.phase \in {"complete", "read", "append"} => w.at \in Schedules,
           w.phase \in {"read", "append"} => w.seen[w.at] # Null,
           w.phase = "append" /\ a \notin Requests => w.seen[w.at].next # Null,
           store' \in [Schedules -> Rows \cup {Null}], NextIffActive', RunsHeld',
           UNCHANGED <<clock, born, crashes>>, commands' \in 0 .. MaxCommands
    PROVE  Inv'
  <1> USE DEF Inv
  <1>1. \A b \in Actors : acts'[b] = IF b = a THEN w ELSE acts[b]
    BY DEF TypeOK
  <1>2. acts[a].phase = "append" => acts[a].at \in Schedules /\ acts[a].at \in running
    BY DEF Placed, TypeOK
  <1>3. TypeOK'
    <2>1. acts' \in [Actors -> Acts] /\ running' \subseteq Schedules
      BY DEF TypeOK
    <2>2. \A b \in Actors : acts'[b].phase \in {"append", "execute"} => acts'[b].at \in running'
      BY <1>1, <1>2 DEF TypeOK
    <2> QED
      BY <2>1, <2>2 DEF TypeOK
  <1>4. Placed'
    BY <1>1, <1>2 DEF Placed
  <1>5. ASSUME NEW b \in Actors, NEW c \in Actors, NEW s \in Schedules,
               RunsSchedule(b, s)', RunsSchedule(c, s)'
        PROVE  b = c
    <2>1. CASE b # a /\ c # a
      BY <1>1, <1>5, <2>1 DEF OneRunAtATime, RunsSchedule
    <2>2. ASSUME NEW d \in Actors \ {a}, RunsSchedule(a, s)', RunsSchedule(d, s)'
          PROVE  FALSE
      <3>1. RunsSchedule(d, s) /\ s \in busy
        BY <1>1, <2>2 DEF RunsSchedule
      <3>2. w.phase \in {"append", "execute"} /\ w.at = s
        BY <1>1, <2>2 DEF RunsSchedule
      <3>3. RunsSchedule(a, s)
        BY <3>1, <3>2 DEF RunsSchedule
      <3> QED
        BY <3>1, <3>3 DEF OneRunAtATime
    <2> QED
      BY <1>5, <2>1, <2>2
  <1>6. OneRunAtATime'
    BY <1>5 DEF OneRunAtATime, RunsHeld
  <1> QED
    BY <1>3, <1>4, <1>6

-----------------------------------------------------------------------------
(* The actions. *)

\* The rows clients make of a good one are good and have the same runs.
Keeps(q, r) == GoodRow(q) /\ q.runs = r.runs

\* A command that pauses, resumes or updates a row keeps it.
LEMMA ChangedRow ==
    ASSUME NEW r, GoodRow(r), NEW time \in Nat,
           NEW limit \in Nat \cup {Null}, NEW expires \in Nat \cup {Null}
    PROVE  /\ Keeps([r EXCEPT !.status = "active", !.next = time,
                              !.limit = limit, !.expires = expires], r)
           /\ Keeps([r EXCEPT !.status = "active", !.next = time], r)
           /\ Keeps([r EXCEPT !.status = "paused", !.next = Null], r)
           /\ Keeps([r EXCEPT !.next = IF r.status = "active" THEN time ELSE Null], r)
           /\ Keeps([r EXCEPT !.limit = limit], r)
           /\ Keeps([r EXCEPT !.expires = expires], r)
           /\ Keeps(CompletedRow(r), r)
  <1>1. Keeps([r EXCEPT !.status = "active", !.next = time,
                        !.limit = limit, !.expires = expires], r)
    BY NullIsNothing DEF Keeps, GoodRow, Rows
  <1>2. Keeps([r EXCEPT !.status = "active", !.next = time], r)
    BY NullIsNothing DEF Keeps, GoodRow, Rows
  <1>3. /\ Keeps([r EXCEPT !.status = "paused", !.next = Null], r)
        /\ Keeps(CompletedRow(r), r)
    BY NullIsNothing DEF Keeps, GoodRow, Rows, CompletedRow
  <1>4. Keeps([r EXCEPT !.next = IF r.status = "active" THEN time ELSE Null], r)
    BY NullIsNothing DEF Keeps, GoodRow, Rows
  <1>5. Keeps([r EXCEPT !.limit = limit], r) /\ Keeps([r EXCEPT !.expires = expires], r)
    BY DEF Keeps, GoodRow, Rows
  <1> QED
    BY <1>1, <1>2, <1>3, <1>4, <1>5

\* What clients do to a schedule keeps its runs.
LEMMA CommandStep ==
    ASSUME Inv,
           \/ Create
           \/ \E s \in Schedules : \/ Replace(s) \/ Pause(s) \/ Resume(s) \/ Update(s)
                                   \/ Delete(s) \/ CompleteForAgent(s)
    PROVE  Inv'
  <1> USE SchedulesBound, LimitsAreCounts, ExpiriesAreTimes, PeriodPositive, BoundsAreCounts,
          NullIsNothing
  <1>1. clock \in Nat /\ commands \in 0 .. MaxCommands /\ born \in 0 .. NumSchedules
    BY DEF Inv, TypeOK
  <1>9. clock + Period \in Nat /\ Limits \subseteq Nat \cup {Null} /\ Expiries \subseteq Nat \cup {Null}
    BY <1>1
  <1>2. Commanded => recovering = {} /\ commands' \in 0 .. MaxCommands
    BY <1>1 DEF Commanded, Serving
  <1>3. \A s \in Schedules : store[s] # Null => GoodRow(store[s])
    BY DEF Inv, TypeOK, NextIffActive, GoodRow
  <1>4. ASSUME NEW s \in Schedules, NEW r, Rewrite(s, r),
               r # Null => Keeps(r, store[s])
        PROVE  Inv'
    <2>1. r # Null => RunningRuns(r) = RunningRuns(store[s])
      BY <1>4 DEF RunningRuns, Keeps
    <2> QED
      BY <1>1, <1>2, <1>4, <2>1, StoreStep DEF Rewrite, Keeps
  <1>5. CASE Create
    <2>1. PICK next \in {clock, clock + Period}, limit \in Limits, expires \in Expiries :
             store' = [store EXCEPT ![born + 1] =
                 [status |-> "active", next |-> next, limit |-> limit,
                  expires |-> expires, runs |-> <<>>]]
      BY <1>5 DEF Create
    <2> DEFINE r == [status |-> "active", next |-> next, limit |-> limit,
                     expires |-> expires, runs |-> <<>>]
    <2>2. GoodRow(r) /\ RunningRuns(r) = {}
      BY <1>1, EmptySeq DEF GoodRow, Rows, RunningRuns
    <2>3. born + 1 \in Schedules /\ born' = born + 1
      BY <1>1, <1>5 DEF Create, Schedules
    <2>4. store' = [store EXCEPT ![born + 1] = r]
      BY <2>1
    <2>5. /\ recovering = {} /\ commands' \in 0 .. MaxCommands
          /\ UNCHANGED <<clock, running, acts, recovering, crashes>>
          /\ born' \in 0 .. NumSchedules
      BY <1>1, <1>2, <1>5, <2>3 DEF Create, Schedules
    <2> HIDE DEF r
    <2> QED
      BY <2>2, <2>3, <2>4, <2>5, StoreStep
  <1>6. ASSUME NEW s \in Schedules, Replace(s)
        PROVE  Inv'
    <2>1. PICK next \in {clock, clock + Period}, limit \in Limits, expires \in Expiries :
             Rewrite(s, [store[s] EXCEPT !.status = "active", !.next = next,
                                         !.limit = limit, !.expires = expires])
      BY <1>6 DEF Replace
    <2> DEFINE r == [store[s] EXCEPT !.status = "active", !.next = next,
                                     !.limit = limit, !.expires = expires]
    <2>2. Keeps(r, store[s])
      BY <1>1, <1>3, <1>6, <1>9, ChangedRow DEF Replace
    <2> QED
      BY <1>4, <2>1, <2>2
  <1>7. ASSUME NEW s \in Schedules, Pause(s) \/ Resume(s) \/ CompleteForAgent(s) \/ Delete(s)
        PROVE  Inv'
    <2> DEFINE paused == [store[s] EXCEPT !.status = "paused", !.next = Null]
               resumed == [store[s] EXCEPT !.status = "active", !.next = clock + Period]
               completed == CompletedRow(store[s])
    <2>1. store[s] # Null
      BY <1>7 DEF Pause, Resume, CompleteForAgent, Delete
    <2>2. Keeps(paused, store[s]) /\ Keeps(resumed, store[s]) /\ Keeps(completed, store[s])
      <3>1. GoodRow(store[s]) /\ Null \in Nat \cup {Null}
        BY <1>3, <2>1
      <3> QED
        BY <1>9, <3>1, ChangedRow
    <2>3. Rewrite(s, paused) \/ Rewrite(s, resumed) \/ Rewrite(s, completed) \/ Rewrite(s, Null)
      BY <1>7 DEF Pause, Resume, CompleteForAgent, Delete
    <2> HIDE DEF paused, resumed, completed
    <2> QED
      BY <1>4, <2>2, <2>3
  <1>8. ASSUME NEW s \in Schedules, Update(s)
        PROVE  Inv'
    <2>1. PICK r : /\ Rewrite(s, r)
                   /\ \/ r = [store[s] EXCEPT !.next =
                                IF store[s].status = "active" THEN clock + Period ELSE Null]
                      \/ \E limit \in Limits : r = [store[s] EXCEPT !.limit = limit]
                      \/ \E expires \in Expiries : r = [store[s] EXCEPT !.expires = expires]
      BY <1>8 DEF Update
    <2>2. store[s] # Null
      BY <1>8 DEF Update
    <2>3. Keeps(r, store[s])
      <3>1. GoodRow(store[s]) /\ Null \in Nat \cup {Null}
        BY <1>3, <2>2
      <3>2. CASE r = [store[s] EXCEPT !.next =
                        IF store[s].status = "active" THEN clock + Period ELSE Null]
        BY <1>9, <3>1, <3>2, ChangedRow
      <3>3. ASSUME NEW limit \in Limits, r = [store[s] EXCEPT !.limit = limit]
            PROVE  Keeps(r, store[s])
        <4>1. limit \in Nat \cup {Null}
          BY <1>9
        <4> QED
          BY <1>9, <3>1, <3>3, <4>1, ChangedRow
      <3>4. ASSUME NEW expires \in Expiries, r = [store[s] EXCEPT !.expires = expires]
            PROVE  Keeps(r, store[s])
        <4>1. expires \in Nat \cup {Null}
          BY <1>9
        <4> QED
          BY <1>9, <3>1, <3>4, <4>1, ChangedRow
      <3> QED
        BY <2>1, <3>2, <3>3, <3>4
    <2> QED
      BY <1>4, <2>1, <2>3
  <1> QED
    BY <1>5, <1>6, <1>7, <1>8

\* Recovery ends the run the crash has interrupted.
LEMMA RecoveryStep ==
    ASSUME Inv, NEW s \in Schedules, RecoverSchedule(s)
    PROVE  Inv'
  <1>1. store[s] # Null /\ store[s] \in Rows /\ GoodRow(store[s])
    BY DEF Inv, Placed, RecoverSchedule, TypeOK, NextIffActive, GoodRow
  <1>2. clock \in Nat /\ \A j, k \in RunningRuns(store[s]) : j = k
    BY <1>1, BoundsAreCounts DEF Inv, TypeOK, OneRunAtATime
  <1>3. GoodRow(Recovered(store[s])) /\ RunningRuns(Recovered(store[s])) = {}
    BY <1>1, <1>2, RecoveredRow
  <1>4. store' = [store EXCEPT ![s] = Recovered(store[s])]
    BY DEF RecoverSchedule
  <1>5. /\ recovering' = recovering \ {s}
        /\ UNCHANGED <<clock, born, running, acts, commands, crashes>>
    BY DEF RecoverSchedule
  <1>6. born \in 0 .. NumSchedules /\ commands \in 0 .. MaxCommands
    BY DEF Inv, TypeOK
  <1> HIDE DEF Inv
  <1> QED
    BY <1>3, <1>4, <1>5, <1>6, StoreStep

\* A crash leaves running runs to recovery.
LEMMA CrashStep ==
    ASSUME Inv, Crash
    PROVE  Inv'
  <1> USE SchedulesBound, BoundsAreCounts DEF Inv, Crash
  <1>1. Idle \in Acts /\ Idle.phase = "idle"
    BY DEF Idle, Acts
  <1>2. \A a \in Actors : acts'[a].phase = "idle"
    BY <1>1
  <1>3. TypeOK'
    BY <1>1, <1>2 DEF TypeOK
  <1>4. Placed'
    BY <1>2 DEF Placed
  <1>5. OneRunAtATime'
    BY <1>2 DEF OneRunAtATime, RunsSchedule
  <1>6. NextIffActive'
    BY DEF NextIffActive
  <1> QED
    BY <1>3, <1>4, <1>5, <1>6

\* An actor goes on: runs that are running stay so and stay waited for, but the one it
\* has waited for itself.
LEMMA HeldStays ==
    ASSUME Inv, NEW a \in Actors, NEW w,
           acts' = [acts EXCEPT ![a] = w], recovering' = recovering,
           \A s \in Schedules : store'[s] # Null =>
               /\ store[s] # Null
               /\ RunningRuns(store'[s]) \subseteq RunningRuns(store[s])
               /\ acts[a].phase = "execute" /\ acts[a].at = s =>
                     acts[a].run \notin RunningRuns(store'[s])
    PROVE  RunsHeld'
  <1>1. \A b \in Actors : b # a => acts'[b] = acts[b]
    BY DEF Inv, TypeOK
  <1>2. ASSUME NEW s \in Schedules, store'[s] # Null,
               NEW k \in RunningRuns(store'[s]), s \notin recovering
        PROVE  \E b \in Actors : acts'[b].phase = "execute" /\ acts'[b].at = s /\ acts'[b].run = k
    <2>1. k \in RunningRuns(store[s]) /\ store[s] # Null
      BY <1>2
    <2>2. PICK b \in Actors : acts[b].phase = "execute" /\ acts[b].at = s /\ acts[b].run = k
      BY <1>2, <2>1 DEF Inv, OneRunAtATime
    <2>3. b # a
      BY <1>2, <2>2
    <2> QED
      BY <1>1, <2>2, <2>3
  <1>3. \A s \in Schedules : store'[s] # Null =>
            \A j, k \in RunningRuns(store'[s]) : j = k
    BY DEF Inv, OneRunAtATime
  <1> QED
    BY <1>2, <1>3 DEF RunsHeld

\* A tick goes on to its next schedule.
LEMMA TickGoesOn ==
    ASSUME Inv, NEW t \in Ticks, NEW seen \in [Schedules -> Rows \cup {Null}], NEW now \in Nat,
           NEW from \in Nat, NEW busy \in SUBSET running,
           Proceed(t, seen, now, from, busy),
           recovering = {},
           \A b \in Actors \ {t} :
               acts[b].phase \in {"append", "execute"} => acts[b].at \in busy,
           \A s \in Schedules : store'[s] # Null =>
               /\ store[s] # Null
               /\ RunningRuns(store'[s]) \subseteq RunningRuns(store[s])
               /\ acts[t].phase = "execute" /\ acts[t].at = s =>
                     acts[t].run \notin RunningRuns(store'[s]),
           store' \in [Schedules -> Rows \cup {Null}], NextIffActive',
           UNCHANGED <<clock, born, recovering, commands, crashes>>
    PROVE  Inv'
  <1>1. busy \in SUBSET Schedules /\ t \in Actors /\ t \notin Requests
    BY ActorsDiffer DEF Inv, TypeOK, Actors
  <1>2. PICK w \in Acts :
              /\ acts' = [acts EXCEPT ![t] = w]
              /\ \/ /\ w.phase \in {"idle", "complete"}
                    /\ running' = busy
                 \/ /\ w.phase = "append"
                    /\ w.at \in Schedules \ busy
                    /\ w.at >= from
                    /\ running' = busy \cup {w.at}
              /\ w.phase # "idle" => /\ w.at \in Schedules
                                     /\ w.seen[w.at] # Null
                                     /\ w.seen[w.at].next # Null
    BY <1>1, ProceedStep
  <1>3. RunsHeld'
    BY <1>1, <1>2, HeldStays
  <1>4. commands' \in 0 .. MaxCommands /\ recovering' = {} /\ UNCHANGED <<clock, born, crashes>>
    BY DEF Inv, TypeOK
  <1>5. CASE w.phase \in {"idle", "complete"} /\ running' = busy
    <2>1. /\ w.phase \notin {"append", "execute"} /\ w.phase # "append"
          /\ w.phase \notin {"read", "append"}
          /\ w.phase \in {"complete", "read", "append"} => w.at \in Schedules
      BY <1>2, <1>5
    <2> HIDE DEF Inv
    <2> QED
      BY <1>1, <1>2, <1>3, <1>4, <1>5, <2>1, ActStep
  <1>6. CASE w.phase = "append" /\ w.at \in Schedules \ busy /\ running' = busy \cup {w.at}
    BY <1>1, <1>2, <1>3, <1>4, <1>6, ActStep
  <1> QED
    BY <1>2, <1>5, <1>6

\* A tick starts, reads the schedules, or has completed one.
LEMMA TickSteps ==
    ASSUME Inv, NEW t \in Ticks, TickStarts(t) \/ TickLists(t) \/ TickCompletes(t)
    PROVE  Inv'
  <1>1. /\ t \in Actors /\ t \notin Requests /\ acts[t] \in Acts
        /\ clock \in Nat /\ commands \in 0 .. MaxCommands
        /\ store \in [Schedules -> Rows \cup {Null}]
    BY ActorsDiffer, BoundsAreCounts DEF Inv, TypeOK, Actors
  <1>2. \A b \in Actors : acts[b].phase \in {"append", "execute"} => acts[b].at \in running
    BY DEF Inv, TypeOK
  <1>3. CASE TickStarts(t)
    <2> DEFINE w == [Idle EXCEPT !.phase = "list", !.now = clock]
    <2>1. w \in Acts /\ w.phase = "list"
      <3>1. Idle \in Acts
        BY SchedulesBound DEF Idle, Acts
      <3> QED
        BY <1>1, <3>1 DEF Acts
    <2>2. acts' = [acts EXCEPT ![t] = w] /\ acts[t].phase = "idle" /\ recovering = {}
      BY <1>3 DEF TickStarts, Serving
    <2>3. UNCHANGED <<clock, store, born, running, recovering, commands, crashes>>
      BY <1>3 DEF TickStarts
    <2> HIDE DEF w
    <2>4. RunsHeld'
      BY <1>1, <2>2, <2>3, HeldStays
    <2>5. NextIffActive'
      BY <2>3 DEF Inv, NextIffActive
    <2> QED
      BY <1>1, <1>2, <2>1, <2>2, <2>3, <2>4, <2>5, ActStep
  <1>4. CASE TickLists(t)
    <2>1. acts[t].phase = "list" /\ acts[t].now \in Nat /\ recovering = {}
      BY <1>1, <1>4 DEF TickLists, Inv, Placed, Acts
    <2>2. UNCHANGED <<clock, store, born, recovering, commands, crashes>>
      BY <1>4 DEF TickLists
    <2>3. NextIffActive'
      BY <2>2 DEF Inv, NextIffActive
    <2> QED
      BY <1>1, <1>2, <1>4, <2>1, <2>2, <2>3, TickGoesOn DEF TickLists
  <1>5. CASE TickCompletes(t)
    <2> DEFINE s == acts[t].at
               r == store[s]
    <2>1. /\ acts[t].phase = "complete" /\ acts[t].now \in Nat /\ recovering = {}
          /\ s \in Schedules /\ s + 1 \in Nat
          /\ acts[t].seen \in [Schedules -> Rows \cup {Null}]
      BY <1>1, <1>5 DEF TickCompletes, Inv, Placed, Acts, Schedules
    <2>2. UNCHANGED <<clock, born, recovering, commands, crashes>>
      BY <1>5 DEF TickCompletes
    <2>3. CASE r = Null
      <3>1. acts' = [acts EXCEPT ![t] = Idle] /\ UNCHANGED <<store, running>>
        BY <1>5, <2>3 DEF TickCompletes
      <3>2. Idle \in Acts /\ Idle.phase = "idle"
        BY SchedulesBound DEF Idle, Acts
      <3>3. RunsHeld'
        BY <1>1, <2>1, <2>2, <3>1, HeldStays
      <3>4. NextIffActive'
        BY <3>1 DEF Inv, NextIffActive
      <3> QED
        BY <1>1, <1>2, <2>1, <2>2, <3>1, <3>2, <3>3, <3>4, ActStep
    <2>4. CASE r # Null
      <3>1. PICK q \in {CompletedRow(r), r} :
               /\ store' = [store EXCEPT ![s] = q]
               /\ Proceed(t, acts[t].seen, acts[t].now, s + 1, running)
        BY <1>5, <2>4 DEF TickCompletes
      <3>2. GoodRow(r)
        BY <1>1, <2>1, <2>4 DEF Inv, NextIffActive, GoodRow
      <3>3. GoodRow(q) /\ q.runs = r.runs
        BY <3>1, <3>2 DEF GoodRow, CompletedRow, Rows
      <3>4. RunningRuns(q) = RunningRuns(r)
        BY <3>3 DEF RunningRuns
      <3>5. \A u \in Schedules : store'[u] = IF u = s THEN q ELSE store[u]
        BY <1>1, <3>1
      <3>6. store' \in [Schedules -> Rows \cup {Null}] /\ NextIffActive'
        BY <1>1, <3>1, <3>3, <3>5 DEF Inv, NextIffActive, GoodRow
      <3> QED
        BY <1>1, <1>2, <2>1, <2>2, <2>4, <3>1, <3>4, <3>5, <3>6, TickGoesOn
    <2> QED
      BY <2>3, <2>4
  <1> QED
    BY <1>3, <1>4, <1>5

\* A request reads its schedule, marks it, or is rejected.
LEMMA RequestSteps ==
    ASSUME Inv, NEW q \in Requests,
           \/ \E s \in Schedules : RequestReads(q, s)
           \/ RequestRuns(q)
           \/ RequestRejected(q)
    PROVE  Inv'
  <1>1. /\ q \in Actors /\ acts[q] \in Acts /\ clock \in Nat /\ commands \in 0 .. MaxCommands
        /\ store \in [Schedules -> Rows \cup {Null}] /\ running \subseteq Schedules
    BY BoundsAreCounts DEF Inv, TypeOK, Actors
  <1>2. \A b \in Actors : acts[b].phase \in {"append", "execute"} => acts[b].at \in running
    BY DEF Inv, TypeOK
  <1>3. Idle \in Acts /\ Idle.phase = "idle"
    BY SchedulesBound DEF Idle, Acts
  <1>4. ASSUME NEW s \in Schedules, RequestReads(q, s)
        PROVE  Inv'
    <2> DEFINE w == [phase |-> "read", at |-> s, run |-> 0, now |-> 0,
                     seen |-> [Idle.seen EXCEPT ![s] = store[s]]]
    <2>1. w \in Acts /\ w.phase = "read" /\ w.at = s /\ w.seen[s] = store[s]
      <3> DEFINE seen == [Idle.seen EXCEPT ![s] = store[s]]
      <3>1. seen \in [Schedules -> Rows \cup {Null}] /\ seen[s] = store[s]
        BY <1>1, <1>3 DEF Acts
      <3>2. s \in 0 .. NumSchedules
        BY DEF Schedules
      <3> HIDE DEF seen
      <3>3. [phase |-> "read", at |-> s, run |-> 0, now |-> 0, seen |-> seen] \in Acts
        BY <3>1, <3>2 DEF Acts
      <3> QED
        BY <3>1, <3>3 DEF seen
    <2>2. acts' = [acts EXCEPT ![q] = w] /\ acts[q].phase = "idle" /\ store[s] # Null
      BY <1>4 DEF RequestReads
    <2>12. recovering = {} /\ commands' \in 0 .. MaxCommands
      <3>1. Commanded
        BY <1>4 DEF RequestReads
      <3> QED
        BY <1>1, <3>1, BoundsAreCounts DEF Commanded, Serving
    <2>3. UNCHANGED <<clock, store, born, running, recovering, crashes>>
      BY <1>4 DEF RequestReads
    <2> HIDE DEF w
    <2>4. RunsHeld'
      BY <1>1, <2>2, <2>3, HeldStays
    <2>5. NextIffActive'
      BY <2>3 DEF Inv, NextIffActive
    <2> QED
      BY <1>1, <1>2, <2>1, <2>2, <2>3, <2>4, <2>5, <2>12, ActStep
  <1>5. CASE RequestRuns(q)
    <2> DEFINE s == acts[q].at
               w == [acts[q] EXCEPT !.phase = "append", !.now = clock]
    <2>1. /\ acts[q].phase = "read" /\ s \in Schedules \ running /\ recovering = {}
          /\ acts[q].seen[s] # Null
      BY <1>1, <1>5 DEF RequestRuns, Inv, Placed
    <2>2. w \in Acts /\ w.phase = "append" /\ w.at = s /\ w.seen = acts[q].seen
      BY <1>1 DEF Acts
    <2>3. /\ acts' = [acts EXCEPT ![q] = w] /\ running' = running \cup {s}
          /\ UNCHANGED <<clock, store, born, recovering, commands, crashes>>
      BY <1>5 DEF RequestRuns
    <2> HIDE DEF w
    <2>4. RunsHeld'
      BY <1>1, <2>1, <2>3, HeldStays
    <2>5. NextIffActive'
      BY <2>3 DEF Inv, NextIffActive
    <2> QED
      BY <1>1, <1>2, <2>1, <2>2, <2>3, <2>4, <2>5, ActStep
  <1>6. CASE RequestRejected(q)
    <2>1. acts[q].phase = "read" /\ recovering = {}
      BY <1>1, <1>6 DEF RequestRejected, Inv, Placed
    <2>2. /\ acts' = [acts EXCEPT ![q] = Idle]
          /\ UNCHANGED <<clock, store, born, running, recovering, commands, crashes>>
      BY <1>6 DEF RequestRejected
    <2>3. RunsHeld'
      BY <1>1, <2>1, <2>2, HeldStays
    <2>4. NextIffActive'
      BY <2>2 DEF Inv, NextIffActive
    <2> QED
      BY <1>1, <1>2, <1>3, <2>1, <2>2, <2>3, <2>4, ActStep
  <1> QED
    BY <1>4, <1>5, <1>6

\* A run is added to a schedule that has none running.
LEMMA AppendStep ==
    ASSUME Inv, NEW a \in Actors, AppendRun(a)
    PROVE  Inv'
  <1> DEFINE s == acts[a].at
             r == store[s]
  <1>1. /\ acts[a] \in Acts /\ clock \in Nat /\ commands \in 0 .. MaxCommands
        /\ store \in [Schedules -> Rows \cup {Null}] /\ running \subseteq Schedules
    BY BoundsAreCounts DEF Inv, TypeOK
  <1>2. \A b \in Actors : acts[b].phase \in {"append", "execute"} => acts[b].at \in running
    BY DEF Inv, TypeOK
  <1>3. /\ acts[a].phase = "append" /\ recovering = {} /\ s \in Schedules
        /\ UNCHANGED <<clock, born, running, recovering, commands, crashes>>
    BY DEF AppendRun, Inv, Placed
  <1>4. CASE r = Null
    <2>1. acts' = [acts EXCEPT ![a] = Idle] /\ UNCHANGED store
      BY <1>4 DEF AppendRun
    <2>2. Idle \in Acts /\ Idle.phase = "idle"
      BY SchedulesBound DEF Idle, Acts
    <2>3. RunsHeld'
      BY <1>1, <1>3, <2>1, HeldStays
    <2>4. NextIffActive'
      BY <2>1 DEF Inv, NextIffActive
    <2> QED
      BY <1>1, <1>2, <1>3, <2>1, <2>2, <2>3, <2>4, ActStep
  <1>5. CASE r # Null
    <2> DEFINE run == [status |-> "running",
                       slot |-> IF a \in Requests THEN acts[a].now ELSE acts[a].seen[s].next]
               n == Len(r.runs) + 1
               q == [r EXCEPT !.runs = Append(@, run)]
               w == [acts[a] EXCEPT !.phase = "execute", !.run = n]
    <2>1. store' = [store EXCEPT ![s] = q] /\ acts' = [acts EXCEPT ![a] = w]
      <3>1. store' = [store EXCEPT ![s].runs = Append(@, run)] /\ acts' = [acts EXCEPT ![a] = w]
        BY <1>5 DEF AppendRun
      <3> QED
        BY <1>1, <1>3, <3>1
    <2>2. GoodRow(r) /\ r.runs \in Seq(Runs) /\ Len(r.runs) \in Nat
      BY <1>1, <1>3, <1>5, LenProperties DEF Inv, NextIffActive, GoodRow, Rows
    <2>3. run \in Runs
      <3>1. CASE a \in Requests
        BY <1>1, <2>2, <3>1 DEF Acts, Runs, GoodRow, Rows
      <3>2. CASE a \notin Requests
        <4>1. acts[a].seen[s] \in Rows /\ acts[a].seen[s].next # Null
          BY <1>1, <1>3, <3>2 DEF Inv, Placed, Acts
        <4>2. acts[a].seen[s].next \in Nat
          BY <4>1 DEF Rows
        <4> QED
          BY <2>2, <3>2, <4>2 DEF Runs, GoodRow, Rows
      <3> QED
        BY <3>1, <3>2
    <2> HIDE DEF run
    <2>4. /\ Append(r.runs, run) \in Seq(Runs)
          /\ DOMAIN Append(r.runs, run) = 1 .. n
          /\ \A k \in 1 .. Len(r.runs) : Append(r.runs, run)[k] = r.runs[k]
          /\ DOMAIN r.runs = 1 .. Len(r.runs)
      BY <2>2, <2>3, AppendProperties, LenProperties
    <2>5. GoodRow(q) /\ q.runs = Append(r.runs, run)
      BY <2>2, <2>4 DEF GoodRow, Rows
    <2>6. RunningRuns(r) = {}
      <3> SUFFICES ASSUME NEW k \in RunningRuns(r)
                   PROVE  FALSE
        OBVIOUS
      <3>1. PICK b \in Actors : acts[b].phase = "execute" /\ acts[b].at = s
        BY <1>3, <1>5 DEF Inv, OneRunAtATime
      <3>2. RunsSchedule(a, s) /\ RunsSchedule(b, s)
        BY <1>3, <3>1 DEF RunsSchedule
      <3> QED
        BY <1>3, <3>1, <3>2 DEF Inv, OneRunAtATime
    <2>7. RunningRuns(q) \subseteq {n}
      <3> SUFFICES ASSUME NEW k \in RunningRuns(q), k # n
                   PROVE  FALSE
        OBVIOUS
      <3>1. k \in DOMAIN q.runs /\ q.runs[k].status = "running"
        BY DEF RunningRuns
      <3> HIDE DEF q
      <3>2. k \in 1 .. Len(r.runs)
        BY <2>2, <2>4, <2>5, <3>1
      <3>3. k \in RunningRuns(r)
        BY <2>4, <2>5, <3>1, <3>2 DEF RunningRuns
      <3> QED
        BY <2>6, <3>3
    <2> HIDE DEF q
    <2>8. \A u \in Schedules : store'[u] = IF u = s THEN q ELSE store[u]
      BY <1>1, <2>1
    <2>9. store' \in [Schedules -> Rows \cup {Null}] /\ NextIffActive'
      BY <1>1, <2>1, <2>5, <2>8 DEF Inv, NextIffActive, GoodRow
    <2>10. w \in Acts /\ w.phase = "execute" /\ w.at = s /\ w.run = n
      <3>1. n \in Nat
        BY <2>2
      <3> HIDE DEF n
      <3> QED
        BY <1>1, <3>1 DEF Acts
    <2> HIDE DEF w, n
    <2>11. RunsHeld'
      <3>1. \A b \in Actors : acts'[b] = IF b = a THEN w ELSE acts[b]
        BY <2>1 DEF Inv, TypeOK
      <3>2. ASSUME NEW u \in Schedules, store'[u] # Null
            PROVE  /\ \A j, k \in RunningRuns(store'[u]) : j = k
                   /\ \A k \in RunningRuns(store'[u]) : \E b \in Actors :
                         acts'[b].phase = "execute" /\ acts'[b].at = u /\ acts'[b].run = k
        <4>1. CASE u = s
          <5>1. RunningRuns(store'[u]) \subseteq {n}
            BY <2>7, <2>8, <4>1
          <5>2. acts'[a].phase = "execute" /\ acts'[a].at = u /\ acts'[a].run = n
            BY <2>10, <3>1, <4>1
          <5> QED
            BY <5>1, <5>2
        <4>2. CASE u # s
          <5>1. store'[u] = store[u]
            BY <2>8, <4>2
          <5>2. \A k \in RunningRuns(store[u]) : \E b \in Actors \ {a} :
                   acts[b].phase = "execute" /\ acts[b].at = u /\ acts[b].run = k
            BY <1>3, <3>2, <5>1 DEF Inv, OneRunAtATime
          <5>3. \A j, k \in RunningRuns(store[u]) : j = k
            BY <3>2, <5>1 DEF Inv, OneRunAtATime
          <5> QED
            BY <3>1, <5>1, <5>2, <5>3
        <4> QED
          BY <4>1, <4>2
      <3> QED
        BY <3>2 DEF RunsHeld
    <2> QED
      BY <1>1, <1>2, <1>3, <2>1, <2>9, <2>10, <2>11, ActStep
  <1> QED
    BY <1>4, <1>5

\* A run ends; its actor goes on.
LEMMA FinishStep ==
    ASSUME Inv, NEW a \in Actors, FinishRun(a)
    PROVE  Inv'
  <1> DEFINE s == acts[a].at
             r == store[s]
             busy == running \ {s}
  <1>1. /\ acts[a] \in Acts /\ clock \in Nat /\ commands \in 0 .. MaxCommands
        /\ store \in [Schedules -> Rows \cup {Null}] /\ running \subseteq Schedules
    BY BoundsAreCounts DEF Inv, TypeOK
  <1>2. /\ acts[a].phase = "execute" /\ recovering = {} /\ s \in Schedules /\ s + 1 \in Nat
        /\ acts[a].now \in Nat /\ acts[a].seen \in [Schedules -> Rows \cup {Null}]
        /\ UNCHANGED <<clock, born, recovering, commands, crashes>>
    BY <1>1 DEF FinishRun, Inv, Placed, Schedules, Acts
  <1>3. \A b \in Actors \ {a} :
            acts[b].phase \in {"append", "execute"} => acts[b].at \in busy
    <2> SUFFICES ASSUME NEW b \in Actors \ {a}, acts[b].phase \in {"append", "execute"}
                 PROVE  acts[b].at \in running /\ acts[b].at # s
      OBVIOUS
    <2>1. RunsSchedule(a, s) /\ RunsSchedule(b, acts[b].at) /\ acts[b].at \in running
      BY <1>2 DEF RunsSchedule, Inv, TypeOK
    <2> QED
      BY <1>1, <2>1 DEF Inv, OneRunAtATime
  <1>4. PICK q \in Rows \cup {Null} :
           /\ store' = [store EXCEPT ![s] = q]
           /\ q # Null => r # Null /\ GoodRow(q) /\ RunningRuns(q) = RunningRuns(r) \ {acts[a].run}
    <2>1. CASE r = Null
      <3>1. store' = store
        BY <2>1 DEF FinishRun
      <3> QED
        BY <1>1, <2>1, <3>1
    <2>2. CASE r # Null
      <3>1. PICK gone \in BOOLEAN :
               store' = [store EXCEPT ![s] = Finished(r, acts[a].run, gone, a \in Requests)]
        BY <2>2 DEF FinishRun
      <3>2. GoodRow(r) /\ r \in Rows /\ (a \in Requests) \in BOOLEAN
        BY <1>1, <1>2, <2>2 DEF Inv, NextIffActive, GoodRow
      <3> DEFINE f == Finished(r, acts[a].run, gone, a \in Requests)
      <3>3. GoodRow(f) /\ RunningRuns(f) = RunningRuns(r) \ {acts[a].run}
        BY <1>1, <3>2, FinishedRow
      <3> HIDE DEF f
      <3>4. f \in Rows
        BY <3>3 DEF GoodRow
      <3>5. store' = [store EXCEPT ![s] = f]
        BY <3>1 DEF f
      <3> QED
        BY <2>2, <3>3, <3>4, <3>5
    <2> QED
      BY <2>1, <2>2
  <1>5. \A u \in Schedules : store'[u] = IF u = s THEN q ELSE store[u]
    BY <1>1, <1>4
  <1>6. store' \in [Schedules -> Rows \cup {Null}] /\ NextIffActive'
    BY <1>1, <1>4, <1>5 DEF Inv, NextIffActive, GoodRow
  <1>7. \A u \in Schedules : store'[u] # Null =>
            /\ store[u] # Null
            /\ RunningRuns(store'[u]) \subseteq RunningRuns(store[u])
            /\ acts[a].phase = "execute" /\ acts[a].at = u =>
                  acts[a].run \notin RunningRuns(store'[u])
    BY <1>4, <1>5
  <1>8. CASE acts' = [acts EXCEPT ![a] = Idle] /\ running' = busy
    <2>1. Idle \in Acts /\ Idle.phase = "idle"
      BY SchedulesBound DEF Idle, Acts
    <2>2. RunsHeld'
      BY <1>2, <1>7, <1>8, HeldStays
    <2>3. /\ busy \in SUBSET running /\ recovering' = {} /\ commands' \in 0 .. MaxCommands
          /\ UNCHANGED <<clock, born, crashes>>
      BY <1>1, <1>2
    <2> HIDE DEF Inv, Idle, busy
    <2> QED
      BY <1>3, <1>2, <1>6, <1>8, <2>1, <2>2, <2>3, ActStep
  <1>9. CASE a \in Ticks /\ Proceed(a, acts[a].seen, acts[a].now, s + 1, busy)
    BY <1>1, <1>2, <1>3, <1>6, <1>7, <1>9, TickGoesOn
  <1> QED
    BY <1>8, <1>9 DEF FinishRun

\* Initially there is nothing.
LEMMA InitInv == Init => Inv
  <1> SUFFICES ASSUME Init
               PROVE  Inv
    OBVIOUS
  <1> USE SchedulesBound, BoundsAreCounts DEF Init
  <1>1. Idle \in Acts /\ Idle.phase = "idle"
    BY DEF Idle, Acts
  <1>2. \A a \in Actors : acts[a].phase = "idle"
    BY <1>1
  <1>3. TypeOK
    BY <1>1, <1>2 DEF TypeOK
  <1>4. Placed
    BY <1>2 DEF Placed
  <1>5. OneRunAtATime /\ NextIffActive
    BY <1>2 DEF OneRunAtATime, RunsSchedule, NextIffActive
  <1> QED
    BY <1>3, <1>4, <1>5 DEF Inv

\* Every step keeps the invariant.
LEMMA NextInv == Inv /\ [Next]_vars => Inv'
  <1> SUFFICES ASSUME Inv, [Next]_vars
               PROVE  Inv'
    OBVIOUS
  <1>1. CASE Advance
    <2>1. clock' \in 0 .. MaxTime
      BY <1>1, BoundsAreCounts DEF Advance, Inv, TypeOK
    <2>2. UNCHANGED <<store, born, running, acts, recovering, commands, crashes>>
      BY <1>1 DEF Advance
    <2>3. TypeOK'
      BY <2>1, <2>2 DEF Inv, TypeOK
    <2>4. Placed'
      BY <2>2 DEF Inv, Placed
    <2>5. OneRunAtATime'
      BY <2>2 DEF Inv, OneRunAtATime, RunsSchedule, RunningRuns
    <2>6. NextIffActive'
      BY <2>2 DEF Inv, NextIffActive
    <2> QED
      BY <2>3, <2>4, <2>5, <2>6 DEF Inv
  <1>2. CASE UNCHANGED vars
    BY <1>2 DEF vars, Inv, TypeOK, Placed, OneRunAtATime, RunsSchedule, RunningRuns, NextIffActive
  <1>3. ASSUME NEW t \in Ticks, TickStep(t)
        PROVE  Inv'
    BY <1>3, TickSteps, AppendStep DEF TickStep, Actors
  <1>4. ASSUME NEW q \in Requests, RequestStep(q) \/ \E s \in Schedules : RequestReads(q, s)
        PROVE  Inv'
    BY <1>4, RequestSteps, AppendStep DEF RequestStep, Actors
  <1> QED
    BY <1>1, <1>2, <1>3, <1>4, CommandStep, RecoveryStep, FinishStep, CrashStep DEF Next

-----------------------------------------------------------------------------

\* ScheduleService.tick, runOnce, runSchedule and recoverStartupState together never
\* leave a schedule with two runs or with one that nobody waits for, and no command, run
\* or recovery gives a paused schedule a next time or takes it from an active one.
THEOREM ScheduleCorrect == Spec => [](TypeOK /\ OneRunAtATime /\ NextIffActive)
  <1>1. Inv => TypeOK /\ OneRunAtATime /\ NextIffActive
    BY DEF Inv
  <1> QED
    BY InitInv, NextInv, <1>1, PTL DEF Spec

\* The schedules, the ticks and the requests of the schedule service keep their types.
THEOREM ScheduleTypes == Spec => []TypeOK
  BY ScheduleCorrect, PTL

\* A schedule has a next time exactly while it is active, whatever command, end of a
\* run or recovery comes last: pause, resume, update, finishRun, completeSchedule.
THEOREM NextTimesMatch == Spec => []NextIffActive
  BY ScheduleCorrect, PTL

-----------------------------------------------------------------------------
(* The history of a schedule. *)

\* Row q may come after row r.
Later(r, q) == /\ r.status = "completed" => q.status = "completed"
               /\ Ended(r) \subseteq Ended(q)

\* Rows are made in order: the next one has never been written.
Unborn == \A s \in Schedules : s > born => store[s] = Null

HInv == Inv /\ Unborn

\* What a step may do to the store.
Made == /\ born < NumSchedules /\ born' = born + 1
        /\ \E r : store' = [store EXCEPT ![born + 1] = r]
Changed(s) == /\ born' = born /\ store[s] # Null
              /\ \E r : /\ store' = [store EXCEPT ![s] = r]
                        /\ r = Null \/ Later(store[s], r)
StoreMoves == \/ store' = store /\ born' = born
              \/ Made
              \/ \E s \in Schedules : Changed(s)

-----------------------------------------------------------------------------
(* Rows. *)

\* A run that is not running has ended.
LEMMA EndedOrRunning ==
    ASSUME NEW r \in Rows
    PROVE  Ended(r) = DOMAIN r.runs \ RunningRuns(r)
  <1>1. r.runs \in Seq(Runs)
    BY DEF Rows
  <1>2. \A k \in DOMAIN r.runs : r.runs[k].status \in {"running", "ended"}
    <2> TAKE k \in DOMAIN r.runs
    <2>1. r.runs[k] \in Runs
      BY <1>1, LenProperties, ElementOfSeq
    <2> QED
      BY <2>1 DEF Runs
  <1> QED
    BY <1>2 DEF Ended, RunningRuns

\* A row with the same runs is later, unless it gives up a completion.
LEMMA SameRuns ==
    ASSUME NEW r, NEW q, q.runs = r.runs, r.status = "completed" => q.status = "completed"
    PROVE  Later(r, q)
  BY DEF Later, Ended

\* The row after a run has ended is later.
LEMMA FinishedLater ==
    ASSUME NEW r \in Rows, NEW k, NEW gone \in BOOLEAN, NEW manual \in BOOLEAN
    PROVE  Later(r, Finished(r, k, gone, manual))
  <1> DEFINE e == [r EXCEPT !.runs[k].status = "ended"]
             f == Finished(r, k, gone, manual)
             slot == IF r.next = Null THEN clock ELSE r.next
  <1>1. /\ e \in Rows
        /\ e = [r EXCEPT !.runs = e.runs]
        /\ RunningRuns(e) = RunningRuns(r) \ {k}
    BY EndRun
  <1>2. DOMAIN e.runs = DOMAIN r.runs
    <2>1. e.runs = [r.runs EXCEPT ![k].status = "ended"]
      BY DEF Rows
    <2> QED
      BY <2>1
  <1>3. e.status = r.status
    BY <1>1 DEF Rows
  <1>4. \/ f = CompletedRow(e)
        \/ f = e
        \/ r.status = "paused" /\ f = [e EXCEPT !.next = Null]
        \/ r.status = "active" /\ f = [e EXCEPT !.next = NextSlot(slot, clock)]
    BY DEF Finished, Rows
  <1> HIDE DEF e, f, slot
  <1>5. f.runs = e.runs /\ (r.status = "completed" => f.status = "completed")
    BY <1>1, <1>3, <1>4 DEF CompletedRow, Rows
  <1>6. Ended(f) = Ended(e)
    BY <1>5 DEF Ended
  <1>7. Ended(r) \subseteq Ended(e)
    BY <1>1, <1>2, EndedOrRunning
  <1> QED
    BY <1>5, <1>6, <1>7 DEF Later, f

\* The row after recovery is later.
LEMMA RecoveredLater ==
    ASSUME NEW r \in Rows
    PROVE  Later(r, Recovered(r))
  <1> DEFINE First(k) == k \in RunningRuns(r) /\ \A j \in RunningRuns(r) : k <= j
             runs == [k \in DOMAIN r.runs |->
                        IF First(k) THEN [r.runs[k] EXCEPT !.status = "ended"] ELSE r.runs[k]]
  <1>1. Recovered(r).runs = runs /\ Recovered(r).status = r.status
    BY DEF Recovered, Rows
  <1>2. \A k \in Ended(r) : k \in DOMAIN runs /\ runs[k].status = "ended"
    BY EndedOrRunning DEF Ended
  <1> HIDE DEF runs
  <1> QED
    BY <1>1, <1>2 DEF Later, Ended

\* The row with a run added is later.
LEMMA AppendedLater ==
    ASSUME NEW r \in Rows, NEW run
    PROVE  Later(r, [r EXCEPT !.runs = Append(@, run)])
  <1> DEFINE q == [r EXCEPT !.runs = Append(@, run)]
  <1>1. q.runs = Append(r.runs, run) /\ q.status = r.status /\ r.runs \in Seq(Runs)
    BY DEF Rows
  <1>2. \A k \in DOMAIN r.runs : k \in DOMAIN Append(r.runs, run) /\ Append(r.runs, run)[k] = r.runs[k]
    BY <1>1
  <1> HIDE DEF q
  <1>3. Later(r, q)
    BY <1>1, <1>2 DEF Later, Ended
  <1> QED
    BY <1>3 DEF q

-----------------------------------------------------------------------------
(* The steps. *)

\* What clients ask for: a row is made, removed, or keeps its runs.
LEMMA CommandMoves ==
    ASSUME Inv,
           \/ Create
           \/ \E s \in Schedules : \/ Replace(s) \/ Pause(s) \/ Resume(s) \/ Update(s)
                                   \/ Delete(s) \/ CompleteForAgent(s)
    PROVE  StoreMoves
  <1>1. \A s \in Schedules : store[s] # Null => store[s] \in Rows
    BY DEF Inv, TypeOK
  <1>2. ASSUME NEW s \in Schedules, NEW r, Rewrite(s, r), r = Null \/ Later(store[s], r)
        PROVE  StoreMoves
    BY <1>2 DEF StoreMoves, Changed, Rewrite
  <1>3. CASE Create
    BY <1>3 DEF Create, StoreMoves, Made
  <1>4. ASSUME NEW s \in Schedules, Replace(s)
        PROVE  StoreMoves
    <2>1. PICK next, limit, expires :
             Rewrite(s, [store[s] EXCEPT !.status = "active", !.next = next,
                                         !.limit = limit, !.expires = expires])
      BY <1>4 DEF Replace
    <2> DEFINE r == [store[s] EXCEPT !.status = "active", !.next = next,
                                     !.limit = limit, !.expires = expires]
    <2>2. store[s] \in Rows /\ store[s].status # "completed"
      BY <1>1, <1>4 DEF Replace
    <2>3. r.runs = store[s].runs
      BY <2>2 DEF Rows
    <2> HIDE DEF r
    <2>4. Later(store[s], r)
      BY <2>2, <2>3, SameRuns
    <2>5. Rewrite(s, r)
      BY <2>1 DEF r
    <2> QED
      BY <1>2, <2>4, <2>5
  <1>5. ASSUME NEW s \in Schedules, Pause(s) \/ Resume(s) \/ CompleteForAgent(s) \/ Delete(s)
        PROVE  StoreMoves
    <2>1. store[s] \in Rows
      BY <1>1, <1>5 DEF Pause, Resume, CompleteForAgent, Delete
    <2>2. PICK r : /\ Rewrite(s, r)
                   /\ \/ r = Null
                      \/ /\ store[s].status # "completed"
                         /\ \/ r = [store[s] EXCEPT !.status = "paused", !.next = Null]
                            \/ r = [store[s] EXCEPT !.status = "active", !.next = clock + Period]
                            \/ r = CompletedRow(store[s])
      BY <1>5 DEF Pause, Resume, CompleteForAgent, Delete
    <2>3. r # Null => r.runs = store[s].runs /\ store[s].status # "completed"
      BY <2>1, <2>2 DEF Rows, CompletedRow
    <2> QED
      BY <1>2, <2>2, <2>3, SameRuns
  <1>6. ASSUME NEW s \in Schedules, Update(s)
        PROVE  StoreMoves
    <2>1. store[s] \in Rows
      BY <1>1, <1>6 DEF Update
    <2>2. PICK r : /\ Rewrite(s, r)
                   /\ \/ r = [store[s] EXCEPT !.next =
                                IF store[s].status = "active" THEN clock + Period ELSE Null]
                      \/ \E limit \in Limits : r = [store[s] EXCEPT !.limit = limit]
                      \/ \E expires \in Expiries : r = [store[s] EXCEPT !.expires = expires]
      BY <1>6 DEF Update
    <2>3. r.runs = store[s].runs /\ r.status = store[s].status
      BY <2>1, <2>2 DEF Rows
    <2> QED
      BY <1>2, <2>2, <2>3, SameRuns
  <1> QED
    BY <1>3, <1>4, <1>5, <1>6

\* What ticks, requests and recovery write.
LEMMA ServiceMoves ==
    ASSUME Inv,
           \/ \E t \in Ticks : TickStep(t)
           \/ \E q \in Requests : RequestStep(q) \/ \E s \in Schedules : RequestReads(q, s)
           \/ \E a \in Actors : FinishRun(a)
           \/ \E s \in Schedules : RecoverSchedule(s)
    PROVE  StoreMoves
  <1>1. \A s \in Schedules : store[s] # Null => store[s] \in Rows
    BY DEF Inv, TypeOK
  <1>2. ASSUME NEW a \in Actors, AppendRun(a)
        PROVE  StoreMoves
    <2> DEFINE s == acts[a].at
               run == [status |-> "running",
                       slot |-> IF a \in Requests THEN acts[a].now ELSE acts[a].seen[s].next]
    <2>1. s \in Schedules
      BY <1>2 DEF AppendRun, Inv, Placed
    <2>2. CASE store[s] = Null
      BY <1>2, <2>2 DEF AppendRun, StoreMoves
    <2>3. CASE store[s] # Null
      <3> DEFINE r == [store[s] EXCEPT !.runs = Append(@, run)]
      <3>1. store' = [store EXCEPT ![s] = r] /\ born' = born
        BY <1>2, <2>3 DEF AppendRun
      <3>2. Later(store[s], r)
        BY <1>1, <2>1, <2>3, AppendedLater
      <3> HIDE DEF r, s
      <3> QED
        BY <2>1, <2>3, <3>1, <3>2 DEF StoreMoves, Changed
    <2> QED
      BY <2>2, <2>3
  <1>3. ASSUME NEW a \in Actors, FinishRun(a)
        PROVE  StoreMoves
    <2> DEFINE s == acts[a].at
    <2>1. s \in Schedules
      BY <1>3 DEF FinishRun, Inv, Placed
    <2>2. CASE store[s] = Null
      BY <1>3, <2>2 DEF FinishRun, StoreMoves
    <2>3. CASE store[s] # Null
      <3>1. PICK gone \in BOOLEAN :
               store' = [store EXCEPT ![s] = Finished(store[s], acts[a].run, gone, a \in Requests)]
        BY <1>3, <2>3 DEF FinishRun
      <3> DEFINE r == Finished(store[s], acts[a].run, gone, a \in Requests)
      <3>2. born' = born
        BY <1>3 DEF FinishRun
      <3> DEFINE row == store[s]
                 manual == a \in Requests
      <3>3. Later(store[s], r)
        <4>1. row \in Rows /\ manual \in BOOLEAN
          BY <1>1, <2>1, <2>3
        <4> HIDE DEF row, manual, s
        <4>2. Later(row, Finished(row, acts[a].run, gone, manual))
          BY <4>1, FinishedLater
        <4> QED
          BY <4>2 DEF row, manual
      <3>4. store' = [store EXCEPT ![s] = r]
        BY <3>1
      <3> HIDE DEF r, s
      <3> QED
        BY <2>1, <2>3, <3>2, <3>3, <3>4 DEF StoreMoves, Changed
    <2> QED
      BY <2>2, <2>3
  <1>4. ASSUME NEW t \in Ticks, TickCompletes(t)
        PROVE  StoreMoves
    <2> DEFINE s == acts[t].at
    <2>1. s \in Schedules
      BY <1>4 DEF TickCompletes, Inv, Placed, Actors
    <2>2. CASE store[s] = Null
      BY <1>4, <2>2 DEF TickCompletes, StoreMoves
    <2>3. CASE store[s] # Null
      <3>1. PICK r : /\ store' = [store EXCEPT ![s] = r]
                     /\ r = store[s] \/ r = CompletedRow(store[s])
        BY <1>4, <2>3 DEF TickCompletes
      <3>2. born' = born
        BY <1>4 DEF TickCompletes
      <3>3. r.runs = store[s].runs /\ (store[s].status = "completed" => r.status = "completed")
        BY <1>1, <2>1, <2>3, <3>1 DEF CompletedRow, Rows
      <3>4. Later(store[s], r)
        BY <3>3, SameRuns
      <3> HIDE DEF s
      <3> QED
        BY <2>1, <2>3, <3>1, <3>2, <3>4 DEF StoreMoves, Changed
    <2> QED
      BY <2>2, <2>3
  <1>5. ASSUME NEW s \in Schedules, RecoverSchedule(s)
        PROVE  StoreMoves
    <2>1. store[s] \in Rows /\ store[s] # Null
      BY <1>1, <1>5 DEF RecoverSchedule, Inv, Placed
    <2>2. Later(store[s], Recovered(store[s]))
      BY <2>1, RecoveredLater
    <2>3. store' = [store EXCEPT ![s] = Recovered(store[s])] /\ born' = born
      BY <1>5 DEF RecoverSchedule
    <2> QED
      BY <2>1, <2>2, <2>3 DEF StoreMoves, Changed
  <1>6. ASSUME NEW a \in Actors,
               \/ TickStarts(a) \/ TickLists(a) \/ RequestRuns(a) \/ RequestRejected(a)
               \/ \E s \in Schedules : RequestReads(a, s)
        PROVE  StoreMoves
    BY <1>6 DEF TickStarts, TickLists, RequestRuns, RequestRejected, RequestReads, StoreMoves
  <1> QED
    BY <1>2, <1>3, <1>4, <1>5, <1>6 DEF TickStep, RequestStep, Actors

\* Every step writes the store in one of the three ways, or not at all.
LEMMA StepMoves ==
    ASSUME Inv, [Next]_vars
    PROVE  StoreMoves
  <1>1. CASE Advance \/ Crash \/ UNCHANGED vars
    BY <1>1 DEF Advance, Crash, vars, StoreMoves
  <1> QED
    BY <1>1, CommandMoves, ServiceMoves DEF Next

\* Rows that have not been made stay unmade, and the others become later ones.
LEMMA MovesKeep ==
    ASSUME HInv, StoreMoves
    PROVE  /\ Unborn'
           /\ \A s \in Schedules : store[s] # Null /\ store'[s] # Null => Later(store[s], store'[s])
  <1>1. DOMAIN store = Schedules /\ born \in Nat
    BY SchedulesBound DEF HInv, Inv, TypeOK
  <1>2. \A s \in Schedules : Later(store[s], store[s])
    BY DEF Later
  <1>3. CASE store' = store /\ born' = born
    BY <1>2, <1>3 DEF HInv, Unborn
  <1>4. CASE Made
    <2>1. PICK r : store' = [store EXCEPT ![born + 1] = r]
      BY <1>4 DEF Made
    <2>2. born' = born + 1 /\ born + 1 \in Schedules
      BY <1>1, <1>4, SchedulesBound DEF Made, Schedules
    <2>3. \A s \in Schedules : s # born + 1 => store'[s] = store[s]
      BY <1>1, <2>1
    <2>4. store[born + 1] = Null
      BY <1>1, <2>2 DEF HInv, Unborn
    <2>5. Unborn'
      <3> SUFFICES ASSUME NEW s \in Schedules, s > born + 1
                   PROVE  store'[s] = Null
        BY <2>2 DEF Unborn
      <3> QED
        BY <1>1, <2>3 DEF HInv, Unborn, Schedules
    <2> QED
      BY <1>2, <2>3, <2>4, <2>5
  <1>5. ASSUME NEW s \in Schedules, Changed(s)
        PROVE  /\ Unborn'
               /\ \A u \in Schedules : store[u] # Null /\ store'[u] # Null => Later(store[u], store'[u])
    <2>1. PICK r : /\ store' = [store EXCEPT ![s] = r]
                   /\ r = Null \/ Later(store[s], r)
      BY <1>5 DEF Changed
    <2>2. born' = born /\ store[s] # Null
      BY <1>5 DEF Changed
    <2>3. store'[s] = r /\ \A u \in Schedules : u # s => store'[u] = store[u]
      BY <1>1, <2>1
    <2> QED
      BY <1>2, <2>1, <2>2, <2>3 DEF HInv, Unborn
  <1> QED
    BY <1>3, <1>4, <1>5 DEF StoreMoves

-----------------------------------------------------------------------------

\* update, pause, finishRun, completeScheduleIfDue and recoverInterruptedSchedule never
\* take a completion back, nor make an ended run a running one or lose it.
THEOREM HistoryKept == Spec => HistoryStays
  <1>1. Init => HInv
    <2>1. Init => Unborn
      BY DEF Init, Unborn
    <2> QED
      BY <2>1, InitInv DEF HInv
  <1>2. HInv /\ [Next]_vars => HInv'
    BY NextInv, StepMoves, MovesKeep DEF HInv
  <1>3. HInv /\ [Next]_vars =>
          [\A s \in Schedules : store[s] # Null /\ store'[s] # Null =>
             /\ store[s].status = "completed" => store'[s].status = "completed"
             /\ Ended(store[s]) \subseteq Ended(store'[s])]_vars
    BY StepMoves, MovesKeep DEF HInv, Later
  <1> QED
    BY <1>1, <1>2, <1>3, PTL DEF Spec, HistoryStays
=============================================================================
