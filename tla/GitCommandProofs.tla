--------------------------- MODULE GitCommandProofs ---------------------------
(***************************************************************************)
(* The safety theorems of GitCommand.  The bound on the running processes  *)
(* is not inductive: it needs the counts of the scheduler to be exact, and *)
(* those need that a call is in one queue at most, at one place, and has   *)
(* no child while it is there.  The lemmas say what each method of the     *)
(* scheduler does to its counts and queues; the steps of the calls are     *)
(* proved from them.                                                       *)
(***************************************************************************)
EXTENDS GitCommand, FiniteSetTheorems, TLAPS

\* A call is at one place of one queue.
Distinct(s) ==
    \A q, r \in QueueNames : \A i \in 1 .. Len(s.queue[q]), j \in 1 .. Len(s.queue[r]) :
        s.queue[q][i] = s.queue[r][j] => q = r /\ i = j

\* c is in a queue of s.
In(c, s) == \E q \in QueueNames : \E i \in 1 .. Len(s.queue[q]) : s.queue[q][i] = c

Counted(s) ==
    /\ s.admitted = Len(s.queue["throttled"]) + s.running
    /\ s.waiting = Len(s.queue["high"]) + Len(s.queue["normal"])
                   + Len(s.queue["throttled"])
    /\ s.admitted <= MaxProcs

Sound(s) == s \in Schedulers /\ Distinct(s) /\ Counted(s)

Awake(s) == Queued(s) /\ s.admitted < MaxProcs => s.drain

SameCalls(s, t) == \A c \in Calls : In(c, t) => In(c, s)

\* Calls in a queue have not started.
Unstarted == \A c \in Calls : In(c, sched) => cmd[c].child = "none" /\ cmd[c].timer = "off"
                                              /\ cmd[c].promise = "pending"

\* A call that was not submitted has nothing.
Fresh == \A c \in Calls : cmd[c].promise = "none" => cmd[c].child = "none" /\ cmd[c].timer = "off"

Inv == /\ Sound(sched) /\ Awake(sched)
       /\ cmd \in [Calls -> Command]
       /\ sched.running = Cardinality(Holders)
       /\ Unstarted /\ Fresh
       /\ AnsweredChildIsDying

-----------------------------------------------------------------------------
(* The scheduler's methods. *)

\* The bound is a positive number.
LEMMA MaxProcsNat == MaxProcs \in Nat /\ MaxProcs > 0
BY MaxProcsPositive

\* scheduleDrain changes no count and no queue, and nothing is left asleep.
LEMMA ScheduleDrainSound ==
    ASSUME NEW s, Sound(s)
    PROVE  /\ Sound(ScheduleDrain(s)) /\ Awake(ScheduleDrain(s))
           /\ SameCalls(s, ScheduleDrain(s))
           /\ ScheduleDrain(s).running = s.running
<1> DEFINE t == ScheduleDrain(s)
<1>1. s \in Schedulers
  BY DEF Sound
<1>2. /\ t.queue = s.queue /\ t.admitted = s.admitted /\ t.running = s.running
      /\ t.waiting = s.waiting
      /\ t.drain = (s.drain \/ (s.admitted < MaxProcs /\ Queued(s)))
  BY <1>1 DEF ScheduleDrain, Schedulers
<1>3. t \in Schedulers
  BY <1>1, MaxProcsNat DEF ScheduleDrain, Schedulers
<1>4. Distinct(t) /\ Counted(t)
  BY <1>2 DEF Sound, Distinct, Counted
<1>5. Awake(t)
  BY <1>2 DEF Awake, Queued
<1>6. SameCalls(s, t)
  BY <1>2 DEF SameCalls, In
<1> QED
  BY <1>2, <1>3, <1>4, <1>5, <1>6 DEF Sound

\* Moving the head of a queue to the throttle keeps every call at one place.
LEMMA ShiftSound ==
    ASSUME NEW s \in Schedulers, NEW t \in Schedulers, NEW from \in Priorities,
           s.queue[from] # <<>>, Distinct(s), t.queue = Shift(s.queue, from)
    PROVE  /\ Distinct(t) /\ SameCalls(s, t)
           /\ Len(t.queue["throttled"]) = Len(s.queue["throttled"]) + 1
           /\ Len(t.queue["high"]) + Len(t.queue["normal"])
              = Len(s.queue["high"]) + Len(s.queue["normal"]) - 1
<1> DEFINE old == s.queue
           new == t.queue
           \* where a place of the new queues was in the old ones
           qOf(q, i) == IF q = "throttled" /\ i = Len(old[q]) + 1 THEN from ELSE q
           iOf(q, i) == IF q = "throttled" /\ i = Len(old[q]) + 1 THEN 1
                        ELSE IF q = from THEN i + 1 ELSE i
<1>1. /\ old \in [QueueNames -> Seq(Calls)]
      /\ "throttled" \in QueueNames /\ from \in QueueNames /\ from # "throttled"
  BY DEF Schedulers, QueueNames, Priorities
<1>2. /\ old[from] \in Seq(Calls) /\ old["throttled"] \in Seq(Calls)
      /\ Len(old[from]) \in Nat /\ Len(old[from]) > 0
  BY <1>1
<1>3. /\ new[from] = Tail(old[from])
      /\ new["throttled"] = Append(old["throttled"], Head(old[from]))
      /\ \A q \in QueueNames : q # from /\ q # "throttled" => new[q] = old[q]
  BY <1>1 DEF Shift
<1>4. /\ Len(new[from]) = Len(old[from]) - 1
      /\ \A i \in 1 .. Len(new[from]) : new[from][i] = old[from][i + 1]
  BY <1>2, <1>3
<1>5. /\ Len(new["throttled"]) = Len(old["throttled"]) + 1
      /\ new["throttled"][Len(old["throttled"]) + 1] = old[from][1]
      /\ \A i \in 1 .. Len(old["throttled"]) : new["throttled"][i] = old["throttled"][i]
  BY <1>2, <1>3
<1>6. \A q \in QueueNames : \A i \in 1 .. Len(new[q]) :
         /\ qOf(q, i) \in QueueNames
         /\ iOf(q, i) \in 1 .. Len(old[qOf(q, i)])
         /\ new[q][i] = old[qOf(q, i)][iOf(q, i)]
  <2> TAKE q \in QueueNames
  <2> TAKE i \in 1 .. Len(new[q])
  <2>0. old[q] \in Seq(Calls) /\ Len(old[q]) \in Nat
    BY <1>1
  <2>1. CASE q = from
    BY <2>1, <2>0, <1>1, <1>2, <1>4
  <2>2. CASE q = "throttled"
    BY <2>2, <2>0, <1>1, <1>2, <1>5
  <2>3. CASE q # from /\ q # "throttled"
    BY <2>3, <2>0, <1>1, <1>3
  <2> QED
    BY <2>1, <2>2, <2>3
<1>7. ASSUME NEW q \in QueueNames, NEW r \in QueueNames,
             NEW i \in 1 .. Len(new[q]), NEW j \in 1 .. Len(new[r]),
             new[q][i] = new[r][j]
      PROVE  q = r /\ i = j
  <2>1. qOf(q, i) = qOf(r, j) /\ iOf(q, i) = iOf(r, j)
    <3>1. /\ qOf(q, i) \in QueueNames /\ qOf(r, j) \in QueueNames
          /\ iOf(q, i) \in 1 .. Len(old[qOf(q, i)]) /\ iOf(r, j) \in 1 .. Len(old[qOf(r, j)])
      BY <1>6
    <3>2. new[q][i] = old[qOf(q, i)][iOf(q, i)] /\ new[r][j] = old[qOf(r, j)][iOf(r, j)]
      BY <1>6
    <3>3. ASSUME NEW a \in QueueNames, NEW b \in QueueNames,
                 NEW x \in 1 .. Len(old[a]), NEW y \in 1 .. Len(old[b]),
                 old[a][x] = old[b][y]
          PROVE  a = b /\ x = y
      BY <3>3 DEF Distinct
    <3> DEFINE a1 == qOf(q, i)  b1 == qOf(r, j)  x1 == iOf(q, i)  y1 == iOf(r, j)
    <3>4. /\ a1 \in QueueNames /\ b1 \in QueueNames
          /\ x1 \in 1 .. Len(old[a1]) /\ y1 \in 1 .. Len(old[b1])
          /\ old[a1][x1] = old[b1][y1]
      BY <3>1, <3>2, <1>7
    <3> HIDE DEF a1, b1, x1, y1
    <3>5. a1 = b1 /\ x1 = y1
      BY <3>3, <3>4
    <3> QED BY <3>5 DEF a1, b1, x1, y1
  <2>2. /\ Len(old[q]) \in Nat /\ Len(old[r]) \in Nat /\ Len(new[q]) \in Nat
        /\ Len(new[r]) \in Nat
    BY <1>1, <1>3, <1>4, <1>5
  <2> QED
    BY <2>1, <2>2, <1>1, <1>2, <1>4, <1>5
<1>8. Distinct(t)
  BY <1>7 DEF Distinct
<1>9. SameCalls(s, t)
  <2> HIDE DEF qOf, iOf
  <2> QED BY <1>6 DEF SameCalls, In
<1> QED
  <2>1. CASE from = "high"
    <3>1. new["normal"] = old["normal"] /\ Len(old["normal"]) \in Nat
      BY <2>1, <1>1, <1>3 DEF QueueNames, Priorities
    <3>2. /\ Len(new["throttled"]) = Len(old["throttled"]) + 1
          /\ Len(new["high"]) = Len(old["high"]) - 1 /\ Len(old["high"]) \in Nat
      BY <2>1, <1>2, <1>4, <1>5
    <3> HIDE DEF old, new
    <3>3. Len(new["high"]) + Len(new["normal"]) = Len(old["high"]) + Len(old["normal"]) - 1
      BY <3>1, <3>2
    <3> QED BY <3>2, <3>3, <1>8, <1>9 DEF old, new
  <2>2. CASE from = "normal"
    <3>1. new["high"] = old["high"] /\ Len(old["high"]) \in Nat
      BY <2>2, <1>1, <1>3 DEF QueueNames, Priorities
    <3>2. /\ Len(new["throttled"]) = Len(old["throttled"]) + 1
          /\ Len(new["normal"]) = Len(old["normal"]) - 1 /\ Len(old["normal"]) \in Nat
      BY <2>2, <1>2, <1>4, <1>5
    <3> HIDE DEF old, new
    <3>3. Len(new["high"]) + Len(new["normal"]) = Len(old["high"]) + Len(old["normal"]) - 1
      BY <3>1, <3>2
    <3> QED BY <3>2, <3>3, <1>8, <1>9 DEF old, new
  <2> QED BY <2>1, <2>2 DEF Priorities

\* drainOne, on a scheduler with or without a free slot.
LEMMA DrainOneSound ==
    ASSUME NEW s, Sound(s)
    PROVE  /\ Sound(DrainOne(s)) /\ Awake(DrainOne(s)) /\ SameCalls(s, DrainOne(s))
           /\ DrainOne(s).running = s.running
<1>1. s \in Schedulers /\ MaxProcs \in Nat
  BY MaxProcsNat DEF Sound
<1>2. CASE s.admitted >= MaxProcs \/ ~Queued(s)
  <2> DEFINE t == [s EXCEPT !.drain = FALSE]
  <2>1. DrainOne(s) = t
    BY <1>2 DEF DrainOne
  <2>2. /\ t \in Schedulers /\ t.queue = s.queue /\ t.admitted = s.admitted
        /\ t.running = s.running /\ t.waiting = s.waiting
    BY <1>1 DEF Schedulers
  <2>3. s.admitted \in Nat
    BY <1>1 DEF Schedulers
  <2> HIDE DEF t
  <2>4. Sound(t) /\ SameCalls(s, t)
    BY <2>2 DEF Sound, Distinct, Counted, SameCalls, In
  <2>5. Awake(t)
    BY <2>2, <2>3, <1>1, <1>2 DEF Awake, Queued
  <2> QED BY <2>1, <2>2, <2>4, <2>5
<1>3. CASE s.admitted < MaxProcs /\ Queued(s)
  <2> DEFINE from == NextQueue(s)
             t == [s EXCEPT !.drain = FALSE, !.admitted = @ + 1,
                            !.queue = Shift(@, NextQueue(s))]
  <2>1. s.admitted \in Nat /\ s.queue \in [QueueNames -> Seq(Calls)]
    BY <1>1 DEF Schedulers
  <2>2. DrainOne(s) = ScheduleDrain(t)
    BY <1>3, <1>1, <2>1 DEF DrainOne
  <2>3. from \in Priorities /\ s.queue[from] # <<>>
    BY <1>3 DEF NextQueue, Queued, Priorities
  <2>4. Shift(s.queue, from) \in [QueueNames -> Seq(Calls)]
    <3>1. from \in QueueNames /\ "throttled" \in QueueNames
      BY <2>3 DEF QueueNames
    <3>2. /\ Tail(s.queue[from]) \in Seq(Calls)
          /\ Append(s.queue["throttled"], Head(s.queue[from])) \in Seq(Calls)
      BY <2>1, <2>3, <3>1
    <3> HIDE DEF from
    <3> QED BY <2>1, <3>1, <3>2 DEF Shift
  <2>5. /\ t \in Schedulers /\ t.queue = Shift(s.queue, from)
        /\ t.admitted = s.admitted + 1 /\ t.running = s.running /\ t.waiting = s.waiting
    <3> DEFINE n == Shift(s.queue, from)
    <3>1. t = [s EXCEPT !.drain = FALSE, !.admitted = @ + 1, !.queue = n]
      OBVIOUS
    <3> HIDE DEF n, t
    <3>2. n \in [QueueNames -> Seq(Calls)]
      BY <2>4 DEF n
    <3>3. /\ t \in Schedulers /\ t.queue = n
          /\ t.admitted = s.admitted + 1 /\ t.running = s.running /\ t.waiting = s.waiting
      <4>1. s.admitted + 1 \in Nat
        BY <2>1
      <4>2. t.queue = n
        BY <1>1, <3>1 DEF Schedulers
      <4>3. t.admitted = s.admitted + 1
        BY <1>1, <3>1 DEF Schedulers
      <4>4. t.running = s.running /\ t.waiting = s.waiting
        BY <1>1, <3>1 DEF Schedulers
      <4>5. t \in Schedulers
        BY <1>1, <3>1, <3>2, <4>1 DEF Schedulers
      <4> QED BY <4>2, <4>3, <4>4, <4>5
    <3> QED BY <3>3 DEF n
  <2> HIDE DEF t, from
  <2>6. /\ Distinct(t) /\ SameCalls(s, t)
        /\ Len(t.queue["throttled"]) = Len(s.queue["throttled"]) + 1
        /\ Len(t.queue["high"]) + Len(t.queue["normal"])
           = Len(s.queue["high"]) + Len(s.queue["normal"]) - 1
    BY ONLY <1>1, <2>3, <2>5, Sound(s), ShiftSound DEF Sound
  <2>7. /\ Len(s.queue["throttled"]) \in Nat /\ Len(s.queue["high"]) \in Nat
        /\ Len(s.queue["normal"]) \in Nat /\ Len(t.queue["high"]) \in Nat
        /\ Len(t.queue["normal"]) \in Nat /\ s.running \in Nat /\ s.waiting \in Nat
    BY <1>1, <2>1, <2>5, <2>4 DEF QueueNames, Priorities, Schedulers
  <2>8. Counted(t)
    <3>1. /\ s.admitted = Len(s.queue["throttled"]) + s.running
          /\ s.waiting = Len(s.queue["high"]) + Len(s.queue["normal"])
                         + Len(s.queue["throttled"])
      BY DEF Sound, Counted
    <3>2. /\ t.admitted = s.admitted + 1 /\ t.running = s.running /\ t.waiting = s.waiting
          /\ s.admitted < MaxProcs /\ s.admitted \in Nat /\ MaxProcs \in Nat
      BY <1>3, <1>1, <2>1, <2>5
    <3> DEFINE sh == Len(s.queue["high"])  sn == Len(s.queue["normal"])
               st == Len(s.queue["throttled"])
               th == Len(t.queue["high"])  tn == Len(t.queue["normal"])
               tt == Len(t.queue["throttled"])
    <3> HIDE DEF sh, sn, st, th, tn, tt
    <3>6. /\ tt = st + 1 /\ th + tn = sh + sn - 1
          /\ st \in Nat /\ sh \in Nat /\ sn \in Nat /\ th \in Nat /\ tn \in Nat
      BY <2>6, <2>7 DEF sh, sn, st, th, tn, tt
    <3>7. s.admitted = st + s.running /\ s.waiting = sh + sn + st
      BY <3>1 DEF sh, sn, st
    <3> DEFINE sa == s.admitted  sr == s.running  sw == s.waiting
               ta == t.admitted  tr == t.running  tw == t.waiting
    <3>8. /\ ta = sa + 1 /\ tr = sr /\ tw = sw
          /\ sa = st + sr /\ sw = sh + sn + st
          /\ sa \in Nat /\ sr \in Nat /\ sw \in Nat
      BY <2>7, <3>2, <3>7
    <3> HIDE DEF sa, sr, sw, ta, tr, tw
    <3>9. ta = tt + tr /\ tw = th + tn + tt
      BY ONLY <3>6, <3>8
    <3>3. t.admitted = tt + t.running
      BY <3>9 DEF ta, tr
    <3>4. t.waiting = th + tn + tt
      BY <3>9 DEF tw
    <3>5. t.admitted <= MaxProcs
      BY <3>2
    <3> QED BY <3>3, <3>4, <3>5 DEF Counted, th, tn, tt
  <2>9. Sound(t)
    BY <2>5, <2>6, <2>8 DEF Sound
  <2>10. /\ Sound(ScheduleDrain(t)) /\ Awake(ScheduleDrain(t))
         /\ SameCalls(t, ScheduleDrain(t)) /\ ScheduleDrain(t).running = t.running
    BY <2>9, ScheduleDrainSound
  <2> QED BY <2>2, <2>5, <2>6, <2>10 DEF SameCalls
<1> QED
  <2>1. s.admitted \in Nat
    BY <1>1 DEF Schedulers
  <2> QED BY <1>1, <1>2, <1>3, <2>1

\* run queues one call and leaves nothing asleep.
LEMMA RunSound ==
    ASSUME NEW s, Sound(s), NEW c \in Calls, ~In(c, s), NEW p \in Priorities
    PROVE  /\ Sound(Run(s, c, p)) /\ Awake(Run(s, c, p))
           /\ Run(s, c, p).running = s.running
           /\ \A d \in Calls : In(d, Run(s, c, p)) => In(d, s) \/ d = c
<1> DEFINE t == [s EXCEPT !.waiting = @ + 1, !.queue[p] = Append(@, c)]
           new == [s.queue EXCEPT ![p] = Append(@, c)]
<1>1. /\ s \in Schedulers /\ s.queue \in [QueueNames -> Seq(Calls)] /\ s.waiting \in Nat
      /\ s.running \in Nat /\ s.admitted \in Nat /\ p \in QueueNames
  BY DEF Sound, Schedulers, QueueNames
<1>2. /\ s.queue[p] \in Seq(Calls) /\ Append(s.queue[p], c) \in Seq(Calls)
      /\ \A q \in QueueNames : s.queue[q] \in Seq(Calls) /\ Len(s.queue[q]) \in Nat
  BY <1>1
<1>3. new \in [QueueNames -> Seq(Calls)]
  BY <1>1, <1>2
<1>4. /\ t \in Schedulers /\ t.queue = new /\ t.waiting = s.waiting + 1
      /\ t.admitted = s.admitted /\ t.running = s.running /\ t.drain = s.drain
  <2> DEFINE w == s.waiting + 1
  <2>1. t = [s EXCEPT !.waiting = w, !.queue = new]
    BY <1>1 DEF Schedulers
  <2>2. w \in Nat
    BY <1>1
  <2> HIDE DEF t, new, w
  <2>3. t \in Schedulers /\ t.queue = new /\ t.waiting = w
    BY <2>1, <2>2, <1>1, <1>3 DEF Schedulers
  <2>4. t.admitted = s.admitted /\ t.running = s.running /\ t.drain = s.drain
    BY <2>1, <1>1 DEF Schedulers
  <2> QED BY <2>3, <2>4 DEF w
<1>5. Run(s, c, p) \in {DrainOne(t), ScheduleDrain(t)}
  BY DEF Run
<1>6. /\ Len(new[p]) = Len(s.queue[p]) + 1 /\ new[p][Len(s.queue[p]) + 1] = c
      /\ \A i \in 1 .. Len(s.queue[p]) : new[p][i] = s.queue[p][i]
      /\ \A q \in QueueNames : q # p => new[q] = s.queue[q]
  BY <1>1, <1>2
<1> HIDE DEF t, new
<1>7. \A q \in QueueNames : \A i \in 1 .. Len(new[q]) :
         \/ i \in 1 .. Len(s.queue[q]) /\ new[q][i] = s.queue[q][i]
         \/ q = p /\ i = Len(s.queue[p]) + 1 /\ new[q][i] = c
  BY <1>2, <1>6
<1>8. \A q \in QueueNames : \A i \in 1 .. Len(s.queue[q]) : s.queue[q][i] # c
  BY DEF In
<1>9. Distinct(t)
  <2> SUFFICES ASSUME NEW q \in QueueNames, NEW r \in QueueNames,
                      NEW i \in 1 .. Len(new[q]), NEW j \in 1 .. Len(new[r]),
                      new[q][i] = new[r][j]
               PROVE  q = r /\ i = j
    BY <1>4 DEF Distinct
  <2>1. CASE i \in 1 .. Len(s.queue[q]) /\ j \in 1 .. Len(s.queue[r])
    <3>1. new[q][i] = s.queue[q][i] /\ new[r][j] = s.queue[r][j]
      BY <2>1, <1>2, <1>6
    <3>2. \A a, b \in QueueNames : \A x \in 1 .. Len(s.queue[a]), y \in 1 .. Len(s.queue[b]) :
             s.queue[a][x] = s.queue[b][y] => a = b /\ x = y
      BY DEF Sound, Distinct
    <3>3. s.queue[q][i] = s.queue[r][j]
      BY <3>1
    <3> QED BY <2>1, <3>2, <3>3
  <2>2. CASE ~(i \in 1 .. Len(s.queue[q])) \/ ~(j \in 1 .. Len(s.queue[r]))
    <3>1. \/ i \in 1 .. Len(s.queue[q]) /\ new[q][i] = s.queue[q][i]
          \/ q = p /\ i = Len(s.queue[p]) + 1 /\ new[q][i] = c
      BY <1>7
    <3>2. \/ j \in 1 .. Len(s.queue[r]) /\ new[r][j] = s.queue[r][j]
          \/ r = p /\ j = Len(s.queue[p]) + 1 /\ new[r][j] = c
      BY <1>7
    <3>3. CASE ~(i \in 1 .. Len(s.queue[q]))
      <4>1. q = p /\ i = Len(s.queue[p]) + 1 /\ new[r][j] = c
        BY <3>1, <3>3
      <4>2. ~(j \in 1 .. Len(s.queue[r]) /\ new[r][j] = s.queue[r][j])
        BY <4>1, <1>8
      <4> QED BY <3>2, <4>1, <4>2
    <3>4. CASE ~(j \in 1 .. Len(s.queue[r]))
      <4>1. r = p /\ j = Len(s.queue[p]) + 1 /\ new[q][i] = c
        BY <3>2, <3>4
      <4>2. ~(i \in 1 .. Len(s.queue[q]) /\ new[q][i] = s.queue[q][i])
        BY <4>1, <1>8
      <4> QED BY <3>1, <4>1, <4>2
    <3> QED BY <2>2, <3>3, <3>4
  <2> QED BY <2>1, <2>2
<1>10. \A d \in Calls : In(d, t) => In(d, s) \/ d = c
  BY <1>4, <1>7 DEF In
<1>11. Counted(t)
  <2> DEFINE sh == Len(s.queue["high"])  sn == Len(s.queue["normal"])
             st == Len(s.queue["throttled"])
             th == Len(new["high"])  tn == Len(new["normal"])
             w == s.waiting
  <2>1. /\ s.admitted = st + s.running /\ s.waiting = sh + sn + st
        /\ s.admitted <= MaxProcs
    BY DEF Sound, Counted
  <2>2. /\ sh \in Nat /\ sn \in Nat /\ st \in Nat
        /\ new["throttled"] = s.queue["throttled"]
    BY <1>2, <1>6 DEF QueueNames, Priorities
  <2>3. \/ th = sh + 1 /\ tn = sn
        \/ th = sh /\ tn = sn + 1
    BY <1>6 DEF QueueNames, Priorities
  <2>5. w \in Nat /\ w = sh + sn + st
    BY <2>1, <1>1
  <2> HIDE DEF sh, sn, st, th, tn, w
  <2>4. th + tn + st = w + 1
    BY <2>2, <2>3, <2>5
  <2> QED BY <2>1, <2>2, <2>4, <1>4 DEF Counted, th, tn, st, w
<1>12. Sound(t)
  BY <1>4, <1>9, <1>11 DEF Sound
<1>13. CASE Run(s, c, p) = DrainOne(t)
  BY <1>4, <1>10, <1>12, <1>13, DrainOneSound DEF SameCalls
<1>14. CASE Run(s, c, p) = ScheduleDrain(t)
  BY <1>4, <1>10, <1>12, <1>14, ScheduleDrainSound DEF SameCalls
<1> QED
  BY <1>5, <1>13, <1>14

\* A start takes its call out of the queues and moves one count to another.
LEMMA BeginSound ==
    ASSUME NEW s, Sound(s), Awake(s), s.queue["throttled"] # <<>>
    PROVE  /\ Sound(Begin(s)) /\ Awake(Begin(s)) /\ SameCalls(s, Begin(s))
           /\ Begin(s).running = s.running + 1
           /\ Head(s.queue["throttled"]) \in Calls
           /\ In(Head(s.queue["throttled"]), s)
           /\ ~In(Head(s.queue["throttled"]), Begin(s))
<1> DEFINE t == Begin(s)
           old == s.queue["throttled"]
           new == [s.queue EXCEPT !["throttled"] = Tail(@)]
           T == "throttled"
<1>1. /\ s \in Schedulers /\ s.queue \in [QueueNames -> Seq(Calls)] /\ s.waiting \in Nat
      /\ s.running \in Nat /\ s.admitted \in Nat /\ T \in QueueNames
  BY DEF Sound, Schedulers, QueueNames
<1>2. /\ old \in Seq(Calls) /\ Len(old) \in Nat /\ Len(old) > 0 /\ Tail(old) \in Seq(Calls)
      /\ Head(old) \in Calls /\ Head(old) = old[1]
      /\ \A q \in QueueNames : s.queue[q] \in Seq(Calls) /\ Len(s.queue[q]) \in Nat
  BY <1>1
<1>3. new \in [QueueNames -> Seq(Calls)]
  BY <1>1, <1>2
<1>4. /\ new[T] = Tail(old) /\ Len(new[T]) = Len(old) - 1
      /\ \A i \in 1 .. Len(new[T]) : new[T][i] = old[i + 1]
      /\ \A q \in QueueNames : q # T => new[q] = s.queue[q]
  BY <1>1, <1>2
<1>5. /\ s.admitted = Len(old) + s.running
      /\ s.waiting = Len(s.queue["high"]) + Len(s.queue["normal"]) + Len(old)
      /\ s.admitted <= MaxProcs
  BY DEF Sound, Counted
<1>6. /\ Len(s.queue["high"]) \in Nat /\ Len(s.queue["normal"]) \in Nat
      /\ new["high"] = s.queue["high"] /\ new["normal"] = s.queue["normal"]
  BY <1>2, <1>4 DEF QueueNames, Priorities
<1>7. Less(s.waiting) = s.waiting - 1 /\ s.waiting - 1 \in Nat
  <2> DEFINE sh == Len(s.queue["high"])  sn == Len(s.queue["normal"])  st == Len(old)
  <2>1. sh \in Nat /\ sn \in Nat /\ st \in Nat /\ st > 0 /\ s.waiting = sh + sn + st
    BY <1>2, <1>5, <1>6
  <2> HIDE DEF sh, sn, st
  <2> QED BY <2>1 DEF Less
<1>8. /\ t \in Schedulers /\ t.queue = new /\ t.waiting = s.waiting - 1
      /\ t.admitted = s.admitted /\ t.running = s.running + 1 /\ t.drain = s.drain
  <2>1. t = [s EXCEPT !.queue = new, !.waiting = Less(@), !.running = @ + 1]
    BY <1>1 DEF Begin, Schedulers
  <2> DEFINE w == Less(s.waiting)  n == s.running + 1
  <2>2. t = [s EXCEPT !.queue = new, !.waiting = w, !.running = n]
    BY <1>1, <2>1 DEF Schedulers
  <2>3. w = s.waiting - 1 /\ w \in Nat /\ n = s.running + 1 /\ n \in Nat
    BY <1>1, <1>7
  <2> HIDE DEF t, new, w, n
  <2>4. t \in Schedulers /\ t.queue = new /\ t.waiting = w /\ t.running = n
    BY <2>2, <2>3, <1>1, <1>3 DEF Schedulers
  <2>5. t.admitted = s.admitted /\ t.drain = s.drain
    BY <2>2, <1>1 DEF Schedulers
  <2> QED BY <2>3, <2>4, <2>5
<1> DEFINE iOf(q, i) == IF q = T THEN i + 1 ELSE i
<1>9. \A q \in QueueNames : \A i \in 1 .. Len(new[q]) :
         iOf(q, i) \in 1 .. Len(s.queue[q]) /\ new[q][i] = s.queue[q][iOf(q, i)]
  BY <1>2, <1>4
<1>10. \A q, r \in QueueNames : \A i \in 1 .. Len(s.queue[q]), j \in 1 .. Len(s.queue[r]) :
          s.queue[q][i] = s.queue[r][j] => q = r /\ i = j
  BY DEF Sound, Distinct
<1>11. Distinct(t)
  <2> SUFFICES ASSUME NEW q \in QueueNames, NEW r \in QueueNames,
                      NEW i \in 1 .. Len(new[q]), NEW j \in 1 .. Len(new[r]),
                      new[q][i] = new[r][j]
               PROVE  q = r /\ i = j
    <3> HIDE DEF t, new
    <3> QED BY <1>8 DEF Distinct
  <2> DEFINE x == iOf(q, i)  y == iOf(r, j)
  <2>1. /\ x \in 1 .. Len(s.queue[q]) /\ y \in 1 .. Len(s.queue[r])
        /\ s.queue[q][x] = s.queue[r][y]
    BY <1>9
  <2> HIDE DEF x, y
  <2>2. q = r /\ x = y
    BY <2>1, <1>10
  <2>3. Len(new[q]) \in Nat /\ Len(new[r]) \in Nat
    BY <1>2, <1>4
  <2> QED BY <2>2, <2>3 DEF x, y
<1>12. SameCalls(s, t)
  <2> HIDE DEF iOf, new, t
  <2> QED BY <1>8, <1>9 DEF SameCalls, In
<1>13. In(Head(old), s)
  BY <1>1, <1>2 DEF In
<1>14. ~In(Head(old), t)
  <2> SUFFICES ASSUME NEW q \in QueueNames, NEW i \in 1 .. Len(new[q]), new[q][i] = old[1]
               PROVE  FALSE
    BY <1>2, <1>8 DEF In
  <2> DEFINE x == iOf(q, i)
  <2>1. x \in 1 .. Len(s.queue[q]) /\ s.queue[q][x] = s.queue[T][1] /\ 1 \in 1 .. Len(s.queue[T])
    BY <1>2, <1>9
  <2>2. q = T => x > 1
    BY <1>2, <1>4
  <2> HIDE DEF x
  <2>3. q = T /\ x = 1
    BY <2>1, <1>1, <1>10
  <2> QED BY <2>2, <2>3
<1>15. Counted(t)
  <2> DEFINE sh == Len(s.queue["high"])  sn == Len(s.queue["normal"])  st == Len(old)
             tt == Len(new[T])
  <2>1. /\ sh \in Nat /\ sn \in Nat /\ st \in Nat /\ tt = st - 1
        /\ s.waiting = sh + sn + st /\ s.admitted = st + s.running
    BY <1>2, <1>4, <1>5, <1>6
  <2>2. Len(t.queue["high"]) = sh /\ Len(t.queue["normal"]) = sn /\ Len(t.queue[T]) = tt
    BY <1>6, <1>8
  <2> HIDE DEF sh, sn, st, tt
  <2> DEFINE w == s.waiting  a == s.admitted  n == s.running
  <2>3. /\ w \in Nat /\ a \in Nat /\ n \in Nat
        /\ w = sh + sn + st /\ a = st + n
    BY <2>1, <1>1
  <2> HIDE DEF w, a, n
  <2>4. w - 1 = sh + sn + tt /\ a = tt + (n + 1)
    BY <2>1, <2>3
  <2> QED BY <2>2, <2>4, <1>5, <1>8 DEF Counted, w, a, n
<1>16. Awake(t)
  BY <1>6, <1>8 DEF Awake, Queued, Priorities
<1> QED
  BY <1>2, <1>8, <1>11, <1>12, <1>13, <1>14, <1>15, <1>16 DEF Sound

\* The end of execute gives one slot back and wakes whoever waits for it.
LEMMA ReleaseSound ==
    ASSUME NEW s, Sound(s), s.running > 0
    PROVE  /\ Sound(Release(s)) /\ Awake(Release(s)) /\ SameCalls(s, Release(s))
           /\ Release(s).running = s.running - 1
<1> DEFINE t == [s EXCEPT !.running = Less(@), !.admitted = Less(@)]
           st == Len(s.queue["throttled"])
<1>1. /\ s \in Schedulers /\ s.running \in Nat /\ s.admitted \in Nat /\ st \in Nat
      /\ MaxProcs \in Nat
  BY MaxProcsNat DEF Sound, Schedulers, QueueNames
<1>2. s.admitted = st + s.running /\ s.admitted <= MaxProcs
  BY DEF Sound, Counted
<1> HIDE DEF st
<1>3. /\ Less(s.running) = s.running - 1 /\ s.running - 1 \in Nat
      /\ Less(s.admitted) = s.admitted - 1 /\ s.admitted - 1 \in Nat
  BY <1>1, <1>2 DEF Less
<1>4. /\ t \in Schedulers /\ t.queue = s.queue /\ t.waiting = s.waiting
      /\ t.running = s.running - 1 /\ t.admitted = s.admitted - 1
  BY <1>1, <1>3 DEF Schedulers
<1> HIDE DEF t
<1>5. t.admitted = st + t.running /\ t.admitted <= MaxProcs
  BY <1>1, <1>2, <1>4
<1>6. Sound(t) /\ SameCalls(s, t)
  BY <1>4, <1>5 DEF Sound, Counted, Distinct, SameCalls, In, st
<1>7. Release(s) = ScheduleDrain(t)
  BY DEF Release, t
<1> QED
  BY <1>4, <1>6, <1>7, ScheduleDrainSound DEF SameCalls

-----------------------------------------------------------------------------
(* The calls. *)

\* An answer ends neither the child nor a kill, and none is taken back.
LEMMA SettleKeeps ==
    ASSUME NEW r \in Command, NEW a \in {"resolved", "rejected"}
    PROVE  /\ Settle(r, a) \in Command /\ Settled(Settle(r, a))
           /\ Settle(r, a).child = r.child /\ Settle(r, a).killed = r.killed
<1>1. CASE Settled(r)
  BY <1>1 DEF Settle
<1>2. CASE ~Settled(r)
  <2> DEFINE t == IF r.timer = "armed" THEN "off" ELSE r.timer
  <2>1. Settle(r, a) = [r EXCEPT !.promise = a, !.timer = t]
    BY <1>2 DEF Settle
  <2>2. t \in {"off", "armed", "fired"}
    BY DEF Command
  <2> HIDE DEF t
  <2> QED BY <2>1, <2>2 DEF Command, Settled
<1> QED
  BY <1>1, <1>2

\* The call of a process slot.
Holds(r) == r.child \in {"alive", "failed"}

\* One call's part of a step, with what the scheduler made of it.
LEMMA CallStep ==
    ASSUME Inv, NEW c \in Calls, NEW r \in Command, cmd' = [cmd EXCEPT ![c] = r],
           Sound(sched'), Awake(sched'),
           \A d \in Calls : d # c /\ In(d, sched') => In(d, sched),
           In(c, sched') => r.child = "none" /\ r.timer = "off" /\ r.promise = "pending",
           Settled(r) /\ r.child = "alive" => r.killed, r.promise # "none",
           \/ Holds(r) /\ Holds(cmd[c]) /\ sched'.running = sched.running
           \/ ~Holds(r) /\ ~Holds(cmd[c]) /\ sched'.running = sched.running
           \/ Holds(r) /\ ~Holds(cmd[c]) /\ sched'.running = sched.running + 1
           \/ ~Holds(r) /\ Holds(cmd[c]) /\ sched'.running = sched.running - 1
    PROVE  Inv'
<1>1. cmd \in [Calls -> Command] /\ sched.running = Cardinality(Holders)
  BY DEF Inv
<1>2. /\ cmd' \in [Calls -> Command] /\ cmd'[c] = r
      /\ \A d \in Calls : d # c => cmd'[d] = cmd[d]
  BY <1>1
<1>3. IsFiniteSet(Holders)
  BY CallsFinite, FS_Subset DEF Holders
<1>4. sched'.running = Cardinality(Holders')
  <2>1. CASE Holds(r) /\ Holds(cmd[c]) /\ sched'.running = sched.running
    <3>1. Holders' = Holders
      BY <2>1, <1>2 DEF Holders, Holds
    <3> QED BY <2>1, <3>1, <1>1
  <2>2. CASE ~Holds(r) /\ ~Holds(cmd[c]) /\ sched'.running = sched.running
    <3>1. Holders' = Holders
      BY <2>2, <1>2 DEF Holders, Holds
    <3> QED BY <2>2, <3>1, <1>1
  <2>3. CASE Holds(r) /\ ~Holds(cmd[c]) /\ sched'.running = sched.running + 1
    <3>1. Holders' = Holders \cup {c}
      BY <2>3, <1>2 DEF Holders, Holds
    <3>2. c \notin Holders
      BY <2>3 DEF Holders, Holds
    <3>3. Cardinality(Holders \cup {c}) = Cardinality(Holders) + 1
      BY <3>2, <1>3, FS_AddElement
    <3> QED BY <2>3, <3>1, <3>3, <1>1
  <2>4. CASE ~Holds(r) /\ Holds(cmd[c]) /\ sched'.running = sched.running - 1
    <3>1. Holders' = Holders \ {c}
      BY <2>4, <1>2 DEF Holders, Holds
    <3>2. c \in Holders
      BY <2>4 DEF Holders, Holds
    <3>3. Cardinality(Holders \ {c}) = Cardinality(Holders) - 1
      BY <3>2, <1>3, FS_RemoveElement
    <3> QED BY <2>4, <3>1, <3>3, <1>1
  <2> QED BY <2>1, <2>2, <2>3, <2>4
<1>5. Unstarted'
  BY <1>2 DEF Unstarted, Inv
<1>6. AnsweredChildIsDying' /\ Fresh'
  BY <1>2 DEF AnsweredChildIsDying, Fresh, Inv, Settled
<1> QED
  BY <1>2, <1>4, <1>5, <1>6 DEF Inv

\* A call that has started, or was never submitted, is in no queue.
LEMMA NotQueued ==
    ASSUME Inv, NEW c \in Calls,
           cmd[c].child # "none" \/ cmd[c].timer # "off" \/ cmd[c].promise # "pending"
    PROVE  ~In(c, sched)
BY DEF Inv, Unstarted

\* A call that holds a slot is counted.
LEMMA HolderCounted ==
    ASSUME Inv, NEW c \in Calls, Holds(cmd[c])
    PROVE  sched.running > 0
<1>1. c \in Holders /\ IsFiniteSet(Holders) /\ sched.running = Cardinality(Holders)
  BY CallsFinite, FS_Subset DEF Holders, Holds, Inv
<1> QED
  BY <1>1, FS_EmptySet, FS_CardinalityType

\* Nothing runs or waits at first.
LEMMA InitInv == Init => Inv
<1> SUFFICES ASSUME Init PROVE Inv
  OBVIOUS
<1>1. /\ sched.queue = [q \in QueueNames |-> <<>>] /\ sched.admitted = 0
      /\ sched.running = 0 /\ sched.waiting = 0 /\ sched.drain = FALSE
      /\ cmd = [c \in Calls |-> NoCommand]
  BY DEF Init, SchedInit
<1>2. sched \in Schedulers
  BY DEF Init, SchedInit, Schedulers
<1>3. \A q \in QueueNames : sched.queue[q] = <<>> /\ Len(sched.queue[q]) = 0
  BY <1>1
<1>4. Distinct(sched) /\ \A c \in Calls : ~In(c, sched)
  BY <1>3 DEF Distinct, In
<1>5. Counted(sched) /\ Awake(sched)
  BY <1>1, <1>3, MaxProcsNat DEF Counted, Awake, Queued, QueueNames, Priorities
<1>6. cmd \in [Calls -> Command]
  BY <1>1 DEF NoCommand, Command
<1>7. Holders = {}
  BY <1>1 DEF Holders, NoCommand
<1>8. Unstarted /\ Fresh /\ AnsweredChildIsDying
  BY <1>1, <1>4 DEF Unstarted, Fresh, AnsweredChildIsDying, NoCommand, Settled
<1> QED
  BY <1>1, <1>2, <1>4, <1>5, <1>6, <1>7, <1>8, FS_EmptySet DEF Inv, Sound

\* Every step.
LEMMA StepInv == Inv /\ [Next]_vars => Inv'
<1> SUFFICES ASSUME Inv, [Next]_vars PROVE Inv'
  OBVIOUS
<1>1. Sound(sched) /\ Awake(sched) /\ sched \in Schedulers /\ sched.running \in Nat
  BY DEF Inv, Sound, Schedulers
<1>2. cmd \in [Calls -> Command] /\ \A d \in Calls : cmd[d] \in Command
  BY DEF Inv
<1>3. ASSUME NEW c \in Calls, NEW p \in Priorities, Submit(c, p) PROVE Inv'
  <2> DEFINE r == [cmd[c] EXCEPT !.promise = "pending"]
  <2>1. ~In(c, sched)
    BY <1>3, NotQueued DEF Submit
  <2>2. cmd[c].child = "none" /\ cmd[c].timer = "off"
    BY <1>3 DEF Submit, Inv, Fresh
  <2>3. sched' = Run(sched, c, p) /\ cmd' = [cmd EXCEPT ![c] = r]
    BY <1>3, <1>2 DEF Submit
  <2>4. /\ r \in Command /\ r.child = cmd[c].child /\ r.timer = cmd[c].timer
        /\ r.promise = "pending"
    BY <1>2 DEF Command
  <2>5. /\ Sound(sched') /\ Awake(sched') /\ sched'.running = sched.running
        /\ \A d \in Calls : In(d, sched') => In(d, sched) \/ d = c
    BY <2>1, <2>3, <1>1, RunSound
  <2> HIDE DEF r
  <2>6. ~Holds(r) /\ ~Holds(cmd[c]) /\ ~Settled(r)
    BY <2>2, <2>4 DEF Holds, Settled
  <2> QED BY <2>2, <2>3, <2>4, <2>5, <2>6, CallStep
<1>4. ASSUME Immediate PROVE Inv'
  <2>1. sched' = DrainOne(sched) /\ cmd' = cmd
    BY <1>4 DEF Immediate
  <2>2. /\ Sound(sched') /\ Awake(sched') /\ SameCalls(sched, sched')
        /\ sched'.running = sched.running
    BY <2>1, <1>1, DrainOneSound
  <2>3. Holders' = Holders
    BY <2>1 DEF Holders
  <2>4. Unstarted' /\ Fresh' /\ AnsweredChildIsDying'
    BY <2>1, <2>2 DEF Inv, Unstarted, Fresh, SameCalls, AnsweredChildIsDying
  <2>5. sched'.running = Cardinality(Holders)
    BY <2>2 DEF Inv
  <2>6. cmd' \in [Calls -> Command]
    BY <2>1, <1>2
  <2> HIDE <1>1
  <2> QED BY <2>2, <2>3, <2>4, <2>5, <2>6 DEF Inv
\* A start: both outcomes take the call out of the throttle first.
<1>5. ASSUME NEW c \in Calls, sched.queue["throttled"] # <<>>,
             c = Head(sched.queue["throttled"])
      PROVE  /\ Sound(Begin(sched)) /\ Awake(Begin(sched)) /\ SameCalls(sched, Begin(sched))
             /\ Begin(sched).running = sched.running + 1
             /\ ~In(c, Begin(sched))
             /\ cmd[c].child = "none" /\ cmd[c].promise = "pending" /\ ~Holds(cmd[c])
  <2>1. In(c, sched)
    BY <1>1, <1>5, BeginSound
  <2>2. cmd[c].child = "none" /\ cmd[c].promise = "pending"
    BY <2>1 DEF Inv, Unstarted
  <2> QED BY <1>1, <1>5, <2>2, BeginSound DEF Holds
<1>6. ASSUME NEW c \in Calls, Spawn(c) PROVE Inv'
  <2>1. PICK o \in {"alive", "failed"} :
           cmd' = [cmd EXCEPT ![c].child = o, ![c].timer = "armed"]
    BY <1>6 DEF Spawn
  <2> DEFINE r == [cmd[c] EXCEPT !.child = o, !.timer = "armed"]
  <2>2. cmd' = [cmd EXCEPT ![c] = r] /\ sched' = Begin(sched)
    BY <2>1, <1>2, <1>6 DEF Spawn
  <2>3. r \in Command /\ r.child = o /\ r.promise = cmd[c].promise
    BY <1>2 DEF Command
  <2>4. /\ Sound(sched') /\ Awake(sched') /\ SameCalls(sched, sched')
        /\ sched'.running = sched.running + 1 /\ ~In(c, sched')
        /\ cmd[c].promise = "pending" /\ ~Holds(cmd[c])
    BY <1>5, <1>6, <2>2 DEF Spawn
  <2> HIDE DEF r
  <2>5. Holds(r) /\ ~Settled(r) /\ r.promise # "none"
    BY <2>3, <2>4 DEF Holds, Settled
  <2> QED BY <2>2, <2>3, <2>4, <2>5, CallStep DEF SameCalls
<1>7. ASSUME NEW c \in Calls, SpawnThrows(c) PROVE Inv'
  <2> DEFINE r0 == [cmd[c] EXCEPT !.error = TRUE, !.child = "closed"]
             r == Settle(r0, "rejected")
             s == Begin(sched)
  <2>1. cmd' = [cmd EXCEPT ![c] = r] /\ sched' = Release(s)
    BY <1>7, <1>2 DEF SpawnThrows
  <2>2. r0 \in Command /\ r0.child = "closed"
    BY <1>2 DEF Command
  <2> HIDE DEF r0
  <2>3. r \in Command /\ r.child = "closed" /\ Settled(r)
    BY <2>2, SettleKeeps
  <2>4. /\ Sound(s) /\ Awake(s) /\ SameCalls(sched, s) /\ s.running = sched.running + 1
        /\ ~In(c, s) /\ ~Holds(cmd[c])
    BY <1>5, <1>7 DEF SpawnThrows
  <2> HIDE DEF r, s
  <2>5. s.running > 0 /\ s.running - 1 = sched.running
    BY <1>1, <2>4
  <2>6. /\ Sound(sched') /\ Awake(sched') /\ SameCalls(s, sched')
        /\ sched'.running = sched.running
    BY <2>1, <2>4, <2>5, ReleaseSound
  <2>7. ~Holds(r) /\ r.promise # "none" /\ r.child # "alive"
    BY <2>3 DEF Holds, Settled
  <2>8. ~In(c, sched') /\ \A d \in Calls : In(d, sched') => In(d, sched)
    BY <2>4, <2>6 DEF SameCalls
  <2> QED BY <2>1, <2>3, <2>4, <2>6, <2>7, <2>8, CallStep
\* The steps of a call that leave the scheduler alone.
<1>8. ASSUME NEW c \in Calls, NEW r \in Command, cmd' = [cmd EXCEPT ![c] = r], sched' = sched,
             ~In(c, sched), Settled(r) /\ r.child = "alive" => r.killed, r.promise # "none",
             Holds(r) <=> Holds(cmd[c])
      PROVE  Inv'
  BY <1>1, <1>8, CallStep
<1>9. ASSUME NEW c \in Calls, Timeout(c) PROVE Inv'
  <2> DEFINE r0 == [cmd[c] EXCEPT !.timer = "fired", !.killed = TRUE]
             r == Settle(r0, "rejected")
  <2>1. cmd' = [cmd EXCEPT ![c] = r] /\ sched' = sched
    BY <1>9, <1>2 DEF Timeout
  <2>2. r0 \in Command /\ r0.child = cmd[c].child /\ r0.killed
    BY <1>2 DEF Command
  <2> HIDE DEF r0
  <2>3. r \in Command /\ r.child = cmd[c].child /\ r.killed /\ Settled(r)
    BY <2>2, SettleKeeps
  <2> HIDE DEF r
  <2>4. ~In(c, sched)
    BY <1>9, NotQueued DEF Timeout
  <2> QED BY <2>1, <2>3, <2>4, <1>8 DEF Holds, Settled
<1>10. ASSUME NEW c \in Calls, Overflow(c) PROVE Inv'
  <2> DEFINE r == [cmd[c] EXCEPT !.truncated = TRUE, !.killed = TRUE]
  <2>1. cmd' = [cmd EXCEPT ![c] = r] /\ sched' = sched
    BY <1>10, <1>2 DEF Overflow
  <2>2. r \in Command /\ r.child = cmd[c].child /\ r.killed /\ r.promise = cmd[c].promise
    BY <1>2 DEF Command
  <2>3. ~In(c, sched) /\ cmd[c].promise # "none"
    BY <1>10, NotQueued DEF Overflow, Inv, Fresh
  <2> HIDE DEF r
  <2> QED BY <2>1, <2>2, <2>3, <1>8 DEF Holds
<1>11. ASSUME NEW c \in Calls, SpawnError(c) PROVE Inv'
  <2> DEFINE r == [cmd[c] EXCEPT !.error = TRUE]
  <2>1. cmd' = [cmd EXCEPT ![c] = r] /\ sched' = sched
    BY <1>11, <1>2 DEF SpawnError
  <2>2. r \in Command /\ r.child = cmd[c].child /\ r.promise = cmd[c].promise
    BY <1>2 DEF Command
  <2>3. ~In(c, sched) /\ cmd[c].promise # "none" /\ cmd[c].child = "failed"
    BY <1>11, NotQueued DEF SpawnError, Inv, Fresh
  <2> HIDE DEF r
  <2> QED BY <2>1, <2>2, <2>3, <1>8 DEF Holds
<1>12. ASSUME NEW c \in Calls, Close(c) PROVE Inv'
  <2> DEFINE r0 == [cmd[c] EXCEPT !.child = "closed"]
             r == Settle(r0, Verdict(cmd[c]))
  <2>1. cmd' = [cmd EXCEPT ![c] = r] /\ sched' = sched
    BY <1>12, <1>2 DEF Close
  <2>2. r0 \in Command /\ r0.child = "closed" /\ Verdict(cmd[c]) \in {"resolved", "rejected"}
    BY <1>2 DEF Command, Verdict
  <2> HIDE DEF r0
  <2>3. r \in Command /\ r.child = "closed" /\ Settled(r)
    BY <2>2, SettleKeeps
  <2> HIDE DEF r
  <2>4. ~In(c, sched) /\ ~Holds(cmd[c])
    BY <1>12, NotQueued DEF Close, Holds
  <2> QED BY <2>1, <2>3, <2>4, <1>8 DEF Holds, Settled
\* The steps that give the slot back.
<1>13. ASSUME NEW c \in Calls, NEW r \in Command, cmd' = [cmd EXCEPT ![c] = r],
              sched' = Release(sched), ~In(c, sched), r.child # "alive", r.promise # "none",
              ~Holds(r), Holds(cmd[c])
       PROVE  Inv'
  <2>1. sched.running > 0
    BY <1>13, HolderCounted
  <2>2. /\ Sound(sched') /\ Awake(sched') /\ SameCalls(sched, sched')
        /\ sched'.running = sched.running - 1
    BY <1>1, <1>13, <2>1, ReleaseSound
  <2> QED BY <1>13, <2>2, CallStep DEF SameCalls
<1>14. ASSUME NEW c \in Calls, Exit(c) PROVE Inv'
  <2>1. PICK k \in {"accepted", "refused"} :
           cmd' = [cmd EXCEPT ![c].child = "exited", ![c].code = k]
    BY <1>14 DEF Exit
  <2> DEFINE r == [cmd[c] EXCEPT !.child = "exited", !.code = k]
  <2>2. cmd' = [cmd EXCEPT ![c] = r] /\ sched' = Release(sched)
    BY <2>1, <1>2, <1>14 DEF Exit
  <2>3. r \in Command /\ r.child = "exited" /\ r.promise = cmd[c].promise
    BY <1>2 DEF Command
  <2>4. ~In(c, sched) /\ cmd[c].promise # "none" /\ Holds(cmd[c])
    BY <1>14, NotQueued DEF Exit, Inv, Fresh, Holds
  <2> HIDE DEF r
  <2> QED BY <2>2, <2>3, <2>4, <1>13 DEF Holds
<1>15. ASSUME NEW c \in Calls, CloseUnspawned(c) PROVE Inv'
  <2> DEFINE r0 == [cmd[c] EXCEPT !.child = "closed"]
             r == Settle(r0, Verdict(cmd[c]))
  <2>1. cmd' = [cmd EXCEPT ![c] = r] /\ sched' = Release(sched)
    BY <1>15, <1>2 DEF CloseUnspawned
  <2>2. r0 \in Command /\ r0.child = "closed" /\ Verdict(cmd[c]) \in {"resolved", "rejected"}
    BY <1>2 DEF Command, Verdict
  <2> HIDE DEF r0
  <2>3. r \in Command /\ r.child = "closed" /\ Settled(r)
    BY <2>2, SettleKeeps
  <2> HIDE DEF r
  <2>4. ~In(c, sched) /\ Holds(cmd[c])
    BY <1>15, NotQueued DEF CloseUnspawned, Holds
  <2> QED BY <2>1, <2>3, <2>4, <1>13 DEF Holds, Settled
<1>16. ASSUME UNCHANGED vars PROVE Inv'
  <2>1. sched' = sched /\ cmd' = cmd
    BY <1>16 DEF vars
  <2>2. Holders' = Holders
    BY <2>1 DEF Holders
  <2>3. Unstarted' /\ Fresh' /\ AnsweredChildIsDying'
    BY <2>1 DEF Inv, Unstarted, Fresh, AnsweredChildIsDying
  <2> QED BY <2>1, <2>2, <2>3 DEF Inv
<1> QED
  BY <1>3, <1>4, <1>6, <1>7, <1>9, <1>10, <1>11, <1>12, <1>14, <1>15, <1>16 DEF Next

-----------------------------------------------------------------------------
(* Theorems. *)

\* The invariant holds throughout.
LEMMA Invariance == Spec => []Inv
BY InitInv, StepInv, PTL DEF Spec

\* The states of the scheduler and of the calls have their types (the fields of
\* GitProcessScheduler and of runGitCommand's closure).
THEOREM TypeCorrect == Spec => []TypeOK
<1>1. Inv => TypeOK
  BY DEF Inv, TypeOK, Sound
<1> QED BY <1>1, Invariance, PTL

\* activeCount and pendingCount are exact for any number of calls and slots.
THEOREM CountsCorrect == Spec => []CountsAreExact
<1>1. Inv => CountsAreExact
  BY DEF Inv, CountsAreExact, Sound, Counted
<1> QED BY <1>1, Invariance, PTL

\* No more processes run than the policy's maxProcessConcurrency.
THEOREM BoundCorrect == Spec => []ProcessesAreBounded
<1>1. ASSUME Inv PROVE ProcessesAreBounded
  <2> DEFINE A == {c \in Calls : cmd[c].child = "alive"}
  <2>1. A \subseteq Holders /\ IsFiniteSet(Holders)
    BY CallsFinite, FS_Subset DEF Holders
  <2>2. Cardinality(A) <= Cardinality(Holders) /\ Cardinality(A) \in Nat
        /\ Cardinality(Holders) \in Nat
    BY <2>1, FS_Subset, FS_CardinalityType
  <2>3. /\ Len(sched.queue["throttled"]) \in Nat /\ sched.running \in Nat
        /\ sched.admitted \in Nat /\ MaxProcs \in Nat
    BY <1>1, MaxProcsNat DEF Inv, Sound, Schedulers, QueueNames
  <2> HIDE DEF A
  <2>4. sched.running <= MaxProcs
    BY <1>1, <2>3 DEF Inv, Sound, Counted
  <2> QED BY <1>1, <2>2, <2>3, <2>4 DEF Inv, ProcessesAreBounded, A
<1> QED BY <1>1, Invariance, PTL

\* A queued call and a free slot never wait for each other.
THEOREM WakeupCorrect == Spec => []NoLostWakeup
<1>1. Inv => NoLostWakeup
  BY DEF Inv, Awake, NoLostWakeup
<1> QED BY <1>1, Invariance, PTL

\* An answered call's child that still runs was sent SIGKILL.
THEOREM AnswerCorrect == Spec => []AnsweredChildIsDying
<1>1. Inv => AnsweredChildIsDying
  BY DEF Inv
<1> QED BY <1>1, Invariance, PTL
=============================================================================
