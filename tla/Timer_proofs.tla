---- MODULE Timer_proofs ----
(***************************************************************************)
(* The timer for any delays and intervals and any number of timers.  What  *)
(* makes its invariants inductive: an id belongs to one task at most,      *)
(* queued or running (OneTask), so that forgetting a cancelled id with the *)
(* task it was found on forgets no other task's; every queued or running   *)
(* task that was silenced is still noted as cancelled (StillNoted); and    *)
(* the running task is one interval behind its count of runs (Scheduled).  *)
(***************************************************************************)
EXTENDS Timer, FiniteSetTheorems, TLAPS

OneTask ==
  /\ IsFiniteSet(timerQueue)
  /\ current = {} \/ \E t \in Tasks : current = {t}
  /\ timerQueue \cap current = {}
  /\ \A t, u \in timerQueue \cup current : t.id = u.id => t = u
  /\ \A t \in timerQueue \cup current : t.id < nextTimerId

StillNoted ==
  /\ silenced \subseteq 1..nextTimerId - 1
  /\ \A t \in timerQueue \cup current : t.id \in silenced => t.id \in cancelled

Scheduled ==
  \A t \in current : 1 <= t.runs /\ t.time = t.first + (t.runs - 1) * t.interval

Shape ==
  /\ timerQueue \subseteq Tasks /\ current \subseteq Tasks
  /\ cancelled \subseteq 1..nextTimerId - 1
  /\ nextTimerId \in 1..MaxId + 1
  /\ clock \in Times
  /\ now \in Times \cup {Idle}

IInv == Shape /\ OneTask /\ StillNoted /\ Scheduled /\ OnSchedule

\* No timer at the start.
LEMMA InitIInv == Init => IInv
<1> SUFFICES ASSUME Init PROVE IInv
  OBVIOUS
<1>1. MaxId + 1 \in Nat /\ 1 \in 1..MaxId + 1 /\ 0 \in Times
  BY TimerAssumption DEF Times
<1>2. Shape
  BY <1>1 DEF Init, Shape
<1>3. OneTask
  BY FS_EmptySet DEF Init, OneTask
<1> QED
  BY <1>2, <1>3 DEF Init, IInv, StillNoted, Scheduled, OnSchedule

\* The parts of the invariant say nothing else than tasks, ids and times.
LEMMA SameTasks ==
  ASSUME IInv, Shape', UNCHANGED <<timerQueue, current, nextTimerId>>,
         silenced' = silenced, cancelled \subseteq cancelled'
  PROVE  IInv'
<1>1. OneTask' /\ Scheduled' /\ OnSchedule'
  BY DEF IInv, OneTask, Scheduled, OnSchedule
<1>2. StillNoted'
  BY DEF IInv, StillNoted
<1> QED
  BY <1>1, <1>2 DEF IInv

\* The clock and the two ends of update() touch no timer.
LEMMA TimeIInv == ASSUME IInv, Tick \/ BeginUpdate \/ EndUpdate PROVE IInv'
<1>1. UNCHANGED <<timerQueue, current, nextTimerId, silenced, cancelled>>
  BY DEF Tick, BeginUpdate, EndUpdate
<1>2. clock' \in Times
  BY TimerAssumption DEF IInv, Shape, Tick, BeginUpdate, EndUpdate, Times
<1>3. now' \in Times \cup {Idle}
  BY DEF IInv, Shape, Tick, BeginUpdate, EndUpdate
<1>4. Shape'
  BY <1>1, <1>2, <1>3 DEF IInv, Shape
<1> QED
  BY <1>1, <1>4, SameTasks

\* A new timer has a new id, so cancelling an old one does not concern it.
LEMMA ScheduleIInv ==
  ASSUME IInv, NEW delay \in Delays, NEW interval \in Intervals \cup {0},
         Schedule(delay, interval)
  PROVE  IInv'
<1> DEFINE task == [id |-> nextTimerId, time |-> clock + delay, interval |-> interval,
                    first |-> clock + delay, runs |-> 0]
<1>1. /\ timerQueue' = timerQueue \cup {task} /\ nextTimerId' = nextTimerId + 1
      /\ UNCHANGED <<cancelled, clock, now, current, silenced>>
      /\ nextTimerId <= MaxId
  BY DEF Schedule
<1>2. nextTimerId \in Nat /\ 1 <= nextTimerId /\ MaxId \in Nat
  BY TimerAssumption DEF IInv, Shape
<1>3. clock + delay \in Nat
  BY TimerAssumption DEF IInv, Shape, Times
<1>4. task \in Tasks
  BY <1>1, <1>2, <1>3 DEF Tasks, Ids
<1>5. /\ task.id = nextTimerId /\ task.runs = 0 /\ task.first = clock + delay
      /\ task.time = clock + delay /\ task.interval = interval
  OBVIOUS
<1> HIDE DEF task
<1>6. \A t \in timerQueue \cup current : t.id \in Nat /\ t.id < nextTimerId /\ t.id # task.id
  BY <1>2, <1>5 DEF IInv, Shape, OneTask, Tasks, Ids
<1>7. Shape'
  <2>1. cancelled' \subseteq 1..nextTimerId' - 1
    BY <1>1, <1>2 DEF IInv, Shape
  <2>2. nextTimerId' \in 1..MaxId + 1
    BY <1>1, <1>2
  <2> QED
    BY <1>1, <1>4, <2>1, <2>2 DEF IInv, Shape
<1>8. OneTask'
  <2>1. IsFiniteSet(timerQueue')
    BY <1>1, FS_AddElement DEF IInv, OneTask
  <2>2. current' = {} \/ \E t \in Tasks : current' = {t}
    BY <1>1 DEF IInv, OneTask
  <2>3. timerQueue' \cap current' = {}
    BY <1>1, <1>6 DEF IInv, OneTask
  <2>4. \A t, u \in timerQueue' \cup current' : t.id = u.id => t = u
    BY <1>1, <1>6 DEF IInv, OneTask
  <2>5. \A t \in timerQueue' \cup current' : t.id < nextTimerId'
    BY <1>1, <1>2, <1>5, <1>6
  <2> QED
    BY <2>1, <2>2, <2>3, <2>4, <2>5 DEF OneTask
<1>9. StillNoted'
  <2>1. silenced' \subseteq 1..nextTimerId' - 1
    BY <1>1, <1>2 DEF IInv, StillNoted
  <2>2. task.id \notin silenced
    BY <1>2, <1>5 DEF IInv, StillNoted
  <2> QED
    BY <1>1, <2>1, <2>2 DEF IInv, StillNoted
<1>10. Scheduled'
  BY <1>1 DEF IInv, Scheduled
<1>11. OnSchedule'
  <2>1. interval \in Nat
    BY TimerAssumption
  <2>2. task.time = task.first + task.runs * task.interval
    BY <1>3, <1>5, <2>1
  <2> QED
    BY <1>1, <2>2 DEF IInv, OnSchedule
<1> QED
  BY <1>7, <1>8, <1>9, <1>10, <1>11 DEF IInv

\* cancel() notes the id that it silences.
LEMMA CancelIInv == ASSUME IInv, NEW id \in Ids, Cancel(id) PROVE IInv'
<1>1. /\ cancelled' = cancelled \cup {id} /\ silenced' = silenced \cup {id}
      /\ UNCHANGED <<timerQueue, nextTimerId, clock, now, current>>
      /\ id \in 1..nextTimerId - 1
  BY TimerAssumption DEF Cancel, Ids, IInv, Shape
<1>2. Shape'
  BY <1>1 DEF IInv, Shape
<1>3. OneTask' /\ Scheduled' /\ OnSchedule'
  BY <1>1 DEF IInv, OneTask, Scheduled, OnSchedule
<1>4. StillNoted'
  BY <1>1 DEF IInv, StillNoted
<1> QED
  BY <1>2, <1>3, <1>4 DEF IInv

\* clear() silences all but the running task.
LEMMA ClearIInv == ASSUME IInv, Clear PROVE IInv'
<1>1. /\ timerQueue' = {} /\ cancelled' = {}
      /\ silenced' = (1..nextTimerId - 1) \ {t.id : t \in current}
      /\ UNCHANGED <<nextTimerId, clock, now, current>>
  BY DEF Clear
<1>2. Shape'
  BY <1>1 DEF IInv, Shape
<1>3. OneTask'
  <2>1. IsFiniteSet(timerQueue')
    BY <1>1, FS_EmptySet
  <2> QED
    BY <1>1, <2>1 DEF IInv, OneTask
<1>4. StillNoted' /\ Scheduled' /\ OnSchedule'
  BY <1>1 DEF IInv, StillNoted, Scheduled, OnSchedule
<1> QED
  BY <1>2, <1>3, <1>4 DEF IInv

\* The cancelled id that is forgotten was that of the dropped task alone.
LEMMA DropCancelledIInv == ASSUME IInv, DropCancelled PROVE IInv'
<1>1. PICK t \in timerQueue :
        /\ timerQueue' = timerQueue \ {t} /\ cancelled' = cancelled \ {t.id}
        /\ UNCHANGED <<nextTimerId, clock, now, current, silenced>>
  BY DEF DropCancelled
<1>2. Shape'
  BY <1>1 DEF IInv, Shape
<1>3. OneTask'
  <2>1. IsFiniteSet(timerQueue')
    BY <1>1, FS_RemoveElement DEF IInv, OneTask
  <2> QED
    BY <1>1, <2>1 DEF IInv, OneTask
<1>4. StillNoted'
  <2>1. \A u \in timerQueue' \cup current' : u \in timerQueue \cup current /\ u # t
    BY <1>1 DEF IInv, OneTask
  <2>2. \A u \in timerQueue' \cup current' : u.id # t.id
    BY <2>1 DEF IInv, OneTask
  <2> QED
    BY <1>1, <2>1, <2>2 DEF IInv, StillNoted
<1>5. Scheduled' /\ OnSchedule'
  BY <1>1 DEF IInv, Scheduled, OnSchedule
<1> QED
  BY <1>2, <1>3, <1>4, <1>5 DEF IInv

\* A task that is to run leaves the queue.
LEMMA RunIInv == ASSUME IInv, Run PROVE IInv'
<1>1. PICK t \in timerQueue :
        /\ timerQueue' = timerQueue \ {t} /\ current' = {[t EXCEPT !.runs = @ + 1]}
        /\ UNCHANGED <<cancelled, nextTimerId, clock, now, silenced>>
        /\ current = {}
  BY DEF Run, Top
<1> DEFINE task == [t EXCEPT !.runs = @ + 1]
<1>2. t \in Tasks /\ t.runs \in Nat
  BY DEF IInv, Shape, Tasks
<1>3. /\ task \in Tasks /\ task.id = t.id /\ task.time = t.time /\ task.runs = t.runs + 1
      /\ task.first = t.first /\ task.interval = t.interval
  BY <1>2 DEF Tasks
<1>4. current' = {task}
  BY <1>1
<1> HIDE DEF task
<1>5. \A u \in timerQueue' : u \in timerQueue /\ u # t /\ u.id # t.id
  BY <1>1 DEF IInv, OneTask
<1>6. Shape'
  BY <1>1, <1>3, <1>4 DEF IInv, Shape
<1>7. OneTask'
  <2>1. IsFiniteSet(timerQueue')
    BY <1>1, FS_RemoveElement DEF IInv, OneTask
  <2>2. timerQueue' \cap current' = {}
    BY <1>3, <1>4, <1>5
  <2>3. \A u, v \in timerQueue' \cup current' : u.id = v.id => u = v
    BY <1>3, <1>4, <1>5 DEF IInv, OneTask
  <2>4. \A u \in timerQueue' \cup current' : u.id < nextTimerId'
    BY <1>1, <1>3, <1>4, <1>5 DEF IInv, OneTask
  <2> QED
    BY <1>3, <1>4, <2>1, <2>2, <2>3, <2>4 DEF OneTask
<1>8. StillNoted'
  BY <1>1, <1>3, <1>4, <1>5 DEF IInv, StillNoted
<1>9. Scheduled'
  <2>1. t.time = t.first + t.runs * t.interval
    BY DEF IInv, OnSchedule
  <2>2. (t.runs + 1) - 1 = t.runs /\ 1 <= t.runs + 1
    BY <1>2
  <2> QED
    BY <1>3, <1>4, <2>1, <2>2 DEF Scheduled
<1>10. OnSchedule'
  BY <1>5 DEF IInv, OnSchedule
<1> QED
  BY <1>6, <1>7, <1>8, <1>9, <1>10 DEF IInv

\* A repeating task comes back one interval later, with the id it had.
LEMMA CallbackReturnsIInv ==
  ASSUME IInv, NEW result \in BOOLEAN, CallbackReturns(result)
  PROVE  IInv'
<1>1. PICK t \in current :
        /\ timerQueue' = IF result THEN timerQueue \cup Repeats(t) ELSE timerQueue
        /\ current' = {}
        /\ UNCHANGED <<cancelled, nextTimerId, clock, now, silenced>>
  BY DEF CallbackReturns
<1>2. t \in Tasks /\ current = {t}
  BY DEF IInv, Shape, OneTask
<1>3. CASE timerQueue' = timerQueue
  <2>1. Shape' /\ OneTask'
    BY <1>1, <1>3 DEF IInv, Shape, OneTask
  <2>2. StillNoted' /\ Scheduled' /\ OnSchedule'
    BY <1>1, <1>3 DEF IInv, StillNoted, Scheduled, OnSchedule
  <2> QED
    BY <2>1, <2>2 DEF IInv
<1> DEFINE task == [t EXCEPT !.time = @ + t.interval]
<1>4. CASE timerQueue' = timerQueue \cup {task}
  <2>1. t.time \in Nat /\ t.first \in Nat /\ t.runs \in Nat /\ t.interval \in Nat
    <3>1. /\ t.time \in Nat /\ t.first \in Nat /\ t.runs \in Nat
          /\ t.interval \in Intervals \cup {0}
      BY <1>2 DEF Tasks
    <3>2. \A i \in Intervals \cup {0} : i \in Nat
      BY TimerAssumption
    <3> QED
      BY <3>1, <3>2
  <2>2. /\ task \in Tasks /\ task.id = t.id /\ task.time = t.time + t.interval
        /\ task.runs = t.runs /\ task.first = t.first /\ task.interval = t.interval
    BY <1>2, <2>1 DEF Tasks
  <2> HIDE DEF task
  <2>3. \A u \in timerQueue : u.id # t.id
    BY <1>2 DEF IInv, OneTask
  <2>4. Shape'
    BY <1>1, <1>4, <2>2 DEF IInv, Shape
  <2>5. OneTask'
    <3>1. IsFiniteSet(timerQueue')
      BY <1>4, FS_AddElement DEF IInv, OneTask
    <3>2. \A u, v \in timerQueue' : u.id = v.id => u = v
      BY <1>4, <2>2, <2>3 DEF IInv, OneTask
    <3>3. \A u \in timerQueue' : u.id < nextTimerId'
      BY <1>1, <1>2, <1>4, <2>2 DEF IInv, OneTask
    <3> QED
      BY <1>1, <3>1, <3>2, <3>3 DEF OneTask
  <2>6. StillNoted'
    BY <1>1, <1>2, <1>4, <2>2 DEF IInv, StillNoted
  <2>7. Scheduled'
    BY <1>1 DEF Scheduled
  <2>8. OnSchedule'
    <3>1. t.time = t.first + (t.runs - 1) * t.interval
      BY <1>2 DEF IInv, Scheduled
    <3>2. (t.runs - 1) * t.interval + t.interval = t.runs * t.interval
      BY <2>1
    <3>3. (t.runs - 1) * t.interval \in Int
      BY <2>1
    <3>4. task.time = task.first + task.runs * task.interval
      <4> DEFINE a == (t.runs - 1) * t.interval
      <4>1. a \in Int /\ t.time = t.first + a /\ a + t.interval = t.runs * t.interval
        BY <3>1, <3>2, <3>3
      <4> HIDE DEF a
      <4>2. t.time + t.interval = t.first + (a + t.interval)
        BY <2>1, <4>1
      <4> QED
        BY <2>2, <4>1, <4>2
    <3> QED
      BY <1>4, <3>4 DEF IInv, OnSchedule
  <2> QED
    BY <2>4, <2>5, <2>6, <2>7, <2>8 DEF IInv
<1> QED
  BY <1>1, <1>3, <1>4 DEF Repeats

\* IInv is an invariant of the timer.
THEOREM Invariance == Spec => []IInv
<1>1. ASSUME IInv, [Next]_vars PROVE IInv'
  <2>1. CASE Tick \/ BeginUpdate \/ EndUpdate
    BY <1>1, <2>1, TimeIInv
  <2>2. CASE Call
    BY <1>1, <2>2, ScheduleIInv, CancelIInv, ClearIInv DEF Call
  <2>3. CASE DropCancelled \/ Run \/ \E result \in BOOLEAN : CallbackReturns(result)
    BY <1>1, <2>3, DropCancelledIInv, RunIInv, CallbackReturnsIInv
  <2>4. CASE UNCHANGED vars
    BY <1>1, <2>4 DEF vars, IInv, Shape, OneTask, StillNoted, Scheduled, OnSchedule
  <2> QED
    BY <1>1, <2>1, <2>2, <2>3, <2>4 DEF Next, UpdateStep
<1> QED
  BY <1>1, InitIInv, PTL DEF Spec

\* Tasks that differ in their ids are as many as the ids.
LEMMA IdsCount ==
  ASSUME NEW S, IsFiniteSet(S), \A t, u \in S : t.id = u.id => t = u
  PROVE  IsFiniteSet({t.id : t \in S}) /\ Cardinality({t.id : t \in S}) = Cardinality(S)
<1> DEFINE ids == {t.id : t \in S}
           f == [t \in S |-> t.id]
<1>1. f \in Surjection(S, ids)
  BY DEF Surjection
<1>2. f \in Injection(S, ids)
  BY DEF Injection, IsInjective
<1>3. f \in Bijection(S, ids)
  BY <1>1, <1>2 DEF Bijection
<1> HIDE DEF f, ids
<1>4. IsFiniteSet(ids) /\ Cardinality(ids) = Cardinality(S)
  BY <1>1, <1>2, <1>3, FS_Surjection, FS_Injection
<1> QED
  BY <1>4 DEF ids

\* Timer.h: an id has one task at most, and the running task is not queued,
\* for any number of timers.
THEOREM TypeCorrect == Spec => []TypeOK
<1>1. ASSUME IInv PROVE TypeOK
  <2> DEFINE S == timerQueue \cup current
  <2>1. /\ IsFiniteSet(current) /\ Cardinality(current) <= 1
        /\ Cardinality(current) \in Nat
    <3>1. CASE current = {}
      BY <3>1, FS_EmptySet
    <3>2. CASE current # {}
      <4>1. PICK t \in Tasks : current = {t}
        BY <1>1, <3>2 DEF IInv, OneTask
      <4>2. IsFiniteSet({t}) /\ Cardinality({t}) = 1
        BY FS_Singleton
      <4> QED
        BY <4>1, <4>2
    <3> QED
      BY <3>1, <3>2
  <2>2. IsFiniteSet(timerQueue) /\ Cardinality(timerQueue) \in Nat
    BY <1>1, FS_CardinalityType DEF IInv, OneTask
  <2>3. /\ IsFiniteSet(S)
        /\ Cardinality(S) = Cardinality(timerQueue) + Cardinality(current)
                            - Cardinality(timerQueue \cap current)
    BY <2>1, <2>2, FS_Union
  <2>4. Cardinality(timerQueue \cap current) = 0
    BY <1>1, FS_EmptySet DEF IInv, OneTask
  <2>5. Cardinality(S) = Cardinality(timerQueue) + Cardinality(current)
    BY <2>1, <2>2, <2>3, <2>4
  <2>6. Cardinality({t.id : t \in S}) = Cardinality(S)
    BY <1>1, <2>3, IdsCount DEF IInv, OneTask
  <2> QED
    BY <1>1, <2>1, <2>5, <2>6 DEF IInv, Shape, TypeOK
<1> QED
  BY <1>1, Invariance, PTL

\* Timer.cpp: a repeating timer neither drifts nor skips, for any intervals
\* and however late update() is called.
THEOREM KeepsSchedule == Spec => []OnSchedule
<1>1. IInv => OnSchedule
  BY DEF IInv
<1> QED
  BY <1>1, Invariance, PTL

\* No callback starts after its timer was cancelled or cleared, whoever did
\* it, the callbacks of the same update() included.
THEOREM StaysSilent == Spec => SilencedStaysSilent
<1>1. ASSUME IInv, [Next]_vars
      PROVE  [\A t \in current' \ current : t.id \notin silenced]_vars
  <2> SUFFICES ASSUME NEW t \in current' \ current PROVE t.id \notin silenced
    OBVIOUS
  <2>1. Run
    BY <1>1 DEF Next, Call, UpdateStep, Tick, Schedule, Cancel, Clear, BeginUpdate,
                DropCancelled, CallbackReturns, EndUpdate, vars
  <2>2. PICK u \in timerQueue :
          u.id \notin cancelled /\ current' = {[u EXCEPT !.runs = @ + 1]}
    BY <2>1 DEF Run
  <2>3. t.id = u.id
    <3>1. u \in Tasks
      BY <1>1 DEF IInv, Shape
    <3>2. [u EXCEPT !.runs = @ + 1].id = u.id
      BY <3>1 DEF Tasks
    <3> QED
      BY <2>2, <3>2
  <2> QED
    BY <1>1, <2>2, <2>3 DEF IInv, StillNoted
<1> QED
  BY <1>1, Invariance, PTL DEF Spec, SilencedStaysSilent

====
