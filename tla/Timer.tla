---- MODULE Timer ----
(***************************************************************************)
(* core::Timer (Core/Timer.cpp): a priority queue of tasks that update(),  *)
(* called by a main loop on every tick, runs when they are due.  Callbacks *)
(* run inside update() and may schedule, cancel and clear in turn, so      *)
(* update() is not one step.  Ids are handed out from 1 and never reused.  *)
(***************************************************************************)
EXTENDS Integers, FiniteSets

CONSTANTS
  Delays,     \* delays asked for
  Intervals,  \* intervals asked for; a one-shot timer has interval 0
  MaxId,      \* bound: timers scheduled
  MaxTime     \* bound: the clock

ASSUME TimerAssumption ==
  /\ Delays \subseteq Nat /\ Intervals \subseteq Nat
  /\ MaxId \in Nat /\ MaxTime \in Nat

VARIABLES
  timerQueue,    \* m_timerQueue
  cancelled,     \* m_cancelledTimers
  nextTimerId,   \* m_nextTimerId
  clock,         \* steady_clock
  now,           \* the time update() read when it began, Idle outside of it
  current,       \* the task whose callback runs, if any
  silenced       \* ids passed to cancel() or removed by clear() (ghost)

vars == <<timerQueue, cancelled, nextTimerId, clock, now, current, silenced>>

Ids == 1..MaxId
Times == 0..MaxTime
Idle == -1

\* A task, with the time of its first run and the number of its runs (ghosts).
Tasks == [id : Ids, time : Nat, interval : Intervals \cup {0}, first : Nat,
          runs : Nat]

Init ==
  /\ timerQueue = {}
  /\ cancelled = {}
  /\ nextTimerId = 1
  /\ clock = 0
  /\ now = Idle
  /\ current = {}
  /\ silenced = {}

----------------------------------------------------------------------------
Tick ==
  /\ clock < MaxTime
  /\ clock' = clock + 1
  /\ UNCHANGED <<timerQueue, cancelled, nextTimerId, now, current, silenced>>

(* Calls made between updates or by a callback. *)
Callable == now = Idle \/ current # {}

Schedule(delay, interval) ==
  /\ Callable
  /\ nextTimerId <= MaxId
  /\ timerQueue' = timerQueue \cup
       {[id |-> nextTimerId, time |-> clock + delay, interval |-> interval,
         first |-> clock + delay, runs |-> 0]}
  /\ nextTimerId' = nextTimerId + 1
  /\ UNCHANGED <<cancelled, clock, now, current, silenced>>

\* cancel() only notes the id; it does not ask whether the timer still exists.
Cancel(id) ==
  /\ Callable
  /\ id < nextTimerId
  /\ cancelled' = cancelled \cup {id}
  /\ silenced' = silenced \cup {id}
  /\ UNCHANGED <<timerQueue, nextTimerId, clock, now, current>>

\* clear() does not know the task whose callback calls it: that one may be
\* queued again when the callback returns, a cancel() of it being forgotten.
Clear ==
  /\ Callable
  /\ timerQueue' = {}
  /\ cancelled' = {}
  /\ silenced' = (1..nextTimerId - 1) \ {t.id : t \in current}
  /\ UNCHANGED <<nextTimerId, clock, now, current>>

----------------------------------------------------------------------------
(* update() *)

BeginUpdate ==
  /\ now = Idle
  /\ now' = clock
  /\ UNCHANGED <<timerQueue, cancelled, nextTimerId, clock, current, silenced>>

DueLate(t) == t.time < now   \* variant: executeTime >= now ends the loop

Due(t) == t.time <= now

\* The task at the top of the queue, when it is due.
Top(t) ==
  /\ now # Idle /\ current = {}
  /\ t \in timerQueue
  /\ \A u \in timerQueue : t.time <= u.time
  /\ Due(t)

DropCancelled ==
  \E t \in timerQueue :
    /\ Top(t)
    /\ t.id \in cancelled
    /\ timerQueue' = timerQueue \ {t}
    /\ cancelled' = cancelled \ {t.id}
    /\ UNCHANGED <<nextTimerId, clock, now, current, silenced>>

RunWithoutPop ==   \* variant: the task stays queued while it runs
  \E t \in timerQueue :
    /\ Top(t)
    /\ t.id \notin cancelled
    /\ current' = {[t EXCEPT !.runs = @ + 1]}
    /\ UNCHANGED <<timerQueue, cancelled, nextTimerId, clock, now, silenced>>

RunAny ==   \* variant: a cancelled timer is found out only if it repeats
  \E t \in timerQueue :
    /\ Top(t)
    /\ t.interval = 0 \/ t.id \notin cancelled
    /\ timerQueue' = timerQueue \ {t}
    /\ current' = {[t EXCEPT !.runs = @ + 1]}
    /\ UNCHANGED <<cancelled, nextTimerId, clock, now, silenced>>

Run ==
  \E t \in timerQueue :
    /\ Top(t)
    /\ t.id \notin cancelled
    /\ timerQueue' = timerQueue \ {t}
    /\ current' = {[t EXCEPT !.runs = @ + 1]}
    /\ UNCHANGED <<cancelled, nextTimerId, clock, now, silenced>>

\* A repeating task whose callback returned true is queued for its next time.
RepeatsFromNow(t) ==   \* variant: the next time is counted from update()
  IF t.interval > 0 THEN {[t EXCEPT !.time = now + t.interval]} ELSE {}

Repeats(t) ==
  IF t.interval > 0 THEN {[t EXCEPT !.time = @ + t.interval]} ELSE {}

CallbackReturns(result) ==
  \E t \in current :
    /\ timerQueue' = IF result THEN timerQueue \cup Repeats(t) ELSE timerQueue
    /\ current' = {}
    /\ UNCHANGED <<cancelled, nextTimerId, clock, now, silenced>>

EndUpdate ==
  /\ now # Idle /\ current = {}
  /\ \A t \in timerQueue : ~Due(t)
  /\ now' = Idle
  /\ UNCHANGED <<timerQueue, cancelled, nextTimerId, clock, current, silenced>>

UpdateStep ==
  DropCancelled \/ Run \/ EndUpdate \/ \E result \in BOOLEAN : CallbackReturns(result)

Call ==
  \/ \E delay \in Delays, interval \in Intervals \cup {0} : Schedule(delay, interval)
  \/ \E id \in Ids : Cancel(id)
  \/ Clear

Next == Tick \/ Call \/ BeginUpdate \/ UpdateStep

\* A main loop calls update() for ever, and callbacks return.
Spec == Init /\ [][Next]_vars /\ WF_vars(BeginUpdate) /\ WF_vars(UpdateStep)

----------------------------------------------------------------------------
\* The state has its C++ shape: an id has one task at most, and the running
\* task is not queued.
TypeOK ==
  /\ timerQueue \subseteq Tasks /\ current \subseteq Tasks
  /\ Cardinality({t.id : t \in timerQueue \cup current})
       = Cardinality(timerQueue) + Cardinality(current)
  /\ Cardinality(current) <= 1
  /\ cancelled \subseteq 1..nextTimerId - 1
  /\ nextTimerId \in 1..MaxId + 1
  /\ clock \in Times
  /\ now \in Times \cup {Idle}

\* A callback does not start after its timer was cancelled or cleared, even
\* when it was a callback of the same update that did it, its own included.
\* Only the timer whose own callback calls clear() is exempt.
SilencedStaysSilent ==
  [][\A t \in current' \ current : t.id \notin silenced]_vars

\* A repeating timer does not drift or skip: after n runs it waits for the
\* time first + n * interval, however late or often update() was called.
OnSchedule ==
  \A t \in timerQueue : t.time = t.first + t.runs * t.interval

\* A timer that is due gets run, cancelled or cleared: it does not stay queued
\* for that time.
DueTimerLeaves ==
  \A id \in Ids, time \in Times :
    LET Waits == \E t \in timerQueue : t.id = id /\ t.time = time
    IN  Waits /\ time <= clock ~> ~Waits

====
