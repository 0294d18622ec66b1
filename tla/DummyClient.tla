---- MODULE DummyClient ----
(***************************************************************************)
(* The load generator (DummyClient/Client.cpp): on each connection a       *)
(* repeating timer sends a chat message until a send fails.  Only the end  *)
(* of its service stops the client.                                        *)
(***************************************************************************)
EXTENDS ClientLoop

VARIABLES
  timers,               \* sessions whose repeating timer is in m_timer
  sending,              \* session whose timer's callback is inside send()
  nextClientMessageId   \* m_nextClientMessageId

timerVars == <<timers, sending, nextClientMessageId>>
vars == <<loopVars, timerVars, netVars>>

\* A message is named by its client_message_id.
ASSUME ChunksAssumption == Chunks \subseteq Nat

Init ==
  /\ LoopInit
  /\ timers = {}
  /\ sending = NoSession
  /\ nextClientMessageId = 1

----------------------------------------------------------------------------
\* handleServiceEvent(ServiceCloseEvent&): stop(), which does not stop the
\* service: it has stopped already.
HandleServiceClose ==
  /\ mainPc = "service" /\ OwnerIdle
  /\ TakeServiceEvent(ServiceCloseEvent)
  /\ clientRunning' = FALSE
  /\ UNCHANGED <<mainPc, members, messages, toStop, timerVars, sessionVars>>

\* handleServiceEvent(ServiceConnectEvent&): scheduleRepeating() comes last.
HandleConnect(s) ==
  /\ Connect(s)
  /\ timers' = timers \cup {s}
  /\ UNCHANGED <<sending, nextClientMessageId>>

\* handleSessionEvent(SessionCloseEvent&)
HandleClose(s) == RemoveSession(s) /\ UNCHANGED timerVars

\* assert(session): an abort in a debug build, a null pointer in another.
ReceiveCrashes(s) == ReceiveWithoutSession(s, "crashed") /\ UNCHANGED timerVars

----------------------------------------------------------------------------
(* m_timer.update(), at the end of a tick.  A timer that is due runs once, *)
(* or several times when ticks were late.                                  *)

InCallback(s) ==
  /\ mainPc = "timers" /\ OwnerIdle /\ sending = NoSession
  /\ s \in timers

\* The client is not running: the timer is not repeated.
TimerStops(s) ==
  /\ InCallback(s) /\ ~clientRunning
  /\ timers' = timers \ {s}
  /\ UNCHANGED <<sending, nextClientMessageId, loopVars, netVars>>

\* SessionManager::send() finds the session and asks whether it is running.
TimerSends(s) ==
  /\ InCallback(s) /\ clientRunning
  /\ s \in members /\ running[s]
  /\ nextClientMessageId \in Chunks
  /\ nextClientMessageId' = nextClientMessageId + 1
  /\ sending' = s
  /\ UNCHANGED <<timers, loopVars, netVars>>

\* It does not, or is not: send() returns false, and so does the callback.
FailedTimerRepeats(s) ==   \* variant: the callback returns true all the same
  /\ InCallback(s) /\ clientRunning
  /\ ~(s \in members /\ running[s])
  /\ UNCHANGED vars

TimerFails(s) ==
  /\ InCallback(s) /\ clientRunning
  /\ ~(s \in members /\ running[s])
  /\ nextClientMessageId' = nextClientMessageId + 1
  /\ timers' = timers \ {s}
  /\ UNCHANGED <<sending, loopVars, netVars>>

\* Session::send() asks m_running again; what it finds is not reported, so
\* the callback returns true.
FinishSend(s) ==
  /\ OwnerIdle /\ sending = s
  /\ IF running[s] THEN Send(s, nextClientMessageId - 1) ELSE UNCHANGED sessionVars
  /\ sending' = NoSession
  /\ UNCHANGED <<timers, nextClientMessageId, loopVars, serviceVars>>

HandleMessagesDone == MessagesDone("timers") /\ UNCHANGED timerVars

UpdateDone == sending = NoSession /\ TickDone("timers") /\ UNCHANGED timerVars

----------------------------------------------------------------------------
MainStep ==
  \/ CommonStep /\ UNCHANGED timerVars
  \/ HandleServiceClose \/ HandleMessagesDone \/ UpdateDone
  \/ \E s \in Sessions :
       \/ HandleConnect(s) \/ HandleClose(s) \/ ReceiveCrashes(s)
       \/ TimerStops(s) \/ TimerSends(s) \/ TimerFails(s) \/ FinishSend(s)

\* After "done" only what the io threads still hold runs; a crash ends all.
Halted == mainPc \in {"done", "crashed"} /\ UNCHANGED vars

Next ==
  \/ MainStep \/ Halted
  \/ BackgroundStep /\ UNCHANGED timerVars

Spec == Init /\ [][Next]_vars

\* A timer that is due leaves the queue (module Timer): on a later tick, if
\* not on this one, its callback runs.
Fairness ==
  /\ WF_vars(MainStep)
  /\ BackgroundFairness
  /\ SF_vars(\E s \in Sessions : TimerFails(s))

FairSpec == Spec /\ Fairness

----------------------------------------------------------------------------
\* The main thread's data has its C++ shape.
TypeOK ==
  /\ LoopTypeOK
  /\ mainPc \in {"service", "session", "packets", "messages", "timers",
                 "stopAll", "drain", "drainEvents", "done", "crashed"}
  /\ timers \subseteq Sessions
  /\ sending \in {NoSession} \cup timers
  /\ nextClientMessageId \in Nat

\* The assertions on the life cycle that both clients make, and the dummy
\* client's own: the Close event of the service finds the client running
\* (Client.cpp:140).
LifecycleAsserts ==
  /\ CommonAsserts
  /\ Closed => clientRunning

\* The timer of a session that was closed ends, so that the dead connections
\* of a long run do not leave more and more timers behind, unless the client
\* itself stops.
StaleTimers == {s \in timers : socket[s] = "closed"}

TimersEnd ==
  StaleTimers # {} ~> (StaleTimers = {} \/ ~clientRunning \/ mainPc = "crashed")

\* Once the service stops, by the signal, by a failed resolve or by a failed
\* connect, and whatever becomes of the other connections, the process comes
\* to its end: the main thread is done and no operation is left that would
\* keep the io threads from ending.  It crashes for the two reasons that the
\* server crashes for: a Receive event behind the Close event, and a packet
\* loop that does not end.
ProcessEnds ==
  (starter = "done" /\ ~serviceRunning) ~> (Ended \/ mainPc = "crashed")

====
