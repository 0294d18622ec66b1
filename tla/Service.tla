---- MODULE Service ----
(***************************************************************************)
(* net::Service (Network/Service.h, Service.cpp): what ServerService and   *)
(* ClientService have in common.  A service runs its handlers on a strand, *)
(* except for the one that waits for a stop signal: that one runs on any   *)
(* io thread, and waits once.  The service tells its owner through the     *)
(* service event queue.                                                    *)
(***************************************************************************)
EXTENDS Queues, SessionIds

CONSTANT
  StopCauses   \* bound: what can stop the service, of {"signal", "error"}

ASSUME StopCausesAssumption == StopCauses \subseteq {"signal", "error"}

VARIABLES
  serviceRunning,  \* m_running
  starter,         \* start(): "idle" before it, "posting" inside, then "done"
  signal,          \* m_stopSignals: "armed", then the steps of its one handler
  serviceStrand,   \* handlers queued on m_strand
  serviceEvents    \* the owner's ServiceEventQueue

baseVars == <<serviceRunning, starter, signal, serviceStrand, serviceEvents>>

CloseServiceHandler == [op |-> "close"]
ServiceCloseEvent == [type |-> "Close", sid |-> NoSession]

\* createInstance(): asyncWaitForStopSignals() waits from then on.
BaseInit ==
  /\ serviceRunning = FALSE
  /\ starter = "idle"
  /\ signal = "armed"
  /\ serviceStrand = <<>>
  /\ serviceEvents = <<>>

----------------------------------------------------------------------------
\* start(): m_running.exchange(true), then post the first handler.
StartService ==
  /\ starter = "idle"
  /\ starter' = "posting"
  /\ serviceRunning' = TRUE
  /\ UNCHANGED <<signal, serviceStrand, serviceEvents>>

PostFirst(handler) ==
  /\ starter = "posting"
  /\ starter' = "done"
  /\ serviceStrand' = Append(serviceStrand, handler)
  /\ UNCHANGED <<serviceRunning, signal, serviceEvents>>

\* A stop signal arrives while it is waited for.
RaiseSignal ==
  /\ "signal" \in StopCauses
  /\ signal = "armed"
  /\ signal' = "raised"
  /\ UNCHANGED <<serviceRunning, starter, serviceStrand, serviceEvents>>

\* The wait's handler calls stop(), after a signal and after an error alike.
SignalStopsAgain ==   \* variant: no exchange, close() may be posted twice
  /\ signal = "raised"
  /\ signal' = "stopping"
  /\ serviceRunning' = FALSE
  /\ UNCHANGED <<starter, serviceStrand, serviceEvents>>

SignalStops ==
  /\ signal = "raised"
  /\ signal' = IF serviceRunning THEN "stopping" ELSE "over"
  /\ serviceRunning' = FALSE
  /\ UNCHANGED <<starter, serviceStrand, serviceEvents>>

SignalPostsClose ==
  /\ signal = "stopping"
  /\ signal' = "over"
  /\ serviceStrand' = Append(serviceStrand, CloseServiceHandler)
  /\ UNCHANGED <<serviceRunning, starter, serviceEvents>>

----------------------------------------------------------------------------
(* What the handlers on the strand have in common. *)

ServiceRuns(S) == serviceStrand # <<>> /\ Head(serviceStrand) \in S

\* handleError(): a fatal error calls stop(), which posts close() behind the
\* handlers that are already queued; other errors do nothing.
HandleServiceError(result) ==
  LET stops == result = "fatal" /\ serviceRunning
  IN  /\ serviceStrand' = IF stops
                          THEN Append(Tail(serviceStrand), CloseServiceHandler)
                          ELSE Tail(serviceStrand)
      /\ serviceRunning' = (serviceRunning /\ ~stops)

\* close() cancels the wait for a signal, and tells the owner in the end.
CloseKeepsWaiting ==   \* variant: the wait for a signal is not cancelled
  /\ ServiceRuns({CloseServiceHandler})
  /\ serviceStrand' = Tail(serviceStrand)
  /\ serviceEvents' = Append(serviceEvents, ServiceCloseEvent)
  /\ UNCHANGED <<serviceRunning, starter, signal>>

CloseBase ==
  /\ ServiceRuns({CloseServiceHandler})
  /\ serviceStrand' = Tail(serviceStrand)
  /\ signal' = IF signal = "armed" THEN "raised" ELSE signal
  /\ serviceEvents' = Append(serviceEvents, ServiceCloseEvent)
  /\ UNCHANGED <<serviceRunning, starter>>

\* The owner pops an event.
TakeEvent(e) ==
  /\ serviceEvents # <<>> /\ Head(serviceEvents) = e
  /\ serviceEvents' = Tail(serviceEvents)
  /\ UNCHANGED <<serviceRunning, starter, signal, serviceStrand>>

Faults == IF "error" \in StopCauses THEN {"fatal"} ELSE {}

----------------------------------------------------------------------------
\* The state has the shape of the C++ object.
BaseTypeOK(handlers, events) ==
  /\ serviceRunning \in BOOLEAN
  /\ starter \in {"idle", "posting", "done"}
  /\ signal \in {"armed", "raised", "stopping", "over"}
  /\ serviceStrand \in Seq(handlers)
  /\ serviceEvents \in Seq(events)

\* The service closes once: close() is queued or about to be only after
\* m_running was cleared, although the signal handler, a failing operation and
\* the owner may all stop it, and its owner is told once.
CloseOnce ==
  /\ AtMostOnce(serviceStrand, {CloseServiceHandler})
  /\ Occurs(serviceStrand, {CloseServiceHandler}) =>
       /\ ~serviceRunning /\ signal # "stopping"
       /\ ~Occurs(serviceEvents, {ServiceCloseEvent})
  /\ AtMostOnce(serviceEvents, {ServiceCloseEvent})
  /\ Occurs(serviceEvents, {ServiceCloseEvent}) => ~serviceRunning

====
