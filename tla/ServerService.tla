---- MODULE ServerService ----
(***************************************************************************)
(* net::ServerService (Network/Service.cpp): it accepts connections until  *)
(* a stop signal or an error of the acceptor stops it, and tells its owner *)
(* of each of them.                                                        *)
(***************************************************************************)
EXTENDS Service

VARIABLES
  acceptor,        \* m_acceptor.is_open()
  acceptOp,        \* an async_accept is outstanding
  connected        \* clients whose connection was accepted

serviceVars == <<baseVars, acceptor, acceptOp, connected>>

\* Error codes of handleError: operation_aborted and the listed errors of a
\* connection are ignored ("transient"), bad_descriptor and unknown ones stop.
AcceptErrors == {"aborted", "transient", "fatal"}

AsyncAcceptHandler == [op |-> "asyncAccept"]
AcceptedHandlers == [op : {"onAccepted"}, result : {"ok"}, sid : Sessions]
AcceptErrorHandlers ==
  [op : {"onAccepted"}, result : AcceptErrors, sid : {NoSession}]
OnAcceptedHandlers == AcceptedHandlers \cup AcceptErrorHandlers
ServiceHandlers ==
  {AsyncAcceptHandler, CloseServiceHandler} \cup OnAcceptedHandlers

AcceptEvent(s) == [type |-> "Accept", sid |-> s]

\* createInstance(): the acceptor listens.
ServiceInit ==
  /\ BaseInit
  /\ acceptor = "open"
  /\ acceptOp = FALSE
  /\ connected = {}

----------------------------------------------------------------------------
PostAsyncAccept == PostFirst(AsyncAcceptHandler)

\* asyncAccept(), posted by start().
AsyncAccept ==
  /\ ServiceRuns({AsyncAcceptHandler})
  /\ serviceStrand' = Tail(serviceStrand)
  /\ acceptOp' = serviceRunning
  /\ UNCHANGED <<serviceRunning, starter, signal, acceptor, connected,
                 serviceEvents>>

\* onAccepted() with a socket: an Accept event, then asyncAccept() again.
OnAccepted ==
  /\ ServiceRuns(AcceptedHandlers)
  /\ serviceEvents' = Append(serviceEvents, AcceptEvent(Head(serviceStrand).sid))
  /\ serviceStrand' = Tail(serviceStrand)
  /\ acceptOp' = serviceRunning
  /\ UNCHANGED <<serviceRunning, starter, signal, acceptor, connected>>

OnAcceptErrorAgain ==   \* variant: the next accept does not ask m_running
  /\ ServiceRuns(AcceptErrorHandlers)
  /\ HandleServiceError(Head(serviceStrand).result)
  /\ acceptOp' = TRUE
  /\ UNCHANGED <<starter, signal, acceptor, connected, serviceEvents>>

\* onAccepted() with an error: handleError(), then asyncAccept() all the same.
OnAcceptError ==
  /\ ServiceRuns(AcceptErrorHandlers)
  /\ HandleServiceError(Head(serviceStrand).result)
  /\ acceptOp' = serviceRunning'
  /\ UNCHANGED <<starter, signal, acceptor, connected, serviceEvents>>

\* close(): cancel the signal wait, close the acceptor, tell the owner.
CloseService ==
  /\ CloseBase
  /\ acceptor' = "closed"
  /\ UNCHANGED <<acceptOp, connected>>

\* The operating system completes the accept: a new client, an error, or
\* operation_aborted once the acceptor is closed.
AcceptResults ==
  IF acceptor = "open"
  THEN [op : {"onAccepted"}, result : {"ok"}, sid : Sessions \ connected]
       \cup [op : {"onAccepted"}, result : {"transient"}, sid : {NoSession}]
       \cup [op : {"onAccepted"}, result : Faults, sid : {NoSession}]
  ELSE [op : {"onAccepted"}, result : {"aborted"}, sid : {NoSession}]

CompleteAccept ==
  /\ acceptOp
  /\ acceptOp' = FALSE
  /\ \E h \in AcceptResults :
       /\ serviceStrand' = Append(serviceStrand, h)
       /\ connected' = connected \cup ({h.sid} \ {NoSession})
  /\ UNCHANGED <<serviceRunning, starter, signal, acceptor, serviceEvents>>

TakeServiceEvent(e) ==
  TakeEvent(e) /\ UNCHANGED <<acceptor, acceptOp, connected>>

----------------------------------------------------------------------------
ServiceStrandStep == AsyncAccept \/ OnAccepted \/ OnAcceptError \/ CloseService

SignalStep == SignalStops \/ SignalPostsClose

\* Steps of the service that touch nothing of the acceptor.
BaseStep(A) == A /\ UNCHANGED <<acceptor, acceptOp, connected>>

ServiceIoStep ==
  BaseStep(PostAsyncAccept) \/ BaseStep(SignalStep) \/ ServiceStrandStep

----------------------------------------------------------------------------
\* The owner's queue holds one event for each accepted connection and one for
\* the end.
ServiceTypeOK ==
  /\ BaseTypeOK(ServiceHandlers, [type : {"Accept", "Close"},
                                  sid : Sessions \cup {NoSession}])
  /\ acceptor \in {"open", "closed"}
  /\ acceptOp \in BOOLEAN
  /\ connected \subseteq Sessions

\* One accept at a time, and the service closes once, the acceptor after
\* m_running was cleared, although the signal handler and a failing accept may
\* both stop it.
ServiceProtocol ==
  /\ CloseOnce
  /\ AtMostOnce(serviceStrand, OnAcceptedHandlers \cup {AsyncAcceptHandler})
  /\ ~(acceptOp /\ Occurs(serviceStrand, OnAcceptedHandlers \cup {AsyncAcceptHandler}))
  /\ Occurs(serviceStrand, {CloseServiceHandler}) => acceptor = "open"
  /\ acceptor = "closed" => ~serviceRunning

\* onAccepted() always ends in asyncAccept(), after the error by which it stopped
\* the service and after the one that tells it of the close too: on an acceptor
\* that is closed no accept is issued any more, which would fail at once, and so
\* on for ever (Service.cpp:122).
NoAcceptOnceClosed == [][acceptor = "closed" /\ ~acceptOp => ~acceptOp']_serviceVars

====
