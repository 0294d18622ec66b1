---- MODULE ClientService ----
(***************************************************************************)
(* net::ClientService (Network/Service.cpp): it resolves the address of    *)
(* the server once, connects its sockets, and hands each connected socket  *)
(* to its owner.  A socket is known by the session it will carry.          *)
(***************************************************************************)
EXTENDS Service

VARIABLES
  resolveOp,      \* async_resolve: "none", "outstanding" or "cancelled"
  toConnect,      \* sockets that the loop of onResolved() has yet to visit
  connectOp,      \* sockets with an outstanding async_connect
  clientSockets   \* m_sockets

serviceVars == <<baseVars, resolveOp, toConnect, connectOp, clientSockets>>
connectVars == <<resolveOp, toConnect, connectOp, clientSockets>>

AsyncResolveHandler == [op |-> "asyncResolve"]
OnResolvedHandlers == [op : {"onResolved"}, result : {"ok", "aborted", "fatal"}]
OnConnectedHandlers ==
  [op : {"onConnected"}, result : {"ok", "aborted", "fatal"}, sid : Sessions]
ServiceHandlers ==
  {AsyncResolveHandler, CloseServiceHandler} \cup OnResolvedHandlers
    \cup OnConnectedHandlers

ConnectEvent(s) == [type |-> "Connect", sid |-> s]

\* createInstance() makes the sockets, which async_connect() opens.
ServiceInit ==
  /\ BaseInit
  /\ resolveOp = "none"
  /\ toConnect = {}
  /\ connectOp = {}
  /\ clientSockets = [s \in Sessions |-> "new"]

----------------------------------------------------------------------------
PostAsyncResolve == PostFirst(AsyncResolveHandler)

\* stop() called by the owner: m_running.exchange(false), and then ...
ClearServiceRunning ==
  /\ serviceRunning' = FALSE
  /\ UNCHANGED <<starter, signal, serviceStrand, serviceEvents, connectVars>>

\* ... post close() if it was running.
PostCloseService ==
  /\ serviceStrand' = Append(serviceStrand, CloseServiceHandler)
  /\ UNCHANGED <<serviceRunning, starter, signal, serviceEvents, connectVars>>

----------------------------------------------------------------------------
(* The handlers on the strand.  onResolved() is not one step: it loads     *)
(* m_running before each connect, which a signal may clear in between.     *)

StrandFree == toConnect = {}

AsyncResolve ==
  /\ StrandFree
  /\ ServiceRuns({AsyncResolveHandler})
  /\ serviceStrand' = Tail(serviceStrand)
  /\ resolveOp' = IF serviceRunning THEN "outstanding" ELSE "none"
  /\ UNCHANGED <<serviceRunning, starter, signal, serviceEvents, toConnect,
                 connectOp, clientSockets>>

\* onResolved(), which does not ask m_running itself.
OnResolved ==
  /\ StrandFree
  /\ ServiceRuns(OnResolvedHandlers)
  /\ HandleServiceError(Head(serviceStrand).result)
  /\ toConnect' = IF Head(serviceStrand).result = "ok" THEN Sessions ELSE {}
  /\ UNCHANGED <<starter, signal, serviceEvents, resolveOp, connectOp, clientSockets>>

\* asyncConnect(): async_connect() opens the socket.
AsyncConnect(s) ==
  /\ s \in toConnect
  /\ toConnect' = toConnect \ {s}
  /\ IF serviceRunning
     THEN /\ connectOp' = connectOp \cup {s}
          /\ clientSockets' = [clientSockets EXCEPT ![s] = "open"]
     ELSE UNCHANGED <<connectOp, clientSockets>>
  /\ UNCHANGED <<baseVars, resolveOp>>

UncheckedResult(s, result) == result   \* variant: the result as it was posted

\* async_connect() runs a last check on the strand before it calls
\* onConnected(): when its socket is no longer open, the connect was aborted.
ConnectResult(s, result) ==
  IF clientSockets[s] = "open" THEN result ELSE "aborted"

\* onConnected()
OnConnected(s) ==
  /\ StrandFree
  /\ ServiceRuns({h \in OnConnectedHandlers : h.sid = s})
  /\ LET result == ConnectResult(s, Head(serviceStrand).result)
     IN  /\ HandleServiceError(result)
         /\ IF result = "ok"
            THEN /\ serviceEvents' = Append(serviceEvents, ConnectEvent(s))
                 /\ clientSockets' = [clientSockets EXCEPT ![s] = "moved"]
            ELSE UNCHANGED <<serviceEvents, clientSockets>>
  /\ UNCHANGED <<starter, signal, resolveOp, toConnect, connectOp>>

\* close(): cancel the signal wait and the resolve, close the open sockets,
\* tell the owner.
CloseService ==
  /\ StrandFree
  /\ CloseBase
  /\ resolveOp' = IF resolveOp = "outstanding" THEN "cancelled" ELSE resolveOp
  /\ clientSockets' = [s \in Sessions |->
       IF clientSockets[s] = "open" THEN "closed" ELSE clientSockets[s]]
  /\ UNCHANGED <<toConnect, connectOp>>

----------------------------------------------------------------------------
(* The operating system.  A resolve that was cancelled may have been done  *)
(* already, and then reports what it found.                                *)

ResolveResults == {"ok"} \cup Faults
                  \cup (IF resolveOp = "cancelled" THEN {"aborted"} ELSE {})

CompleteResolve ==
  /\ resolveOp # "none"
  /\ resolveOp' = "none"
  /\ \E r \in ResolveResults :
       serviceStrand' = Append(serviceStrand, [op |-> "onResolved", result |-> r])
  /\ UNCHANGED <<serviceRunning, starter, signal, serviceEvents, toConnect,
                 connectOp, clientSockets>>

\* All endpoints of the server are tried before a connect fails.
CompleteConnect(s) ==
  /\ s \in connectOp
  /\ connectOp' = connectOp \ {s}
  /\ \E r \in IF clientSockets[s] = "open" THEN {"ok"} \cup Faults ELSE {"aborted"} :
       serviceStrand' = Append(serviceStrand,
                               [op |-> "onConnected", result |-> r, sid |-> s])
  /\ UNCHANGED <<serviceRunning, starter, signal, serviceEvents, resolveOp,
                 toConnect, clientSockets>>

TakeServiceEvent(e) == TakeEvent(e) /\ UNCHANGED connectVars

----------------------------------------------------------------------------
ServiceStrandStep ==
  \/ AsyncResolve \/ OnResolved \/ CloseService
  \/ \E s \in Sessions : AsyncConnect(s) \/ OnConnected(s)

SignalStep == SignalStops \/ SignalPostsClose

\* Steps of the service that touch neither resolver nor sockets.
BaseStep(A) == A /\ UNCHANGED connectVars

ServiceIoStep ==
  BaseStep(PostAsyncResolve) \/ BaseStep(SignalStep) \/ ServiceStrandStep

ServiceCompletion == CompleteResolve \/ \E s \in Sessions : CompleteConnect(s)

\* Operations that close() cancelled complete; nothing makes the network answer.
CancelledCompletion ==
  \/ resolveOp = "cancelled" /\ CompleteResolve
  \/ \E s \in Sessions : clientSockets[s] = "closed" /\ CompleteConnect(s)

\* What keeps the io threads from ending: the wait for a signal, a handler
\* that is queued or runs, an outstanding operation.
ServiceBusy ==
  \/ signal # "over" \/ serviceStrand # <<>> \/ toConnect # {}
  \/ resolveOp # "none" \/ connectOp # {}

----------------------------------------------------------------------------
ServiceTypeOK ==
  /\ BaseTypeOK(ServiceHandlers, [type : {"Connect", "Close"},
                                  sid : Sessions \cup {NoSession}])
  /\ resolveOp \in {"none", "outstanding", "cancelled"}
  /\ toConnect \subseteq Sessions
  /\ connectOp \subseteq Sessions
  /\ clientSockets \in [Sessions -> {"new", "open", "moved", "closed"}]

\* Whoever stops the service, and in the middle of whatever it does: it closes
\* once, its owner hears of connections only before it hears of the end, each
\* socket is handed over once, and after the end no socket is left open, so
\* that nobody connects any more.
Told(s) == Occurs(serviceEvents, {ConnectEvent(s)})
Closed == Occurs(serviceEvents, {ServiceCloseEvent})

ConnectProtocol ==
  /\ CloseOnce
  /\ \A s \in Sessions :
       /\ AtMostOnce(serviceStrand, {h \in OnConnectedHandlers : h.sid = s})
       /\ s \in connectOp => ~Occurs(serviceStrand,
                                     {h \in OnConnectedHandlers : h.sid = s})
       /\ AtMostOnce(serviceEvents, {ConnectEvent(s)})
       /\ Told(s) => clientSockets[s] = "moved"
       /\ Closed => clientSockets[s] # "open"
  /\ Closed => serviceEvents[Len(serviceEvents)] = ServiceCloseEvent

====
