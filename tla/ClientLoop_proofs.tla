---- MODULE ClientLoop_proofs ----
(***************************************************************************)
(* What holds of the service and of the main loop of both clients, for any *)
(* number of sockets, chunks and packets.                                  *)
(*                                                                         *)
(* ServiceInv: ConnectProtocol alone is not inductive.  That no handler is *)
(* doubled rests on the resolve being done once (ResolvedOnce), after      *)
(* which every socket leaves its new state for good (Untried,              *)
(* SocketSteps); that it is closed once rests on m_running being exchanged *)
(* by whoever stops it (StoppedOnce).  A service that nobody will close    *)
(* any more is ServiceOver: closed already, or about to be by its owner.   *)
(*                                                                         *)
(* Each step that the two programs share is a step of a session or leaves  *)
(* the sessions alone (CommonParts, BackgroundParts), and keeps LoopShape. *)
(***************************************************************************)
EXTENDS ClientLoop, Session_proofs

OwnerEvents == [type : {"Connect", "Close"}, sid : Sessions \cup {NoSession}]

ServiceStep ==
  \/ BaseStep(StartService) \/ BaseStep(RaiseSignal) \/ ServiceIoStep
  \/ ServiceCompletion
  \/ \E e \in OwnerEvents : TakeServiceEvent(e)

CloseHandlers == {CloseServiceHandler}
ResolveHandlers == {AsyncResolveHandler} \cup OnResolvedHandlers
ConnectHandlers(s) == {h \in OnConnectedHandlers : h.sid = s}

\* Nothing happens before start().
NotStarted ==
  starter = "idle" =>
    /\ ~serviceRunning /\ signal # "stopping"
    /\ serviceStrand = <<>> /\ serviceEvents = <<>>

\* Whoever clears m_running posts close(), and nobody else.
StoppedOnce ==
  /\ serviceRunning \/ signal = "stopping" =>
       ~Occurs(serviceStrand, CloseHandlers) /\ ~Closed
  /\ serviceRunning => signal # "stopping"
  /\ Occurs(serviceStrand, CloseHandlers) => ~Closed
  /\ AtMostOnce(serviceStrand, CloseHandlers)
  /\ AtMostOnce(serviceEvents, {ServiceCloseEvent})

\* start() posts one asyncResolve(), which becomes one resolve, which becomes
\* one onResolved().
ResolvedOnce ==
  /\ AtMostOnce(serviceStrand, ResolveHandlers)
  /\ Occurs(serviceStrand, ResolveHandlers) => starter = "done" /\ resolveOp = "none"
  /\ resolveOp # "none" => starter = "done"

\* Until then no socket is touched.
Untried ==
  starter # "done" \/ Occurs(serviceStrand, ResolveHandlers) \/ resolveOp # "none"
    => toConnect = {} /\ \A s \in Sessions : clientSockets[s] = "new"

SocketSteps ==
  \A s \in Sessions :
    /\ AtMostOnce(serviceStrand, ConnectHandlers(s))
    /\ s \in connectOp => ~Occurs(serviceStrand, ConnectHandlers(s))
    /\ clientSockets[s] = "new" =>
         s \notin connectOp /\ ~Occurs(serviceStrand, ConnectHandlers(s))
    /\ s \in toConnect => clientSockets[s] = "new"

HandedOver ==
  /\ \A s \in Sessions :
       /\ AtMostOnce(serviceEvents, {ConnectEvent(s)})
       /\ Told(s) => clientSockets[s] = "moved"
       /\ Closed => clientSockets[s] # "open"
  /\ Closed => serviceEvents[Len(serviceEvents)] = ServiceCloseEvent

ServiceInv ==
  /\ ServiceTypeOK /\ NotStarted /\ StoppedOnce
  /\ ResolvedOnce /\ Untried /\ SocketSteps /\ HandedOver

ServiceOver ==
  /\ starter # "idle" /\ ~serviceRunning /\ signal # "stopping"
  /\ ~Occurs(serviceStrand, CloseHandlers) /\ ~Closed

----------------------------------------------------------------------------
\* The sorts of handlers do not overlap.
LEMMA ServiceSorts ==
  /\ CloseServiceHandler \in ServiceHandlers \ ResolveHandlers
  /\ ResolveHandlers \subseteq ServiceHandlers
  /\ \A s \in Sessions :
       /\ ConnectHandlers(s) \subseteq OnConnectedHandlers
       /\ CloseServiceHandler \notin ConnectHandlers(s)
       /\ \A h \in ConnectHandlers(s) : h \notin ResolveHandlers \cup CloseHandlers
       /\ \A h \in ResolveHandlers : h \notin ConnectHandlers(s)
       /\ \A t \in Sessions, h \in ConnectHandlers(s) : h \in ConnectHandlers(t) => s = t
  /\ \A h \in ResolveHandlers : h \notin CloseHandlers
BY DEF ServiceHandlers, CloseServiceHandler, CloseHandlers, ResolveHandlers, ConnectHandlers,
       AsyncResolveHandler, OnResolvedHandlers, OnConnectedHandlers

\* The events of a service differ.
LEMMA ServiceEventSorts ==
  /\ ServiceCloseEvent \in OwnerEvents
  /\ \A s \in Sessions :
       /\ ConnectEvent(s) \in OwnerEvents /\ ConnectEvent(s) # ServiceCloseEvent
       /\ \A t \in Sessions : ConnectEvent(s) = ConnectEvent(t) => s = t
BY DEF OwnerEvents, ServiceCloseEvent, ConnectEvent

----------------------------------------------------------------------------
\* The queues of a service in its invariant.
LEMMA ServiceQueues ==
  ASSUME ServiceTypeOK
  PROVE  serviceStrand \in Seq(ServiceHandlers) /\ serviceEvents \in Seq(OwnerEvents)
BY DEF ServiceTypeOK, BaseTypeOK, OwnerEvents

\* Steps that leave the queues and the sockets alone.
LEMMA StartPreserves ==
  ASSUME ServiceInv, BaseStep(StartService)
  PROVE  ServiceInv'
<1> USE DEF ServiceInv, BaseStep, StartService
<1>1. ServiceTypeOK'
  BY DEF ServiceTypeOK, BaseTypeOK, connectVars
<1>2. NotStarted' /\ StoppedOnce'
  BY OccursEmpty DEF NotStarted, StoppedOnce, Closed
<1>3. ResolvedOnce' /\ Untried' /\ SocketSteps' /\ HandedOver'
  BY OccursEmpty DEF NotStarted, ResolvedOnce, Untried, SocketSteps, HandedOver,
     connectVars, Told, Closed
<1> QED
  BY <1>1, <1>2, <1>3

\* The signal handler clears m_running: from then on the second half of it owes the close.
LEMMA SignalPreserves ==
  ASSUME ServiceInv, BaseStep(RaiseSignal) \/ BaseStep(SignalStops)
  PROVE  ServiceInv'
<1> USE DEF ServiceInv, BaseStep, RaiseSignal, SignalStops, connectVars
<1>1. ServiceTypeOK'
  BY DEF ServiceTypeOK, BaseTypeOK
<1>2. NotStarted' /\ StoppedOnce'
  BY DEF NotStarted, StoppedOnce, Closed
<1>3. ResolvedOnce' /\ Untried' /\ SocketSteps' /\ HandedOver'
  BY DEF ResolvedOnce, Untried, SocketSteps, HandedOver, Told, Closed
<1> QED
  BY <1>1, <1>2, <1>3

\* onResolved() connects the next socket, which no one has touched.
LEMMA AsyncConnectPreserves ==
  ASSUME ServiceInv, NEW s \in Sessions, AsyncConnect(s)
  PROVE  ServiceInv'
<1> USE DEF ServiceInv, AsyncConnect, baseVars
<1>1. ServiceTypeOK'
  BY DEF ServiceTypeOK, BaseTypeOK
<1>2. NotStarted' /\ StoppedOnce' /\ ResolvedOnce'
  BY DEF NotStarted, StoppedOnce, ResolvedOnce, Closed
<1>3. Untried'
  BY DEF Untried
<1>4. SocketSteps'
  BY DEF SocketSteps, ServiceTypeOK
<1>5. HandedOver'
  BY DEF HandedOver, StoppedOnce, SocketSteps, ServiceTypeOK, Told, Closed
<1> QED
  BY <1>1, <1>2, <1>3, <1>4, <1>5

----------------------------------------------------------------------------
(* Steps that push a handler. *)

\* start() posts asyncResolve(), the only time.
LEMMA PostPreserves ==
  ASSUME ServiceInv, BaseStep(PostAsyncResolve)
  PROVE  ServiceInv'
<1> USE DEF ServiceInv, BaseStep, PostAsyncResolve, PostFirst, connectVars
<1>1. AsyncResolveHandler \in ServiceHandlers /\ AsyncResolveHandler \in ResolveHandlers
  BY DEF ServiceHandlers, ResolveHandlers
<1>2. /\ serviceStrand' \in Seq(ServiceHandlers)
      /\ \A S : Occurs(serviceStrand', S)
               <=> Occurs(serviceStrand, S) \/ AsyncResolveHandler \in S
      /\ \A S : AtMostOnce(serviceStrand, S)
                /\ (AsyncResolveHandler \in S => ~Occurs(serviceStrand, S))
                  => AtMostOnce(serviceStrand', S)
  BY <1>1, ServiceQueues, QueuePushed
<1>3. ServiceTypeOK'
  BY <1>2 DEF ServiceTypeOK, BaseTypeOK
<1>4. NotStarted' /\ StoppedOnce'
  BY <1>1, <1>2, ServiceSorts DEF NotStarted, StoppedOnce, Closed
<1>5. ResolvedOnce' /\ Untried'
  BY <1>1, <1>2 DEF ResolvedOnce, Untried
<1>6. SocketSteps' /\ HandedOver'
  BY <1>1, <1>2, ServiceSorts DEF SocketSteps, HandedOver, Told, Closed
<1> QED
  BY <1>3, <1>4, <1>5, <1>6

\* The second half of the signal handler posts close().
LEMMA SignalPostsPreserves ==
  ASSUME ServiceInv, BaseStep(SignalPostsClose)
  PROVE  ServiceInv'
<1> USE DEF ServiceInv, BaseStep, SignalPostsClose, connectVars
<1>1. CloseServiceHandler \in ServiceHandlers /\ CloseServiceHandler \in CloseHandlers
  BY ServiceSorts DEF CloseHandlers
<1>2. /\ serviceStrand' \in Seq(ServiceHandlers)
      /\ \A S : Occurs(serviceStrand', S)
               <=> Occurs(serviceStrand, S) \/ CloseServiceHandler \in S
      /\ \A S : AtMostOnce(serviceStrand, S)
                /\ (CloseServiceHandler \in S => ~Occurs(serviceStrand, S))
                  => AtMostOnce(serviceStrand', S)
  BY <1>1, ServiceQueues, QueuePushed
<1>3. ServiceTypeOK'
  BY <1>2 DEF ServiceTypeOK, BaseTypeOK
<1>4. NotStarted' /\ StoppedOnce'
  BY <1>1, <1>2, ServiceSorts DEF NotStarted, StoppedOnce, Closed
<1>5. ResolvedOnce' /\ Untried'
  BY <1>1, <1>2, ServiceSorts DEF ResolvedOnce, Untried
<1>6. SocketSteps' /\ HandedOver'
  BY <1>1, <1>2, ServiceSorts DEF SocketSteps, HandedOver, Told, Closed
<1> QED
  BY <1>3, <1>4, <1>5, <1>6

\* The resolver's completion is queued on the strand.
LEMMA CompleteResolvePreserves ==
  ASSUME ServiceInv, CompleteResolve
  PROVE  ServiceInv'
<1> USE DEF ServiceInv, CompleteResolve
<1>1. PICK h \in OnResolvedHandlers : serviceStrand' = Append(serviceStrand, h)
  BY DEF ResolveResults, Faults, OnResolvedHandlers
<1>2. h \in ServiceHandlers /\ h \in ResolveHandlers
  BY DEF ServiceHandlers, ResolveHandlers
<1>3. /\ serviceStrand' \in Seq(ServiceHandlers) /\ serviceStrand' # <<>>
      /\ \A S : Occurs(serviceStrand', S) <=> Occurs(serviceStrand, S) \/ h \in S
      /\ \A S : AtMostOnce(serviceStrand, S) /\ (h \in S => ~Occurs(serviceStrand, S))
                  => AtMostOnce(serviceStrand', S)
  BY <1>1, <1>2, ServiceQueues, QueuePushed
<1>4. ServiceTypeOK'
  BY <1>3 DEF ServiceTypeOK, BaseTypeOK
<1>5. NotStarted' /\ StoppedOnce'
  BY <1>2, <1>3, ServiceSorts DEF NotStarted, StoppedOnce, ResolvedOnce, Closed
<1>6. ResolvedOnce' /\ Untried'
  BY <1>2, <1>3 DEF ResolvedOnce, Untried
<1>7. SocketSteps' /\ HandedOver'
  BY <1>2, <1>3, ServiceSorts DEF SocketSteps, HandedOver, Told, Closed
<1> QED
  BY <1>4, <1>5, <1>6, <1>7

\* A connect completes: the socket goes on, and its handler is queued once.
LEMMA CompleteConnectPreserves ==
  ASSUME ServiceInv, NEW s \in Sessions, CompleteConnect(s)
  PROVE  ServiceInv'
<1> USE DEF ServiceInv, CompleteConnect
<1>1. PICK h \in ConnectHandlers(s) : serviceStrand' = Append(serviceStrand, h)
  BY DEF Faults, OnConnectedHandlers, ConnectHandlers
<1>2. h \in ServiceHandlers
  BY ServiceSorts DEF ServiceHandlers
<1>3. /\ serviceStrand' \in Seq(ServiceHandlers) /\ serviceStrand' # <<>>
      /\ \A S : Occurs(serviceStrand', S) <=> Occurs(serviceStrand, S) \/ h \in S
      /\ \A S : AtMostOnce(serviceStrand, S) /\ (h \in S => ~Occurs(serviceStrand, S))
                  => AtMostOnce(serviceStrand', S)
  BY <1>1, <1>2, ServiceQueues, QueuePushed
<1>4. ServiceTypeOK'
  BY <1>3 DEF ServiceTypeOK, BaseTypeOK
<1>5. clientSockets[s] # "new" /\ starter = "done"
  BY DEF SocketSteps, Untried
<1>6. NotStarted' /\ StoppedOnce'
  BY <1>3, <1>5, ServiceSorts DEF NotStarted, StoppedOnce, Closed
<1>7. ResolvedOnce' /\ Untried'
  BY <1>3, ServiceSorts DEF ResolvedOnce, Untried
<1>8. SocketSteps'
  BY <1>3, <1>5, ServiceSorts DEF SocketSteps
<1>9. HandedOver'
  BY DEF HandedOver, Told, Closed
<1> QED
  BY <1>4, <1>6, <1>7, <1>8, <1>9

----------------------------------------------------------------------------
(* Steps that run a handler. *)

\* What popping the strand means for the properties.
LEMMA ServiceStrandPopped ==
  ASSUME ServiceTypeOK, serviceStrand # <<>>
  PROVE  /\ Tail(serviceStrand) \in Seq(ServiceHandlers)
         /\ Head(serviceStrand) \in ServiceHandlers
         /\ \A S : Occurs(serviceStrand, S) <=>
                    Head(serviceStrand) \in S \/ Occurs(Tail(serviceStrand), S)
         /\ \A S : AtMostOnce(serviceStrand, S) =>
                    /\ AtMostOnce(Tail(serviceStrand), S)
                    /\ Head(serviceStrand) \in S => ~Occurs(Tail(serviceStrand), S)
BY ServiceQueues, QueuePopped

\* asyncResolve() starts the resolve, or ends there when the service was stopped.
LEMMA AsyncResolvePreserves ==
  ASSUME ServiceInv, AsyncResolve
  PROVE  ServiceInv'
<1> USE DEF ServiceInv, AsyncResolve, ServiceRuns
<1>1. AsyncResolveHandler \in ResolveHandlers
  BY DEF ResolveHandlers
<1>2. ServiceTypeOK'
  BY ServiceStrandPopped DEF ServiceTypeOK, BaseTypeOK
<1>3. NotStarted' /\ StoppedOnce'
  BY ServiceStrandPopped DEF NotStarted, StoppedOnce, Closed
<1>4. ResolvedOnce' /\ Untried'
  BY <1>1, ServiceStrandPopped DEF ResolvedOnce, Untried
<1>5. SocketSteps' /\ HandedOver'
  BY ServiceStrandPopped DEF SocketSteps, HandedOver, Told, Closed
<1> QED
  BY <1>2, <1>3, <1>4, <1>5

\* handleError(): close() is pushed behind what is left, if it is pushed.
LEMMA ErrorHandled ==
  ASSUME ServiceInv, serviceStrand # <<>>, NEW result, HandleServiceError(result)
  PROVE  /\ serviceStrand' \in Seq(ServiceHandlers)
         /\ serviceRunning' \in BOOLEAN /\ (serviceRunning' => serviceRunning)
         /\ \A S : Occurs(serviceStrand', S) <=>
                     \/ Occurs(Tail(serviceStrand), S)
                     \/ serviceRunning /\ ~serviceRunning' /\ CloseServiceHandler \in S
         /\ \A S : /\ AtMostOnce(serviceStrand, S)
                   /\ CloseServiceHandler \in S => ~Occurs(serviceStrand, S)
                   => AtMostOnce(serviceStrand', S)
         /\ serviceRunning' = serviceRunning => serviceStrand' = Tail(serviceStrand)
<1> USE DEF ServiceInv
<1>0. serviceRunning \in BOOLEAN
  BY DEF ServiceTypeOK, BaseTypeOK
<1>1. CASE result = "fatal" /\ serviceRunning
  <2>1. serviceStrand' = Append(Tail(serviceStrand), CloseServiceHandler)
        /\ serviceRunning' = FALSE
    BY <1>1 DEF HandleServiceError
  <2>2. /\ serviceStrand' \in Seq(ServiceHandlers)
        /\ \A S : Occurs(serviceStrand', S) <=>
                    Occurs(Tail(serviceStrand), S) \/ CloseServiceHandler \in S
        /\ \A S : AtMostOnce(Tail(serviceStrand), S)
                  /\ (CloseServiceHandler \in S => ~Occurs(Tail(serviceStrand), S))
                    => AtMostOnce(serviceStrand', S)
    BY <2>1, ServiceStrandPopped, ServiceSorts, QueuePushed
  <2> QED
    BY <1>1, <2>1, <2>2, ServiceStrandPopped
<1>2. CASE ~(result = "fatal" /\ serviceRunning)
  <2>1. serviceStrand' = Tail(serviceStrand) /\ serviceRunning' = serviceRunning
    BY <1>0, <1>2 DEF HandleServiceError
  <2> QED
    BY <1>0, <2>1, ServiceStrandPopped
<1> QED
  BY <1>1, <1>2

\* ... and then this handler has exchanged m_running, nobody else.
LEMMA ErrorStopsOnce ==
  ASSUME ServiceInv, serviceStrand # <<>>, NEW result, HandleServiceError(result),
         Head(serviceStrand) \notin CloseHandlers,
         UNCHANGED <<starter, signal, serviceEvents>>
  PROVE  NotStarted' /\ StoppedOnce'
<1>0. /\ serviceRunning' \in BOOLEAN /\ (serviceRunning' => serviceRunning)
      /\ serviceRunning' = serviceRunning => serviceStrand' = Tail(serviceStrand)
      /\ /\ AtMostOnce(serviceStrand, CloseHandlers)
         /\ ~Occurs(serviceStrand, CloseHandlers)
         => AtMostOnce(serviceStrand', CloseHandlers)
  BY ErrorHandled
<1> USE DEF ServiceInv
<1>1. NotStarted'
  BY DEF NotStarted
<1>2. /\ AtMostOnce(serviceStrand, CloseHandlers)
      /\ Occurs(serviceStrand, CloseHandlers) <=> Occurs(Tail(serviceStrand), CloseHandlers)
  BY ServiceStrandPopped DEF StoppedOnce
<1>3. Closed' <=> Closed
  BY DEF Closed
<1>4. CASE serviceRunning' = serviceRunning
  <2>1. serviceStrand' = Tail(serviceStrand)
    BY <1>0, <1>4
  <2> QED
    BY <1>1, <1>2, <1>3, <1>4, <2>1, ServiceStrandPopped DEF StoppedOnce
<1>5. CASE serviceRunning' # serviceRunning
  <2>1. serviceRunning /\ ~serviceRunning'
    BY <1>0, <1>5 DEF ServiceTypeOK, BaseTypeOK
  <2>2. ~Occurs(serviceStrand, CloseHandlers) /\ ~Closed /\ signal # "stopping"
    BY <2>1 DEF StoppedOnce
  <2>3. AtMostOnce(serviceStrand', CloseHandlers)
    BY <1>0, <1>2, <2>2
  <2> QED
    BY <1>1, <1>3, <2>1, <2>2, <2>3 DEF StoppedOnce
<1> QED
  BY <1>1, <1>4, <1>5

\* onResolved() begins its loop of connects, or stops the service.
LEMMA OnResolvedPreserves ==
  ASSUME ServiceInv, OnResolved
  PROVE  ServiceInv'
<1> USE DEF ServiceInv, OnResolved, ServiceRuns
<1> DEFINE result == Head(serviceStrand).result
<1>1. Head(serviceStrand) \in ResolveHandlers /\ Occurs(serviceStrand, ResolveHandlers)
  BY ServiceStrandPopped DEF ResolveHandlers
<1>2. HandleServiceError(result) /\ serviceStrand # <<>>
  OBVIOUS
<1>3. ServiceTypeOK'
  BY <1>2, ErrorHandled DEF ServiceTypeOK, BaseTypeOK
<1>4. NotStarted' /\ StoppedOnce'
  BY <1>1, <1>2, ErrorStopsOnce, ServiceSorts
<1>5. ResolvedOnce' /\ Untried'
  BY <1>1, <1>2, ErrorHandled, ServiceStrandPopped, ServiceSorts DEF ResolvedOnce, Untried
<1>6. SocketSteps' /\ HandedOver'
  BY <1>1, <1>2, ErrorHandled, ServiceStrandPopped, ServiceSorts
     DEF SocketSteps, HandedOver, Untried, Told, Closed
<1> QED
  BY <1>3, <1>4, <1>5, <1>6

\* onConnected() hands its socket over, or stops the service.
LEMMA OnConnectedPreserves ==
  ASSUME ServiceInv, NEW s \in Sessions, OnConnected(s)
  PROVE  ServiceInv'
<1> USE DEF ServiceInv
<1> DEFINE result == ConnectResult(s, Head(serviceStrand).result)
<1>1. /\ serviceStrand # <<>> /\ Head(serviceStrand) \in ConnectHandlers(s)
      /\ HandleServiceError(result) /\ toConnect = {}
      /\ UNCHANGED <<starter, signal, resolveOp, toConnect, connectOp>>
  BY DEF OnConnected, ServiceRuns, ConnectHandlers, StrandFree
<1>2. Occurs(serviceStrand, ConnectHandlers(s)) /\ clientSockets[s] # "new"
  BY <1>1, ServiceStrandPopped DEF SocketSteps
<1>3. /\ starter = "done" /\ resolveOp = "none" /\ ~Occurs(serviceStrand, ResolveHandlers)
  BY <1>2 DEF Untried, ServiceTypeOK, BaseTypeOK
<1>4. CASE result = "ok"
  <2>1. /\ serviceRunning' = serviceRunning /\ serviceStrand' = Tail(serviceStrand)
        /\ serviceEvents' = Append(serviceEvents, ConnectEvent(s))
        /\ clientSockets' = [clientSockets EXCEPT ![s] = "moved"]
    BY <1>4 DEF OnConnected, HandleServiceError, ServiceTypeOK, BaseTypeOK
  <2>2. clientSockets[s] = "open"
    BY <1>4 DEF ConnectResult
  <2>3. /\ serviceEvents' \in Seq(OwnerEvents)
        /\ \A S : Occurs(serviceEvents', S) <=>
                    Occurs(serviceEvents, S) \/ ConnectEvent(s) \in S
        /\ \A S : AtMostOnce(serviceEvents, S)
                  /\ (ConnectEvent(s) \in S => ~Occurs(serviceEvents, S))
                    => AtMostOnce(serviceEvents', S)
    BY <2>1, ServiceQueues, ServiceEventSorts, QueuePushed
  <2>4. ~Closed /\ ~Closed' /\ ~Told(s)
    BY <2>2, <2>3, ServiceEventSorts DEF HandedOver, Told, Closed
  <2>5. ServiceTypeOK'
    BY <1>1, <2>1, <2>3, ServiceStrandPopped DEF ServiceTypeOK, BaseTypeOK, OwnerEvents
  <2>6. NotStarted' /\ StoppedOnce'
    BY <1>1, <1>3, <2>1, <2>3, <2>4, ServiceStrandPopped, ServiceEventSorts
       DEF NotStarted, StoppedOnce, Closed
  <2>7. ResolvedOnce' /\ Untried'
    BY <1>1, <1>3, <2>1, ServiceStrandPopped DEF ResolvedOnce, Untried
  <2>8. SocketSteps'
    BY <1>1, <2>1, ServiceStrandPopped DEF SocketSteps, ServiceTypeOK
  <2>9. HandedOver'
    BY <1>1, <2>1, <2>3, <2>4, ServiceEventSorts DEF HandedOver, Told, Closed, ServiceTypeOK
  <2> QED
    BY <2>5, <2>6, <2>7, <2>8, <2>9
<1>5. CASE result # "ok"
  <2>1. UNCHANGED <<serviceEvents, clientSockets>>
    BY <1>5 DEF OnConnected
  <2>2. ServiceTypeOK'
    BY <1>1, <2>1, ErrorHandled DEF ServiceTypeOK, BaseTypeOK
  <2>3. NotStarted' /\ StoppedOnce'
    BY <1>1, <2>1, ErrorStopsOnce, ServiceSorts
  <2>4. ResolvedOnce' /\ Untried'
    BY <1>1, <1>3, <2>1, ErrorHandled, ServiceStrandPopped, ServiceSorts DEF ResolvedOnce, Untried
  <2>5. SocketSteps' /\ HandedOver'
    BY <1>1, <2>1, ErrorHandled, ServiceStrandPopped, ServiceSorts
       DEF SocketSteps, HandedOver, Told, Closed
  <2> QED
    BY <2>2, <2>3, <2>4, <2>5
<1> QED
  BY <1>4, <1>5

\* close() closes what is open and tells the owner, once.
LEMMA ClosePreserves ==
  ASSUME ServiceInv, CloseService
  PROVE  ServiceInv'
<1> USE DEF ServiceInv, CloseService, CloseBase, ServiceRuns
<1>1. Occurs(serviceStrand, CloseHandlers) /\ ~Occurs(Tail(serviceStrand), CloseHandlers)
  BY ServiceStrandPopped DEF CloseHandlers, StoppedOnce
<1>2. ~serviceRunning /\ signal # "stopping" /\ ~Closed
  BY <1>1 DEF StoppedOnce
<1>3. /\ serviceEvents' \in Seq(OwnerEvents) /\ serviceEvents' # <<>>
      /\ serviceEvents'[Len(serviceEvents')] = ServiceCloseEvent
      /\ \A S : Occurs(serviceEvents', S) <=>
                  Occurs(serviceEvents, S) \/ ServiceCloseEvent \in S
      /\ \A S : AtMostOnce(serviceEvents, S)
                /\ (ServiceCloseEvent \in S => ~Occurs(serviceEvents, S))
                  => AtMostOnce(serviceEvents', S)
  BY ServiceQueues, ServiceEventSorts, QueuePushed
<1>4. ServiceTypeOK'
  BY <1>3, ServiceStrandPopped DEF ServiceTypeOK, BaseTypeOK, OwnerEvents
<1>5. NotStarted' /\ StoppedOnce'
  BY <1>1, <1>2, <1>3, ServiceStrandPopped DEF NotStarted, StoppedOnce, Closed
<1>6. ResolvedOnce' /\ Untried'
  BY ServiceStrandPopped DEF ResolvedOnce, Untried, StrandFree
<1>7. SocketSteps'
  BY ServiceStrandPopped DEF SocketSteps, StrandFree
<1>8. HandedOver'
  BY <1>3, ServiceEventSorts DEF HandedOver, Told, Closed
<1> QED
  BY <1>4, <1>5, <1>6, <1>7, <1>8

\* The owner's step: it pops an event.
LEMMA TakePreserves ==
  ASSUME ServiceInv, NEW e, TakeServiceEvent(e)
  PROVE  ServiceInv'
<1> USE DEF ServiceInv, TakeServiceEvent, TakeEvent, connectVars
<1>1. /\ serviceEvents' \in Seq(OwnerEvents)
      /\ serviceEvents' # <<>> =>
           serviceEvents'[Len(serviceEvents')] = serviceEvents[Len(serviceEvents)]
      /\ \A S : Occurs(serviceEvents', S) => Occurs(serviceEvents, S)
      /\ \A S : AtMostOnce(serviceEvents, S) => AtMostOnce(serviceEvents', S)
  BY ServiceQueues, QueuePopped
<1>2. ServiceTypeOK'
  BY <1>1 DEF ServiceTypeOK, BaseTypeOK, OwnerEvents
<1>3. NotStarted' /\ StoppedOnce'
  BY <1>1 DEF NotStarted, StoppedOnce, Closed
<1>4. ResolvedOnce' /\ Untried' /\ SocketSteps'
  BY DEF ResolvedOnce, Untried, SocketSteps
<1>5. HandedOver'
  BY <1>1, OccursEmpty DEF HandedOver, Told, Closed
<1> QED
  BY <1>2, <1>3, <1>4, <1>5

----------------------------------------------------------------------------
\* The service as it is before start().
LEMMA ServiceInitInv == ServiceInit => ServiceInv
<1> SUFFICES ASSUME ServiceInit PROVE ServiceInv
  OBVIOUS
<1> USE DEF ServiceInit, BaseInit
<1>1. ServiceTypeOK
  <2>1. serviceStrand \in Seq(ServiceHandlers)
    OBVIOUS
  <2>2. serviceEvents \in Seq(OwnerEvents)
    OBVIOUS
  <2> QED
    BY <2>1, <2>2 DEF ServiceTypeOK, BaseTypeOK, OwnerEvents
<1>2. NotStarted /\ StoppedOnce /\ ResolvedOnce
  BY OccursEmpty DEF NotStarted, StoppedOnce, ResolvedOnce, Closed
<1>3. Untried /\ SocketSteps /\ HandedOver
  BY OccursEmpty DEF Untried, SocketSteps, HandedOver, Told, Closed
<1> QED
  BY <1>1, <1>2, <1>3 DEF ServiceInv

\* Each step of the service by itself keeps its invariant.
LEMMA ServiceStepInv == ServiceInv /\ [ServiceStep]_serviceVars => ServiceInv'
<1> SUFFICES ASSUME ServiceInv, [ServiceStep]_serviceVars PROVE ServiceInv'
  OBVIOUS
<1>1. CASE BaseStep(StartService)
  BY <1>1, StartPreserves
<1>2. CASE BaseStep(RaiseSignal)
  BY <1>2, SignalPreserves
<1>3. CASE ServiceIoStep
  <2>1. CASE BaseStep(PostAsyncResolve)
    BY <2>1, PostPreserves
  <2>2. CASE BaseStep(SignalStep)
    BY <2>2, SignalPreserves, SignalPostsPreserves DEF SignalStep, BaseStep
  <2>3. CASE ServiceStrandStep
    BY <2>3, AsyncResolvePreserves, OnResolvedPreserves, ClosePreserves,
       AsyncConnectPreserves, OnConnectedPreserves DEF ServiceStrandStep
  <2> QED
    BY <1>3, <2>1, <2>2, <2>3 DEF ServiceIoStep
<1>4. CASE ServiceCompletion
  BY <1>4, CompleteResolvePreserves, CompleteConnectPreserves DEF ServiceCompletion
<1>5. CASE \E e \in OwnerEvents : TakeServiceEvent(e)
  BY <1>5, TakePreserves
<1>6. CASE UNCHANGED serviceVars
  BY <1>6 DEF serviceVars, baseVars, ServiceInv, ServiceTypeOK, BaseTypeOK, NotStarted,
     StoppedOnce, ResolvedOnce, Untried, SocketSteps, HandedOver, Told, Closed
<1> QED
  BY <1>1, <1>2, <1>3, <1>4, <1>5, <1>6 DEF ServiceStep

\* The invariant is what the service promises its owner, and more.
LEMMA ServiceInvProtocol == ServiceInv => ConnectProtocol
<1> SUFFICES ASSUME ServiceInv PROVE ConnectProtocol
  OBVIOUS
<1> USE DEF ServiceInv
<1>1. CloseOnce
  BY DEF CloseOnce, StoppedOnce, CloseHandlers, Closed
<1>2. ASSUME NEW s \in Sessions
      PROVE  /\ AtMostOnce(serviceStrand, {h \in OnConnectedHandlers : h.sid = s})
             /\ s \in connectOp => ~Occurs(serviceStrand,
                                           {h \in OnConnectedHandlers : h.sid = s})
  BY DEF SocketSteps, ConnectHandlers
<1> QED
  BY <1>1, <1>2 DEF ConnectProtocol, HandedOver

----------------------------------------------------------------------------
(* The end of a service. *)

\* A service that is over stays over.
LEMMA OverStays ==
  ASSUME ServiceInv, ServiceOver, [ServiceStep]_serviceVars
  PROVE  ServiceOver'
<1> USE DEF ServiceOver
<1>0. /\ ServiceTypeOK
      /\ serviceStrand \in Seq(ServiceHandlers) /\ serviceEvents \in Seq(OwnerEvents)
  BY ServiceQueues DEF ServiceInv
<1>1. CASE BaseStep(StartService) \/ BaseStep(RaiseSignal) \/ BaseStep(SignalStep)
  BY <1>1 DEF BaseStep, StartService, RaiseSignal, SignalStep, SignalStops,
     SignalPostsClose, Closed
<1>2. CASE \E h \in ServiceHandlers \ CloseHandlers :
             /\ serviceStrand' = Append(serviceStrand, h)
             /\ UNCHANGED <<serviceRunning, signal, serviceEvents>>
             /\ starter' # "idle"
  BY <1>0, <1>2, QueuePushed DEF Closed
<1>3. CASE /\ serviceStrand # <<>> /\ serviceStrand' = Tail(serviceStrand)
           /\ ~serviceRunning' /\ UNCHANGED <<signal, starter>>
           /\ serviceEvents' = serviceEvents
                \/ \E s \in Sessions : serviceEvents' = Append(serviceEvents, ConnectEvent(s))
  <2>1. ~Occurs(serviceStrand', CloseHandlers)
    BY <1>0, <1>3, ServiceStrandPopped
  <2>2. ~Closed'
    <3>1. ASSUME NEW s \in Sessions, serviceEvents' = Append(serviceEvents, ConnectEvent(s))
          PROVE  ~Closed'
      BY <1>0, <3>1, QueuePushed, ServiceEventSorts DEF Closed
    <3>2. CASE serviceEvents' = serviceEvents
      BY <3>2 DEF Closed
    <3> QED
      BY <1>3, <3>1, <3>2
  <2> QED
    BY <1>3, <2>1, <2>2
<1>4. CASE /\ serviceEvents # <<>> /\ serviceEvents' = Tail(serviceEvents)
           /\ UNCHANGED <<serviceRunning, signal, starter, serviceStrand>>
  BY <1>0, <1>4, QueuePopped DEF Closed
<1>5. CASE UNCHANGED baseVars
  BY <1>5 DEF baseVars, Closed
<1>6. CASE BaseStep(PostAsyncResolve)
  BY <1>2, <1>6, ServiceSorts DEF BaseStep, PostAsyncResolve, PostFirst, ResolveHandlers
<1>7. CASE AsyncResolve \/ \E s \in Sessions : AsyncConnect(s)
  BY <1>3, <1>5, <1>7 DEF AsyncResolve, AsyncConnect, ServiceRuns
<1>8. CASE OnResolved
  <2>1. serviceStrand' = Tail(serviceStrand) /\ ~serviceRunning'
    BY <1>8 DEF OnResolved, HandleServiceError
  <2> QED
    BY <1>3, <1>8, <2>1 DEF OnResolved, ServiceRuns
<1>9. ASSUME NEW s \in Sessions, OnConnected(s) PROVE ServiceOver'
  <2>1. serviceStrand' = Tail(serviceStrand) /\ ~serviceRunning'
    BY <1>9 DEF OnConnected, HandleServiceError
  <2>2. serviceEvents' = serviceEvents \/ serviceEvents' = Append(serviceEvents, ConnectEvent(s))
    BY <1>9 DEF OnConnected
  <2> QED
    BY <1>3, <1>9, <2>1, <2>2 DEF OnConnected, ServiceRuns
<1>10. ~CloseService
  BY <1>0, ServiceStrandPopped DEF CloseService, CloseBase, ServiceRuns, CloseHandlers
<1>11. CASE CompleteResolve
  <2>1. PICK h \in OnResolvedHandlers : serviceStrand' = Append(serviceStrand, h)
    BY <1>11 DEF CompleteResolve, ResolveResults, Faults, OnResolvedHandlers
  <2>2. h \in ServiceHandlers \ CloseHandlers
    BY ServiceSorts DEF ResolveHandlers
  <2> QED
    BY <1>2, <1>11, <2>1, <2>2 DEF CompleteResolve
<1>12. ASSUME NEW s \in Sessions, CompleteConnect(s) PROVE ServiceOver'
  <2>1. PICK h \in ConnectHandlers(s) : serviceStrand' = Append(serviceStrand, h)
    BY <1>12 DEF CompleteConnect, Faults, OnConnectedHandlers, ConnectHandlers
  <2>2. h \in ServiceHandlers \ CloseHandlers
    BY ServiceSorts DEF ServiceHandlers
  <2> QED
    BY <1>2, <1>12, <2>1, <2>2 DEF CompleteConnect
<1>13. CASE \E e \in OwnerEvents : TakeServiceEvent(e)
  BY <1>4, <1>13 DEF TakeServiceEvent, TakeEvent
<1> QED
  BY <1>1, <1>5, <1>6, <1>7, <1>8, <1>9, <1>10, <1>11, <1>12, <1>13
     DEF ServiceStep, ServiceIoStep, ServiceStrandStep, ServiceCompletion, serviceVars

\* When the owner takes the Close event, the service is over.
LEMMA OverWhenTold ==
  ASSUME ServiceInv, TakeServiceEvent(ServiceCloseEvent)
  PROVE  ServiceOver'
<1>1. /\ serviceEvents # <<>> /\ Head(serviceEvents) = ServiceCloseEvent
      /\ serviceEvents' = Tail(serviceEvents)
      /\ UNCHANGED <<serviceRunning, starter, signal, serviceStrand>>
  BY DEF TakeServiceEvent, TakeEvent
<1>2. serviceEvents \in Seq(OwnerEvents)
  BY ServiceQueues DEF ServiceInv
<1>3. Closed
  BY <1>1, <1>2, QueuePopped DEF Closed
<1>4. ~Closed'
  BY <1>1, <1>2, QueuePopped DEF Closed, ServiceInv, StoppedOnce
<1>5. /\ starter # "idle" /\ ~serviceRunning /\ signal # "stopping"
      /\ ~Occurs(serviceStrand, CloseHandlers)
  BY <1>1, <1>3 DEF ServiceInv, StoppedOnce, NotStarted
<1> QED
  BY <1>1, <1>4, <1>5 DEF ServiceOver

----------------------------------------------------------------------------
(* The owner stops the service.  In between of the two steps the service   *)
(* is over as far as it knows.                                             *)

\* The owner's stop() clears m_running: the owner now owes the close.
LEMMA OwnerClears ==
  ASSUME ServiceInv, ClearServiceRunning
  PROVE  ServiceInv' /\ (serviceRunning => ServiceOver')
<1> USE DEF ServiceInv, ClearServiceRunning, connectVars
<1>1. ServiceTypeOK'
  BY DEF ServiceTypeOK, BaseTypeOK
<1>2. NotStarted' /\ StoppedOnce'
  BY DEF NotStarted, StoppedOnce, Closed
<1>3. ResolvedOnce' /\ Untried' /\ SocketSteps' /\ HandedOver'
  BY DEF ResolvedOnce, Untried, SocketSteps, HandedOver, Told, Closed
<1>4. serviceRunning => ServiceOver'
  BY DEF NotStarted, StoppedOnce, ServiceOver, Closed
<1> QED
  BY <1>1, <1>2, <1>3, <1>4

\* The second half of the owner's stop() posts close().
LEMMA OwnerPostsClose ==
  ASSUME ServiceInv, ServiceOver, PostCloseService
  PROVE  ServiceInv'
<1> USE DEF ServiceInv, PostCloseService, connectVars
<1>1. CloseServiceHandler \in ServiceHandlers /\ CloseServiceHandler \in CloseHandlers
  BY ServiceSorts DEF CloseHandlers
<1>2. /\ serviceStrand' \in Seq(ServiceHandlers)
      /\ \A S : Occurs(serviceStrand', S)
               <=> Occurs(serviceStrand, S) \/ CloseServiceHandler \in S
      /\ \A S : AtMostOnce(serviceStrand, S)
                /\ (CloseServiceHandler \in S => ~Occurs(serviceStrand, S))
                  => AtMostOnce(serviceStrand', S)
  BY <1>1, ServiceQueues, QueuePushed
<1>3. ServiceTypeOK'
  BY <1>2 DEF ServiceTypeOK, BaseTypeOK
<1>4. NotStarted' /\ StoppedOnce'
  BY <1>1, <1>2, ServiceSorts DEF NotStarted, StoppedOnce, ServiceOver, Closed
<1>5. ResolvedOnce' /\ Untried'
  BY <1>1, <1>2, ServiceSorts DEF ResolvedOnce, Untried
<1>6. SocketSteps' /\ HandedOver'
  BY <1>1, <1>2, ServiceSorts DEF SocketSteps, HandedOver, Told, Closed
<1> QED
  BY <1>3, <1>4, <1>5, <1>6

----------------------------------------------------------------------------
(* The main loop. *)

Stopping == {"stopAll", "drain", "drainEvents", "done"}
CommonPlaces == {"service", "session", "packets", "messages", "crashed"} \cup Stopping

LoopShape ==
  /\ clientRunning \in BOOLEAN
  /\ members \subseteq Sessions
  /\ messages \in 0..MaxQueue
  /\ toStop \subseteq members /\ (toStop # {} => mainPc = "stopAll")
  /\ mainPc \in Stopping => ~clientRunning
  /\ mainPc = "done" => members = {}

\* An open socket belongs to a session that the main thread still has.
OpenKnown == \A s \in Sessions : socket[s] = "open" => s \in members

\* What the common steps do to the main thread's place.
CommonMoves == mainPc' # mainPc => mainPc \in CommonPlaces /\ mainPc' \in CommonPlaces

\* What the common steps of the main loop do to sessions and service.
LEMMA CommonParts ==
  ASSUME IInv, CommonStep
  PROVE  IInv' /\ socket' = socket /\ UNCHANGED serviceVars
<1>1. CASE UNCHANGED netVars
  BY <1>1, StutterIInv DEF netVars, sessionVars
<1>2. CASE \/ ServiceEventsDone \/ SessionEventsDone \/ Dispatch
           \/ StopAllDone \/ Drain \/ DrainEventsDone
  BY <1>1, <1>2 DEF ServiceEventsDone, SessionEventsDone, Dispatch, StopAllDone, Drain,
     DrainEventsDone
<1>3. ASSUME NEW s \in Sessions,
             \/ PostHandler(s) \/ HandleReceive(s) \/ DropReceive(s)
             \/ MovePacket(s) \/ PacketsDone(s)
      PROVE  IInv' /\ socket' = socket /\ UNCHANGED serviceVars
  BY <1>3, OwnerCalls
     DEF OwnerCall, PostHandler, HandleReceive, DropReceive, MovePacket, PacketsDone
<1>4. ASSUME NEW s \in Sessions, StopMember(s)
      PROVE  IInv' /\ socket' = socket /\ UNCHANGED serviceVars
  <2>1. UNCHANGED serviceVars /\ (Stop(s) \/ UNCHANGED sessionVars)
    BY <1>4 DEF StopMember
  <2>2. CASE Stop(s)
    BY <2>1, <2>2, OwnerCalls DEF OwnerCall
  <2>3. CASE UNCHANGED sessionVars
    BY <2>1, <2>3, StutterIInv DEF sessionVars
  <2> QED
    BY <2>1, <2>2, <2>3
<1> QED
  BY <1>2, <1>3, <1>4 DEF CommonStep

\* What the io threads' steps do to sessions and service.
LEMMA BackgroundParts ==
  ASSUME IInv, BackgroundStep
  PROVE  IInv' /\ [ServiceStep]_serviceVars /\ OpensNone /\ UNCHANGED loopVars
<1>1. CASE ServiceIo \/ NetworkAnswers \/ Environment
  <2>1. ServiceStep /\ UNCHANGED sessionVars /\ UNCHANGED loopVars
    BY <1>1 DEF ServiceIo, NetworkAnswers, Environment, ServiceStep
  <2> QED
    BY <2>1, StutterIInv DEF OpensNone, sessionVars
<1>2. ASSUME NEW s \in Sessions, SessionIoStep(s) \/ SessionCompletion(s)
      PROVE  IInv' /\ UNCHANGED serviceVars /\ OpensNone /\ UNCHANGED loopVars
  BY <1>2, IoCalls DEF SessionIoStep, SessionCompletion
<1> QED
  BY <1>1, <1>2 DEF BackgroundStep

\* The steps of both programs leave the sessions registered and the client
\* running as they are.
LEMMA CommonLoop ==
  ASSUME LoopShape, CommonStep
  PROVE  LoopShape' /\ members' = members /\ clientRunning' = clientRunning /\ CommonMoves
<1> USE DEF LoopShape, CommonMoves, CommonPlaces, Stopping, GoTo
<1>1. CASE ServiceEventsDone \/ SessionEventsDone \/ StopAllDone \/ Drain \/ DrainEventsDone
  BY <1>1 DEF ServiceEventsDone, SessionEventsDone, StopAllDone, Drain, DrainEventsDone
<1>2. CASE Dispatch
  BY <1>2, MaxQueueAssumption DEF Dispatch
<1>3. ASSUME NEW s \in Sessions,
             PostHandler(s) \/ HandleReceive(s) \/ DropReceive(s) \/ PacketsDone(s)
      PROVE  LoopShape' /\ members' = members /\ clientRunning' = clientRunning /\ CommonMoves
  BY <1>3 DEF PostHandler, HandleReceive, DropReceive, PacketsDone, loopVars
<1>4. ASSUME NEW s \in Sessions, MovePacket(s)
      PROVE  LoopShape' /\ members' = members /\ clientRunning' = clientRunning /\ CommonMoves
  BY <1>4, MaxQueueAssumption DEF MovePacket
<1>5. ASSUME NEW s \in Sessions, StopMember(s)
      PROVE  LoopShape' /\ members' = members /\ clientRunning' = clientRunning /\ CommonMoves
  BY <1>5 DEF StopMember
<1> QED
  BY <1>1, <1>2, <1>3, <1>4, <1>5 DEF CommonStep

\* A session whose socket is made is registered at once.
LEMMA ConnectParts ==
  ASSUME IInv, LoopShape, OpenKnown, NEW s \in Sessions, Connect(s)
  PROVE  IInv' /\ ServiceStep /\ LoopShape' /\ OpenKnown'
<1>1. Start(s) /\ TakeServiceEvent(ConnectEvent(s))
  BY DEF Connect
<1>2. IInv' /\ ServiceStep
  BY <1>1, StartIInv, ServiceEventSorts DEF ServiceStep
<1>3. LoopShape'
  BY DEF Connect, LoopShape, Stopping
<1>4. OpenKnown'
  BY <1>1 DEF Connect, Start, OpenKnown, IInv, SessionTypeOK
<1> QED
  BY <1>2, <1>3, <1>4

\* A session is forgotten when its socket has been closed.
LEMMA RemoveParts ==
  ASSUME IInv, LoopShape, OpenKnown, NEW s \in Sessions, RemoveSession(s)
  PROVE  IInv' /\ UNCHANGED serviceVars /\ LoopShape' /\ OpenKnown'
<1>1. TakeClose(s) /\ UNCHANGED serviceVars /\ members' = members \ {s}
  BY DEF RemoveSession
<1>2. IInv' /\ socket' = socket
  BY <1>1, OwnerCalls DEF OwnerCall
<1>3. LoopShape'
  BY DEF RemoveSession, LoopShape, Stopping
<1>4. CloseTold(s)
  BY <1>1, OccursTail DEF TakeClose, IInv, SessionTypeOK, CloseTold
<1>5. socket[s] = "closed"
  BY <1>4 DEF IInv, Local, ClosesOnce
<1>6. OpenKnown'
  BY <1>1, <1>2, <1>5 DEF OpenKnown
<1> QED
  BY <1>1, <1>2, <1>3, <1>6

\* The Receive event of a session that is not found.
LEMMA UnknownParts ==
  ASSUME IInv, LoopShape, OpenKnown, NEW s \in Sessions,
         NEW pc \in {"session", "crashed"}, ReceiveWithoutSession(s, pc)
  PROVE  IInv' /\ UNCHANGED serviceVars /\ LoopShape' /\ OpenKnown'
<1>1. IInv' /\ socket' = socket
  BY OwnerCalls DEF OwnerCall, ReceiveWithoutSession
<1>2. UNCHANGED serviceVars /\ LoopShape'
  BY DEF ReceiveWithoutSession, LoopShape, Stopping, GoTo
<1> QED
  BY <1>1, <1>2 DEF ReceiveWithoutSession, OpenKnown

----------------------------------------------------------------------------
(* The common steps are calls that Session.tla knows. *)

\* The main thread's common steps call at most one function of one session.
LEMMA CommonCalls == CommonStep => [SessionCall]_sessionVars
<1> SUFFICES ASSUME CommonStep PROVE SessionCall \/ UNCHANGED sessionVars
  OBVIOUS
<1>1. CASE \/ ServiceEventsDone \/ SessionEventsDone \/ Dispatch
           \/ StopAllDone \/ Drain \/ DrainEventsDone
  <2>1. UNCHANGED netVars
    BY <1>1 DEF ServiceEventsDone, SessionEventsDone, Dispatch, StopAllDone, Drain,
       DrainEventsDone
  <2> QED
    BY <2>1 DEF netVars
<1>2. ASSUME NEW s \in Sessions,
             \/ PostHandler(s) \/ HandleReceive(s) \/ DropReceive(s)
             \/ MovePacket(s) \/ PacketsDone(s) \/ StopMember(s)
      PROVE  SessionCall \/ UNCHANGED sessionVars
  <2>1. OwnerCall(s) \/ UNCHANGED sessionVars
    BY <1>2 DEF OwnerCall, PostHandler, HandleReceive, DropReceive, MovePacket, PacketsDone,
       StopMember
  <2> QED
    BY <2>1 DEF SessionCall
<1> QED
  BY <1>1, <1>2 DEF CommonStep

\* The io threads run the sessions' handlers and completions.
LEMMA BackgroundCalls == BackgroundStep => [SessionCall]_sessionVars
BY DEF BackgroundStep, ServiceIo, NetworkAnswers, Environment, SessionIoStep, SessionCompletion,
   SessionCall

\* So do the handlers of the events that both programs have.
LEMMA EventCalls ==
  ASSUME NEW s \in Sessions,
         Connect(s) \/ RemoveSession(s) \/ \E pc : ReceiveWithoutSession(s, pc)
  PROVE  SessionCall
<1>1. Start(s) \/ OwnerCall(s)
  BY DEF Connect, RemoveSession, ReceiveWithoutSession, OwnerCall
<1> QED
  BY <1>1 DEF SessionCall

----------------------------------------------------------------------------
\* What both clients begin with.
LEMMA InitLoop == LoopInit => IInv /\ ServiceInv /\ LoopShape /\ OpenKnown
<1> SUFFICES ASSUME LoopInit PROVE IInv /\ ServiceInv /\ LoopShape /\ OpenKnown
  OBVIOUS
<1>1. IInv /\ ServiceInv
  BY InitIInv, ServiceInitInv DEF LoopInit
<1>2. LoopShape
  BY MaxQueueAssumption DEF LoopInit, LoopShape, Stopping
<1>3. OpenKnown
  BY DEF LoopInit, SessionInit, OpenKnown
<1> QED
  BY <1>1, <1>2, <1>3

\* What is asserted of the life cycle follows from the invariant.
LEMMA LoopAsserts == IInv /\ LoopShape /\ OpenKnown => CommonAsserts
<1> SUFFICES ASSUME IInv, LoopShape, OpenKnown PROVE CommonAsserts
  OBVIOUS
<1>1. ASSUME NEW s \in Sessions PROVE CloseTold(s) => ~running[s]
  BY DEF IInv, Local, ClosesOnce
<1> QED
  BY <1>1 DEF CommonAsserts, LoopShape, OpenKnown, Stopping

====
