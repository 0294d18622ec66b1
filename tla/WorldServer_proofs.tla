---- MODULE WorldServer_proofs ----
(***************************************************************************)
(* The invariants of the server for any number of clients, packets and     *)
(* responses.                                                              *)
(*                                                                         *)
(* Its sessions keep the invariant of Session_proofs.  Its service accepts *)
(* one connection at a time (OneAccept) and is closed by whoever clears    *)
(* m_running (StoppedOnce).  The main thread has every session whose       *)
(* socket is open (OpenKnown) and stops only behind its service            *)
(* (StopsLast).  What it broadcasts is ordered because each session gets a *)
(* response before the next one is dispatched (StreamInv).  While the      *)
(* server runs each of its running sessions has its read token somewhere,  *)
(* which a step may only pass on.  A session that stopped has nothing left *)
(* to read unless it was a failed write that stopped it (PacketInv).       *)
(***************************************************************************)
EXTENDS WorldServer, Session_proofs

(* The service. *)

OwnerEvents == [type : {"Accept", "Close"}, sid : Sessions \cup {NoSession}]
CloseHandlers == {CloseServiceHandler}
AcceptHandlers == OnAcceptedHandlers \cup {AsyncAcceptHandler}
Closed == Occurs(serviceEvents, {ServiceCloseEvent})

\* Nothing happens before start().
NotStarted ==
  starter # "done" =>
    /\ ~acceptOp /\ ~Occurs(serviceStrand, AcceptHandlers)
    /\ starter = "idle" =>
         /\ ~serviceRunning /\ signal # "stopping"
         /\ serviceStrand = <<>> /\ serviceEvents = <<>> /\ acceptor = "open"

\* Whoever clears m_running posts close(), and nobody else.
StoppedOnce ==
  /\ serviceRunning \/ signal = "stopping" \/ acceptor = "closed" =>
       ~Occurs(serviceStrand, CloseHandlers)
  /\ serviceRunning => signal # "stopping"
  /\ serviceRunning \/ signal = "stopping" => acceptor = "open"
  /\ Closed => acceptor = "closed"
  /\ AtMostOnce(serviceStrand, CloseHandlers)
  /\ AtMostOnce(serviceEvents, {ServiceCloseEvent})

\* The accept that start() begins is the only one.
OneAccept ==
  /\ AtMostOnce(serviceStrand, AcceptHandlers)
  /\ acceptOp => ~Occurs(serviceStrand, AcceptHandlers)

ServiceInv == ServiceTypeOK /\ NotStarted /\ StoppedOnce /\ OneAccept

ServiceOver == starter # "idle" /\ acceptor = "closed" /\ ~Closed

----------------------------------------------------------------------------
(* The main thread. *)

Stopping == {"stopAll", "drain", "drainEvents", "done"}

MainInv ==
  /\ MainTypeOK
  /\ mainPc \in Stopping => ~serverRunning
  /\ mainPc \in {"packets", "broadcast"} => serverRunning
  /\ mainPc = "broadcast" => messages # <<>> /\ Response \in Chunks
  /\ mainPc = "done" => members = {}
  /\ nextMessageId >= 1

OpenKnown == \A s \in Sessions : socket[s] = "open" => s \in members
StopsLast == ~serverRunning => ServiceOver

HasToken(s) == ReadPosted(s) \/ ReadQueued(s) \/ readOp[s] \/ ReadTold(s) \/ reading = s

\* A session that does not exist yet has delivered nothing.
FreshDelivered == \A s \in Sessions : socket[s] = "none" => delivered[s] = <<>>

\* What is queued, the chunk that is written included, is not after the last
\* one queued.
QueueBehind(s, first) ==
  \A i \in 1..Len(sendQueue[s]) : sendQueue[s][i] <= LastQueued(s, first)

Streams(s, first, last) == OnTheWay(s, first, last) /\ QueueBehind(s, first)

StreamInv ==
  \A s \in Sessions : \E first, last \in 0..Response :
    /\ Streams(s, first, last)
    /\ running[s] => last = LastDispatched(s)

ServerInv ==
  /\ IInv /\ ServiceInv /\ MainInv
  /\ OpenKnown /\ StopsLast /\ NoReadStall /\ FreshDelivered /\ StreamInv

----------------------------------------------------------------------------
(* While the server runs, a session stops by a failed read, which takes    *)
(* the read token along, or by a failed write, which gives a chunk up.     *)

Unread(s) == ~running[s] /\ HasToken(s) => WriteGivenUp(s)
StoppedUnread == serverRunning => \A s \in Sessions : Unread(s)

\* Each packet queued was taken out of its session's receive buffer, or is
\* still at the front of that of a session whose write failed.
Taken(m) == m.packet <= popped[m.sid] \/ StuckAtFront(m)
PacketsTaken == \A i \in 1..Len(messages) : Taken(messages[i])

PacketInv ==
  ServerInv /\ StoppedUnread /\ PacketMovedOnceOrGivenUp /\ PacketsTaken

----------------------------------------------------------------------------
(* The steps of the service. *)

ServiceStep ==
  \/ BaseStep(StartService) \/ BaseStep(RaiseSignal) \/ ServiceIoStep
  \/ CompleteAccept
  \/ \E e \in OwnerEvents : TakeServiceEvent(e)

\* The sorts of handlers and events do not overlap.
LEMMA ServiceSorts ==
  /\ CloseServiceHandler \in ServiceHandlers \ AcceptHandlers
  /\ AcceptHandlers \subseteq ServiceHandlers
  /\ \A h \in AcceptHandlers : h \notin CloseHandlers
  /\ ServiceCloseEvent \in OwnerEvents
  /\ \A s \in Sessions : AcceptEvent(s) \in OwnerEvents /\ AcceptEvent(s) # ServiceCloseEvent
BY DEF ServiceHandlers, CloseServiceHandler, CloseHandlers, AcceptHandlers,
       OnAcceptedHandlers, AcceptedHandlers, AcceptErrorHandlers, AsyncAcceptHandler,
       AcceptErrors, OwnerEvents, ServiceCloseEvent, AcceptEvent

\* The queues of the service in its invariant, and the strand after a pop.
LEMMA ServiceQueues ==
  ASSUME ServiceTypeOK
  PROVE  serviceStrand \in Seq(ServiceHandlers) /\ serviceEvents \in Seq(OwnerEvents)
BY DEF ServiceTypeOK, BaseTypeOK, OwnerEvents

\* Popping the service's strand.
LEMMA ServiceStrandPopped ==
  ASSUME ServiceTypeOK, serviceStrand # <<>>
  PROVE  /\ Tail(serviceStrand) \in Seq(ServiceHandlers)
         /\ Head(serviceStrand) \in ServiceHandlers
         /\ \A S : Occurs(serviceStrand, S) <=>
                    Head(serviceStrand) \in S \/ Occurs(Tail(serviceStrand), S)
         /\ \A S : AtMostOnce(serviceStrand, S) =>
                    /\ AtMostOnce(Tail(serviceStrand), S)
                    /\ Head(serviceStrand) \in S => ~Occurs(Tail(serviceStrand), S)
BY ServiceQueues, QueuePopped

\* Steps that leave the queues alone.
LEMMA StartPreserves ==
  ASSUME ServiceInv, BaseStep(StartService) PROVE ServiceInv'
<1> USE DEF ServiceInv, BaseStep, StartService
<1>1. ServiceTypeOK'
  BY DEF ServiceTypeOK, BaseTypeOK
<1>2. NotStarted' /\ OneAccept'
  BY DEF NotStarted, OneAccept
<1>3. StoppedOnce'
  BY OccursEmpty DEF NotStarted, StoppedOnce, Closed
<1> QED
  BY <1>1, <1>2, <1>3

\* The signal handler clears m_running: from then on the second half of it owes the close.
LEMMA SignalPreserves ==
  ASSUME ServiceInv, BaseStep(RaiseSignal) \/ BaseStep(SignalStops) PROVE ServiceInv'
<1> USE DEF ServiceInv, BaseStep, RaiseSignal, SignalStops
<1>1. ServiceTypeOK'
  BY DEF ServiceTypeOK, BaseTypeOK
<1>2. NotStarted' /\ OneAccept'
  BY DEF NotStarted, OneAccept
<1>3. StoppedOnce'
  BY DEF StoppedOnce, Closed
<1> QED
  BY <1>1, <1>2, <1>3

\* Steps that push a handler.
LEMMA ServicePushed ==
  ASSUME ServiceInv, NEW h \in ServiceHandlers, serviceStrand' = Append(serviceStrand, h)
  PROVE  /\ serviceStrand' \in Seq(ServiceHandlers)
         /\ \A S : Occurs(serviceStrand', S) <=> Occurs(serviceStrand, S) \/ h \in S
         /\ \A S : AtMostOnce(serviceStrand, S) /\ (h \in S => ~Occurs(serviceStrand, S))
                     => AtMostOnce(serviceStrand', S)
BY ServiceQueues, QueuePushed DEF ServiceInv

\* start() posts asyncAccept(), the only time.
LEMMA PostPreserves ==
  ASSUME ServiceInv, BaseStep(PostAsyncAccept) PROVE ServiceInv'
<1> DEFINE h == AsyncAcceptHandler
<1>1. h \in AcceptHandlers /\ h \in ServiceHandlers /\ h \notin CloseHandlers
  BY ServiceSorts DEF AcceptHandlers
<1>2. /\ serviceStrand' = Append(serviceStrand, h) /\ starter = "posting" /\ starter' = "done"
      /\ UNCHANGED <<serviceRunning, signal, serviceEvents, acceptor, acceptOp, connected>>
  BY DEF BaseStep, PostAsyncAccept, PostFirst
<1> HIDE DEF h
<1>3. /\ serviceStrand' \in Seq(ServiceHandlers)
      /\ \A S : Occurs(serviceStrand', S) <=> Occurs(serviceStrand, S) \/ h \in S
      /\ \A S : AtMostOnce(serviceStrand, S) /\ (h \in S => ~Occurs(serviceStrand, S))
                  => AtMostOnce(serviceStrand', S)
  BY <1>1, <1>2, ServicePushed
<1>4. ServiceTypeOK'
  BY <1>2, <1>3 DEF ServiceInv, ServiceTypeOK, BaseTypeOK
<1>5. NotStarted' /\ OneAccept'
  BY <1>1, <1>2, <1>3 DEF ServiceInv, NotStarted, OneAccept
<1>6. StoppedOnce'
  BY <1>1, <1>2, <1>3 DEF ServiceInv, StoppedOnce, Closed
<1> QED
  BY <1>4, <1>5, <1>6 DEF ServiceInv

\* The second half of the signal handler posts close().
LEMMA SignalPostsPreserves ==
  ASSUME ServiceInv, BaseStep(SignalPostsClose) PROVE ServiceInv'
<1> DEFINE h == CloseServiceHandler
<1>1. h \notin AcceptHandlers /\ h \in ServiceHandlers /\ h \in CloseHandlers
  BY ServiceSorts DEF CloseHandlers
<1>2. /\ serviceStrand' = Append(serviceStrand, h) /\ signal = "stopping" /\ signal' = "over"
      /\ UNCHANGED <<serviceRunning, starter, serviceEvents, acceptor, acceptOp, connected>>
  BY DEF BaseStep, SignalPostsClose
<1> HIDE DEF h
<1>3. /\ serviceStrand' \in Seq(ServiceHandlers)
      /\ \A S : Occurs(serviceStrand', S) <=> Occurs(serviceStrand, S) \/ h \in S
      /\ \A S : AtMostOnce(serviceStrand, S) /\ (h \in S => ~Occurs(serviceStrand, S))
                  => AtMostOnce(serviceStrand', S)
  BY <1>1, <1>2, ServicePushed
<1>4. ServiceTypeOK'
  BY <1>2, <1>3 DEF ServiceInv, ServiceTypeOK, BaseTypeOK
<1>5. NotStarted' /\ OneAccept'
  BY <1>1, <1>2, <1>3 DEF ServiceInv, NotStarted, OneAccept
<1>6. StoppedOnce'
  BY <1>1, <1>2, <1>3 DEF ServiceInv, StoppedOnce, Closed
<1> QED
  BY <1>4, <1>5, <1>6 DEF ServiceInv

\* The operating system completes the accept that is under way.
LEMMA CompleteAcceptPreserves ==
  ASSUME ServiceInv, CompleteAccept PROVE ServiceInv'
<1>1. PICK h \in OnAcceptedHandlers :
        /\ serviceStrand' = Append(serviceStrand, h)
        /\ connected' = connected \cup ({h.sid} \ {NoSession})
  BY DEF CompleteAccept, AcceptResults, Faults, OnAcceptedHandlers, AcceptedHandlers,
     AcceptErrorHandlers, AcceptErrors
<1>2. h \in AcceptHandlers /\ h \in ServiceHandlers /\ h \notin CloseHandlers
  BY ServiceSorts DEF AcceptHandlers
<1>3. /\ acceptOp /\ ~acceptOp'
      /\ UNCHANGED <<serviceRunning, starter, signal, acceptor, serviceEvents>>
  BY DEF CompleteAccept
<1>4. connected' \subseteq Sessions
  BY <1>1 DEF ServiceInv, ServiceTypeOK, OnAcceptedHandlers, AcceptedHandlers,
     AcceptErrorHandlers
<1>5. /\ serviceStrand' \in Seq(ServiceHandlers)
      /\ \A S : Occurs(serviceStrand', S) <=> Occurs(serviceStrand, S) \/ h \in S
      /\ \A S : AtMostOnce(serviceStrand, S) /\ (h \in S => ~Occurs(serviceStrand, S))
                  => AtMostOnce(serviceStrand', S)
  BY <1>1, <1>2, ServicePushed
<1>6. ServiceTypeOK'
  BY <1>3, <1>4, <1>5 DEF ServiceInv, ServiceTypeOK, BaseTypeOK, CompleteAccept
<1>7. NotStarted' /\ OneAccept'
  BY <1>2, <1>3, <1>5 DEF ServiceInv, NotStarted, OneAccept
<1>8. StoppedOnce'
  BY <1>2, <1>3, <1>5 DEF ServiceInv, StoppedOnce, Closed
<1> QED
  BY <1>6, <1>7, <1>8 DEF ServiceInv

\* handleError(): close() is pushed behind what is left, if it is pushed.
LEMMA ErrorHandled ==
  ASSUME ServiceInv, serviceStrand # <<>>, NEW result, HandleServiceError(result)
  PROVE  /\ serviceStrand' \in Seq(ServiceHandlers)
         /\ serviceRunning' \in BOOLEAN
         /\ \/ serviceRunning' = serviceRunning /\ serviceStrand' = Tail(serviceStrand)
            \/ /\ serviceRunning /\ ~serviceRunning'
               /\ serviceStrand' = Append(Tail(serviceStrand), CloseServiceHandler)
<1>1. ServiceTypeOK /\ serviceRunning \in BOOLEAN
  BY DEF ServiceInv, ServiceTypeOK, BaseTypeOK
<1>2. Tail(serviceStrand) \in Seq(ServiceHandlers)
  BY <1>1, ServiceStrandPopped
<1>3. Append(Tail(serviceStrand), CloseServiceHandler) \in Seq(ServiceHandlers)
  BY <1>2, ServiceSorts, QueuePushed
<1>4. CASE result = "fatal" /\ serviceRunning
  BY <1>1, <1>3, <1>4 DEF HandleServiceError
<1>5. CASE ~(result = "fatal" /\ serviceRunning)
  BY <1>1, <1>2, <1>5 DEF HandleServiceError
<1> QED
  BY <1>4, <1>5

\* A handler of the accept at the head: none is left behind it.
LEMMA AcceptPopped ==
  ASSUME ServiceInv, NEW S \in SUBSET AcceptHandlers, ServiceRuns(S)
  PROVE  /\ serviceStrand # <<>> /\ starter = "done" /\ ~acceptOp
         /\ Tail(serviceStrand) \in Seq(ServiceHandlers)
         /\ ~Occurs(Tail(serviceStrand), AcceptHandlers)
         /\ Occurs(Tail(serviceStrand), CloseHandlers) <=> Occurs(serviceStrand, CloseHandlers)
         /\ AtMostOnce(Tail(serviceStrand), AcceptHandlers)
         /\ AtMostOnce(Tail(serviceStrand), CloseHandlers)
<1>1. /\ serviceStrand # <<>> /\ Head(serviceStrand) \in AcceptHandlers /\ ServiceTypeOK
      /\ Head(serviceStrand) \notin CloseHandlers
  BY ServiceSorts DEF ServiceRuns, ServiceInv
<1>2. Occurs(serviceStrand, AcceptHandlers)
  BY <1>1, ServiceStrandPopped
<1>3. starter = "done" /\ ~acceptOp
  BY <1>2 DEF ServiceInv, NotStarted, OneAccept
<1> QED
  BY <1>1, <1>3, ServiceStrandPopped DEF ServiceInv, OneAccept, StoppedOnce

\* asyncAccept() and a successful onAccepted() start the next accept.
LEMMA AcceptStepPreserves ==
  ASSUME ServiceInv, AsyncAccept \/ OnAccepted PROVE ServiceInv'
<1>1. ServiceRuns({AsyncAcceptHandler}) \/ ServiceRuns(AcceptedHandlers)
  BY DEF AsyncAccept, OnAccepted
<1>2. {AsyncAcceptHandler} \in SUBSET AcceptHandlers /\ AcceptedHandlers \in SUBSET AcceptHandlers
  BY DEF AcceptHandlers, OnAcceptedHandlers
<1>3. /\ serviceStrand # <<>> /\ starter = "done" /\ ~acceptOp
      /\ Tail(serviceStrand) \in Seq(ServiceHandlers)
      /\ ~Occurs(Tail(serviceStrand), AcceptHandlers)
      /\ Occurs(Tail(serviceStrand), CloseHandlers) <=> Occurs(serviceStrand, CloseHandlers)
      /\ AtMostOnce(Tail(serviceStrand), AcceptHandlers)
      /\ AtMostOnce(Tail(serviceStrand), CloseHandlers)
  BY <1>1, <1>2, AcceptPopped
<1>4. /\ serviceStrand' = Tail(serviceStrand) /\ acceptOp' = serviceRunning
      /\ UNCHANGED <<serviceRunning, starter, signal, acceptor, connected>>
  BY DEF AsyncAccept, OnAccepted
<1>5. /\ serviceEvents' \in Seq(OwnerEvents)
      /\ Closed' <=> Closed
      /\ AtMostOnce(serviceEvents', {ServiceCloseEvent})
  <2>1. serviceEvents \in Seq(OwnerEvents) /\ AtMostOnce(serviceEvents, {ServiceCloseEvent})
    BY ServiceQueues DEF ServiceInv, StoppedOnce
  <2>2. CASE AsyncAccept
    BY <2>1, <2>2 DEF AsyncAccept, Closed
  <2>3. CASE OnAccepted
    <3>1. PICK s \in Sessions : serviceEvents' = Append(serviceEvents, AcceptEvent(s))
      BY <2>3 DEF OnAccepted, ServiceRuns, AcceptedHandlers
    <3> QED
      BY <2>1, <3>1, QueuePushed, ServiceSorts DEF Closed
  <2> QED
    BY <2>2, <2>3
<1>6. ServiceTypeOK'
  BY <1>3, <1>4, <1>5 DEF ServiceInv, ServiceTypeOK, BaseTypeOK, OwnerEvents
<1>7. NotStarted' /\ OneAccept'
  BY <1>3, <1>4 DEF NotStarted, OneAccept
<1>8. StoppedOnce'
  BY <1>3, <1>4, <1>5 DEF ServiceInv, StoppedOnce
<1> QED
  BY <1>6, <1>7, <1>8 DEF ServiceInv

\* onAccepted() with an error stops the service, if anything.
LEMMA AcceptErrorPreserves ==
  ASSUME ServiceInv, OnAcceptError PROVE ServiceInv'
<1>1. ServiceRuns(AcceptErrorHandlers) /\ HandleServiceError(Head(serviceStrand).result)
  BY DEF OnAcceptError
<1>2. AcceptErrorHandlers \in SUBSET AcceptHandlers
  BY DEF AcceptHandlers, OnAcceptedHandlers
<1>3. /\ serviceStrand # <<>> /\ starter = "done" /\ ~acceptOp
      /\ Tail(serviceStrand) \in Seq(ServiceHandlers)
      /\ ~Occurs(Tail(serviceStrand), AcceptHandlers)
      /\ Occurs(Tail(serviceStrand), CloseHandlers) <=> Occurs(serviceStrand, CloseHandlers)
      /\ AtMostOnce(Tail(serviceStrand), AcceptHandlers)
      /\ AtMostOnce(Tail(serviceStrand), CloseHandlers)
  BY <1>1, <1>2, AcceptPopped
<1>4. /\ acceptOp' = serviceRunning'
      /\ UNCHANGED <<starter, signal, acceptor, connected, serviceEvents>>
  BY DEF OnAcceptError
<1>5. /\ serviceStrand' \in Seq(ServiceHandlers)
      /\ serviceRunning' \in BOOLEAN
      /\ \/ serviceRunning' = serviceRunning /\ serviceStrand' = Tail(serviceStrand)
         \/ /\ serviceRunning /\ ~serviceRunning'
            /\ serviceStrand' = Append(Tail(serviceStrand), CloseServiceHandler)
  BY <1>1, <1>3, ErrorHandled
<1>6. ServiceTypeOK'
  BY <1>4, <1>5 DEF ServiceInv, ServiceTypeOK, BaseTypeOK
<1>7. CASE serviceRunning' = serviceRunning /\ serviceStrand' = Tail(serviceStrand)
  <2>1. NotStarted' /\ OneAccept'
    BY <1>3, <1>4, <1>7 DEF NotStarted, OneAccept
  <2>2. StoppedOnce'
    BY <1>3, <1>4, <1>7 DEF ServiceInv, StoppedOnce, Closed
  <2> QED
    BY <1>6, <2>1, <2>2 DEF ServiceInv
<1>8. CASE /\ serviceRunning /\ ~serviceRunning'
           /\ serviceStrand' = Append(Tail(serviceStrand), CloseServiceHandler)
  <2>1. /\ ~Occurs(Tail(serviceStrand), CloseHandlers) /\ signal # "stopping"
        /\ acceptor = "open" /\ ~Closed
    BY <1>3, <1>8 DEF ServiceInv, StoppedOnce
  <2>2. CloseServiceHandler \in CloseHandlers
    BY DEF CloseHandlers
  <2>3. /\ AtMostOnce(serviceStrand', CloseHandlers)
        /\ AtMostOnce(serviceStrand', AcceptHandlers) /\ ~Occurs(serviceStrand', AcceptHandlers)
    BY <1>3, <1>8, <2>1, <2>2, QueuePushed, ServiceSorts
  <2>4. NotStarted' /\ OneAccept'
    BY <1>3, <1>4, <2>3 DEF NotStarted, OneAccept
  <2>5. StoppedOnce'
    BY <1>4, <1>8, <2>1, <2>3 DEF ServiceInv, StoppedOnce, Closed
  <2> QED
    BY <1>6, <2>4, <2>5 DEF ServiceInv
<1> QED
  BY <1>5, <1>7, <1>8

\* close() closes the acceptor and tells the owner, once.
LEMMA CloseServicePreserves ==
  ASSUME ServiceInv, CloseService PROVE ServiceInv'
<1>1. /\ serviceStrand # <<>> /\ Head(serviceStrand) = CloseServiceHandler /\ ServiceTypeOK
      /\ serviceStrand' = Tail(serviceStrand) /\ acceptor' = "closed"
      /\ signal' = IF signal = "armed" THEN "raised" ELSE signal
      /\ serviceEvents' = Append(serviceEvents, ServiceCloseEvent)
      /\ UNCHANGED <<serviceRunning, starter, acceptOp, connected>>
  BY DEF CloseService, CloseBase, ServiceRuns, ServiceInv
<1>2. /\ serviceStrand' \in Seq(ServiceHandlers)
      /\ Occurs(serviceStrand, CloseHandlers) /\ ~Occurs(serviceStrand', CloseHandlers)
      /\ AtMostOnce(serviceStrand', CloseHandlers)
      /\ Occurs(serviceStrand', AcceptHandlers) => Occurs(serviceStrand, AcceptHandlers)
      /\ AtMostOnce(serviceStrand', AcceptHandlers)
  BY <1>1, ServiceStrandPopped DEF CloseHandlers, ServiceInv, StoppedOnce, OneAccept
<1>3. ~serviceRunning /\ signal # "stopping" /\ acceptor # "closed" /\ ~Closed
  BY <1>2 DEF ServiceInv, StoppedOnce
<1>4. /\ serviceEvents' \in Seq(OwnerEvents)
      /\ AtMostOnce(serviceEvents', {ServiceCloseEvent})
  BY <1>1, <1>3, ServiceQueues, ServiceSorts, QueuePushed
     DEF ServiceInv, StoppedOnce, Closed
<1>5. ServiceTypeOK'
  BY <1>1, <1>2, <1>4 DEF ServiceTypeOK, BaseTypeOK, OwnerEvents
<1>6. NotStarted' /\ OneAccept'
  BY <1>1, <1>2 DEF ServiceInv, NotStarted, OneAccept
<1>7. StoppedOnce'
  BY <1>1, <1>2, <1>3, <1>4 DEF StoppedOnce
<1> QED
  BY <1>5, <1>6, <1>7 DEF ServiceInv

\* The owner's step: it pops an event.
LEMMA TakePreserves ==
  ASSUME ServiceInv, NEW e, TakeServiceEvent(e) PROVE ServiceInv'
<1>1. /\ serviceEvents # <<>> /\ serviceEvents' = Tail(serviceEvents)
      /\ UNCHANGED <<serviceRunning, starter, signal, serviceStrand, acceptor, acceptOp,
                     connected>>
  BY DEF TakeServiceEvent, TakeEvent
<1>2. /\ serviceEvents' \in Seq(OwnerEvents)
      /\ Closed' => Closed
      /\ AtMostOnce(serviceEvents', {ServiceCloseEvent})
  BY <1>1, ServiceQueues, QueuePopped DEF ServiceInv, StoppedOnce, Closed
<1>3. ServiceTypeOK'
  BY <1>1, <1>2 DEF ServiceInv, ServiceTypeOK, BaseTypeOK, OwnerEvents
<1>4. NotStarted' /\ OneAccept'
  BY <1>1 DEF ServiceInv, NotStarted, OneAccept
<1>5. StoppedOnce'
  BY <1>1, <1>2 DEF ServiceInv, StoppedOnce
<1> QED
  BY <1>3, <1>4, <1>5 DEF ServiceInv

\* The service as it is before start().
LEMMA ServiceInitInv == ServiceInit => ServiceInv
<1> SUFFICES ASSUME ServiceInit PROVE ServiceInv
  OBVIOUS
<1> USE DEF ServiceInit, BaseInit
<1>1. serviceStrand \in Seq(ServiceHandlers) /\ serviceEvents \in Seq(OwnerEvents)
  OBVIOUS
<1>2. ServiceTypeOK
  BY <1>1 DEF ServiceTypeOK, BaseTypeOK, OwnerEvents
<1>3. NotStarted /\ StoppedOnce /\ OneAccept
  BY OccursEmpty DEF NotStarted, StoppedOnce, OneAccept, Closed
<1> QED
  BY <1>2, <1>3 DEF ServiceInv

\* Each step of the service by itself keeps its invariant.
LEMMA ServiceStepInv == ServiceInv /\ [ServiceStep]_serviceVars => ServiceInv'
<1> SUFFICES ASSUME ServiceInv, [ServiceStep]_serviceVars PROVE ServiceInv'
  OBVIOUS
<1>1. CASE BaseStep(StartService) \/ BaseStep(RaiseSignal)
  BY <1>1, StartPreserves, SignalPreserves
<1>2. CASE BaseStep(PostAsyncAccept)
  BY <1>2, PostPreserves
<1>3. CASE BaseStep(SignalStep)
  BY <1>3, SignalPreserves, SignalPostsPreserves DEF SignalStep, BaseStep
<1>4. CASE ServiceStrandStep
  BY <1>4, AcceptStepPreserves, AcceptErrorPreserves, CloseServicePreserves
     DEF ServiceStrandStep
<1>5. CASE CompleteAccept
  BY <1>5, CompleteAcceptPreserves
<1>6. CASE \E e \in OwnerEvents : TakeServiceEvent(e)
  BY <1>6, TakePreserves
<1>7. CASE UNCHANGED serviceVars
  BY <1>7 DEF serviceVars, baseVars, ServiceInv, ServiceTypeOK, BaseTypeOK, NotStarted,
     StoppedOnce, OneAccept, Closed
<1> QED
  BY <1>1, <1>2, <1>3, <1>4, <1>5, <1>6, <1>7 DEF ServiceStep, ServiceIoStep

\* The invariant is what the service promises, and more.
LEMMA ServiceInvProtocol == ServiceInv => ServiceProtocol
<1> SUFFICES ASSUME ServiceInv PROVE ServiceProtocol
  OBVIOUS
<1>1. CloseOnce
  BY DEF ServiceInv, CloseOnce, StoppedOnce, CloseHandlers, Closed
<1> QED
  BY <1>1 DEF ServiceInv, ServiceProtocol, OneAccept, StoppedOnce, AcceptHandlers, CloseHandlers,
     ServiceTypeOK

\* A service that is over stays over.
LEMMA OverStays ==
  ASSUME ServiceInv, ServiceOver, [ServiceStep]_serviceVars
  PROVE  ServiceOver'
<1>1. /\ ServiceInv' /\ starter # "idle" /\ acceptor = "closed" /\ ~Closed
      /\ ~Occurs(serviceStrand, CloseHandlers)
  BY ServiceStepInv DEF ServiceOver, ServiceInv, StoppedOnce
<1>2. ~CloseService
  BY <1>1, ServiceStrandPopped
     DEF CloseService, CloseBase, ServiceRuns, CloseHandlers, ServiceInv
<1>3. CASE OnAccepted
  <2>1. PICK s \in Sessions : serviceEvents' = Append(serviceEvents, AcceptEvent(s))
    BY <1>3 DEF OnAccepted, ServiceRuns, AcceptedHandlers
  <2>2. ~Closed'
    BY <1>1, <2>1, ServiceQueues, QueuePushed, ServiceSorts DEF Closed, ServiceInv
  <2> QED
    BY <1>1, <1>3, <2>2 DEF OnAccepted, ServiceOver
<1>4. CASE \E e \in OwnerEvents : TakeServiceEvent(e)
  <2>1. ~Closed'
    BY <1>1, <1>4, ServiceQueues, QueuePopped
       DEF TakeServiceEvent, TakeEvent, Closed, ServiceInv
  <2> QED
    BY <1>1, <1>4, <2>1 DEF TakeServiceEvent, TakeEvent, ServiceOver
<1>5. ASSUME /\ serviceEvents' = serviceEvents /\ acceptor' = acceptor
             /\ starter' # "idle"
      PROVE  ServiceOver'
  BY <1>1, <1>5 DEF ServiceOver, Closed
<1>6. CASE \/ BaseStep(StartService) \/ BaseStep(RaiseSignal) \/ BaseStep(PostAsyncAccept)
           \/ BaseStep(SignalStep)
  BY <1>1, <1>5, <1>6 DEF BaseStep, StartService, RaiseSignal, PostAsyncAccept, PostFirst,
     SignalStep, SignalStops, SignalPostsClose
<1>7. CASE AsyncAccept \/ OnAcceptError \/ CompleteAccept \/ UNCHANGED serviceVars
  BY <1>1, <1>5, <1>7 DEF AsyncAccept, OnAcceptError, CompleteAccept, serviceVars, baseVars
<1> QED
  BY <1>2, <1>3, <1>4, <1>6, <1>7 DEF ServiceStep, ServiceIoStep, ServiceStrandStep

\* When the owner takes the Close event, the service is over.
LEMMA OverWhenTold ==
  ASSUME ServiceInv, TakeServiceEvent(ServiceCloseEvent)
  PROVE  ServiceOver'
<1>1. /\ serviceEvents # <<>> /\ Head(serviceEvents) = ServiceCloseEvent
      /\ serviceEvents' = Tail(serviceEvents)
      /\ UNCHANGED <<starter, acceptor>>
  BY DEF TakeServiceEvent, TakeEvent
<1>2. serviceEvents \in Seq(OwnerEvents)
  BY ServiceQueues DEF ServiceInv
<1>3. Closed /\ ~Closed'
  BY <1>1, <1>2, QueuePopped DEF Closed, ServiceInv, StoppedOnce
<1>4. acceptor = "closed" /\ starter # "idle"
  BY <1>1, <1>3 DEF ServiceInv, StoppedOnce, NotStarted
<1> QED
  BY <1>1, <1>3, <1>4 DEF ServiceOver

----------------------------------------------------------------------------
(* Each step of the program, seen from the sessions and from the service.  *)

SessionStep(s) == Start(s) \/ OwnerCall(s) \/ StrandStep(s) \/ CompletionStep(s)

\* The main thread's steps: in its own loops, with an event of the service,
\* with a session.
LoopStep ==
  \/ ServiceEventsDone \/ SessionEventsDone \/ HandleChat \/ BroadcastDone \/ TickDone
  \/ StopAllDone \/ DrainMore \/ DrainEventsDone \/ DrainDone
  \/ \E s \in Sessions : SendFails(s) \/ AlreadyStopped(s)

ServiceTaken == HandleServiceClose \/ \E s \in Sessions : SkipAccept(s)

CallStep(s) ==
  \/ PostHandler(s) \/ HandleClose(s) \/ HandleReceive(s) \/ ReceiveWithoutSession(s)
  \/ DropReceive(s) \/ MovePacket(s) \/ OutOfMemory(s) \/ PacketsDone(s)
  \/ SendResponse(s) \/ StopMember(s)

\* The steps of the main thread, by what they touch.
LEMMA MainStepKinds ==
  MainStep => \/ LoopStep \/ ServiceTaken
              \/ \E s \in Sessions : CallStep(s) \/ HandleAccept(s)
BY DEF MainStep, LoopStep, ServiceTaken, CallStep

\* Some only move the main thread on.
LEMMA LoopStepParts == LoopStep => UNCHANGED <<sessionVars, serviceVars>>
BY DEF LoopStep, ServiceEventsDone, SessionEventsDone, HandleChat, BroadcastDone, TickDone,
       StopAllDone, DrainMore, DrainEventsDone, DrainDone, SendFails, AlreadyStopped

\* Some take an event from the service.
LEMMA ServiceTakenParts == ServiceTaken => ServiceStep /\ UNCHANGED sessionVars
BY ServiceSorts DEF ServiceTaken, HandleServiceClose, SkipAccept, ServiceStep

\* Some call a session, or take a session's event.
LEMMA CallStepParts ==
  ASSUME MainInv, NEW s \in Sessions, CallStep(s)
  PROVE  OwnerCall(s) /\ UNCHANGED serviceVars
<1>1. ASSUME SendResponse(s) PROVE \E c \in Chunks : Send(s, c)
  BY <1>1 DEF SendResponse, MainInv
<1> QED
  BY <1>1 DEF CallStep, OwnerCall, PostHandler, HandleClose, HandleReceive,
     ReceiveWithoutSession, DropReceive, MovePacket, OutOfMemory, PacketsDone, SendResponse,
     StopMember

\* One creates and starts a session.
LEMMA AcceptParts ==
  ASSUME NEW s \in Sessions, HandleAccept(s)
  PROVE  Start(s) /\ ServiceStep
BY ServiceSorts DEF HandleAccept, ServiceStep

\* What the other threads do, and nothing.
LEMMA OtherParts ==
  ASSUME [Next]_vars, ~MainStep
  PROVE  /\ UNCHANGED mainVars
         /\ \/ [ServiceStep]_serviceVars /\ UNCHANGED sessionVars
            \/ /\ UNCHANGED serviceVars
               /\ \E s \in Sessions : StrandStep(s) \/ CompletionStep(s)
<1>1. CASE ServiceIo \/ AcceptCompletion \/ Environment
  BY <1>1 DEF ServiceIo, AcceptCompletion, Environment, ServiceStep
<1>2. CASE \E s \in Sessions : SessionIoStep(s) \/ SessionCompletion(s)
  BY <1>2 DEF SessionIoStep, SessionCompletion
<1>3. CASE UNCHANGED vars
  BY <1>3 DEF vars
<1> QED
  BY <1>1, <1>2, <1>3 DEF Next, Halted

\* Every step is one of the sessions' and one of the service's, or leaves them.
LEMMA StepParts ==
  ASSUME MainInv, [Next]_vars
  PROVE  /\ UNCHANGED sessionVars \/ \E s \in Sessions : SessionStep(s)
         /\ [ServiceStep]_serviceVars
<1>1. ASSUME LoopStep \/ ServiceTaken
      PROVE  UNCHANGED sessionVars /\ [ServiceStep]_serviceVars
  BY <1>1, LoopStepParts, ServiceTakenParts
<1>2. ASSUME NEW s \in Sessions, CallStep(s) \/ HandleAccept(s)
      PROVE  SessionStep(s) /\ [ServiceStep]_serviceVars
  BY <1>2, CallStepParts, AcceptParts DEF SessionStep
<1> QED
  BY <1>1, <1>2, MainStepKinds, OtherParts DEF SessionStep

\* Each step of the server keeps the invariant of its sessions.
LEMMA SessionsInv ==
  ASSUME IInv, UNCHANGED sessionVars \/ \E s \in Sessions : SessionStep(s)
  PROVE  IInv'
BY StartIInv, OwnerCalls, IoCalls, StutterIInv DEF SessionStep

----------------------------------------------------------------------------
(* The main thread. *)

\* The main thread's own data, step by step.
LEMMA LoopStepMain ==
  ASSUME MainInv, LoopStep
  PROVE  MainInv' /\ serverRunning' = serverRunning /\ members' = members
<1> USE DEF MainInv, MainTypeOK, Stopping, Response
<1>1. CASE \/ ServiceEventsDone \/ SessionEventsDone \/ TickDone \/ StopAllDone
           \/ DrainMore \/ DrainEventsDone \/ DrainDone
           \/ \E s \in Sessions : SendFails(s) \/ AlreadyStopped(s)
  BY <1>1 DEF ServiceEventsDone, SessionEventsDone, TickDone, StopAllDone, DrainMore,
     DrainEventsDone, DrainDone, SendFails, AlreadyStopped
<1>2. CASE HandleChat
  <2>1. /\ nextMessageId' = nextMessageId + 1 /\ nextMessageId \in Chunks
        /\ recipients' = active /\ mainPc' = "broadcast" /\ serverRunning /\ messages # <<>>
        /\ UNCHANGED <<serverRunning, members, active, messages>>
    BY <1>2 DEF HandleChat
  <2>2. nextMessageId' \in Nat /\ nextMessageId' >= 1 /\ nextMessageId' - 1 = nextMessageId
    BY <2>1
  <2> QED
    BY <2>1, <2>2
<1>3. CASE BroadcastDone
  BY <1>3, QueueTypes DEF BroadcastDone
<1> QED
  BY <1>1, <1>2, <1>3 DEF LoopStep

\* ... when a session is called.
LEMMA CallStepMain ==
  ASSUME IInv, MainInv, NEW s \in Sessions, CallStep(s)
  PROVE  /\ MainInv' /\ serverRunning' = serverRunning
         /\ ~HandleClose(s) => members' = members
         /\ members' \in {members, members \ {s}}
<1>0. popped[s] \in Nat
  BY DEF IInv, SessionTypeOK
<1> USE DEF MainInv, MainTypeOK, Stopping, Response
<1>1. CASE MovePacket(s)
  <2>1. Message(s, popped[s] + 1) \in [sid : Sessions, packet : Nat]
    BY <1>0 DEF Message
  <2>2. messages' \in Seq([sid : Sessions, packet : Nat])
    BY <1>1, <2>1, QueueTypes DEF MovePacket
  <2>3. /\ mainPc = "packets"
        /\ UNCHANGED <<serverRunning, mainPc, members, active, nextMessageId, recipients>>
    BY <1>1 DEF MovePacket
  <2> QED
    BY <2>2, <2>3
<1>2. CASE HandleClose(s)
  BY <1>2 DEF HandleClose
<1>3. CASE \/ PostHandler(s) \/ HandleReceive(s) \/ ReceiveWithoutSession(s) \/ DropReceive(s)
           \/ OutOfMemory(s) \/ PacketsDone(s)
  BY <1>3 DEF PostHandler, HandleReceive, ReceiveWithoutSession, DropReceive, OutOfMemory,
     PacketsDone, mainVars
<1>4. CASE SendResponse(s) \/ StopMember(s)
  BY <1>4 DEF SendResponse, StopMember
<1> QED
  BY <1>1, <1>2, <1>3, <1>4 DEF CallStep

\* ... when a service event is taken.
LEMMA ServiceTakenMain ==
  ASSUME MainInv, ServiceTaken
  PROVE  /\ MainInv' /\ members' = members
         /\ ~HandleServiceClose => serverRunning' = serverRunning
<1> USE DEF MainInv, MainTypeOK, Stopping, Response
<1>1. CASE HandleServiceClose
  BY <1>1 DEF HandleServiceClose
<1>2. CASE \E s \in Sessions : SkipAccept(s)
  BY <1>2 DEF SkipAccept, mainVars
<1> QED
  BY <1>1, <1>2 DEF ServiceTaken

\* ... when a connection is accepted.
LEMMA AcceptMain ==
  ASSUME MainInv, NEW s \in Sessions, HandleAccept(s)
  PROVE  MainInv' /\ serverRunning' = serverRunning /\ members' = members \cup {s}
BY DEF MainInv, MainTypeOK, Stopping, Response, HandleAccept

\* Each step of the server keeps the main thread's invariant.
LEMMA MainInvStep == ASSUME IInv, MainInv, [Next]_vars PROVE MainInv'
<1>1. CASE MainStep
  BY <1>1, MainStepKinds, LoopStepMain, CallStepMain, ServiceTakenMain, AcceptMain
<1>2. CASE ~MainStep
  BY <1>2, OtherParts DEF mainVars, MainInv, MainTypeOK, Response
<1> QED
  BY <1>1, <1>2

\* The server stops when its service tells it to, and the service is over then.
LEMMA StopsLastStep ==
  ASSUME IInv, ServiceInv, MainInv, StopsLast, [Next]_vars
  PROVE  StopsLast'
<1>1. CASE HandleServiceClose
  BY <1>1, OverWhenTold DEF HandleServiceClose, StopsLast
<1>2. CASE ~HandleServiceClose
  <2>1. serverRunning' = serverRunning
    BY <1>2, MainStepKinds, LoopStepMain, CallStepMain, ServiceTakenMain, AcceptMain, OtherParts
       DEF mainVars
  <2> QED
    BY <2>1, StepParts, OverStays DEF StopsLast
<1> QED
  BY <1>1, <1>2

\* An open socket stays known: a session is forgotten when it has been closed.
LEMMA OpenKnownStep ==
  ASSUME IInv, MainInv, OpenKnown, [Next]_vars
  PROVE  OpenKnown'
<1>1. CASE LoopStep \/ ServiceTaken
  BY <1>1, LoopStepMain, ServiceTakenMain, LoopStepParts, ServiceTakenParts
     DEF OpenKnown, sessionVars
<1>2. ASSUME NEW s \in Sessions, CallStep(s) PROVE OpenKnown'
  <2>1. socket' = socket
    BY <1>2, CallStepParts, OwnerCalls
  <2>2. CASE HandleClose(s)
    <3>1. events # <<>> /\ Head(events) = CloseEvent(s)
      BY <2>2 DEF HandleClose, TakeClose
    <3>2. CloseTold(s)
      BY <3>1, OccursTail DEF IInv, SessionTypeOK, CloseTold
    <3>3. socket[s] = "closed"
      BY <3>2 DEF IInv, Local, ClosesOnce
    <3> QED
      BY <1>2, <2>1, <3>3, CallStepMain DEF OpenKnown
  <2>3. CASE ~HandleClose(s)
    BY <1>2, <2>1, <2>3, CallStepMain DEF OpenKnown
  <2> QED
    BY <2>2, <2>3
<1>3. ASSUME NEW s \in Sessions, HandleAccept(s) PROVE OpenKnown'
  BY <1>3, AcceptParts, AcceptMain DEF OpenKnown, Start, IInv, SessionTypeOK
<1>4. CASE ~MainStep
  <2>1. members' = members /\ OpensNone
    BY <1>4, OtherParts, IoCalls DEF mainVars, OpensNone, sessionVars
  <2> QED
    BY <2>1 DEF OpenKnown, OpensNone
<1> QED
  BY <1>1, <1>2, <1>3, <1>4, MainStepKinds

----------------------------------------------------------------------------
(* The read token of a running session. *)

\* Steps that leave a session's strand, outbox, read and events alone.
TokenUntouched(t) ==
  /\ strand'[t] = strand[t] /\ outbox'[t] = outbox[t] /\ readOp'[t] = readOp[t]
  /\ ReadTold(t) => ReadTold(t)'
  /\ reading = t => reading' = t

\* A step on one session leaves the read tokens of the others alone.
LEMMA TokenFrame ==
  ASSUME NEW t \in Sessions, HasToken(t), TokenUntouched(t) PROVE HasToken(t)'
BY DEF HasToken, TokenUntouched, ReadPosted, ReadQueued

\* An event of another session is no loss.
LEMMA EventOfAnother ==
  ASSUME SessionTypeOK, events # <<>>, events' = Tail(events),
         NEW t \in Sessions, Head(events) # ReceiveEvent(t), ReadTold(t)
  PROVE  ReadTold(t)'
<1>1. events \in Seq(Events)
  BY DEF SessionTypeOK, Events
<1> QED
  BY <1>1, QueuePopped DEF ReadTold

\* Pushing an event adds the Receive event of its own session only.
LEMMA EventKept ==
  ASSUME SessionTypeOK, NEW e \in Events, events' = Append(events, e),
         NEW t \in Sessions
  PROVE  ReadTold(t)' <=> ReadTold(t) \/ e = ReceiveEvent(t)
<1>1. events \in Seq(Events)
  BY DEF SessionTypeOK, Events
<1> QED
  BY <1>1, QueuePushed DEF ReadTold

\* Nothing but start() sets m_running.
LEMMA OnlyStartRuns ==
  ASSUME SessionTypeOK, NEW s \in Sessions,
         OwnerCall(s) \/ StrandStep(s) \/ CompletionStep(s),
         NEW t \in Sessions, running'[t]
  PROVE  running[t]
<1>1. CASE OwnerCall(s)
  BY <1>1 DEF SessionTypeOK, OwnerCall, Post, Stop, TakeClose, SkipReceive, TakeReceive,
     PopFrontPacket, Receive, Send
<1>2. CASE StrandStep(s)
  BY <1>2 DEF SessionTypeOK, StrandStep, AsyncRead, OnRead, QueueChunk, OnWritten, Close,
     HandleError, StopFromHandler
<1>3. CASE CompletionStep(s)
  BY <1>3 DEF CompletionStep, CompleteRead, CompleteWrite
<1> QED
  BY <1>1, <1>2, <1>3

\* The owner's calls that do not drop an event.
KeepingCall(s) ==
  \/ Post(s) \/ Stop(s) \/ TakeClose(s) \/ TakeReceive(s)
  \/ PopFrontPacket(s) \/ Receive(s) \/ \E c \in Chunks : Send(s, c)

\* A call of the main thread passes the read token on.
LEMMA OwnerKeepsToken ==
  ASSUME IInv, NEW s \in Sessions, KeepingCall(s),
         NEW t \in Sessions, running'[t], HasToken(t)
  PROVE  HasToken(t)'
<1>1. SessionTypeOK /\ Local(s) /\ Local(t)
  BY DEF IInv
<1>2. running[t]
  BY <1>1, OnlyStartRuns DEF KeepingCall, OwnerCall
<1>3. CASE Post(s)
  <2>1. CASE t = s
    <3>1. PICK h \in OwnerHandlers : outbox[s] = <<h>>
      BY <1>1, <1>3 DEF Local, OutboxOne, Post
    <3>2. h \in Handlers /\ Pushed(s, h)
      BY <1>3, <3>1, HandlersPosted DEF OwnerHandlers, Handlers, SendHandlers, Post, Pushed
    <3>3. \A S : Occurs(strand'[s], S) <=> Occurs(strand[s], S) \/ h \in S
      BY <1>1, <3>2, StrandPushed
    <3>4. ReadPosted(s) => h \in ReadHandlers
      BY <3>1, OccursSingle DEF ReadPosted, ReadHandlers
    <3> QED
      BY <1>3, <2>1, <3>3, <3>4 DEF HasToken, ReadQueued, ReadTold, Post
  <2>2. CASE t # s
    BY <1>1, <1>3, <2>2, TokenFrame DEF TokenUntouched, Post, SessionTypeOK, ReadTold
  <2> QED
    BY <1>2, <2>1, <2>2
<1>4. CASE Stop(s) \/ \E c \in Chunks : Send(s, c)
  <2>1. CASE t = s
    <3>1. CASE Stop(s)
      BY <1>1, <2>1, <3>1 DEF Stop, SessionTypeOK
    <3>2. CASE \E c \in Chunks : Send(s, c)
      <4>1. ~ReadPosted(s)
        BY <3>2, OccursEmpty DEF Send, OwnerIdle, ReadPosted
      <4> QED
        BY <2>1, <3>2, <4>1 DEF HasToken, ReadQueued, ReadTold, Send
    <3> QED
      BY <1>4, <3>1, <3>2
  <2>2. CASE t # s
    BY <1>1, <1>4, <2>2, TokenFrame DEF TokenUntouched, Stop, Send, SessionTypeOK, ReadTold
  <2> QED
    BY <1>2, <2>1, <2>2
<1>5. CASE TakeClose(s)
  <2>1. Head(events) # ReceiveEvent(t)
    BY <1>5, EventSorts DEF TakeClose
  <2> QED
    BY <1>1, <1>2, <1>5, <2>1, EventOfAnother, TokenFrame DEF TokenUntouched, TakeClose
<1>6. CASE TakeReceive(s)
  <2>1. CASE t = s
    BY <1>2, <1>6, <2>1 DEF TakeReceive, HasToken
  <2>2. CASE t # s
    <3>1. Head(events) # ReceiveEvent(t) /\ reading # t
      BY <1>6, <2>2, EventSorts, NoSessionAssumption DEF TakeReceive
    <3> QED
      BY <1>1, <1>2, <1>6, <3>1, EventOfAnother, TokenFrame DEF TokenUntouched, TakeReceive
  <2> QED
    BY <2>1, <2>2
<1>7. CASE PopFrontPacket(s)
  BY <1>2, <1>7, TokenFrame DEF TokenUntouched, PopFrontPacket, ReadTold
<1>8. CASE Receive(s)
  <2>1. CASE t = s
    <3>1. outbox'[s] = <<AsyncReadHandler>>
      BY <1>1, <1>2, <1>8, <2>1 DEF Receive, SessionTypeOK
    <3> QED
      BY <1>2, <2>1, <3>1, OccursSingle DEF HasToken, ReadPosted
  <2>2. CASE t # s
    BY <1>1, <1>2, <1>8, <2>2, TokenFrame DEF TokenUntouched, Receive, SessionTypeOK, ReadTold
  <2> QED
    BY <2>1, <2>2
<1> QED
  BY <1>3, <1>4, <1>5, <1>6, <1>7, <1>8 DEF KeepingCall

\* A handler that is popped was not the token, or passes it on.
LEMMA StrandKeepsToken ==
  ASSUME IInv, NEW s \in Sessions, StrandStep(s),
         NEW t \in Sessions, running'[t], HasToken(t)
  PROVE  HasToken(t)'
<1>1. SessionTypeOK /\ Local(s) /\ Local(t) /\ strand[s] # <<>>
  BY DEF IInv, StrandStep, AsyncRead, OnRead, QueueChunk, OnWritten, Close, Runs
<1>2. /\ running[t]
      /\ \/ Popped(s)
         \/ t # s /\ strand' = [strand EXCEPT ![s] = Append(Tail(@), CloseHandler)]
  BY <1>1 DEF SessionTypeOK, StrandStep, AsyncRead, OnRead, QueueChunk, OnWritten, Close,
     HandleError, StopFromHandler, Popped
<1>3. CASE t # s
  <2>1. /\ strand'[t] = strand[t] /\ outbox'[t] = outbox[t] /\ readOp'[t] = readOp[t]
        /\ reading' = reading
    BY <1>1, <1>2, <1>3 DEF SessionTypeOK, Popped, StrandStep, AsyncRead, OnRead, QueueChunk,
       OnWritten, Close
  <2>2. ReadTold(t) => ReadTold(t)'
    <3>1. \/ events' = events
          \/ \E e \in {ReceiveEvent(s), CloseEvent(s)} : events' = Append(events, e)
      BY DEF StrandStep, AsyncRead, OnRead, QueueChunk, OnWritten, Close
    <3> QED
      BY <1>1, <3>1, EventKept, EventSorts DEF ReadTold
  <2> QED
    BY <1>2, <2>1, <2>2, TokenFrame DEF TokenUntouched
<1>4. CASE t = s
  <2>1. /\ Popped(s) /\ outbox' = outbox /\ reading' = reading
        /\ \A S : Head(strand[s]) \notin S =>
                    (Occurs(strand[s], S) => Occurs(strand'[s], S))
    BY <1>1, <1>2, <1>4, StrandPopped DEF StrandStep, AsyncRead, OnRead, QueueChunk, OnWritten,
       Close
  <2>2. CASE AsyncRead(s)
    BY <1>1, <1>2, <1>4, <2>2 DEF HasToken, AsyncRead, SessionTypeOK
  <2>3. CASE OnRead(s)
    <3>1. ~(Runs(s, OnReadHandlers) /\ HandleError(s, Head(strand[s]).result))
      <4> SUFFICES ASSUME Runs(s, OnReadHandlers), HandleError(s, Head(strand[s]).result)
                   PROVE  FALSE
        OBVIOUS
      <4>1. CASE Head(strand[s]).result = "aborted"
        <5>1. Head(strand[s]) \in AbortedHandlers
          BY <4>1 DEF Runs, AbortedHandlers
        <5>2. Occurs(strand[s], AbortedHandlers)
          BY <1>1, <5>1, OccursTail DEF SessionTypeOK
        <5> QED
          BY <1>1, <1>2, <1>4, <5>2 DEF Local, AbortedLate, ClosesOnce
      <4>2. CASE Head(strand[s]).result # "aborted"
        BY <1>1, <1>2, <1>4, <4>2 DEF HandleError, StopFromHandler, SessionTypeOK
      <4> QED
        BY <4>1, <4>2
    <3>2. events' = Append(events, ReceiveEvent(s))
      BY <2>3, <3>1 DEF OnRead
    <3> QED
      BY <1>1, <1>2, <1>4, <3>2, EventKept, EventSorts DEF HasToken
  <2>4. CASE QueueChunk(s) \/ OnWritten(s) \/ Close(s)
    <3>1. Head(strand[s]) \notin ReadHandlers
      <4>1. Head(strand[s]) \in Handlers /\ Head(strand[s]).op \in {"send", "onWritten", "close"}
        BY <1>1, <2>1, <2>4, StrandPopped DEF QueueChunk, OnWritten, Close, Runs, SendHandlers,
           OnWrittenHandlers, CloseHandler
      <4> QED
        BY <4>1, HandlerSorts
    <3>2. ReadQueued(s) => ReadQueued(s)'
      BY <2>1, <3>1 DEF ReadQueued
    <3>3. ReadTold(s) => ReadTold(s)'
      <4>1. events' = events \/ events' = Append(events, CloseEvent(s))
        BY <2>4 DEF QueueChunk, OnWritten, Close
      <4> QED
        BY <1>1, <4>1, EventKept, EventSorts DEF ReadTold
    <3>4. readOp' = readOp
      BY <2>4 DEF QueueChunk, OnWritten, Close
    <3> QED
      BY <1>2, <1>4, <2>1, <3>2, <3>3, <3>4 DEF HasToken, ReadPosted
  <2> QED
    BY <2>2, <2>3, <2>4 DEF StrandStep
<1> QED
  BY <1>3, <1>4

\* What completes goes to the strand.
LEMMA CompletionKeepsToken ==
  ASSUME IInv, NEW s \in Sessions, CompletionStep(s),
         NEW t \in Sessions, running'[t], HasToken(t)
  PROVE  HasToken(t)'
<1>1. SessionTypeOK /\ Local(s) /\ running[t]
  BY DEF IInv, CompletionStep, CompleteRead, CompleteWrite
<1>2. CASE t # s
  BY <1>1, <1>2, TokenFrame DEF TokenUntouched, CompletionStep, CompleteRead, CompleteWrite,
     SessionTypeOK, ReadTold
<1>3. CASE t = s
  <2>1. CASE CompleteRead(s)
    <3>1. PICK h \in OnReadHandlersOf(s) : Pushed(s, h)
      BY <2>1 DEF CompleteRead, Pushed
    <3>2. h \in ReadHandlers /\ h \in Handlers
      <4>1. \A n \in MinPackets..MaxPackets - arrived[s] : n \in Nat
        BY <1>1, ReadCounts
      <4>2. \E r \in Results, n \in Nat : h = OnReadHandler(r, n)
        BY <3>1, <4>1 DEF OnReadHandlersOf, Results
      <4> QED
        BY <4>2, HandlersPosted, HandlerSorts
    <3>3. Occurs(strand'[s], ReadHandlers)
      BY <1>1, <3>1, <3>2, StrandPushed
    <3> QED
      BY <1>1, <1>3, <3>3 DEF HasToken, ReadQueued
  <2>2. CASE CompleteWrite(s)
    <3>1. PICK r \in WriteResults(s) : Pushed(s, OnWrittenHandler(r))
      BY <2>2 DEF CompleteWrite, Pushed
    <3>2. r \in Results
      BY DEF WriteResults, Results
    <3>3. OnWrittenHandler(r) \in Handlers
      BY <3>2, HandlersPosted
    <3>4. ReadQueued(s) => ReadQueued(s)'
      BY <1>1, <3>1, <3>3, StrandPushed DEF ReadQueued
    <3> QED
      BY <1>1, <1>3, <2>2, <3>4 DEF HasToken, CompleteWrite, ReadPosted, ReadTold
  <2> QED
    BY <2>1, <2>2 DEF CompletionStep
<1> QED
  BY <1>2, <1>3

\* An event is only skipped while the server stops, or on a session that is
\* unknown and so has no open socket.
LEMMA NoReadStallStep ==
  ASSUME IInv, MainInv, OpenKnown, NoReadStall, [Next]_vars
  PROVE  NoReadStall'
<1> SUFFICES ASSUME NEW t \in Sessions, serverRunning', running'[t] PROVE HasToken(t)'
  BY DEF NoReadStall, HasToken
<1>1. serverRunning
  BY MainStepKinds, LoopStepMain, CallStepMain, AcceptMain, OtherParts
     DEF mainVars, ServiceTaken, HandleServiceClose, SkipAccept
<1>2. running[t] => HasToken(t)
  BY <1>1 DEF NoReadStall, HasToken
<1>3. CASE UNCHANGED sessionVars
  BY <1>2, <1>3, TokenFrame DEF TokenUntouched, sessionVars, ReadTold
<1>4. ASSUME NEW s \in Sessions, HandleAccept(s) PROVE HasToken(t)'
  <2>1. Start(s) /\ SessionTypeOK
    BY <1>4, AcceptParts DEF IInv
  <2>2. CASE t = s
    <3>1. outbox'[s] = <<AsyncReadHandler>>
      BY <2>1 DEF Start, SessionTypeOK
    <3> QED
      BY <2>2, <3>1, OccursSingle DEF HasToken, ReadPosted
  <2>3. CASE t # s
    BY <1>2, <2>1, <2>3, TokenFrame DEF TokenUntouched, Start, SessionTypeOK, ReadTold
  <2> QED
    BY <2>2, <2>3
<1>5. ASSUME NEW s \in Sessions, CallStep(s) PROVE HasToken(t)'
  <2>1. OwnerCall(s) /\ running[t]
    BY <1>5, CallStepParts, OnlyStartRuns DEF IInv
  <2>2. CASE KeepingCall(s)
    BY <1>2, <2>1, <2>2, OwnerKeepsToken
  <2>3. CASE ReceiveWithoutSession(s)
    <3>1. s # t
      BY <2>1, <2>3 DEF OpenKnown, IInv, Local, ClosesOnce, ReceiveWithoutSession
    <3>2. Head(events) # ReceiveEvent(t)
      BY <2>3, <3>1, EventSorts DEF SkipReceive, ReceiveWithoutSession
    <3> QED
      BY <1>2, <2>1, <2>3, <3>2, EventOfAnother, TokenFrame
         DEF TokenUntouched, SkipReceive, IInv, ReceiveWithoutSession
  <2>4. KeepingCall(s) \/ ReceiveWithoutSession(s)
    <3>1. SendResponse(s) => \E c \in Chunks : Send(s, c)
      BY DEF SendResponse, MainInv
    <3> QED
      BY <1>1, <1>5, <3>1 DEF CallStep, KeepingCall, PostHandler, HandleClose, HandleReceive,
         DropReceive, MovePacket, OutOfMemory, PacketsDone, StopMember
  <2> QED
    BY <2>2, <2>3, <2>4
<1>6. CASE ~MainStep
  <2>1. ASSUME NEW s \in Sessions, StrandStep(s) \/ CompletionStep(s) PROVE HasToken(t)'
    BY <1>2, <2>1, OnlyStartRuns, StrandKeepsToken, CompletionKeepsToken DEF IInv
  <2> QED
    BY <1>3, <1>6, <2>1, OtherParts
<1> QED
  BY <1>3, <1>4, <1>5, <1>6, MainStepKinds, LoopStepParts, ServiceTakenParts

----------------------------------------------------------------------------
(* Queues of consecutive ids. *)

\* Consecutive numbers go on with the next one appended.
LEMMA FollowAppend ==
  ASSUME NEW q \in Seq(Chunks), NEW id \in Nat, NEW c \in Chunks, Follow(q, id),
         c = id + Len(q) + 1
  PROVE  Follow(Append(q, c), id)
<1> DEFINE r == Append(q, c)
<1>1. /\ Len(r) = Len(q) + 1 /\ Len(q) \in Nat /\ r[Len(q) + 1] = c
      /\ \A i \in 1..Len(q) : r[i] = q[i]
  OBVIOUS
<1> HIDE DEF r
<1>2. Follow(r, id)
  BY <1>1, ChunksAssumption DEF Follow
<1> QED
  BY <1>2 DEF r

\* ... and go on after the first one when that is popped.
LEMMA FollowTail ==
  ASSUME NEW q \in Seq(Chunks), q # <<>>, NEW id \in Nat, Follow(q, id)
  PROVE  Head(q) = id + 1 /\ Follow(Tail(q), id + 1) /\ Len(Tail(q)) = Len(q) - 1
<1> DEFINE r == Tail(q)
<1>1. /\ Len(q) \in Nat /\ 1 <= Len(q) /\ Len(r) = Len(q) - 1 /\ Head(q) = q[1]
      /\ \A i \in 1..Len(r) : r[i] = q[i + 1]
  OBVIOUS
<1> HIDE DEF r
<1>2. Head(q) = id + 1
  BY <1>1 DEF Follow
<1>3. Follow(r, id + 1)
  <2> SUFFICES ASSUME NEW i \in 1..Len(r) PROVE r[i] = (id + 1) + i
    BY DEF Follow
  <2>1. i + 1 \in 1..Len(q) /\ r[i] = q[i + 1]
    BY <1>1
  <2>2. q[i + 1] = id + (i + 1)
    BY <2>1 DEF Follow
  <2> QED
    BY <2>1, <2>2
<1> QED
  BY <1>1, <1>2, <1>3 DEF r

\* The two facts of Carries, apart.
Ids(q) == {c \in Chunks : Occurs(q, {SendHandler(c)})}

Rising(q) ==
  \A i, j \in 1..Len(q) :
    i < j /\ q[i] \in SendHandlers /\ q[j] \in SendHandlers => q[i].chunk < q[j].chunk

\* A queue of chunks that carries a run of messages, and its last one.
LEMMA CarriesParts ==
  \A q, from, to : Carries(q, from, to) <=>
                     from <= to /\ Ids(q) = from + 1..to /\ Rising(q)
BY DEF Carries, Ids, Rising

\* A send handler is named by its chunk.
LEMMA SendNames ==
  /\ \A h \in SendHandlers : h.chunk \in Chunks /\ h = SendHandler(h.chunk)
  /\ \A c \in Chunks : /\ SendHandler(c) \in SendHandlers /\ SendHandler(c).chunk = c
                       /\ SendHandler(c) \in Handlers
BY DEF SendHandlers, SendHandler, Handlers

\* What is not in a queue is not carried.
LEMMA CarriesNothing ==
  ASSUME NEW n \in Nat PROVE Carries(<<>>, n, n)
<1>1. Ids(<<>>) = {}
  BY OccursEmpty DEF Ids
<1>2. n + 1..n = {} /\ n <= n
  OBVIOUS
<1>3. Rising(<<>>)
  BY DEF Rising
<1> QED
  BY <1>1, <1>2, <1>3, CarriesParts

\* Handlers of another sort do not count.
LEMMA CarriesAppendOther ==
  ASSUME NEW q \in Seq(Handlers), NEW h \in Handlers \ SendHandlers, NEW from, NEW to,
         Carries(q, from, to)
  PROVE  Carries(Append(q, h), from, to)
<1> DEFINE r == Append(q, h)
<1>1. /\ Len(r) = Len(q) + 1 /\ Len(q) \in Nat /\ r[Len(q) + 1] = h
      /\ \A i \in 1..Len(q) : r[i] = q[i]
  OBVIOUS
<1>2. Ids(r) = Ids(q)
  <2>1. \A c \in Chunks : h \notin {SendHandler(c)}
    BY SendNames
  <2> QED
    BY <2>1, QueuePushed DEF Ids
<1> HIDE DEF r
<1>3. Rising(r)
  <2>1. Rising(q)
    BY CarriesParts
  <2> SUFFICES ASSUME NEW i \in 1..Len(r), NEW j \in 1..Len(r), i < j,
                      r[i] \in SendHandlers, r[j] \in SendHandlers
               PROVE  r[i].chunk < r[j].chunk
    BY DEF Rising
  <2>2. i \in 1..Len(q) /\ j \in 1..Len(q)
    BY <1>1
  <2> QED
    BY <1>1, <2>1, <2>2 DEF Rising
<1> QED
  BY <1>2, <1>3, CarriesParts DEF r

\* The next one joins behind.
LEMMA CarriesAppend ==
  ASSUME NEW q \in Seq(Handlers), NEW from \in Nat, NEW to \in Nat, NEW c \in Chunks,
         c = to + 1, Carries(q, from, to)
  PROVE  Carries(Append(q, SendHandler(c)), from, c)
<1> DEFINE h == SendHandler(c)
           r == Append(q, h)
<1>0. h \in Handlers /\ h \in SendHandlers /\ h.chunk = c
  BY SendNames
<1>1. /\ Len(r) = Len(q) + 1 /\ Len(q) \in Nat /\ r[Len(q) + 1] = h
      /\ \A i \in 1..Len(q) : r[i] = q[i]
  BY <1>0
<1>2. from <= to /\ Ids(q) = from + 1..to /\ Rising(q)
  BY CarriesParts
<1>3. Ids(r) = from + 1..c
  <2>1. \A d \in Chunks : h \in {SendHandler(d)} <=> d = c
    BY <1>0, SendNames
  <2>2. \A d \in Chunks : Occurs(r, {SendHandler(d)}) <=>
                            Occurs(q, {SendHandler(d)}) \/ h \in {SendHandler(d)}
    BY <1>0, QueuePushed
  <2>3. Ids(r) = Ids(q) \cup {c}
    BY <2>1, <2>2 DEF Ids
  <2>4. c \in Nat /\ (from + 1..to) \cup {c} = from + 1..c
    BY <1>2, ChunksAssumption
  <2> QED
    BY <1>2, <2>3, <2>4
<1> HIDE DEF h, r
<1>4. Rising(r)
  <2> SUFFICES ASSUME NEW i \in 1..Len(r), NEW j \in 1..Len(r), i < j,
                      r[i] \in SendHandlers, r[j] \in SendHandlers
               PROVE  r[i].chunk < r[j].chunk
    BY DEF Rising
  <2>1. CASE j \in 1..Len(q)
    BY <1>1, <1>2, <2>1 DEF Rising
  <2>2. CASE j = Len(q) + 1
    <3>1. i \in 1..Len(q) /\ r[i] = q[i] /\ r[j].chunk = c
      BY <1>0, <1>1, <2>2
    <3>2. r[i].chunk \in Ids(q)
      <4>1. q[i] = SendHandler(r[i].chunk) /\ r[i].chunk \in Chunks
        BY <3>1, SendNames
      <4> QED
        BY <3>1, <4>1 DEF Ids, Occurs
    <3> QED
      BY <1>2, <3>1, <3>2
  <2> QED
    BY <1>1, <2>1, <2>2
<1> QED
  BY <1>2, <1>3, <1>4, CarriesParts DEF r, h

\* What a pop leaves behind: its ids rise too.
LEMMA RisingTail ==
  ASSUME NEW q \in Seq(Handlers), q # <<>>, Rising(q)
  PROVE  /\ Rising(Tail(q))
         /\ Head(q) \in SendHandlers => \A c \in Ids(Tail(q)) : Head(q).chunk < c
<1> DEFINE r == Tail(q)
<1>1. /\ Len(q) \in Nat /\ 1 <= Len(q) /\ Len(r) = Len(q) - 1 /\ Head(q) = q[1]
      /\ \A i \in 1..Len(r) : r[i] = q[i + 1]
  OBVIOUS
<1> HIDE DEF r
<1>2. Rising(r)
  <2> SUFFICES ASSUME NEW i \in 1..Len(r), NEW j \in 1..Len(r), i < j,
                      r[i] \in SendHandlers, r[j] \in SendHandlers
               PROVE  r[i].chunk < r[j].chunk
    BY DEF Rising
  <2>1. /\ i + 1 \in 1..Len(q) /\ j + 1 \in 1..Len(q) /\ i + 1 < j + 1
        /\ r[i] = q[i + 1] /\ r[j] = q[j + 1]
    BY <1>1
  <2> QED
    BY <2>1 DEF Rising
<1>3. ASSUME Head(q) \in SendHandlers, NEW c \in Ids(r) PROVE Head(q).chunk < c
  <2>1. PICK i \in 1..Len(r) : r[i] = SendHandler(c)
    BY DEF Ids, Occurs
  <2>2. /\ i + 1 \in 1..Len(q) /\ 1 \in 1..Len(q) /\ 1 < i + 1 /\ q[i + 1] = r[i]
    BY <1>1
  <2>3. q[i + 1] \in SendHandlers /\ q[i + 1].chunk = c
    BY <2>1, <2>2, SendNames DEF Ids
  <2> QED
    BY <1>1, <1>3, <2>2, <2>3 DEF Rising
<1> QED
  BY <1>2, <1>3 DEF r

\* Popping a handler that carries no chunk keeps what is carried.
LEMMA CarriesTailOther ==
  ASSUME NEW q \in Seq(Handlers), q # <<>>, Head(q) \notin SendHandlers, NEW from, NEW to,
         Carries(q, from, to)
  PROVE  Carries(Tail(q), from, to)
<1>1. Ids(Tail(q)) = Ids(q)
  <2>1. \A c \in Chunks : Head(q) \notin {SendHandler(c)}
    BY SendNames
  <2> QED
    BY <2>1, QueuePopped DEF Ids
<1> QED
  BY <1>1, RisingTail, CarriesParts

\* The first send handler carries the first id.
LEMMA CarriesTail ==
  ASSUME NEW q \in Seq(Handlers), q # <<>>, Head(q) \in SendHandlers,
         NEW from \in Nat, NEW to \in Nat, Carries(q, from, to)
  PROVE  Head(q).chunk = from + 1 /\ Carries(Tail(q), from + 1, to)
<1> DEFINE c == Head(q).chunk
<1>1. c \in Chunks /\ c \in Nat /\ Head(q) = SendHandler(c)
  BY SendNames, ChunksAssumption
<1> HIDE DEF c
<1>2. from <= to /\ Ids(q) = from + 1..to /\ Rising(q)
  BY CarriesParts
<1>3. Ids(q) = {c} \cup Ids(Tail(q))
  <2>1. \A d \in Chunks : Head(q) \in {SendHandler(d)} <=> d = c
    BY <1>1, SendNames
  <2>2. \A d \in Chunks : Occurs(q, {SendHandler(d)}) <=>
                 Head(q) \in {SendHandler(d)} \/ Occurs(Tail(q), {SendHandler(d)})
    BY QueuePopped
  <2> QED
    BY <1>1, <2>1, <2>2 DEF Ids
<1>4. Rising(Tail(q)) /\ \A d \in Ids(Tail(q)) : c < d
  BY <1>2, RisingTail DEF c
<1>5. c = from + 1
  <2>0. c \in Ids(q)
    BY <1>3
  <2>1. c \in from + 1..to /\ from + 1 \in from + 1..to
    BY <1>1, <1>2, <2>0
  <2>2. from + 1 \in {c} \cup Ids(Tail(q))
    BY <1>2, <1>3, <2>1
  <2> QED
    BY <1>1, <1>4, <2>1, <2>2
<1>6. Ids(Tail(q)) = (from + 1) + 1..to /\ from + 1 <= to
  <2>1. from + 1 \in from + 1..to
    BY <1>2, <1>3, <1>5
  <2>2. \A d : d \in Ids(Tail(q)) <=> d \in from + 1..to /\ d # from + 1
    BY <1>1, <1>2, <1>3, <1>4, <1>5
  <2>3. \A d : d \in from + 1..to /\ d # from + 1 <=> d \in (from + 1) + 1..to
    OBVIOUS
  <2>4. \A d : d \in Ids(Tail(q)) <=> d \in (from + 1) + 1..to
    BY <2>2, <2>3
  <2>5. Ids(Tail(q)) = (from + 1) + 1..to
    BY <2>4
  <2> QED
    BY <2>1, <2>5
<1> QED
  BY <1>4, <1>5, <1>6, CarriesParts DEF c

----------------------------------------------------------------------------
(* The responses on their way on one session. *)

WroteOk(s) == Occurs(strand[s], {OnWrittenHandler("ok")})

\* The queues of a session as sequences, which the lemmas above take.
LEMMA StreamTypes ==
  ASSUME IInv, NEW s \in Sessions, NEW first \in Nat
  PROVE  /\ SessionTypeOK /\ Local(s)
         /\ strand[s] \in Seq(Handlers) /\ sendQueue[s] \in Seq(Chunks)
         /\ delivered[s] \in Seq(Chunks) /\ Unwritten(s) \in Seq(Chunks)
         /\ LastDelivered(s, first) \in Nat /\ LastQueued(s, first) \in Nat
         /\ WroteOk(s) => WrittenQueued(s)
<1>1. /\ SessionTypeOK /\ Local(s) /\ strand[s] \in Seq(Handlers)
      /\ sendQueue[s] \in Seq(Chunks) /\ delivered[s] \in Seq(Chunks)
  BY DEF IInv, SessionTypeOK
<1>2. WroteOk(s) => WrittenQueued(s)
  BY DEF WroteOk, WrittenQueued, Occurs, OnWrittenHandler, OnWrittenHandlers, Results
<1>3. Unwritten(s) \in Seq(Chunks)
  BY <1>1, <1>2, QueueTypes DEF Unwritten, WroteOk, Local, QueueServed
<1>4. Len(delivered[s]) \in Nat /\ Len(Unwritten(s)) \in Nat
  BY <1>1, <1>3
<1> QED
  BY <1>1, <1>2, <1>3, <1>4 DEF LastDelivered, LastQueued

\* A step that neither queues, writes nor posts a response.
LEMMA StreamSame ==
  ASSUME NEW s \in Sessions, NEW first, NEW last, Streams(s, first, last),
         delivered'[s] = delivered[s], sendQueue'[s] = sendQueue[s],
         Unwritten(s)' = Unwritten(s),
         \/ outbox'[s] = outbox[s]
         \/ ~Occurs(outbox[s], SendHandlers) /\ ~Occurs(outbox'[s], SendHandlers),
         \A from, to : Carries(strand[s], from, to) => Carries(strand'[s], from, to)
  PROVE  Streams(s, first, last)'
<1>1. /\ LastDelivered(s, first)' = LastDelivered(s, first)
      /\ LastQueued(s, first)' = LastQueued(s, first)
      /\ LastPosted(s, last)' = LastPosted(s, last)
  BY DEF LastDelivered, LastQueued, LastPosted
<1>2. QueueBehind(s, first)'
  BY <1>1 DEF Streams, QueueBehind
<1>3. Follow(delivered'[s], first) /\ Follow(Unwritten(s)', LastDelivered(s, first)')
  BY <1>1 DEF Streams, OnTheWay
<1>4. Carries(strand'[s], LastQueued(s, first)', LastPosted(s, last)')
  BY <1>1 DEF Streams, OnTheWay
<1>5. Occurs(outbox'[s], SendHandlers) => Head(outbox'[s]).chunk = last
  BY DEF Streams, OnTheWay
<1> QED
  BY <1>2, <1>3, <1>4, <1>5 DEF Streams, OnTheWay

\* A step on one session leaves what the others carry alone.
LEMMA StreamFrame ==
  ASSUME NEW t \in Sessions, NEW first, NEW last, Streams(t, first, last),
         delivered'[t] = delivered[t], sendQueue'[t] = sendQueue[t],
         strand'[t] = strand[t], outbox'[t] = outbox[t]
  PROVE  Streams(t, first, last)'
<1>1. Unwritten(t)' = Unwritten(t)
  BY DEF Unwritten
<1> QED
  BY <1>1, StreamSame

\* A handler that carries no response is pushed or popped.
LEMMA StreamOther ==
  ASSUME IInv, NEW s \in Sessions, NEW first, NEW last, Streams(s, first, last),
         delivered'[s] = delivered[s], sendQueue'[s] = sendQueue[s],
         \/ outbox'[s] = outbox[s]
         \/ ~Occurs(outbox[s], SendHandlers) /\ ~Occurs(outbox'[s], SendHandlers),
         NEW h \in Handlers, h \notin SendHandlers, h # OnWrittenHandler("ok"),
         \/ strand'[s] = Append(strand[s], h)
         \/ /\ strand[s] # <<>> /\ Head(strand[s]) = h
            /\ strand'[s] \in {Tail(strand[s]), Append(Tail(strand[s]), CloseHandler)}
  PROVE  Streams(s, first, last)'
<1>1. strand[s] \in Seq(Handlers)
  BY DEF IInv, SessionTypeOK
<1>2. /\ CloseHandler \in Handlers /\ CloseHandler \notin SendHandlers
      /\ CloseHandler # OnWrittenHandler("ok")
  BY HandlersPosted, HandlerSorts DEF Results
<1>3. WroteOk(s)' <=> WroteOk(s)
  <2>1. CASE strand'[s] = Append(strand[s], h)
    BY <1>1, <2>1, QueuePushed DEF WroteOk
  <2>2. CASE /\ strand[s] # <<>> /\ Head(strand[s]) = h
             /\ strand'[s] \in {Tail(strand[s]), Append(Tail(strand[s]), CloseHandler)}
    <3>1. Tail(strand[s]) \in Seq(Handlers) /\
          (WroteOk(s) <=> Occurs(Tail(strand[s]), {OnWrittenHandler("ok")}))
      BY <1>1, <2>2, QueuePopped DEF WroteOk
    <3>2. Occurs(Append(Tail(strand[s]), CloseHandler), {OnWrittenHandler("ok")}) <=>
            Occurs(Tail(strand[s]), {OnWrittenHandler("ok")})
      <4> DEFINE rest == Tail(strand[s])
      <4>1. /\ CloseHandler \notin {OnWrittenHandler("ok")} /\ CloseHandler \in Handlers
            /\ rest \in Seq(Handlers)
        BY <1>2, <3>1
      <4> HIDE DEF rest
      <4>2. Occurs(Append(rest, CloseHandler), {OnWrittenHandler("ok")}) <=>
              Occurs(rest, {OnWrittenHandler("ok")}) \/ CloseHandler \in {OnWrittenHandler("ok")}
        BY <4>1, OccursAppend
      <4> QED
        BY <4>1, <4>2 DEF rest
    <3> QED
      BY <2>2, <3>1, <3>2 DEF WroteOk
  <2> QED
    BY <2>1, <2>2
<1>4. \A from, to : Carries(strand[s], from, to) => Carries(strand'[s], from, to)
  <2> SUFFICES ASSUME NEW from, NEW to, Carries(strand[s], from, to)
               PROVE  Carries(strand'[s], from, to)
    OBVIOUS
  <2>1. CASE strand'[s] = Append(strand[s], h)
    BY <1>1, <2>1, CarriesAppendOther
  <2>2. CASE /\ strand[s] # <<>> /\ Head(strand[s]) = h
             /\ strand'[s] \in {Tail(strand[s]), Append(Tail(strand[s]), CloseHandler)}
    <3>1. Tail(strand[s]) \in Seq(Handlers) /\ Carries(Tail(strand[s]), from, to)
      BY <1>1, <2>2, QueuePopped, CarriesTailOther
    <3> QED
      BY <1>2, <2>2, <3>1, CarriesAppendOther
  <2> QED
    BY <2>1, <2>2
<1>5. Unwritten(s)' = Unwritten(s)
  BY <1>3 DEF Unwritten, WroteOk
<1> QED
  BY <1>4, <1>5, StreamSame

\* Posting a response puts its id at the end of the strand.
LEMMA StreamPost ==
  ASSUME IInv, NEW s \in Sessions, NEW first \in Nat, NEW last \in Nat,
         Streams(s, first, last), Post(s)
  PROVE  Streams(s, first, last)'
<1>1. PICK h \in OwnerHandlers : outbox[s] = <<h>>
  BY DEF IInv, Local, OutboxOne, Post
<1>2. /\ strand'[s] = Append(strand[s], h) /\ outbox'[s] = <<>>
      /\ delivered' = delivered /\ sendQueue' = sendQueue
  BY <1>1 DEF Post, IInv, SessionTypeOK
<1>3. h \in Handlers /\ h # OnWrittenHandler("ok")
  BY HandlersPosted, HandlerSorts DEF OwnerHandlers, Results, Handlers, SendHandlers
<1>4. /\ \A S : Occurs(outbox[s], S) <=> h \in S
      /\ ~Occurs(outbox'[s], SendHandlers)
  BY <1>1, <1>2, OccursSingle, OccursEmpty
<1>5. CASE h \notin SendHandlers
  BY <1>2, <1>3, <1>4, <1>5, StreamOther
<1>6. CASE h \in SendHandlers
  <2>1. h.chunk = last /\ last \in Chunks /\ h = SendHandler(last)
    BY <1>1, <1>4, <1>6, SendNames DEF Streams, OnTheWay
  <2>2. /\ strand[s] \in Seq(Handlers) /\ LastQueued(s, first) \in Nat
        /\ LastPosted(s, last) = last - 1 /\ LastPosted(s, last)' = last
    BY <1>4, <1>6, StreamTypes DEF LastPosted
  <2>3. Carries(strand[s], LastQueued(s, first), last - 1)
    BY <2>2 DEF Streams, OnTheWay
  <2>4. last - 1 \in Nat /\ last = (last - 1) + 1
    BY <2>2, <2>3, CarriesParts
  <2>5. Carries(strand'[s], LastQueued(s, first), last)
    BY <1>2, <2>1, <2>2, <2>3, <2>4, CarriesAppend
  <2>6. Unwritten(s)' = Unwritten(s)
    <3>1. WroteOk(s)' <=> WroteOk(s)
      BY <1>2, <1>3, <2>2, QueuePushed DEF WroteOk
    <3> QED
      BY <1>2, <3>1 DEF Unwritten, WroteOk
  <2>7. /\ LastDelivered(s, first)' = LastDelivered(s, first)
        /\ LastQueued(s, first)' = LastQueued(s, first)
    BY <1>2, <2>6 DEF LastDelivered, LastQueued
  <2> QED
    BY <1>2, <1>4, <2>2, <2>5, <2>6, <2>7 DEF Streams, OnTheWay, QueueBehind
<1> QED
  BY <1>5, <1>6

\* Queueing a response moves its id from the strand to the send queue.
LEMMA StreamQueueChunk ==
  ASSUME IInv, NEW s \in Sessions, NEW first \in Nat, NEW last \in Nat,
         Streams(s, first, last), QueueChunk(s)
  PROVE  Streams(s, first, last)'
<1> DEFINE c == Head(strand[s]).chunk
           U == Unwritten(s)
           LQ == LastQueued(s, first)
<1>1. /\ strand[s] # <<>> /\ Head(strand[s]) \in SendHandlers /\ strand'[s] = Tail(strand[s])
      /\ sendQueue'[s] = Append(sendQueue[s], c)
      /\ outbox' = outbox /\ delivered' = delivered
  BY DEF QueueChunk, Runs, IInv, SessionTypeOK
<1>2. /\ strand[s] \in Seq(Handlers) /\ sendQueue[s] \in Seq(Chunks) /\ U \in Seq(Chunks)
      /\ LastDelivered(s, first) \in Nat /\ LQ \in Nat /\ Len(U) \in Nat
      /\ LQ = LastDelivered(s, first) + Len(U)
  BY StreamTypes DEF LastQueued
<1>3. /\ Follow(delivered[s], first) /\ Follow(U, LastDelivered(s, first))
      /\ Carries(strand[s], LQ, LastPosted(s, last))
      /\ Occurs(outbox[s], SendHandlers) => Head(outbox[s]).chunk = last
      /\ \A i \in 1..Len(sendQueue[s]) : sendQueue[s][i] <= LQ
  BY DEF Streams, OnTheWay, QueueBehind
<1>4. /\ LastPosted(s, last)' = LastPosted(s, last) /\ LastPosted(s, last) \in Nat
      /\ LastDelivered(s, first)' = LastDelivered(s, first)
  <2>1. LastPosted(s, last) >= LQ /\ LastPosted(s, last) \in Int
    BY <1>3, CarriesParts DEF LastPosted
  <2>2. LastPosted(s, last) \in Nat
    BY <1>2, <2>1
  <2> QED
    BY <1>1, <2>2 DEF LastPosted, LastDelivered
<1>5. c = LQ + 1 /\ c \in Chunks /\ Carries(strand'[s], LQ + 1, LastPosted(s, last))
  <2>1. /\ strand[s] \in Seq(Handlers) /\ strand[s] # <<>> /\ Head(strand[s]) \in SendHandlers
        /\ LQ \in Nat /\ LastPosted(s, last) \in Nat
        /\ Carries(strand[s], LQ, LastPosted(s, last))
    BY <1>1, <1>2, <1>3, <1>4
  <2>2. c = LQ + 1 /\ Carries(Tail(strand[s]), LQ + 1, LastPosted(s, last))
    <3> HIDE DEF LQ
    <3> QED
      BY <2>1, CarriesTail
  <2>3. c \in Chunks
    BY <2>1, SendNames
  <2> QED
    BY <1>1, <2>2, <2>3
<1>6. WroteOk(s)' <=> WroteOk(s)
  <2>1. Head(strand[s]) # OnWrittenHandler("ok")
    BY <1>1 DEF SendHandlers, OnWrittenHandler
  <2> QED
    BY <1>1, <1>2, <2>1, QueuePopped DEF WroteOk
<1>7. WroteOk(s) => sendQueue[s] # <<>>
  BY StreamTypes DEF Local, QueueServed
<1>8. Unwritten(s)' = Append(U, c)
  <2>1. CASE WroteOk(s)
    <3>1. Tail(Append(sendQueue[s], c)) = Append(Tail(sendQueue[s]), c)
      BY <1>2, <1>5, <1>7, <2>1, TailOfAppend
    <3> QED
      BY <1>1, <1>6, <2>1, <3>1 DEF Unwritten, WroteOk
  <2>2. CASE ~WroteOk(s)
    BY <1>1, <1>6, <2>2 DEF Unwritten, WroteOk
  <2> QED
    BY <2>1, <2>2
<1> HIDE DEF c, U, LQ
<1>9. /\ Follow(Append(U, c), LastDelivered(s, first)) /\ Len(Append(U, c)) = Len(U) + 1
  <2>1. /\ U \in Seq(Chunks) /\ c \in Chunks /\ LastDelivered(s, first) \in Nat
        /\ Follow(U, LastDelivered(s, first)) /\ c = LastDelivered(s, first) + Len(U) + 1
    BY <1>2, <1>3, <1>5
  <2>2. Follow(Append(U, c), LastDelivered(s, first))
    BY <2>1, FollowAppend
  <2> QED
    BY <2>1, <2>2, AppendElements
<1>10. LastQueued(s, first)' = LQ + 1
  BY <1>2, <1>4, <1>8, <1>9 DEF LastQueued
<1>11. QueueBehind(s, first)'
  <2> SUFFICES ASSUME NEW i \in 1..Len(sendQueue'[s]) PROVE sendQueue'[s][i] <= LQ + 1
    BY <1>10 DEF QueueBehind
  <2>1. /\ Len(sendQueue'[s]) = Len(sendQueue[s]) + 1 /\ Len(sendQueue[s]) \in Nat
        /\ sendQueue'[s][Len(sendQueue[s]) + 1] = c
        /\ \A j \in 1..Len(sendQueue[s]) : sendQueue'[s][j] = sendQueue[s][j]
    <3>1. sendQueue[s] \in Seq(Chunks) /\ c \in Chunks /\ sendQueue'[s] = Append(sendQueue[s], c)
      BY <1>1, <1>2, <1>5
    <3> QED
      BY <3>1, AppendElements
  <2>2. CASE i \in 1..Len(sendQueue[s])
    <3>1. sendQueue'[s][i] = sendQueue[s][i] /\ sendQueue[s][i] <= LQ
      BY <1>3, <2>1, <2>2
    <3>2. sendQueue[s][i] \in Nat
      <4>1. sendQueue[s][i] \in Chunks
        BY <1>2, <2>2
      <4> QED
        BY <4>1, ChunksAssumption
    <3> QED
      BY <1>2, <3>1, <3>2
  <2>3. CASE i = Len(sendQueue[s]) + 1
    BY <1>2, <1>5, <2>1, <2>3
  <2> QED
    BY <2>1, <2>2, <2>3
<1> QED
  BY <1>1, <1>3, <1>4, <1>5, <1>8, <1>9, <1>10, <1>11 DEF Streams, OnTheWay

\* A write that succeeds moves the first id from the send queue to the client.
LEMMA StreamWritten ==
  ASSUME IInv, NEW s \in Sessions, NEW first \in Nat, NEW last \in Nat,
         Streams(s, first, last), CompleteWrite(s),
         strand'[s] = Append(strand[s], OnWrittenHandler("ok")),
         delivered'[s] = Append(delivered[s], Head(sendQueue[s]))
  PROVE  Streams(s, first, last)'
<1> DEFINE h == OnWrittenHandler("ok")
           q == sendQueue[s]
<1>1. /\ q \in Seq(Chunks) /\ q # <<>> /\ ~WroteOk(s) /\ strand[s] \in Seq(Handlers)
      /\ delivered[s] \in Seq(Chunks) /\ LastDelivered(s, first) \in Nat
  BY StreamTypes DEF CompleteWrite, Local, QueueServed
<1>2. Head(q) \in Chunks /\ Tail(q) \in Seq(Chunks) /\ Len(q) \in Nat
  BY <1>1, QueueTypes
<1>3. /\ strand'[s] = Append(strand[s], h)
      /\ delivered'[s] = Append(delivered[s], Head(q))
      /\ sendQueue' = sendQueue /\ outbox' = outbox
  BY DEF CompleteWrite
<1>4. h \in Handlers /\ h \notin SendHandlers
  BY HandlersPosted, HandlerSorts DEF Results
<1>5. Unwritten(s) = q
  BY <1>1 DEF Unwritten, WroteOk
<1>6. Unwritten(s)' = Tail(q)
  <2>1. WroteOk(s)'
    BY <1>1, <1>3, <1>4, QueuePushed DEF WroteOk
  <2> QED
    BY <1>3, <2>1 DEF Unwritten, WroteOk
<1> HIDE DEF h
<1>7. /\ Follow(delivered[s], first) /\ Follow(q, LastDelivered(s, first))
      /\ Carries(strand[s], LastQueued(s, first), LastPosted(s, last))
      /\ Occurs(outbox[s], SendHandlers) => Head(outbox[s]).chunk = last
      /\ LastQueued(s, first) = LastDelivered(s, first) + Len(q)
  BY <1>5 DEF Streams, OnTheWay, LastQueued
<1>8. /\ Head(q) = LastDelivered(s, first) + 1 /\ Len(Tail(q)) = Len(q) - 1
      /\ Follow(Tail(q), LastDelivered(s, first) + 1)
  BY <1>1, <1>7, FollowTail
<1>9. /\ Follow(delivered'[s], first)
      /\ Len(delivered'[s]) = Len(delivered[s]) + 1
  <2>1. Head(q) = first + Len(delivered[s]) + 1
    BY <1>8 DEF LastDelivered
  <2>2. /\ Follow(Append(delivered[s], Head(q)), first)
        /\ Len(Append(delivered[s], Head(q))) = Len(delivered[s]) + 1
    <3>1. delivered[s] \in Seq(Chunks) /\ Head(q) \in Chunks /\ Follow(delivered[s], first)
      BY <1>1, <1>2, <1>7
    <3> HIDE DEF q
    <3>2. Follow(Append(delivered[s], Head(q)), first)
      BY <2>1, <3>1, FollowAppend
    <3> QED
      BY <3>1, <3>2, AppendElements
  <2> QED
    BY <1>3, <2>2
<1> HIDE DEF q
<1>10. LastDelivered(s, first)' = LastDelivered(s, first) + 1
  <2>1. Len(delivered[s]) \in Nat
    BY <1>1
  <2> QED
    BY <1>9, <2>1 DEF LastDelivered
<1>11. LastQueued(s, first)' = LastQueued(s, first) /\ LastPosted(s, last)' = LastPosted(s, last)
  BY <1>1, <1>2, <1>3, <1>6, <1>7, <1>8, <1>10 DEF LastQueued, LastPosted
<1>12. Carries(strand'[s], LastQueued(s, first), LastPosted(s, last))
  BY <1>1, <1>3, <1>4, <1>7, CarriesAppendOther
<1>13. QueueBehind(s, first)'
  BY <1>3, <1>11 DEF QueueBehind, Streams
<1> QED
  BY <1>3, <1>6, <1>7, <1>8, <1>9, <1>10, <1>11, <1>12, <1>13 DEF Streams, OnTheWay

\* Its handler takes the chunk out of the queue.
LEMMA StreamOnWritten ==
  ASSUME IInv, NEW s \in Sessions, NEW first \in Nat, NEW last \in Nat,
         Streams(s, first, last), Runs(s, OnWrittenHandlers), Head(strand[s]).result = "ok",
         strand'[s] = Tail(strand[s]), sendQueue'[s] = Tail(sendQueue[s]),
         outbox' = outbox, delivered' = delivered
  PROVE  Streams(s, first, last)'
<1> DEFINE h == OnWrittenHandler("ok")
           q == sendQueue[s]
<1>1. /\ q \in Seq(Chunks) /\ q # <<>> /\ strand[s] \in Seq(Handlers)
      /\ strand[s] # <<>> /\ Head(strand[s]) \in OnWrittenHandlers
      /\ AtMostOnce(strand[s], OnWrittenHandlers) /\ LastQueued(s, first) \in Nat
  <2>1. strand[s] # <<>> /\ Head(strand[s]) \in OnWrittenHandlers /\ strand[s] \in Seq(Handlers)
    BY StreamTypes DEF Runs
  <2>2. WrittenQueued(s)
    BY <2>1, QueuePopped DEF WrittenQueued
  <2> QED
    BY <2>1, <2>2, StreamTypes DEF Local, QueueServed
<1>2. Head(strand[s]) = h /\ h \in OnWrittenHandlers /\ h \notin SendHandlers
  BY <1>1 DEF OnWrittenHandlers, OnWrittenHandler, SendHandlers
<1>3. WroteOk(s) /\ ~WroteOk(s)'
  <2>1. \A r \in OnWrittenHandlers : ~Occurs(Tail(strand[s]), {r})
    BY <1>1, QueuePopped DEF Occurs
  <2> QED
    BY <1>1, <1>2, <2>1, QueuePopped DEF WroteOk
<1>4. Unwritten(s) = Tail(q) /\ Unwritten(s)' = Tail(q)
  BY <1>3 DEF Unwritten, WroteOk
<1> HIDE DEF h
<1>5. /\ LastDelivered(s, first)' = LastDelivered(s, first)
      /\ LastQueued(s, first)' = LastQueued(s, first)
      /\ LastPosted(s, last)' = LastPosted(s, last)
  BY <1>4 DEF LastDelivered, LastQueued, LastPosted
<1>6. Carries(strand'[s], LastQueued(s, first), LastPosted(s, last))
  <2>1. Carries(strand[s], LastQueued(s, first), LastPosted(s, last))
    BY DEF Streams, OnTheWay
  <2> QED
    BY <1>1, <1>2, <2>1, CarriesTailOther
<1>7. QueueBehind(s, first)'
  <2> SUFFICES ASSUME NEW i \in 1..Len(sendQueue'[s])
               PROVE  sendQueue'[s][i] <= LastQueued(s, first)
    BY <1>5 DEF QueueBehind
  <2>1. i + 1 \in 1..Len(q) /\ sendQueue'[s][i] = q[i + 1]
    BY <1>1
  <2> QED
    BY <2>1 DEF Streams, QueueBehind
<1> QED
  BY <1>4, <1>5, <1>6, <1>7 DEF Streams, OnTheWay

\* A strand handler keeps the stream of its session.
LEMMA StreamStrand ==
  ASSUME IInv, NEW s \in Sessions, StrandStep(s), NEW first \in Nat, NEW last \in Nat,
         Streams(s, first, last)
  PROVE  Streams(s, first, last)'
<1> DEFINE h == Head(strand[s])
<1>1. CASE QueueChunk(s)
  BY <1>1, StreamQueueChunk
<1>2. CASE OnWritten(s) /\ h.result = "ok"
  BY <1>2, StreamOnWritten DEF OnWritten, HandleError, StopFromHandler, IInv, SessionTypeOK
<1>3. CASE AsyncRead(s) \/ OnRead(s) \/ Close(s) \/ (OnWritten(s) /\ h.result # "ok")
  <2>1. strand[s] # <<>> /\ h \in Handlers
    BY <1>3, QueueTypes DEF AsyncRead, OnRead, Close, OnWritten, Runs, IInv, SessionTypeOK
  <2>2. h \notin SendHandlers /\ h # OnWrittenHandler("ok")
    BY <1>3 DEF AsyncRead, OnRead, Close, OnWritten, Runs, AsyncReadHandler, OnReadHandlers,
       CloseHandler, OnWrittenHandlers, OnWrittenHandler, SendHandlers
  <2>3. strand'[s] \in {Tail(strand[s]), Append(Tail(strand[s]), CloseHandler)}
    BY <1>3 DEF AsyncRead, OnRead, Close, OnWritten, HandleError, StopFromHandler, IInv,
       SessionTypeOK
  <2>4. sendQueue' = sendQueue /\ delivered' = delivered /\ outbox' = outbox
    BY <1>3 DEF AsyncRead, OnRead, Close, OnWritten
  <2> QED
    BY <2>1, <2>2, <2>3, <2>4, StreamOther
<1> QED
  BY <1>1, <1>2, <1>3 DEF StrandStep

\* ... and so does a completion,
LEMMA StreamCompletion ==
  ASSUME IInv, NEW s \in Sessions, CompletionStep(s), NEW first \in Nat, NEW last \in Nat,
         Streams(s, first, last)
  PROVE  Streams(s, first, last)'
<1>0. SessionTypeOK
  BY DEF IInv
<1>1. CASE CompleteRead(s)
  <2>1. PICK h \in OnReadHandlersOf(s) : strand' = [strand EXCEPT ![s] = Append(@, h)]
    BY <1>1 DEF CompleteRead
  <2>2. \A n \in MinPackets..MaxPackets - arrived[s] : n \in Nat
    BY <1>0, SessionAssumption DEF SessionTypeOK
  <2>3. \E r \in Results, n \in Nat : h = OnReadHandler(r, n)
    BY <2>1, <2>2 DEF OnReadHandlersOf, Results
  <2>4. h \in Handlers /\ h \notin SendHandlers /\ h # OnWrittenHandler("ok")
    BY <2>3, HandlersPosted, HandlerSorts DEF Results
  <2> QED
    BY <1>0, <1>1, <2>1, <2>4, StreamOther DEF CompleteRead, SessionTypeOK
<1>2. CASE CompleteWrite(s)
  <2>1. PICK r \in WriteResults(s) :
          /\ strand' = [strand EXCEPT ![s] = Append(@, OnWrittenHandler(r))]
          /\ delivered' = IF r = "ok"
                          THEN [delivered EXCEPT ![s] = Append(@, Head(sendQueue[s]))]
                          ELSE delivered
    BY <1>2 DEF CompleteWrite
  <2>2. CASE r = "ok"
    BY <1>0, <1>2, <2>1, <2>2, StreamWritten DEF SessionTypeOK
  <2>3. CASE r # "ok"
    <3>1. /\ OnWrittenHandler(r) \in Handlers /\ OnWrittenHandler(r) \notin SendHandlers
          /\ OnWrittenHandler(r) # OnWrittenHandler("ok")
      BY <2>3, HandlersPosted, HandlerSorts DEF WriteResults, Results
    <3> QED
      BY <1>0, <1>2, <2>1, <2>3, <3>1, StreamOther DEF CompleteWrite, SessionTypeOK
  <2> QED
    BY <2>2, <2>3
<1> QED
  BY <1>1, <1>2 DEF CompletionStep

\* The owner's calls but send().
SilentCall(s) ==
  \/ Post(s) \/ Stop(s) \/ TakeClose(s) \/ SkipReceive(s) \/ TakeReceive(s)
  \/ PopFrontPacket(s) \/ Receive(s)

\* ... and a call of the main thread that sends nothing.
LEMMA StreamSilent ==
  ASSUME IInv, NEW s \in Sessions, SilentCall(s), NEW first \in Nat, NEW last \in Nat,
         Streams(s, first, last)
  PROVE  Streams(s, first, last)'
<1>1. CASE Post(s)
  BY <1>1, StreamPost
<1>2. CASE Stop(s) \/ Receive(s)
  <2>1. strand' = strand /\ sendQueue' = sendQueue /\ delivered' = delivered
    BY <1>2 DEF Stop, Receive
  <2>2. outbox[s] = <<>> /\ outbox'[s] \in {<<>>, <<CloseHandler>>, <<AsyncReadHandler>>}
    BY <1>2 DEF Stop, Receive, OwnerIdle, IInv, SessionTypeOK
  <2>3. CloseHandler \notin SendHandlers /\ AsyncReadHandler \notin SendHandlers
    BY HandlersPosted, HandlerSorts
  <2>4. ~Occurs(outbox[s], SendHandlers) /\ ~Occurs(outbox'[s], SendHandlers)
    BY <2>2, <2>3, OccursEmpty, OccursSingle
  <2>5. Unwritten(s)' = Unwritten(s)
    BY <2>1 DEF Unwritten
  <2> QED
    BY <2>1, <2>4, <2>5, StreamSame
<1>3. CASE TakeClose(s) \/ SkipReceive(s) \/ TakeReceive(s) \/ PopFrontPacket(s)
  BY <1>3, StreamFrame DEF TakeClose, SkipReceive, TakeReceive, PopFrontPacket
<1> QED
  BY <1>1, <1>2, <1>3 DEF SilentCall

\* On every session.
LEMMA StreamStep ==
  ASSUME IInv, NEW s \in Sessions, SilentCall(s) \/ StrandStep(s) \/ CompletionStep(s),
         NEW t \in Sessions, NEW first \in Nat, NEW last \in Nat, Streams(t, first, last)
  PROVE  Streams(t, first, last)'
<1>1. CASE t = s
  BY <1>1, StreamSilent, StreamStrand, StreamCompletion
<1>2. CASE t # s
  <2>1. CASE SilentCall(s)
    BY <1>2, <2>1, StreamFrame DEF SilentCall, Post, Stop, TakeClose, SkipReceive, TakeReceive,
       PopFrontPacket, Receive, IInv, SessionTypeOK
  <2>2. CASE StrandStep(s)
    <3>1. /\ delivered'[t] = delivered[t] /\ sendQueue'[t] = sendQueue[t]
          /\ strand'[t] = strand[t] /\ outbox'[t] = outbox[t]
      BY <1>2, <2>2 DEF StrandStep, AsyncRead, OnRead, QueueChunk, OnWritten, Close,
         HandleError, StopFromHandler, IInv, SessionTypeOK
    <3> QED
      BY <3>1, StreamFrame
  <2>3. CASE CompletionStep(s)
    <3>1. /\ delivered'[t] = delivered[t] /\ sendQueue'[t] = sendQueue[t]
          /\ strand'[t] = strand[t] /\ outbox'[t] = outbox[t]
      <4>1. CASE CompleteRead(s)
        BY <1>2, <4>1 DEF CompleteRead, IInv, SessionTypeOK
      <4>2. CASE CompleteWrite(s)
        BY <1>2, <4>2 DEF CompleteWrite, IInv, SessionTypeOK
      <4> QED
        BY <2>3, <4>1, <4>2 DEF CompletionStep
    <3> QED
      BY <3>1, StreamFrame
  <2> QED
    BY <2>1, <2>2, <2>3
<1> QED
  BY <1>1, <1>2

\* send() of the next response.
LEMMA StreamSend ==
  ASSUME IInv, NEW s \in Sessions, NEW c \in Chunks, NEW first \in Nat,
         Send(s, c), Streams(s, first, c - 1)
  PROVE  Streams(s, first, c)'
<1>1. /\ outbox[s] = <<>> /\ outbox'[s] = <<SendHandler(c)>>
      /\ UNCHANGED <<strand, sendQueue, delivered>>
  BY DEF Send, OwnerIdle, IInv, SessionTypeOK
<1>2. /\ ~Occurs(outbox[s], SendHandlers) /\ Occurs(outbox'[s], SendHandlers)
      /\ Head(outbox'[s]).chunk = c
  BY <1>1, OccursEmpty, OccursSingle, SendNames
<1>3. LastPosted(s, c - 1) = c - 1 /\ LastPosted(s, c)' = c - 1
  BY <1>2 DEF LastPosted
<1>4. /\ Unwritten(s)' = Unwritten(s)
      /\ LastDelivered(s, first)' = LastDelivered(s, first)
      /\ LastQueued(s, first)' = LastQueued(s, first)
  BY <1>1 DEF Unwritten, LastDelivered, LastQueued
<1> QED
  BY <1>1, <1>2, <1>3, <1>4 DEF Streams, OnTheWay, QueueBehind

\* A new session starts with the next response.
LEMMA StreamStart ==
  ASSUME IInv, FreshDelivered, NEW s \in Sessions, Start(s), NEW n \in Nat
  PROVE  Streams(s, n, n)'
<1>1. /\ strand'[s] = <<>> /\ sendQueue'[s] = <<>> /\ delivered'[s] = <<>>
      /\ outbox'[s] = <<AsyncReadHandler>>
  BY DEF FreshDelivered, IInv, Local, Fresh, Start, SessionTypeOK
<1>2. ~Occurs(outbox'[s], SendHandlers)
  BY <1>1, OccursSingle, HandlersPosted, HandlerSorts
<1>3. Unwritten(s)' = <<>>
  BY <1>1, OccursEmpty DEF Unwritten
<1>4. LastDelivered(s, n)' = n /\ LastQueued(s, n)' = n /\ LastPosted(s, n)' = n
  BY <1>1, <1>2, <1>3 DEF LastDelivered, LastQueued, LastPosted
<1>5. Follow(<<>>, n)
  BY DEF Follow
<1>6. Carries(<<>>, n, n)
  BY CarriesNothing
<1> QED
  BY <1>1, <1>2, <1>3, <1>4, <1>5, <1>6 DEF Streams, OnTheWay, QueueBehind

----------------------------------------------------------------------------
(* The broadcast. *)

\* Message numbers only grow.
LEMMA ResponseGrows ==
  ASSUME IInv, MainInv, [Next]_vars
  PROVE  Response \in Nat /\ Response' \in Nat /\ Response <= Response'
<1>1. nextMessageId \in Nat /\ nextMessageId >= 1
  BY DEF MainInv, MainTypeOK
<1>2. nextMessageId' = nextMessageId \/ nextMessageId' = nextMessageId + 1
  <2>1. LoopStep => nextMessageId' = nextMessageId \/ nextMessageId' = nextMessageId + 1
    BY DEF LoopStep, ServiceEventsDone, SessionEventsDone, HandleChat, BroadcastDone, TickDone,
       StopAllDone, DrainMore, DrainEventsDone, DrainDone, SendFails, AlreadyStopped
  <2>2. ASSUME NEW s \in Sessions, CallStep(s) \/ HandleAccept(s)
        PROVE  nextMessageId' = nextMessageId
    BY <2>2 DEF CallStep, PostHandler, HandleClose, HandleReceive, ReceiveWithoutSession,
       DropReceive, MovePacket, OutOfMemory, PacketsDone, SendResponse, StopMember, mainVars,
       HandleAccept
  <2>3. ServiceTaken => nextMessageId' = nextMessageId
    BY DEF ServiceTaken, HandleServiceClose, SkipAccept, mainVars
  <2> QED
    BY <2>1, <2>2, <2>3, MainStepKinds, OtherParts DEF mainVars
<1> QED
  BY <1>1, <1>2 DEF Response

\* The last response sent to a running session only changes when it is sent.
LEMMA DispatchedStep ==
  ASSUME IInv, MainInv, OpenKnown, [Next]_vars,
         NEW t \in Sessions, running[t], ~SendResponse(t)
  PROVE  LastDispatched(t)' = LastDispatched(t)
<1> USE DEF LastDispatched, Response
<1>0. t \in members /\ active = members /\ nextMessageId \in Nat
  BY DEF OpenKnown, IInv, Local, ClosesOnce, MainInv, MainTypeOK
<1>1. CASE LoopStep
  <2>1. CASE HandleChat
    <3>1. /\ mainPc = "messages" /\ mainPc' = "broadcast" /\ t \in recipients'
          /\ nextMessageId' = nextMessageId + 1
      BY <1>0, <2>1 DEF HandleChat
    <3>2. LastDispatched(t) = nextMessageId - 1 /\ LastDispatched(t)' = (nextMessageId + 1) - 1 - 1
      BY <3>1
    <3> QED
      BY <1>0, <3>2
  <2>2. CASE BroadcastDone \/ TickDone \/ StopAllDone \/ ServiceEventsDone \/ SessionEventsDone
             \/ DrainMore \/ DrainEventsDone \/ DrainDone
    BY <2>2 DEF BroadcastDone, TickDone, StopAllDone, ServiceEventsDone, SessionEventsDone,
       DrainMore, DrainEventsDone, DrainDone
  <2>3. ASSUME NEW s \in Sessions, SendFails(s) \/ AlreadyStopped(s)
        PROVE  LastDispatched(t)' = LastDispatched(t)
    BY <1>0, <2>3 DEF SendFails, AlreadyStopped
  <2> QED
    BY <1>1, <2>1, <2>2, <2>3 DEF LoopStep
<1>2. ASSUME NEW s \in Sessions, CallStep(s) \/ HandleAccept(s)
      PROVE  LastDispatched(t)' = LastDispatched(t)
  <2>1. CASE SendResponse(s) \/ StopMember(s)
    BY <2>1 DEF SendResponse, StopMember
  <2>2. CASE PostHandler(s) \/ HandleClose(s) \/ HandleReceive(s) \/ ReceiveWithoutSession(s)
             \/ DropReceive(s) \/ MovePacket(s) \/ OutOfMemory(s) \/ PacketsDone(s)
             \/ HandleAccept(s)
    BY <2>2 DEF PostHandler, HandleClose, HandleReceive, ReceiveWithoutSession, DropReceive,
       MovePacket, OutOfMemory, PacketsDone, HandleAccept, mainVars
  <2> QED
    BY <1>2, <2>1, <2>2 DEF CallStep
<1>3. CASE ServiceTaken
  BY <1>3 DEF ServiceTaken, HandleServiceClose, SkipAccept, mainVars
<1>4. CASE ~MainStep
  BY <1>4, OtherParts DEF mainVars
<1> QED
  BY <1>1, <1>2, <1>3, <1>4, MainStepKinds

\* A call other than send() and start() on a session.
LEMMA CallKinds ==
  ASSUME NEW s \in Sessions, CallStep(s)
  PROVE  SendResponse(s) \/ SilentCall(s)
BY DEF CallStep, SilentCall, PostHandler, HandleClose, HandleReceive, ReceiveWithoutSession,
       DropReceive, MovePacket, OutOfMemory, PacketsDone, StopMember

\* Each step of the server keeps the streams.
LEMMA StreamInvStep ==
  ASSUME IInv, MainInv, OpenKnown, FreshDelivered, StreamInv, [Next]_vars
  PROVE  StreamInv'
<1> SUFFICES ASSUME NEW t \in Sessions
             PROVE  \E first, last \in 0..Response' :
                      /\ Streams(t, first, last)'
                      /\ running'[t] => last = LastDispatched(t)'
  BY DEF StreamInv
<1>1. PICK first \in 0..Response, last \in 0..Response :
        /\ Streams(t, first, last)
        /\ running[t] => last = LastDispatched(t)
  BY DEF StreamInv
<1>2. /\ Response \in Nat /\ Response' \in Nat /\ Response <= Response'
      /\ first \in Nat /\ last \in Nat
      /\ first \in 0..Response' /\ last \in 0..Response'
  BY ResponseGrows
<1>3. ASSUME Streams(t, first, last)', running'[t] => running[t], ~SendResponse(t)
      PROVE  \E f, l \in 0..Response' :
               Streams(t, f, l)' /\ (running'[t] => l = LastDispatched(t)')
  BY <1>1, <1>2, <1>3, DispatchedStep
<1>4. ASSUME NEW s \in Sessions, SilentCall(s) \/ StrandStep(s) \/ CompletionStep(s),
             ~SendResponse(t)
      PROVE  \E f, l \in 0..Response' :
               Streams(t, f, l)' /\ (running'[t] => l = LastDispatched(t)')
  <2>1. Streams(t, first, last)'
    BY <1>1, <1>2, <1>4, StreamStep
  <2>2. running'[t] => running[t]
    BY <1>4, OnlyStartRuns DEF SilentCall, OwnerCall, IInv
  <2> QED
    BY <1>3, <1>4, <2>1, <2>2
<1>5. ASSUME NEW s \in Sessions, SendResponse(s)
      PROVE  \E f, l \in 0..Response' :
               Streams(t, f, l)' /\ (running'[t] => l = LastDispatched(t)')
  <2>1. Send(s, Response) /\ Response \in Chunks /\ Response' = Response /\ running' = running
    BY <1>5 DEF SendResponse, MainInv, Send, Response
  <2>2. CASE t = s
    <3>1. last = Response - 1
      BY <1>1, <1>5, <2>1, <2>2 DEF SendResponse, Send, LastDispatched
    <3>2. Streams(t, first, Response)'
      BY <1>1, <1>2, <2>1, <2>2, <3>1, StreamSend
    <3>3. LastDispatched(t)' = Response
      BY <1>5, <2>1, <2>2 DEF LastDispatched, SendResponse
    <3> QED
      BY <1>2, <2>1, <3>2, <3>3
  <2>3. CASE t # s
    <3>1. Streams(t, first, last)'
      BY <1>1, <2>1, <2>3, StreamFrame DEF Send, IInv, SessionTypeOK
    <3>2. LastDispatched(t)' = LastDispatched(t)
      BY <1>5, <2>1, <2>3 DEF LastDispatched, SendResponse
    <3> QED
      BY <1>1, <1>2, <2>1, <3>1, <3>2
  <2> QED
    BY <2>2, <2>3
<1>6. ASSUME NEW s \in Sessions, HandleAccept(s)
      PROVE  \E f, l \in 0..Response' :
               Streams(t, f, l)' /\ (running'[t] => l = LastDispatched(t)')
  <2>1. Start(s) /\ Response' = Response /\ LastDispatched(t)' = Response
    BY <1>6 DEF HandleAccept, Response, LastDispatched
  <2>2. CASE t = s
    BY <1>2, <2>1, <2>2, StreamStart
  <2>3. CASE t # s
    <3>1. Streams(t, first, last)' /\ running'[t] = running[t]
      BY <1>1, <2>1, <2>3, StreamFrame DEF Start, IInv, SessionTypeOK
    <3>2. LastDispatched(t) = Response
      BY <1>6 DEF HandleAccept, LastDispatched
    <3> QED
      BY <1>1, <1>2, <2>1, <3>1, <3>2
  <2> QED
    BY <2>2, <2>3
<1>7. CASE UNCHANGED sessionVars
  <2>1. Streams(t, first, last)' /\ running' = running
    BY <1>1, <1>7, StreamFrame DEF sessionVars
  <2>2. CASE SendResponse(t)
    BY <1>5, <2>2
  <2> QED
    BY <1>3, <2>1, <2>2
<1> QED
  BY <1>4, <1>5, <1>6, <1>7, MainStepKinds, LoopStepParts, ServiceTakenParts, CallKinds, OtherParts

\* Nothing is written to a session that does not exist.
LEMMA FreshDeliveredStep ==
  ASSUME IInv, FreshDelivered, UNCHANGED sessionVars \/ \E s \in Sessions : SessionStep(s)
  PROVE  FreshDelivered'
<1>1. CASE UNCHANGED sessionVars
  BY <1>1 DEF FreshDelivered, sessionVars
<1>2. ASSUME NEW s \in Sessions, SessionStep(s) PROVE FreshDelivered'
  <2>1. \A t \in Sessions : socket'[t] = "none" => socket[t] = "none"
    BY <1>2 DEF SessionStep, Start, OwnerCall, Post, Stop, TakeClose, SkipReceive, TakeReceive,
       PopFrontPacket, Receive, Send, StrandStep, AsyncRead, OnRead, QueueChunk, OnWritten, Close,
       CompletionStep, CompleteRead, CompleteWrite, IInv, SessionTypeOK
  <2>2. CASE delivered' = delivered
    BY <2>1, <2>2 DEF FreshDelivered
  <2>3. CASE CompleteWrite(s)
    <3>1. socket[s] # "none" /\ \A t \in Sessions : t # s => delivered'[t] = delivered[t]
      BY <2>3 DEF CompleteWrite, IInv, Local, Fresh, SessionTypeOK
    <3> QED
      BY <2>1, <3>1 DEF FreshDelivered
  <2> QED
    BY <1>2, <2>2, <2>3 DEF SessionStep, Start, OwnerCall, Post, Stop, TakeClose, SkipReceive,
       TakeReceive, PopFrontPacket, Receive, Send, StrandStep, AsyncRead, OnRead, QueueChunk,
       OnWritten, Close, CompletionStep, CompleteRead
<1> QED
  BY <1>1, <1>2

----------------------------------------------------------------------------
\* The server as it is when its threads start.
LEMMA InitServerInv == Init => ServerInv
<1> SUFFICES ASSUME Init PROVE ServerInv
  OBVIOUS
<1>1. IInv /\ ServiceInv
  BY InitIInv, ServiceInitInv DEF Init
<1>2. MainInv
  <2>1. /\ serverRunning = TRUE /\ mainPc = "service" /\ members = {} /\ active = {}
        /\ messages = <<>> /\ nextMessageId = 1 /\ recipients = {}
    BY DEF Init
  <2>2. messages \in Seq([sid : Sessions, packet : Nat])
    BY <2>1
  <2> QED
    BY <2>1, <2>2 DEF MainInv, MainTypeOK, Stopping
<1>3. OpenKnown /\ StopsLast /\ NoReadStall /\ FreshDelivered
  BY DEF Init, SessionInit, OpenKnown, StopsLast, NoReadStall, FreshDelivered
<1>4. StreamInv
  <2> SUFFICES ASSUME NEW s \in Sessions
               PROVE  \E first, last \in 0..Response :
                        /\ Streams(s, first, last)
                        /\ running[s] => last = LastDispatched(s)
    BY DEF StreamInv
  <2>1. /\ strand[s] = <<>> /\ sendQueue[s] = <<>> /\ delivered[s] = <<>> /\ outbox[s] = <<>>
        /\ ~running[s] /\ 0 \in 0..Response
    BY DEF Init, SessionInit, Response
  <2>2. ~Occurs(outbox[s], SendHandlers) /\ Unwritten(s) = <<>>
    BY <2>1, OccursEmpty DEF Unwritten
  <2>3. LastDelivered(s, 0) = 0 /\ LastQueued(s, 0) = 0 /\ LastPosted(s, 0) = 0
    BY <2>1, <2>2 DEF LastDelivered, LastQueued, LastPosted
  <2>4. Follow(<<>>, 0) /\ Carries(<<>>, 0, 0)
    BY CarriesNothing DEF Follow
  <2>5. Streams(s, 0, 0)
    BY <2>1, <2>2, <2>3, <2>4 DEF Streams, OnTheWay, QueueBehind
  <2> QED
    BY <2>1, <2>5
<1> QED
  BY <1>1, <1>2, <1>3, <1>4 DEF ServerInv

\* Each step of the server keeps its invariant.
LEMMA NextServerInv == ServerInv /\ [Next]_vars => ServerInv'
<1> SUFFICES ASSUME ServerInv, [Next]_vars PROVE ServerInv'
  OBVIOUS
<1> USE DEF ServerInv
<1>1. IInv' /\ ServiceInv' /\ FreshDelivered'
  BY StepParts, SessionsInv, ServiceStepInv, FreshDeliveredStep
<1>2. MainInv' /\ OpenKnown' /\ StopsLast'
  BY MainInvStep, OpenKnownStep, StopsLastStep
<1>3. NoReadStall' /\ StreamInv'
  BY NoReadStallStep, StreamInvStep
<1> QED
  BY <1>1, <1>2, <1>3

\* The inductive invariant of the program.
THEOREM ServerInvariance == Spec => []ServerInv
BY InitServerInv, NextServerInv, PTL DEF Spec

\* Server.cpp, ChatRoom.cpp: the main thread's data keeps its shape, and its
\* two tables of connected sessions hold the same sessions.
THEOREM ServerTypeCorrect == Spec => []TypeOK
<1>1. ServerInv => TypeOK
  BY DEF ServerInv, MainInv, IInv, ServiceInv, TypeOK
<1> QED
  BY <1>1, ServerInvariance, PTL

\* Service.cpp: one accept at a time, and the service closes once, whoever
\* stops it and whenever.
THEOREM Accepts == Spec => []ServiceProtocol
<1>1. ServerInv => ServiceProtocol
  BY ServiceInvProtocol DEF ServerInv
<1> QED
  BY <1>1, ServerInvariance, PTL

\* Service.cpp: no accept is issued on the closed acceptor, however the accept that
\* was under way ends.
THEOREM AcceptsNoMore == Spec => NoAcceptOnceClosed
<1>1. ASSUME ServerInv, [Next]_vars, acceptor = "closed", ~acceptOp PROVE ~acceptOp'
  <2>1. ~serviceRunning /\ [ServiceStep]_serviceVars
    BY <1>1, StepParts DEF ServerInv, ServiceInv, StoppedOnce
  <2>2. CASE ServiceStrandStep
    BY <1>1, <2>1, <2>2 DEF ServiceStrandStep, AsyncAccept, OnAccepted, OnAcceptError,
       HandleServiceError, CloseService
  <2>3. CASE \/ BaseStep(StartService) \/ BaseStep(RaiseSignal) \/ BaseStep(PostAsyncAccept)
             \/ BaseStep(SignalStep) \/ CompleteAccept
             \/ \E e \in OwnerEvents : TakeServiceEvent(e)
    BY <1>1, <2>3 DEF BaseStep, CompleteAccept, TakeServiceEvent
  <2>4. CASE UNCHANGED serviceVars
    BY <1>1, <2>4 DEF serviceVars
  <2> QED
    BY <2>1, <2>2, <2>3, <2>4 DEF ServiceStep, ServiceIoStep
<1>2. ASSUME ServerInv, [Next]_vars
      PROVE  [acceptor = "closed" /\ ~acceptOp => ~acceptOp']_serviceVars
  BY <1>1, <1>2
<1> QED
  BY <1>2, ServerInvariance, PTL DEF Spec, NoAcceptOnceClosed

\* Server.cpp, Session.cpp: the assertions on the life cycle hold.
THEOREM ServerAsserts == Spec => []LifecycleAsserts
<1>1. ServerInv => LifecycleAsserts
  <2> SUFFICES ASSUME ServerInv PROVE LifecycleAsserts
    OBVIOUS
  <2>1. ASSUME NEW s \in Sessions PROVE CloseTold(s) => ~running[s]
    BY DEF ServerInv, IInv, Local, ClosesOnce
  <2>2. Closed => serverRunning
    BY DEF ServerInv, StopsLast, ServiceOver, MainInv, MainTypeOK
  <2>3. mainPc \in Stopping => ~serverRunning
    BY DEF ServerInv, MainInv
  <2> QED
    BY <2>1, <2>2, <2>3 DEF LifecycleAsserts, Closed, Stopping
<1> QED
  BY <1>1, ServerInvariance, PTL

\* Server.cpp: no connection and no acceptor is left open by a main thread
\* that has ended, so the io threads it joins have only cancelled operations.
THEOREM NothingIsLeftOpen == Spec => []NothingLeftOpen
<1>1. ServerInv => NothingLeftOpen
  <2> SUFFICES ASSUME ServerInv, mainPc = "done"
               PROVE  acceptor = "closed" /\ \A s \in Sessions : socket[s] # "open"
    BY DEF NothingLeftOpen
  <2>1. ~serverRunning /\ members = {}
    BY DEF ServerInv, MainInv, Stopping
  <2> QED
    BY <2>1 DEF ServerInv, OpenKnown, StopsLast, ServiceOver
<1> QED
  BY <1>1, ServerInvariance, PTL

\* Server.cpp, Session.cpp: while the server runs, each running session has its
\* next read on the way.
THEOREM ReadsNeverStall == Spec => []NoReadStall
<1>1. ServerInv => NoReadStall
  BY DEF ServerInv
<1> QED
  BY <1>1, ServerInvariance, PTL

\* ChatRoom.cpp, Session.cpp: every client gets a run of consecutive responses,
\* whatever the io threads and the other clients do.
THEOREM Broadcasts == Spec => []BroadcastOrder
<1>1. ServerInv => BroadcastOrder
  BY DEF ServerInv, StreamInv, Streams, BroadcastOrder
<1> QED
  BY <1>1, ServerInvariance, PTL

----------------------------------------------------------------------------
(* The sessions of the server behave as module Session says. *)

\* A response is sent to a session once.
LEMMA ResponseUnsent ==
  ASSUME ServerInv, NEW s \in Sessions, SendResponse(s)
  PROVE  Response \in Chunks /\ Unsent(s, Response)
<1>1. /\ mainPc = "broadcast" /\ s \in recipients /\ running[s]
  BY DEF SendResponse, Send
<1>2. PICK first \in 0..Response, last \in 0..Response :
        Streams(s, first, last) /\ last = Response - 1
  BY <1>1 DEF ServerInv, StreamInv, LastDispatched
<1>3. Response \in Chunks /\ Response \in Nat /\ first \in Nat /\ last \in Nat
  <2>1. Response \in Chunks
    BY <1>1 DEF ServerInv, MainInv
  <2>2. Response \in Nat
    BY <2>1, ChunksAssumption
  <2> QED
    BY <2>1, <2>2
<1>4. /\ LastDelivered(s, first) \in Nat /\ LastQueued(s, first) \in Nat
      /\ delivered[s] \in Seq(Chunks) /\ Unwritten(s) \in Seq(Chunks)
      /\ sendQueue[s] \in Seq(Chunks)
  BY <1>3, StreamTypes DEF ServerInv
<1>5. ~Occurs(outbox[s], SendHandlers)
  BY OccursEmpty DEF SendResponse, Send, OwnerIdle
<1>6. /\ Follow(delivered[s], first) /\ Carries(strand[s], LastQueued(s, first), last)
      /\ \A i \in 1..Len(sendQueue[s]) : sendQueue[s][i] <= LastQueued(s, first)
  BY <1>2, <1>5 DEF Streams, OnTheWay, LastPosted, QueueBehind
<1>7. /\ LastDelivered(s, first) <= LastQueued(s, first)
      /\ LastQueued(s, first) <= last
      /\ Response > last
  <2>1. Len(Unwritten(s)) \in Nat
    BY <1>4
  <2>2. LastQueued(s, first) <= last
    BY <1>6, CarriesParts
  <2> QED
    BY <1>2, <1>3, <1>4, <2>1, <2>2 DEF LastQueued
<1>8. ~Occurs(delivered[s], {Response})
  <2> SUFFICES ASSUME NEW i \in 1..Len(delivered[s]), delivered[s][i] = Response PROVE FALSE
    BY DEF Occurs
  <2>1. Response = first + i /\ Len(delivered[s]) \in Nat
    BY <1>4, <1>6 DEF Follow
  <2>2. first + i <= LastDelivered(s, first)
    BY <1>3, <2>1 DEF LastDelivered
  <2> QED
    BY <1>3, <1>4, <1>7, <2>1, <2>2
<1>9. ~Occurs(sendQueue[s], {Response})
  BY <1>3, <1>4, <1>6, <1>7 DEF Occurs
<1>10. ~Occurs(strand[s], {SendHandler(Response)})
  <2>1. Response \notin LastQueued(s, first) + 1..last
    BY <1>3, <1>4, <1>7
  <2> QED
    BY <1>3, <1>6, <2>1 DEF Carries
<1> QED
  BY <1>3, <1>8, <1>9, <1>10 DEF Unsent

\* Each step of the server is one of a session, or none of the sessions'.
LEMMA StepIsSessions ==
  ASSUME ServerInv, [Next]_vars
  PROVE  [SessionNext]_sessionVars
<1>1. ASSUME NEW s \in Sessions, CallStep(s) PROVE SessionNext
  <2>1. CASE SendResponse(s)
    <3>1. Response \in Chunks /\ Unsent(s, Response) /\ Send(s, Response)
      BY <2>1, ResponseUnsent DEF SendResponse
    <3> QED
      BY <3>1 DEF SessionNext, OwnerStep
  <2>2. CASE SilentCall(s)
    BY <2>2 DEF SilentCall, SessionNext, OwnerStep
  <2> QED
    BY <1>1, <2>1, <2>2, CallKinds
<1>2. ASSUME NEW s \in Sessions, HandleAccept(s) PROVE SessionNext
  BY <1>2, AcceptParts DEF SessionNext, OwnerStep
<1>3. ASSUME NEW s \in Sessions, StrandStep(s) \/ CompletionStep(s) PROVE SessionNext
  BY <1>3 DEF SessionNext
<1> QED
  BY <1>1, <1>2, <1>3, MainStepKinds, LoopStepParts, ServiceTakenParts, OtherParts

\* Server.cpp calls its sessions, from its one thread, in the orders that
\* module Session allows; so what is proved there holds in the server.
THEOREM ServerImplementsSession == Spec => ImplementsSession
<1>1. Init => SessionInit
  BY DEF Init
<1>2. ServerInv /\ [Next]_vars => [SessionNext]_sessionVars
  BY StepIsSessions
<1> QED
  BY <1>1, <1>2, ServerInvariance, PTL DEF Spec, ImplementsSession, SessionSpec

\* ChatRoom.cpp, Session.cpp: what the chat room sends to a session reaches the
\* network whole, once, in the order of the calls and never after close().
THEOREM ServerSends == Spec => ImplementsSendChannel
BY ServerImplementsSession, SendsImplement DEF ImplementsSession

----------------------------------------------------------------------------
(* What stops a session while the server runs. *)

\* Nothing but start() makes a read token.
LEMMA TokenElsewhere ==
  ASSUME IInv, NEW s \in Sessions, OwnerCall(s) \/ StrandStep(s) \/ CompletionStep(s),
         NEW t \in Sessions, t # s, HasToken(t)'
  PROVE  HasToken(t)
<1>1. SessionTypeOK /\ events \in Seq(Events)
  BY DEF IInv, SessionTypeOK, Events
<1>2. /\ outbox'[t] = outbox[t] /\ strand'[t] = strand[t] /\ readOp'[t] = readOp[t]
      /\ reading' = t => reading = t
  <2>1. CASE OwnerCall(s)
    BY <1>1, <2>1, NoSessionAssumption DEF SessionTypeOK, OwnerCall, Post, Stop, TakeClose,
       SkipReceive, TakeReceive, PopFrontPacket, Receive, Send
  <2>2. CASE StrandStep(s)
    BY <1>1, <2>2 DEF SessionTypeOK, StrandStep, AsyncRead, OnRead, QueueChunk, OnWritten, Close,
       HandleError, StopFromHandler
  <2>3. CASE CompletionStep(s)
    BY <1>1, <2>3 DEF SessionTypeOK, CompletionStep, CompleteRead, CompleteWrite
  <2> QED
    BY <2>1, <2>2, <2>3
<1>3. ReadTold(t)' => ReadTold(t)
  <2>1. \/ events' = events
        \/ events # <<>> /\ events' = Tail(events)
        \/ \E e \in {ReceiveEvent(s), CloseEvent(s)} : events' = Append(events, e)
    BY DEF OwnerCall, Post, Stop, TakeClose, SkipReceive, TakeReceive, PopFrontPacket, Receive,
       Send, StrandStep, AsyncRead, OnRead, QueueChunk, OnWritten, Close, CompletionStep,
       CompleteRead, CompleteWrite
  <2>2. CASE events # <<>> /\ events' = Tail(events)
    BY <1>1, <2>2, QueuePopped DEF ReadTold
  <2>3. CASE \E e \in {ReceiveEvent(s), CloseEvent(s)} : events' = Append(events, e)
    BY <1>1, <2>3, EventKept, EventSorts
  <2> QED
    BY <2>1, <2>2, <2>3 DEF ReadTold
<1> QED
  BY <1>2, <1>3 DEF HasToken, ReadPosted, ReadQueued

\* A call of the main thread makes no read token where there was none,
LEMMA OwnerMakesNoToken ==
  ASSUME IInv, NEW s \in Sessions, OwnerCall(s), HasToken(s)'
  PROVE  HasToken(s)
<1>1. SessionTypeOK /\ events \in Seq(Events)
  BY DEF IInv, SessionTypeOK, Events
<1>2. CASE Post(s)
  <2>1. PICK h \in OwnerHandlers : outbox[s] = <<h>>
    BY <1>2 DEF IInv, Local, OutboxOne, Post
  <2>2. h \in Handlers /\ Pushed(s, h) /\ (h \in ReadHandlers => h \in {AsyncReadHandler})
    BY <1>2, <2>1, HandlersPosted, HandlerSorts
       DEF OwnerHandlers, Handlers, SendHandlers, Post, Pushed
  <2>3. Occurs(strand'[s], ReadHandlers) <=> Occurs(strand[s], ReadHandlers) \/ h \in ReadHandlers
    BY <1>1, <2>2, StrandPushed
  <2>4. h \in ReadHandlers => ReadPosted(s)
    BY <2>1, <2>2, OccursSingle DEF ReadPosted
  <2>5. ~ReadPosted(s)'
    BY <1>1, <1>2, OccursEmpty DEF ReadPosted, Post, SessionTypeOK
  <2> QED
    BY <1>2, <2>3, <2>4, <2>5 DEF HasToken, ReadQueued, ReadTold, Post
<1>3. CASE Stop(s) \/ \E c \in Chunks : Send(s, c)
  <2>1. \E h \in Handlers \ {AsyncReadHandler} : outbox'[s] = <<h>>
    BY <1>1, <1>3, HandlersPosted DEF Stop, Send, SessionTypeOK
  <2>2. ~ReadPosted(s)'
    BY <2>1, OccursSingle DEF ReadPosted
  <2> QED
    BY <1>3, <2>2 DEF HasToken, ReadQueued, ReadTold, Stop, Send
<1>4. CASE TakeClose(s) \/ SkipReceive(s)
  <2>1. events # <<>> /\ events' = Tail(events)
    BY <1>4 DEF TakeClose, SkipReceive
  <2>2. ReadTold(s)' => ReadTold(s)
    BY <1>1, <2>1, QueuePopped DEF ReadTold
  <2>3. /\ strand' = strand /\ outbox' = outbox /\ readOp' = readOp
        /\ reading' = reading
    BY <1>4 DEF TakeClose, SkipReceive
  <2> QED
    BY <2>2, <2>3 DEF HasToken, ReadPosted, ReadQueued
<1>5. CASE TakeReceive(s)
  <2>1. ReadTold(s)
    BY <1>1, <1>5, QueuePopped DEF TakeReceive, ReadTold
  <2> QED
    BY <2>1 DEF HasToken
<1>6. CASE PopFrontPacket(s) \/ Receive(s)
  BY <1>6 DEF HasToken, PopFrontPacket, Receive
<1> QED
  BY <1>2, <1>3, <1>4, <1>5, <1>6 DEF OwnerCall

\* ... and no step of the io threads does.
LEMMA IoMakesNoToken ==
  ASSUME IInv, NEW s \in Sessions, StrandStep(s) \/ CompletionStep(s), HasToken(s)'
  PROVE  HasToken(s)
<1>1. SessionTypeOK
  BY DEF IInv
<1>2. CASE AsyncRead(s) \/ OnRead(s)
  <2>1. strand[s] # <<>> /\ strand[s] \in Seq(Handlers) /\ Head(strand[s]) \in ReadHandlers
    BY <1>1, <1>2 DEF AsyncRead, OnRead, Runs, ReadHandlers, SessionTypeOK
  <2> QED
    BY <2>1, QueuePopped DEF HasToken, ReadQueued
<1>3. CASE QueueChunk(s) \/ OnWritten(s) \/ Close(s)
  <2>1. /\ strand[s] # <<>> /\ strand[s] \in Seq(Handlers)
        /\ strand'[s] \in {Tail(strand[s]), Append(Tail(strand[s]), CloseHandler)}
    BY <1>1, <1>3 DEF QueueChunk, OnWritten, Close, Runs, SessionTypeOK, HandleError,
       StopFromHandler
  <2>2. /\ Tail(strand[s]) \in Seq(Handlers)
        /\ Occurs(Tail(strand[s]), ReadHandlers) => Occurs(strand[s], ReadHandlers)
    BY <2>1, QueuePopped
  <2>3. CloseHandler \in Handlers /\ CloseHandler \notin ReadHandlers
    BY HandlersPosted, HandlerSorts
  <2>4. Occurs(Append(Tail(strand[s]), CloseHandler), ReadHandlers) =>
          Occurs(Tail(strand[s]), ReadHandlers)
    BY <2>2, <2>3, OccursAppend
  <2>5. ReadTold(s)' => ReadTold(s)
    <3>1. events' = events \/ events' = Append(events, CloseEvent(s))
      BY <1>3 DEF QueueChunk, OnWritten, Close
    <3> QED
      BY <1>1, <3>1, EventKept, EventSorts DEF ReadTold
  <2>6. UNCHANGED <<outbox, readOp, reading>>
    BY <1>3 DEF QueueChunk, OnWritten, Close
  <2> QED
    BY <2>1, <2>2, <2>4, <2>5, <2>6 DEF HasToken, ReadPosted, ReadQueued
<1>4. CASE CompleteRead(s)
  BY <1>4 DEF CompleteRead, HasToken
<1>5. CASE CompleteWrite(s)
  <2>1. PICK r \in WriteResults(s) : Pushed(s, OnWrittenHandler(r))
    BY <1>5 DEF CompleteWrite, Pushed
  <2>2. OnWrittenHandler(r) \in Handlers /\ OnWrittenHandler(r) \notin ReadHandlers
    BY HandlersPosted, HandlerSorts DEF WriteResults, Results
  <2>3. Occurs(strand'[s], ReadHandlers) => Occurs(strand[s], ReadHandlers)
    BY <1>1, <2>1, <2>2, StrandPushed
  <2> QED
    BY <1>5, <2>3 DEF HasToken, ReadPosted, ReadQueued, ReadTold, CompleteWrite
<1> QED
  BY <1>2, <1>3, <1>4, <1>5 DEF StrandStep, CompletionStep

\* A session without a read token gets none but by being started.
LEMMA TokenNotNew ==
  ASSUME IInv, NEW s \in Sessions, OwnerCall(s) \/ StrandStep(s) \/ CompletionStep(s),
         NEW t \in Sessions, HasToken(t)'
  PROVE  HasToken(t)
BY TokenElsewhere, OwnerMakesNoToken, IoMakesNoToken

\* A session whose write failed stays given up: it is not started again, and
\* as its send queue is not empty no call of send() starts a write.
LEMMA GivenUpStays ==
  ASSUME IInv, NEW s \in Sessions, SessionStep(s), NEW t \in Sessions, WriteGivenUp(t)
  PROVE  WriteGivenUp(t)'
<1>1. SessionTypeOK /\ strand[t] \in Seq(Handlers) /\ sendQueue[t] \in Seq(Chunks)
  BY DEF IInv, SessionTypeOK
<1>2. ~Occurs(strand[t], OnWrittenHandlers)
  BY DEF WriteGivenUp, WrittenQueued
<1>3. ~WrittenQueued(t)'
  <2>1. CASE StrandStep(s) \/ (t # s) \/ Start(s) \/ (OwnerCall(s) /\ strand' = strand)
    <3>1. \/ strand'[t] = strand[t]
          \/ /\ strand[t] # <<>>
             /\ strand'[t] \in {Tail(strand[t]), Append(Tail(strand[t]), CloseHandler)}
      <4>1. CASE t # s
        BY <1>1, <4>1 DEF SessionStep, OwnerCall, Start, Post, Stop, TakeClose, SkipReceive,
           TakeReceive, PopFrontPacket, Receive, Send, StrandStep, AsyncRead, OnRead,
           QueueChunk, OnWritten, Close, HandleError, StopFromHandler, CompletionStep,
           CompleteRead, CompleteWrite, SessionTypeOK
      <4>2. CASE t = s /\ StrandStep(s)
        BY <1>1, <4>2 DEF StrandStep, AsyncRead, OnRead, QueueChunk, OnWritten, Close, Runs,
           HandleError, StopFromHandler, SessionTypeOK
      <4> QED
        BY <2>1, <4>1, <4>2 DEF Start
    <3>2. CloseHandler \in Handlers /\ CloseHandler \notin OnWrittenHandlers
      BY HandlersPosted, HandlerSorts
    <3>3. strand[t] # <<>> =>
            /\ Tail(strand[t]) \in Seq(Handlers)
            /\ ~Occurs(Tail(strand[t]), OnWrittenHandlers)
            /\ ~Occurs(Append(Tail(strand[t]), CloseHandler), OnWrittenHandlers)
      <4> SUFFICES ASSUME strand[t] # <<>>
                   PROVE  /\ Tail(strand[t]) \in Seq(Handlers)
                          /\ ~Occurs(Tail(strand[t]), OnWrittenHandlers)
                          /\ ~Occurs(Append(Tail(strand[t]), CloseHandler), OnWrittenHandlers)
        OBVIOUS
      <4>1. /\ Tail(strand[t]) \in Seq(Handlers)
            /\ ~Occurs(Tail(strand[t]), OnWrittenHandlers)
        BY <1>1, <1>2, QueuePopped
      <4> QED
        BY <3>2, <4>1, OccursAppend
    <3> QED
      BY <1>2, <3>1, <3>3 DEF WrittenQueued
  <2>2. CASE t = s /\ (Post(s) \/ CompleteRead(s))
    <3>1. \E h \in Handlers \ OnWrittenHandlers : Pushed(s, h)
      <4>1. CASE Post(s)
        <5>1. PICK h \in OwnerHandlers : outbox[s] = <<h>>
          BY <4>1 DEF IInv, Local, OutboxOne, Post
        <5>2. h \in Handlers /\ h \notin OnWrittenHandlers
          BY HandlersPosted, HandlerSorts DEF OwnerHandlers, Handlers, SendHandlers
        <5>3. Pushed(s, h)
          BY <4>1, <5>1 DEF Post, Pushed
        <5> QED
          BY <5>2, <5>3
      <4>2. CASE CompleteRead(s)
        <5>1. PICK h \in OnReadHandlersOf(s) : strand' = [strand EXCEPT ![s] = Append(@, h)]
          BY <4>2 DEF CompleteRead
        <5>2. \A n \in MinPackets..MaxPackets - arrived[s] : n \in Nat
          BY <1>1, ReadCounts
        <5>3. \E r \in Results, n \in Nat : h = OnReadHandler(r, n)
          BY <5>1, <5>2 DEF OnReadHandlersOf, Results
        <5>4. h \in Handlers /\ h \notin OnWrittenHandlers
          BY <5>3, HandlersPosted, HandlerSorts
        <5> QED
          BY <4>2, <5>1, <5>4 DEF Pushed
      <4> QED
        BY <2>2, <4>1, <4>2
    <3> QED
      BY <1>1, <1>2, <2>2, <3>1, StrandPushed DEF WrittenQueued
  <2>3. ~(t = s /\ CompleteWrite(s))
    BY DEF WriteGivenUp, CompleteWrite
  <2>4. OwnerCall(s) => Post(s) \/ strand' = strand
    BY DEF OwnerCall, Stop, TakeClose, SkipReceive, TakeReceive, PopFrontPacket, Receive, Send
  <2> QED
    BY <2>1, <2>2, <2>3, <2>4 DEF SessionStep, CompletionStep
<1>4. ~Runs(t, OnWrittenHandlers)
  BY <1>1, <1>2, QueuePopped DEF Runs
<1>5. CASE Start(s) \/ OwnerCall(s)
  BY <1>1, <1>3, <1>5 DEF WriteGivenUp, SessionTypeOK, OwnerCall, Start, Post, Stop, TakeClose,
     SkipReceive, TakeReceive, PopFrontPacket, Receive, Send
<1>6. CASE StrandStep(s)
  <2>1. UNCHANGED <<writeOp, sendQueue>> \/ QueueChunk(s) \/ OnWritten(s)
    BY <1>6 DEF StrandStep, AsyncRead, OnRead, Close
  <2>2. socket'[t] # "none" /\ ~running'[t]
    BY <1>1, <1>6 DEF WriteGivenUp, SessionTypeOK, StrandStep, AsyncRead, OnRead, QueueChunk,
       OnWritten, Close, HandleError, StopFromHandler
  <2>3. sendQueue'[t] # <<>> /\ ~writeOp'[t]
    <3>1. CASE QueueChunk(s)
      <4>1. sendQueue \in [Sessions -> Seq(Chunks)] /\ writeOp \in [Sessions -> BOOLEAN]
        BY <1>1 DEF SessionTypeOK
      <4>2. Runs(s, SendHandlers) /\ Head(strand[s]).chunk \in Chunks
        BY <3>1 DEF QueueChunk, Runs, SendHandlers
      <4>3. sendQueue'[t] # <<>>
        BY <3>1, <4>1, <4>2, AppendElements DEF WriteGivenUp, QueueChunk
      <4>4. ~writeOp'[t]
        BY <3>1, <4>1 DEF WriteGivenUp, QueueChunk
      <4> QED
        BY <4>3, <4>4
    <3>2. CASE OnWritten(s)
      BY <1>1, <1>4, <3>2 DEF WriteGivenUp, OnWritten, SessionTypeOK
    <3> QED
      BY <2>1, <3>1, <3>2 DEF WriteGivenUp
  <2> QED
    BY <1>3, <2>2, <2>3 DEF WriteGivenUp
<1>7. CASE CompletionStep(s)
  BY <1>1, <1>3, <1>7
     DEF WriteGivenUp, SessionTypeOK, CompletionStep, CompleteRead, CompleteWrite
<1> QED
  BY <1>5, <1>6, <1>7 DEF SessionStep

\* A write that fails gives its session up.
LEMMA FailedWrite ==
  ASSUME IInv, NEW s \in Sessions, OnWritten(s), ~running'[s], running[s]
  PROVE  WriteGivenUp(s)'
<1>1. SessionTypeOK /\ Local(s) /\ strand[s] \in Seq(Handlers)
  BY DEF IInv, SessionTypeOK
<1>2. /\ strand[s] # <<>> /\ Head(strand[s]) \in OnWrittenHandlers
      /\ strand' = [strand EXCEPT ![s] = Append(Tail(@), CloseHandler)]
      /\ UNCHANGED <<sendQueue, writeOp, socket>>
  BY <1>1 DEF OnWritten, Runs, HandleError, StopFromHandler, SessionTypeOK
<1>3. CloseHandler \in Handlers /\ CloseHandler \notin OnWrittenHandlers
  BY HandlersPosted, HandlerSorts
<1>4. /\ AtMostOnce(strand[s], OnWrittenHandlers)
      /\ ~(writeOp[s] /\ WrittenQueued(s))
      /\ WrittenQueued(s) => sendQueue[s] # <<>>
      /\ socket[s] = "open"
  BY <1>1 DEF Local, QueueServed, ClosesOnce
<1>5. WrittenQueued(s) /\ ~Occurs(strand'[s], OnWrittenHandlers)
  BY <1>1, <1>2, <1>3, <1>4, StrandReplaced DEF WrittenQueued
<1> QED
  BY <1>2, <1>4, <1>5 DEF WriteGivenUp, WrittenQueued

\* A read that fails takes its token along; so unless the owner stops it, a
\* session that stops leaves a read behind only if its write has failed.
LEMMA UnreadStep ==
  ASSUME IInv, NEW s \in Sessions,
         \/ Start(s) \/ StrandStep(s) \/ CompletionStep(s)
         \/ (OwnerCall(s) /\ running' = running),
         NEW t \in Sessions, Unread(t)
  PROVE  Unread(t)'
<1>1. SessionTypeOK /\ Local(t) /\ strand[t] \in Seq(Handlers)
  BY DEF IInv, SessionTypeOK
<1> SUFFICES ASSUME ~running'[t], HasToken(t)', ~WriteGivenUp(t)' PROVE FALSE
  BY DEF Unread
<1>2. ~WriteGivenUp(t)
  BY GivenUpStays DEF SessionStep
<1>3. CASE Start(s)
  <2>1. t # s
    BY <1>1, <1>3 DEF Start, SessionTypeOK
  <2>2. ~running[t] /\ HasToken(t)
    BY <1>1, <1>3, <2>1
       DEF Start, SessionTypeOK, HasToken, ReadPosted, ReadQueued, ReadTold
  <2> QED
    BY <1>2, <2>2 DEF Unread
<1>4. CASE \/ (OwnerCall(s) /\ running' = running)
           \/ CompletionStep(s) \/ AsyncRead(s) \/ QueueChunk(s) \/ Close(s)
  <2>1. HasToken(t)
    BY <1>4, TokenNotNew DEF StrandStep
  <2>2. running' = running
    BY <1>4 DEF CompletionStep, CompleteRead, CompleteWrite, AsyncRead, QueueChunk, Close
  <2> QED
    BY <1>2, <2>1, <2>2 DEF Unread
<1>5. CASE OnRead(s) \/ OnWritten(s)
  <2>1. HasToken(t) /\ running[t]
    BY <1>2, <1>5, TokenNotNew DEF StrandStep, Unread
  <2>2. t = s
    BY <1>1, <1>5, <2>1 DEF OnRead, OnWritten, HandleError, StopFromHandler, SessionTypeOK
  <2>3. OnRead(s)
    BY <1>2, <1>5, <2>1, <2>2, FailedWrite
  <2>4. /\ Runs(s, OnReadHandlers)
        /\ strand' = [strand EXCEPT ![s] = Append(Tail(@), CloseHandler)]
        /\ UNCHANGED <<outbox, readOp, events, reading>>
    BY <1>1, <2>1, <2>2, <2>3 DEF OnRead, HandleError, StopFromHandler, SessionTypeOK
  <2>5. strand[s] # <<>> /\ Head(strand[s]) \in ReadHandlers
    BY <2>4 DEF Runs, ReadHandlers
  <2>6. CloseHandler \in Handlers /\ CloseHandler \notin ReadHandlers
    BY HandlersPosted, HandlerSorts
  <2>7. AtMostOnce(strand[s], ReadHandlers)
    BY <1>1, <2>2 DEF Local, OneReadToken
  <2>8. ReadQueued(s) /\ ~ReadQueued(s)'
    BY <1>1, <2>2, <2>4, <2>5, <2>6, <2>7, StrandReplaced DEF ReadQueued
  <2> QED
    BY <1>1, <2>2, <2>4, <2>8 DEF HasToken, Local, OneReadToken, ReadPosted, ReadTold
<1> QED
  BY <1>3, <1>4, <1>5 DEF StrandStep

\* While the server runs no owner stops a session.
LEMMA StoppedUnreadStep ==
  ASSUME IInv, MainInv, StoppedUnread, [Next]_vars
  PROVE  StoppedUnread'
<1> SUFFICES ASSUME serverRunning', NEW t \in Sessions PROVE Unread(t)'
  BY DEF StoppedUnread
<1>1. CASE UNCHANGED sessionVars
  <2>1. serverRunning
    BY <1>1, MainStepKinds, LoopStepMain, CallStepMain, AcceptMain, OtherParts
       DEF mainVars, ServiceTaken, HandleServiceClose, SkipAccept
  <2> QED
    BY <1>1, <2>1 DEF StoppedUnread, Unread, HasToken, ReadPosted, ReadQueued, ReadTold,
       WriteGivenUp, WrittenQueued, sessionVars
<1>2. ASSUME NEW s \in Sessions, CallStep(s) PROVE Unread(t)'
  <2>1. OwnerCall(s) /\ serverRunning
    BY <1>2, CallStepParts, CallStepMain
  <2>2. running' = running
    BY <1>2, <2>1 DEF CallStep, PostHandler, HandleClose, HandleReceive, ReceiveWithoutSession,
       DropReceive, MovePacket, OutOfMemory, PacketsDone, SendResponse, StopMember, Post,
       TakeClose, TakeReceive, SkipReceive, PopFrontPacket, Receive, Send, MainInv, Stopping
  <2> QED
    BY <2>1, <2>2, UnreadStep DEF StoppedUnread
<1>3. ASSUME NEW s \in Sessions,
             HandleAccept(s) \/ (~MainStep /\ (StrandStep(s) \/ CompletionStep(s)))
      PROVE  Unread(t)'
  <2>1. serverRunning /\ (Start(s) \/ StrandStep(s) \/ CompletionStep(s))
    BY <1>3, AcceptParts, AcceptMain, OtherParts DEF mainVars
  <2> QED
    BY <2>1, UnreadStep DEF StoppedUnread
<1> QED
  BY <1>1, <1>2, <1>3, MainStepKinds, LoopStepParts, ServiceTakenParts, OtherParts

----------------------------------------------------------------------------
(* What the packet loop takes out of a receive buffer. *)

\* The count of packets taken never falls.
LEMMA PoppedGrows ==
  ASSUME IInv, UNCHANGED sessionVars \/ \E s \in Sessions : SessionStep(s),
         NEW t \in Sessions
  PROVE  popped[t] \in Nat /\ popped'[t] \in Nat /\ popped[t] <= popped'[t]
<1>1. SessionTypeOK
  BY DEF IInv
<1>2. popped[t] \in Nat /\ popped'[t] \in {popped[t], popped[t] + 1}
  <2>1. CASE UNCHANGED sessionVars
    BY <1>1, <2>1 DEF sessionVars, SessionTypeOK
  <2>2. ASSUME NEW s \in Sessions, Start(s) \/ StrandStep(s) \/ CompletionStep(s)
        PROVE  popped' = popped
    BY <2>2 DEF Start, StrandStep, AsyncRead, OnRead, QueueChunk, OnWritten, Close,
       CompletionStep, CompleteRead, CompleteWrite
  <2>3. ASSUME NEW s \in Sessions, OwnerCall(s)
        PROVE  popped' \in {popped, [popped EXCEPT ![s] = @ + 1]}
    BY <2>3 DEF OwnerCall, Post, Stop, TakeClose, SkipReceive, TakeReceive, PopFrontPacket,
       Receive, Send
  <2> QED
    BY <1>1, <2>1, <2>2, <2>3 DEF SessionStep, SessionTypeOK
<1> QED
  BY <1>2

\* What holds a session's front packet back holds it back for good.
LEMMA StuckStays ==
  ASSUME IInv, UNCHANGED sessionVars \/ \E s \in Sessions : SessionStep(s),
         NEW m, m.sid \in Sessions, StuckAtFront(m)
  PROVE  StuckAtFront(m)'
<1>1. CASE UNCHANGED sessionVars
  BY <1>1 DEF StuckAtFront, WriteGivenUp, WrittenQueued, sessionVars
<1>2. ASSUME NEW s \in Sessions, SessionStep(s) PROVE StuckAtFront(m)'
  <2> DEFINE t == m.sid
  <2>1. WriteGivenUp(t) /\ WriteGivenUp(t)'
    BY <1>2, GivenUpStays DEF StuckAtFront
  <2>2. popped'[t] = popped[t]
    <3>1. ~running[t] /\ SessionTypeOK
      BY <2>1 DEF WriteGivenUp, IInv
    <3>2. popped' = popped \/ PopFrontPacket(s)
      BY <1>2 DEF SessionStep, Start, StrandStep, AsyncRead, OnRead, QueueChunk, OnWritten,
         Close, CompletionStep, CompleteRead, CompleteWrite, OwnerCall, Post, Stop, TakeClose,
         SkipReceive, TakeReceive, Receive, Send
    <3> QED
      BY <3>1, <3>2 DEF PopFrontPacket, SessionTypeOK
  <2> QED
    BY <2>1, <2>2 DEF StuckAtFront
<1> QED
  BY <1>1, <1>2

\* A packet is queued behind those of the same session: all were taken before
\* it, but for itself when the session has stopped and nothing can be taken.
LEMMA MovePacketKeepsOrder ==
  ASSUME IInv, MainInv, StoppedUnread, PacketMovedOnceOrGivenUp, PacketsTaken,
         NEW s \in Sessions, MovePacket(s)
  PROVE  PacketMovedOnceOrGivenUp' /\ PacketsTaken'
<1> DEFINE P == [sid : Sessions, packet : Nat]
           m == Message(s, popped[s] + 1)
           n == Len(messages)
<1>1. SessionTypeOK /\ messages \in Seq(P) /\ popped[s] \in Nat
  BY DEF IInv, MainInv, MainTypeOK, SessionTypeOK
<1>2. OwnerCall(s) /\ SessionStep(s)
  BY DEF MovePacket, OwnerCall, SessionStep
<1>3. m \in P /\ m.sid = s /\ m.packet = popped[s] + 1 /\ n \in Nat
  BY <1>1 DEF Message
<1>4. /\ Len(messages') = n + 1 /\ messages'[n + 1] = m
      /\ \A i \in 1..n : messages'[i] = messages[i] /\ messages[i] \in P
  <2>1. messages' = Append(messages, m)
    BY DEF MovePacket
  <2> HIDE DEF m, P
  <2> QED
    BY <1>1, <1>3, <2>1, AppendElements
<1>5. \A i \in 1..n : messages[i].packet \in Nat /\ messages[i].sid \in Sessions
  BY <1>4
<1>6. \A t \in Sessions : popped[t] \in Nat /\ popped'[t] \in Nat /\ popped[t] <= popped'[t]
  BY <1>2, PoppedGrows
<1>7. \A o \in P : (StuckAtFront(o) => StuckAtFront(o)') /\ (Taken(o) => Taken(o)')
  BY <1>2, <1>6, StuckStays DEF Taken
<1>8. m.packet <= popped'[s] \/ (m.packet = popped'[s] + 1 /\ WriteGivenUp(s)')
  <2>1. CASE running[s]
    <3>1. popped'[s] = popped[s] + 1
      BY <1>1, <2>1 DEF MovePacket, PopFrontPacket, SessionTypeOK
    <3> QED
      BY <1>1, <1>3, <3>1
  <2>2. CASE ~running[s]
    <3>1. HasToken(s) /\ serverRunning
      BY DEF MovePacket, PopFrontPacket, HasToken, MainInv
    <3>2. WriteGivenUp(s)'
      BY <1>2, <2>2, <3>1, GivenUpStays DEF StoppedUnread, Unread
    <3>3. popped'[s] = popped[s]
      BY <2>2 DEF MovePacket, PopFrontPacket
    <3> QED
      BY <1>3, <3>2, <3>3
  <2> QED
    BY <2>1, <2>2
<1> HIDE DEF m, n, P
<1>9. 1..n + 1 = 1..n \cup {n + 1}
  BY <1>3
<1>10. PacketsTaken'
  <2>1. \A i \in 1..n : messages[i] \in P /\ Taken(messages[i])
    BY <1>4 DEF PacketsTaken, n
  <2> SUFFICES ASSUME NEW i \in 1..n + 1 PROVE Taken(messages[i])'
    BY <1>4 DEF PacketsTaken
  <2>2. CASE i \in 1..n
    <3>1. PICK o \in P : o = messages[i]
      BY <2>1, <2>2
    <3>2. Taken(o)' /\ messages'[i] = o
      BY <1>4, <1>7, <2>1, <2>2, <3>1
    <3> QED
      BY <3>2 DEF Taken, StuckAtFront, WriteGivenUp, WrittenQueued
  <2>3. CASE i = n + 1
    BY <1>3, <1>4, <1>8, <2>3 DEF Taken, StuckAtFront, WriteGivenUp, WrittenQueued
  <2> QED
    BY <1>9, <2>2, <2>3
<1>11. PacketMovedOnceOrGivenUp'
  <2> SUFFICES ASSUME NEW i \in 1..n + 1, NEW j \in 1..n + 1, i < j,
                      messages'[i].sid = messages'[j].sid
               PROVE  \/ messages'[i].packet < messages'[j].packet
                      \/ messages'[i] = messages'[j] /\ StuckAtFront(messages[j])'
    BY <1>4 DEF PacketMovedOnceOrGivenUp
  <2>1. i \in 1..n
    BY <1>3
  <2>2. CASE j \in 1..n
    <3>1. PICK o \in P : o = messages[j]
      BY <1>4, <2>2
    <3>2. /\ messages'[j] = o /\ messages'[i] = messages[i]
          /\ messages[i].packet < o.packet \/ (messages[i] = o /\ StuckAtFront(o))
      BY <1>4, <2>1, <2>2, <3>1 DEF PacketMovedOnceOrGivenUp, n
    <3>3. StuckAtFront(o) => StuckAtFront(o)'
      BY <1>7
    <3> QED
      BY <3>2, <3>3 DEF StuckAtFront, WriteGivenUp, WrittenQueued
  <2>3. CASE j = n + 1
    <3> DEFINE o == messages[i]
    <3>1. messages'[i] = o /\ messages'[j] = m /\ o.sid = s /\ o \in P
      BY <1>3, <1>4, <2>1, <2>3
    <3>2. o.packet \in Nat /\ (o.packet <= popped[s] \/ StuckAtFront(o))
      BY <1>5, <2>1, <3>1 DEF PacketsTaken, Taken, n
    <3> HIDE DEF o
    <3>3. CASE o.packet <= popped[s]
      BY <1>1, <1>3, <3>1, <3>2, <3>3
    <3>4. CASE StuckAtFront(o)
      <4>1. o.packet = m.packet
        BY <1>3, <3>1, <3>4 DEF StuckAtFront
      <4>2. o = m
        BY <1>3, <3>1, <4>1 DEF P
      <4>3. WriteGivenUp(s)' /\ popped'[s] = popped[s]
        <5>1. WriteGivenUp(s)
          BY <3>1, <3>4 DEF StuckAtFront
        <5>2. ~running[s]
          BY <5>1 DEF WriteGivenUp
        <5> QED
          BY <1>2, <5>1, <5>2, GivenUpStays DEF MovePacket, PopFrontPacket
      <4> QED
        BY <1>3, <3>1, <4>2, <4>3 DEF StuckAtFront, WriteGivenUp, WrittenQueued
    <3> QED
      BY <3>2, <3>3, <3>4
  <2> QED
    BY <1>9, <2>2, <2>3
<1> QED
  BY <1>10, <1>11

\* The elements of a tail.
LEMMA TailShifts ==
  ASSUME NEW T, NEW q \in Seq(T), q # <<>>
  PROVE  /\ Len(q) \in Nat /\ Len(Tail(q)) = Len(q) - 1
         /\ \A i \in 1..Len(Tail(q)) : Tail(q)[i] = q[i + 1] /\ i + 1 \in 1..Len(q)
OBVIOUS

\* Messages come from the packet loop, and go when they have been dispatched.
LEMMA MessagesStep ==
  ASSUME IInv, MainInv, StoppedUnread, PacketMovedOnceOrGivenUp, PacketsTaken, [Next]_vars
  PROVE  PacketMovedOnceOrGivenUp' /\ PacketsTaken'
<1> DEFINE P == [sid : Sessions, packet : Nat]
<1>1. messages \in Seq(P)
  BY DEF MainInv, MainTypeOK
<1>2. \A t \in Sessions : popped[t] \in Nat /\ popped'[t] \in Nat /\ popped[t] <= popped'[t]
  BY StepParts, PoppedGrows
<1>3. \A o \in P : (StuckAtFront(o) => StuckAtFront(o)') /\ (Taken(o) => Taken(o)')
  BY <1>2, StepParts, StuckStays DEF Taken
<1> HIDE DEF P
<1>4. \A i \in 1..Len(messages) : messages[i] \in P
  BY <1>1
<1>5. CASE messages' = messages \/ BroadcastDone
  <2>1. PICK k \in {0, 1} :
          \A i \in 1..Len(messages') :
            messages'[i] = messages[i + k] /\ i + k \in 1..Len(messages)
    <3>1. CASE messages' = messages
      BY <1>1, <3>1
    <3>2. CASE BroadcastDone
      <4>1. messages # <<>> /\ messages' = Tail(messages)
        BY <3>2 DEF BroadcastDone, MainInv
      <4> QED
        BY <1>1, <4>1, TailShifts
    <3> QED
      BY <1>5, <3>1, <3>2
  <2>2. ASSUME NEW i \in 1..Len(messages') PROVE Taken(messages[i])'
    <3>1. PICK o \in P : o = messages[i + k]
      BY <1>4, <2>1
    <3>2. Taken(o)' /\ messages'[i] = o
      BY <1>3, <2>1, <3>1 DEF PacketsTaken
    <3> QED
      BY <3>2 DEF Taken, StuckAtFront, WriteGivenUp, WrittenQueued
  <2>3. ASSUME NEW i \in 1..Len(messages'), NEW j \in 1..Len(messages'), i < j,
               messages'[i].sid = messages'[j].sid
        PROVE  \/ messages'[i].packet < messages'[j].packet
               \/ messages'[i] = messages'[j] /\ StuckAtFront(messages[j])'
    <3>1. PICK o \in P : o = messages[j + k]
      BY <1>4, <2>1
    <3>2. messages'[j] = o /\ messages'[i] = messages[i + k] /\ i + k < j + k
      BY <2>1, <2>3, <3>1
    <3>3. messages[i + k].packet < o.packet \/ (messages[i + k] = o /\ StuckAtFront(o))
      BY <2>1, <2>3, <3>1, <3>2 DEF PacketMovedOnceOrGivenUp
    <3>4. StuckAtFront(o) => StuckAtFront(o)'
      BY <1>3
    <3> QED
      BY <3>2, <3>3, <3>4 DEF StuckAtFront, WriteGivenUp, WrittenQueued
  <2> QED
    BY <2>2, <2>3 DEF PacketsTaken, PacketMovedOnceOrGivenUp
<1>6. CASE \E s \in Sessions : MovePacket(s)
  BY <1>6, MovePacketKeepsOrder
<1>7. \/ messages' = messages \/ BroadcastDone \/ \E s \in Sessions : MovePacket(s)
  <2>1. CASE MainStep
    BY <2>1 DEF MainStep, HandleServiceClose, ServiceEventsDone, SessionEventsDone, HandleChat,
       TickDone, StopAllDone, DrainMore, DrainEventsDone, DrainDone, PostHandler, HandleAccept,
       SkipAccept, HandleClose, HandleReceive, ReceiveWithoutSession, DropReceive, OutOfMemory,
       PacketsDone, SendResponse, SendFails, StopMember, AlreadyStopped, mainVars
  <2>2. CASE ~MainStep
    BY <2>2, OtherParts DEF mainVars
  <2> QED
    BY <2>1, <2>2
<1> QED
  BY <1>5, <1>6, <1>7

----------------------------------------------------------------------------
\* The server as it is when its threads start.
LEMMA InitPackets == Init => PacketInv
<1> SUFFICES ASSUME Init PROVE PacketInv
  OBVIOUS
<1>1. \A t \in Sessions : strand[t] = <<>> /\ outbox[t] = <<>> /\ ~readOp[t]
  BY DEF Init, SessionInit
<1>2. events = <<>> /\ reading = NoSession /\ messages = <<>>
  BY DEF Init, SessionInit
<1>3. StoppedUnread
  <2>1. \A t \in Sessions : \A S : /\ ~Occurs(strand[t], S) /\ ~Occurs(outbox[t], S)
                                  /\ ~Occurs(events, S)
    BY <1>1, <1>2, OccursEmpty
  <2>2. \A t \in Sessions : ~HasToken(t)
    BY <1>1, <1>2, <2>1, NoSessionAssumption DEF HasToken, ReadPosted, ReadQueued, ReadTold
  <2> QED
    BY <2>2 DEF StoppedUnread, Unread
<1>4. PacketMovedOnceOrGivenUp /\ PacketsTaken
  BY <1>2 DEF PacketMovedOnceOrGivenUp, PacketsTaken
<1> QED
  BY <1>3, <1>4, InitServerInv DEF PacketInv

\* The inductive invariant of the server together with its packets.
THEOREM PacketInvariance == Spec => []PacketInv
<1>1. Init => PacketInv
  BY InitPackets
<1>2. PacketInv /\ [Next]_vars => PacketInv'
  BY NextServerInv, StoppedUnreadStep, MessagesStep DEF PacketInv, ServerInv
<1> QED
  BY <1>1, <1>2, PTL DEF Spec

\* Server.cpp:205: each packet taken out of a receive buffer is queued once, in
\* the order in which it came, and no packet is queued again but the front
\* one of a session whose write failed.
THEOREM PacketsMoveOnce == Spec => []PacketMovedOnceOrGivenUp
<1>1. PacketInv => PacketMovedOnceOrGivenUp
  BY DEF PacketInv
<1> QED
  BY <1>1, PacketInvariance, PTL

\* Server.cpp:197: the session of a Receive event is found, unless it is one
\* whose write failed.
THEOREM ReceivesFindSession == Spec => []ReceiveFindsSessionOrGivenUp
<1>1. PacketInv => ReceiveFindsSessionOrGivenUp
  <2> SUFFICES ASSUME PacketInv, NEW s \in Sessions, ReceiveOfUnknown(s), ~WriteGivenUp(s)
               PROVE  FALSE
    BY DEF ReceiveFindsSessionOrGivenUp
  <2>1. ReadTold(s)
    BY OccursTail DEF PacketInv, ServerInv, IInv, SessionTypeOK, ReadTold, ReceiveOfUnknown
  <2>2. running[s]
    BY <2>1 DEF PacketInv, StoppedUnread, Unread, HasToken, ReceiveOfUnknown
  <2>3. socket[s] = "open"
    BY <2>2 DEF PacketInv, ServerInv, IInv, Local, ClosesOnce
  <2> QED
    BY <2>3 DEF PacketInv, ServerInv, OpenKnown, ReceiveOfUnknown
<1> QED
  BY <1>1, PacketInvariance, PTL

====
