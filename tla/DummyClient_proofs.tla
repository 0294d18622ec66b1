---- MODULE DummyClient_proofs ----
(***************************************************************************)
(* The invariants of the dummy client for any number of connections,       *)
(* chunks and packets.                                                     *)
(*                                                                         *)
(* The sessions keep the invariant of Session_proofs, and the service and  *)
(* the loop those of ClientLoop_proofs, as each step of the program is a   *)
(* step of both or leaves them alone.  What the program adds is that it    *)
(* only stops after its service is over (StopsLast).                       *)
(***************************************************************************)
EXTENDS DummyClient, ClientLoop_proofs

Places == {"timers"} \cup CommonPlaces

TimerShape ==
  /\ mainPc \in Places
  /\ timers \subseteq Sessions
  /\ sending \in {NoSession} \cup timers
  /\ nextClientMessageId \in Nat
  /\ sending # NoSession => nextClientMessageId - 1 \in Chunks

StopsLast == ~clientRunning => ServiceOver

ClientInv ==
  /\ IInv /\ ServiceInv
  /\ LoopShape /\ TimerShape /\ OpenKnown /\ StopsLast

----------------------------------------------------------------------------
(* What the dummy client does beside the steps of both clients. *)

TimerStep ==
  \E s \in Sessions : TimerStops(s) \/ TimerSends(s) \/ TimerFails(s) \/ FinishSend(s)

OwnStep ==
  \/ HandleMessagesDone \/ UpdateDone \/ TimerStep
  \/ \E s \in Sessions : HandleConnect(s) \/ HandleClose(s) \/ ReceiveCrashes(s)

\* The timers leave the loop alone and call at most send().
LEMMA TimerParts ==
  ASSUME ClientInv, TimerStep
  PROVE  /\ IInv' /\ socket' = socket /\ UNCHANGED <<loopVars, serviceVars>>
         /\ TimerShape'
<1> USE DEF ClientInv, TimerShape
<1>1. ASSUME NEW s \in Sessions, TimerStops(s) \/ TimerFails(s)
      PROVE  UNCHANGED netVars /\ UNCHANGED loopVars /\ TimerShape'
  BY <1>1 DEF TimerStops, TimerFails, InCallback, loopVars
<1>2. ASSUME NEW s \in Sessions, TimerSends(s)
      PROVE  UNCHANGED netVars /\ UNCHANGED loopVars /\ TimerShape'
  <2>1. /\ s \in timers /\ timers' = timers /\ sending' = s
        /\ nextClientMessageId \in Chunks
        /\ nextClientMessageId' = nextClientMessageId + 1
        /\ UNCHANGED netVars /\ UNCHANGED loopVars /\ mainPc' = mainPc
    BY <1>2 DEF TimerSends, InCallback, loopVars
  <2>2. nextClientMessageId' \in Nat /\ nextClientMessageId' - 1 = nextClientMessageId
    BY <2>1
  <2> QED
    BY <2>1, <2>2
<1>3. ASSUME NEW s \in Sessions, FinishSend(s)
      PROVE  /\ IInv' /\ socket' = socket /\ UNCHANGED <<loopVars, serviceVars>>
             /\ TimerShape'
  <2>1. /\ UNCHANGED <<loopVars, serviceVars>>
        /\ Send(s, nextClientMessageId - 1) \/ UNCHANGED sessionVars
    BY <1>3 DEF FinishSend
  <2>2. nextClientMessageId - 1 \in Chunks
    BY <1>3, NoSessionAssumption DEF FinishSend
  <2>3. ASSUME Send(s, nextClientMessageId - 1) PROVE IInv' /\ socket' = socket
    BY <2>2, <2>3, OwnerCalls DEF OwnerCall
  <2>4. ASSUME UNCHANGED sessionVars PROVE IInv' /\ socket' = socket
    BY <2>4, StutterIInv DEF sessionVars
  <2>5. TimerShape'
    BY <1>3 DEF FinishSend, loopVars
  <2> QED
    BY <2>1, <2>3, <2>4, <2>5
<1>4. ASSUME UNCHANGED netVars PROVE IInv' /\ socket' = socket /\ UNCHANGED serviceVars
  BY <1>4, StutterIInv DEF netVars, sessionVars
<1> QED
  BY <1>1, <1>2, <1>3, <1>4 DEF TimerStep

\* Each of the program's own steps but the last: the client goes on running.
LEMMA OwnParts ==
  ASSUME ClientInv, OwnStep
  PROVE  /\ IInv' /\ [ServiceStep]_serviceVars
         /\ LoopShape' /\ TimerShape' /\ OpenKnown' /\ clientRunning' = clientRunning
<1> USE DEF ClientInv
<1>1. CASE HandleMessagesDone \/ UpdateDone
  <2>1. UNCHANGED netVars /\ UNCHANGED timerVars /\ members' = members
    BY <1>1 DEF HandleMessagesDone, UpdateDone, MessagesDone, TickDone
  <2>2. IInv' /\ UNCHANGED serviceVars /\ OpenKnown'
    BY <2>1, StutterIInv DEF netVars, sessionVars, OpenKnown
  <2>3. LoopShape' /\ TimerShape' /\ clientRunning' = clientRunning
    BY <1>1, <2>1 DEF HandleMessagesDone, UpdateDone, MessagesDone, TickDone, LoopShape,
       TimerShape, timerVars, GoTo, Places, CommonPlaces, Stopping
  <2> QED
    BY <2>2, <2>3
<1>2. CASE TimerStep
  BY <1>2, TimerParts DEF loopVars, LoopShape, OpenKnown
<1>3. ASSUME NEW s \in Sessions, HandleConnect(s)
      PROVE  /\ IInv' /\ [ServiceStep]_serviceVars
             /\ LoopShape' /\ TimerShape' /\ OpenKnown' /\ clientRunning' = clientRunning
  BY <1>3, ConnectParts DEF HandleConnect, Connect, TimerShape
<1>4. ASSUME NEW s \in Sessions, HandleClose(s)
      PROVE  /\ IInv' /\ [ServiceStep]_serviceVars
             /\ LoopShape' /\ TimerShape' /\ OpenKnown' /\ clientRunning' = clientRunning
  BY <1>4, RemoveParts DEF HandleClose, RemoveSession, TimerShape, timerVars
<1>5. ASSUME NEW s \in Sessions, ReceiveCrashes(s)
      PROVE  /\ IInv' /\ [ServiceStep]_serviceVars
             /\ LoopShape' /\ TimerShape' /\ OpenKnown' /\ clientRunning' = clientRunning
  BY <1>5, UnknownParts
     DEF ReceiveCrashes, ReceiveWithoutSession, TimerShape, timerVars, GoTo, Places, CommonPlaces
<1> QED
  BY <1>1, <1>2, <1>3, <1>4, <1>5 DEF OwnStep

----------------------------------------------------------------------------
\* The client as it is when its threads start.
LEMMA InitClientInv == Init => ClientInv
BY InitLoop DEF Init, LoopInit, TimerShape, Places, CommonPlaces, StopsLast, ClientInv

\* Only the Close event of the service stops the client.
LEMMA ServiceCloseInv == ASSUME ClientInv, HandleServiceClose PROVE ClientInv'
<1> USE DEF ClientInv
<1>1. /\ TakeServiceEvent(ServiceCloseEvent) /\ UNCHANGED sessionVars
      /\ UNCHANGED <<mainPc, members, messages, toStop, timerVars>>
      /\ clientRunning' = FALSE
  BY DEF HandleServiceClose
<1>2. IInv' /\ ServiceInv' /\ ServiceOver'
  BY <1>1, StutterIInv, ServiceStepInv, OverWhenTold, ServiceEventSorts DEF ServiceStep
<1>3. LoopShape' /\ TimerShape' /\ OpenKnown'
  BY <1>1 DEF LoopShape, TimerShape, OpenKnown, timerVars, sessionVars
<1> QED
  BY <1>2, <1>3 DEF StopsLast

\* Each step of the client keeps its invariant.
LEMMA NextClientInv == ClientInv /\ [Next]_vars => ClientInv'
<1> SUFFICES ASSUME ClientInv, [Next]_vars PROVE ClientInv'
  OBVIOUS
<1>1. CASE HandleServiceClose
  BY <1>1, ServiceCloseInv
<1>2. CASE /\ IInv' /\ [ServiceStep]_serviceVars
           /\ LoopShape' /\ TimerShape' /\ OpenKnown' /\ clientRunning' = clientRunning
  BY <1>2, ServiceStepInv, OverStays DEF ClientInv, StopsLast
<1>3. CASE OwnStep
  BY <1>2, <1>3, OwnParts
<1>4. CASE CommonStep /\ UNCHANGED timerVars
  <2>1. IInv' /\ socket' = socket /\ UNCHANGED serviceVars
    BY <1>4, CommonParts DEF ClientInv
  <2>2. LoopShape' /\ members' = members /\ clientRunning' = clientRunning /\ CommonMoves
    BY <1>4, CommonLoop DEF ClientInv
  <2>3. TimerShape' /\ OpenKnown'
    BY <1>4, <2>1, <2>2
       DEF ClientInv, TimerShape, OpenKnown, timerVars, CommonMoves, Places
  <2> QED
    BY <1>2, <2>1, <2>2, <2>3
<1>5. CASE BackgroundStep /\ UNCHANGED timerVars
  <2>1. IInv' /\ [ServiceStep]_serviceVars /\ OpensNone /\ UNCHANGED loopVars
    BY <1>5, BackgroundParts DEF ClientInv
  <2>2. LoopShape' /\ TimerShape' /\ OpenKnown'
    BY <1>5, <2>1 DEF ClientInv, LoopShape, TimerShape, OpenKnown, OpensNone, loopVars, timerVars
  <2> QED
    BY <1>2, <2>1, <2>2 DEF loopVars
<1>6. CASE UNCHANGED vars
  <2>1. UNCHANGED <<loopVars, timerVars, sessionVars, serviceVars>>
    BY <1>6 DEF vars, netVars
  <2>2. IInv'
    BY <2>1, StutterIInv DEF ClientInv
  <2>3. LoopShape' /\ TimerShape' /\ OpenKnown' /\ clientRunning' = clientRunning
    BY <2>1 DEF ClientInv, LoopShape, TimerShape, OpenKnown, loopVars, timerVars, sessionVars
  <2> QED
    BY <1>2, <2>1, <2>2, <2>3
<1> QED
  BY <1>1, <1>3, <1>4, <1>5, <1>6 DEF Next, MainStep, Halted, OwnStep, TimerStep

\* The inductive invariant of the program.
THEOREM ClientInvariance == Spec => []ClientInv
BY InitClientInv, NextClientInv, PTL DEF Spec

\* Client.cpp: the main thread's data keeps its shape, and so do the sessions
\* and the service.
THEOREM ClientTypeCorrect == Spec => []TypeOK
<1>1. ClientInv => TypeOK
  BY DEF ClientInv, LoopShape, TimerShape, IInv, ServiceInv, TypeOK, LoopTypeOK,
     Places, CommonPlaces, Stopping
<1> QED
  BY <1>1, ClientInvariance, PTL

\* Service.cpp: closed once, each socket handed over once, none open behind
\* the Close event, whoever stops the service and whenever.
THEOREM Connects == Spec => []ConnectProtocol
<1>1. ClientInv => ConnectProtocol
  BY ServiceInvProtocol DEF ClientInv
<1> QED
  BY <1>1, ClientInvariance, PTL

\* Client.cpp, Session.cpp: the assertions on the life cycle hold, and no
\* connection is left open by a main thread that has ended.
THEOREM ClientAsserts == Spec => []LifecycleAsserts
<1>1. ClientInv => LifecycleAsserts
  <2> SUFFICES ASSUME ClientInv PROVE LifecycleAsserts
    OBVIOUS
  <2>1. CommonAsserts
    BY LoopAsserts DEF ClientInv
  <2>2. Closed => clientRunning
    BY DEF ClientInv, StopsLast, ServiceOver
  <2> QED
    BY <2>1, <2>2 DEF LifecycleAsserts
<1> QED
  BY <1>1, ClientInvariance, PTL

\* Session.cpp: the receive buffer is never touched by two parties at once
\* when the sessions run inside the program.
THEOREM ClientReadsExclusive == Spec => []ReadExclusive
<1>1. ClientInv => ReadExclusive
  BY DEF ClientInv, IInv, Local, ReadExclusive
<1> QED
  BY <1>1, ClientInvariance, PTL

\* Each step of the program is a call of a session or leaves the sessions alone.
LEMMA NextCalls == ClientInv /\ [Next]_vars => [SessionCall]_sessionVars
<1> SUFFICES ASSUME ClientInv, [Next]_vars PROVE SessionCall \/ UNCHANGED sessionVars
  OBVIOUS
<1>1. CASE \E s \in Sessions : FinishSend(s)
  <2>1. PICK s \in Sessions : FinishSend(s)
    BY <1>1
  <2>2. nextClientMessageId - 1 \in Chunks
    BY <2>1, NoSessionAssumption DEF FinishSend, ClientInv, TimerShape
  <2>3. OwnerCall(s) \/ UNCHANGED sessionVars
    BY <2>1, <2>2 DEF FinishSend, OwnerCall
  <2> QED
    BY <2>3 DEF SessionCall
<1>2. CASE \/ HandleServiceClose \/ HandleMessagesDone \/ UpdateDone
           \/ \E s \in Sessions : TimerStops(s) \/ TimerSends(s) \/ TimerFails(s)
  BY <1>2 DEF HandleServiceClose, HandleMessagesDone, UpdateDone, MessagesDone, TickDone,
     TimerStops, TimerSends, TimerFails, netVars
<1>3. CASE \E s \in Sessions : HandleConnect(s) \/ HandleClose(s) \/ ReceiveCrashes(s)
  BY <1>3, EventCalls DEF HandleConnect, HandleClose, ReceiveCrashes
<1>4. CASE UNCHANGED vars
  BY <1>4 DEF vars, netVars
<1> QED
  BY <1>1, <1>2, <1>3, <1>4, CommonCalls, BackgroundCalls DEF Next, MainStep, Halted

\* Client.cpp, Session.cpp: what the timers send reaches the network whole,
\* once, in the order of the calls, and none of it after the close.
THEOREM ClientSends == Spec => ImplementsSendChannel
<1>1. Init => SessionInit
  BY DEF Init, LoopInit
<1>2. ClientInv /\ [Next]_vars => [Channel!Next]_(Channel!vars)
  BY NextCalls, ChannelSteps DEF ClientInv
<1> QED
  BY <1>1, <1>2, InitChannel, ClientInvariance, PTL DEF Spec, ImplementsSendChannel, Channel!Spec

====
