# A TLA+ model of ByteborneWorld

ByteborneWorld is a small chat system in C++: a world server, a graphical client
and a load-generating client on top of an asynchronous network library (standalone
asio), a packet protocol (protobuf) and a timer. This directory holds TLA+ modules
that model its state machines, TLC configurations that check them on small
instances, and theorems about them that TLAPS proves for all instances.
Paths below are relative to the repository; `PROJECT.json` maps every definition
that models code to its lines.

Contents: [inventory](#1-inventory) · [modules](#2-modules) · [runs](#3-runs-and-bounds) ·
[fairness](#4-fairness) · [disagreements](#5-where-code-and-comments-disagree) ·
[proofs](#6-proofs) · [limits](#7-not-modelled) · [plan](#8-plan)

## 1. Inventory

| component | source (`src/`) | state | operations | modelled in |
|---|---|---|---|---|
| Session | `Network/Session.*` | `m_running` (atomic), socket, strand, send queue, receive buffer | start, stop, receive, send, getFrontPacket, popFrontPacket; handlers asyncRead, onRead, asyncWrite, onWritten, handleError, close | `Session`, `SessionChannel`, `SendChannel` |
| ReceiveBuffer | `Network/Buffer.*` | byte vector, read and write offset | onWritten, onRead, resetOffsets | `ReceiveBuffer` |
| SendBuffer, SendBufferChunk, SendBufferManager | `Network/Buffer.*`, `Protocol/Serializer.h` | current buffer, chunk offset, chunks | open, onWritten, close | `SendBuffer` |
| SessionManager | `Network/Session.*` | map of sessions | addSession, removeSession, findSession, send, stopAllSessions | `WorldServer`, `ClientLoop`, `DummyClient`, `GameClient` |
| ServerService | `Network/Service.*` | `m_running`, acceptor, strand, signal set | start, stop, asyncAccept, onAccepted, handleError, close | `Service`, `ServerService` |
| ClientService | `Network/Service.*` | `m_running`, resolver, sockets, strand, signal set | start, stop, asyncResolve, onResolved, asyncConnect, onConnected, handleError, close | `Service`, `ClientService` |
| WorldServer | `WorldServer/Server.*` | `m_running`, queues of events and messages, sessions | the tick: service events, session events, messages; close | `WorldServer` |
| ChatRoom | `WorldServer/ChatRoom.*` | active sessions, next message id | onClientAccepted, onClientClosed, handleChat | `WorldServer`, `Chat` |
| MessageQueue, MessageDispatcher | `Protocol/*` | queue of messages | push, front, pop, dispatch | `WorldServer`, `ClientLoop` |
| Timer | `Core/Timer.*` | priority queue, cancelled ids | schedule, cancel, clear, update | `Timer` |
| ChatWindow | `GameClient/ChatWindow.*` | rows, index of pending rows | add, addLocalPending, ack, addAuthoritative, clear | `ChatWindow`, `Chat` |
| GameClient | `GameClient/GameClient.*` | `m_running`, window, `m_connected`, `m_serverSessionId`, next client message id | start, stop, the loop, sendChatMessage, handleMessage, close | `ClientLoop`, `GameClient`, `Chat` |
| DummyClient | `DummyClient/*` | `m_running`, sessions, a repeating timer for each | start, the loop, the timer's callback, close | `ClientLoop`, `DummyClient` |
| IoThreadPool | `Network/Thread.*` | io_context, work guard, threads | run, reset, join | interleaving and fairness of `WorldServer` and `ClientLoop` |
| LockQueue | `Core/LockQueue.h` | queue under a mutex | push, pop | the event queues of `Session`, `Service` |
| AppContext, FontManager, KoreanInputManager | | | console, fonts, IME | not modelled |

**Who runs what.** Each program has one *main thread* that owns the sessions and
runs a tick of 50 ms (16 ms in the graphical client), and a pool of *io threads*
that run asio's handlers. Every session and every service has a *strand*: its
handlers are run one at a time and in the order in which they were posted, by
whichever io thread. The one handler outside of any strand is that of the stop
signal. The parts talk in four ways:

1. the main thread *calls* a session or service; the call reads or exchanges the
   atomic `m_running` and *posts* a handler to the strand;
2. asio *completes* an operation of a socket by posting its handler to the strand;
3. a handler *pushes an event* to a mutex-protected queue of the main thread;
4. the main thread *reads the receive buffer* directly, without a lock, between a
   Receive event and its call of `receive()`.

**What is hard.** `m_running` is written by several threads and acted on later
than it is read; stop may be called by the owner, by a failing read and by a
failing write at the same time; a completion may overtake or follow `close()`; the
receive buffer has no lock, only a protocol; shutdown waits for events of io
threads; the two buffers do offset arithmetic at boundaries; timer callbacks call
into the timer that runs them. `PROJECT.json` lists these hazards line by line,
with the properties that cover each.

**What makes each part correct.**

- *Session*: at most one party may touch the receive buffer; one write at a time
  and none forgotten; exactly one close, on an open socket, told once; a stopped
  session gets closed; chunks reach the network in order, once, until the close.
- *ReceiveBuffer*: the unread bytes are the next bytes of the stream; the packet
  being received always has room.
- *SendBuffer*: a packet never overlaps one that is still being sent.
- *ServerService*: one accept at a time, one close, whoever stops it.
- *ClientService*: one close, whoever stops it and wherever it is in its loop of
  connects; every socket handed over at most once and before the end; none left open.
- *WorldServer*: clients see the server's messages in order and without a gap;
  each packet becomes one message; the lifecycle assertions hold; a stop ends the
  server with nothing left open.
- *Timer*: cancelled timers stay silent, repeating ones keep to their schedule,
  due ones leave the queue.
- *ChatWindow*: rows in the server's order, indices inside the vector, every answer
  shown once and unchanged.
- *The clients*: the process ends, whatever ends it; the connection state shown is
  the true one; timers of dead connections end.

## 2. Modules

`SessionIds` declares the connections, `Queues` says "occurs in" and "at most once
in" a queue.

**`Session`** — any number of sessions of one owner. The owner's calls are two
steps, because an io thread may run in between: the step that reads or exchanges
`m_running` fills `outbox`, and `Post` puts the handler on `strand`. A strand
handler is one step, it is alone with everything it touches except `m_running`,
which it reads once. `readOp` and `writeOp` are operations in the hands of the
operating system; `CompleteRead` and `CompleteWrite` end them with success or a
fatal error while the socket is open and with `operation_aborted` once it is
closed. `arrived` and `popped` count whole packets; module `ReceiveBuffer` is what
justifies counting. `events` is the owner's event queue and `reading` the session
whose packet loop it is in. `handleError` distinguishes one code that does nothing
and all others, which stop. `asyncWrite` is part of the two handlers that call it.

| code | definition |
|---|---|
| createInstance + start, stop, send, receive | `Start`, `Stop`, `Send`, `Receive`, each followed by `Post` |
| getFrontPacket, popFrontPacket | `HasFrontPacket`, `PopFrontPacket` |
| asyncRead, onRead | `AsyncRead`, `OnRead` |
| lambda of send + asyncWrite, onWritten + asyncWrite | `QueueChunk`, `OnWritten` |
| stop from a handler, handleError, close | `StopFromHandler`, `HandleError`, `Close` |

**`SendChannel`** is the abstract promise of `send()`: chunks of a connection are
accepted, then delivered in that order, and none after the close. **`SessionChannel`**
gives the refinement mapping: what is pending on a session is its send queue,
without its head if that has been written and `onWritten` is still queued, followed
by the chunks whose send handler is queued or about to be posted.

**`Packets`** says which sizes a packet may have, to both buffers.

**`ReceiveBuffer`** — the buffer itself, a byte being its position in the peer's
stream. Reads bring any number of bytes that fit, packets have any legal size, and
`phase` alternates between the read and the packet loop, as `ReadExclusive` of
`Session` entitles it to.

**`SendBuffer`** — buffers, offsets and chunks as the serializer drives them.

**`Service`** is what the two services share: start (two steps), the signal handler
(two steps, off the strand), handleError, the common part of close, the owner's event
queue, and `CloseOnce`. **`ServerService`** adds the accepts, **`ClientService`** the
resolve and the connects. `onResolved()` is not one step there: it loads `m_running`
before each connect, and a signal may clear it in between, so `toConnect` holds the
sockets the loop has yet to visit and no other handler runs on the strand meanwhile.
The external `async_connect` opens its socket at once, tries all endpoints, and on the
strand, just before it calls `onConnected`, turns success into `operation_aborted`
when the socket has been closed (`ConnectResult`); without that last check a closed
socket would be handed over, as its mutant shows. The actions of a service leave the
owner's part to the module that composes it.

**`WorldServer`** — the main thread over `Session` and `ServerService`, which it
EXTENDS. `mainPc` says where in the tick, or in `close()`, the main thread is;
every action is one step of it, `/\`-ed with the session's or the service's action
it performs. A dispatch is `HandleChat` (the next id, the recipients), one
`SendResponse` or `SendFails` for each recipient in any order (a hash set), and
`BroadcastDone`. A message is a session and the number of its packet; a response is
its id. Two ends of the process are steps to `"crashed"`: the use of a null session
and the exhaustion of memory. `ImplementsSession` checks that the server's use of
its sessions is allowed by module `Session`, so what is proved there holds here;
`ServerImplementsSession` proves it for any number of clients.

**`Timer`** — `update()` is a loop of steps (`DropCancelled`, `Run`,
`CallbackReturns`, `EndUpdate`), since callbacks schedule, cancel and clear in the
middle of it. `now` is the clock as it was when update() began, while the clock goes
on. The result of a callback is arbitrary. Ids passed to cancel() are ids handed
out before. `scheduleAt` with a time that has passed is a delay of 0. `getTimerCount`, which nobody calls, is left out.

**`ClientLoop`** — what the main loops of the two clients share, over `Session` and
`ClientService`: service events, session events with the packet loop, messages, and
close(), which stops the sessions and drains their events. `Ended` says when join()
returns: the main thread is done and the io_context has nothing left to run or wait
for. **`DummyClient`** adds the repeating timers, whose callbacks send in two steps
(SessionManager::send asks `m_running`, Session::send asks again), the stop by the
service's Close event, and the crash on a Receive event without a session.
**`GameClient`** adds the user, who is served by the same thread and writes messages or
closes the window, and the state of the connection that is shown.

| code | definition |
|---|---|
| start of a client and its service | `LoopInit`, `Environment`, `StartService`, `PostAsyncResolve` |
| handleServiceEvent(Connect / Close) | `HandleConnect`, `HandleServiceClose` |
| handleSessionEvent(Close / Receive) | `HandleClose`; `HandleReceive`, `MovePacket`, `PacketsDone`, `DropReceive`, `ReceiveCrashes` / `ReceiveUnknown` |
| the timer's callback | `TimerStops`, `TimerSends` + `FinishSend`, `TimerFails` |
| handleWindowClose, stop | `HandleWindowClose`, `StopService` |
| close, stopAllSessions, join | `TickDone`, `StopMember`, `StopAllDone`, `Drain`, `DrainEventsDone`; `Ended` |

**`ChatWindow`** has no state of its own: a window is a record of its rows and of
`m_pendingIndex`, and each operation of the code is an operator from window to window.
**`Chat`** drives it end to end. Users write, see their pending row at once, and their
messages travel to the server, which numbers and broadcasts them; answers come back in
that order, because each connection carries a run of them without gaps
(`BroadcastOrder` in `WorldServer`), so a client is a cursor into the log of answers.
Connections are lost with a prefix of what they carried in each direction, the client's
service may close while the connection goes on, the user clears the window, clocks
differ. What a message says is reduced to whose it is and which of theirs. Windows start
as they are after the "clear" button, and what close() writes into them in the end is
left out.

## 3. Runs and bounds

| run | module | states | what it shows |
|---|---|---|---|
| `Buffers` | MCBuffers | 585 000 | `RoomForFront`, `Intact` for every grouping of reads and packets; `SentIntact` |
| `Session` | SessionChannel | 84 500 | the session's protocols, stop leads to close, it implements SendChannel |
| `WorldServerBroadcast` | WorldServer | 768 000 | order of broadcasts, no stalled read, when a Receive event finds no session, with failing connections |
| `WorldServerTraffic` | WorldServer | 85 000 | lifecycle assertions, the service's protocol, nothing left open; each packet one message, none left lying; a stop ends the server |
| `Timer` | Timer | 33 000 | its type and three properties |
| `Chat` | Chat | 295 000 | order of rows, answers shown once and unchanged, the latest one reaches everybody, indices in range |
| `DummyClient` | DummyClient | 411 000 | ClientService's protocol, assertions, timers end, the process ends |
| `GameClient` | GameClient | 118 000 | the state shown follows the session, a lost connection is shown, the process ends |

The bounds, and why the interesting cases happen within them:

- *Buffers*: a behaviour of `MCBuffers` uses one of the two, which share nothing. Receive buffer: size 4, factor 2 (4096
  and 4 in the code), header 1, a stream of 14 bytes: packets
  of all sizes 1..4, reads of all sizes 1..8, the buffer is filled, compacted and
  reset several times. The theorems cover all other sizes.
  Send buffer: size 4, four packets of sizes 1..4: exact fits, rests too small, several
  replacements.
- *Session*: one session (sessions share nothing but the event queue, and the
  theorems cover any number), three chunks (one being written, one queued, one on
  its way), up to two packets, reads that end inside a packet (`MinPackets = 0`).
- *WorldServer*: two clients, one packet each (`Broadcast`), which makes two
  responses, broadcasts to sessions that stop meanwhile, and joins between them; nobody stops
  the server there. One client with two packets that arrive together, apart or in parts, and
  both causes of a stop (`Traffic`): the signal and a failing acceptor meet in every order, and the
  drain of close() meets a session in every state. What several clients add to a shutdown is
  covered by the theorems `ServerAsserts`, `NothingIsLeftOpen`, `Accepts` and `AcceptsNoMore`, which hold for any number
  of them; that the shutdown comes to its end (`StopShutsDown`) is checked for one client.
  `MaxQueue` is the number of messages at which memory is said to be full, above
  what the packets of a run amount to.
- *Timer*: two timers, delays 0..2, intervals 1..2 and one-shot, clock up to 3:
  late updates, timers due together, a callback that cancels the other one or itself.
- *Chat*: one user and one dummy client, two messages each, so that their ids coincide,
  own answers overtake others' and the index goes stale; at most 3 rows by the limit,
  which the rows exceed; two clock readings, in any relation to each other. A second user
  has a window of its own and adds only messages, which the dummy client writes too.
- *DummyClient*: two connections (ten in the code), so that one fails, or connects, while
  the other is used; one message that a timer sends, one packet from the server, a signal
  and failing resolves and connects.
- *GameClient*: its one connection, two messages of the user, up to two packets.

**`MinPackets`.** A read that ends inside a packet completes no packet. Where
`MinPackets = 0` there may be any number of such reads: in `Session` and
`WorldServerTraffic`. A peer that sends parts
of packets without a pause keeps the main thread inside processSessionEvents(), so
`StopShutsDown` states the condition that it does not (`PartialRead`), for the server as
for the code. In `WorldServerBroadcast` and in the two
clients each read brings at least one packet (`MinPackets = 1`), so that nothing is said of
the end of a client whose server sends parts for ever.

**`WriteFaults`.** A write to an open socket may fail (reset by the peer). It may in every
run. What a failed write then does to the server are two defects of section 5; the properties
that hold of the code name the case by the state that a failed write leaves
(`WriteGivenUp`: a stopped session with a chunk in its queue that nobody writes) instead of
leaving it out: `ReceiveFindsSessionOrGivenUp`, `PacketMovedOnceOrGivenUp`, `StopShutsDown`.
The clients have the same two defects; their liveness properties name the crash as one of
the ends.

Each property has a mutant (`"mutants"` in `PROJECT.json`, marked `variant` in the
modules): a definition changed as a plausible bug would, under which TLC finds the
property violated. `CHECK_DEADLOCK FALSE` appears where the system may really stop:
a peer that sends nothing more, a closed session, a bound on packets.

## 4. Fairness

Strand handlers, posted calls and the main loop are weakly fair: io threads run
whatever is in the io_context while the work guard or an operation is outstanding, and
the main loop never blocks. Completions are fair only once `close()` has cancelled
the operation, which asio guarantees. Nothing makes a peer send or take bytes, a
client connect or a signal arrive, so liveness is never claimed to rest on these. The
clients state one weak fairness for all io steps on their sessions together: a handler
stays ready until it runs and there are finitely many of them, so none is passed over for
ever. `DummyClient` assumes strong fairness of a failing timer callback: a timer that is
due leaves the queue, on this tick or a later one, which `DueTimerLeaves` shows of
`Timer`. In `Chat` a client handles what its connection brings while it lasts. In
`Timer`, update() is called again and again and callbacks return.

`StopLeadsToClose`, `StopShutsDown`, `ArrivedIsHandled`, `DueTimerLeaves`,
`AnswersReachAll`, `TimersEnd`, `BrokenIsShown` and the two `ProcessEnds` are checked under this fairness by TLC; liveness is not proved.

## 5. Where code and comments disagree

Four runs end in a violation, on purpose. Each checks what a comment, an assertion or a
message of the program says, as `"findings"` in `PROJECT.json` quotes it:

| run | says | shows |
|---|---|---|
| `WorldServerPackets` | Server.cpp:205: the packet is removed from the buffer | `popFrontPacket()` does nothing on a stopped session: after a failed write the packet loop queues the same packet for ever |
| `WorldServerReceive` | Server.cpp:197: a Receive event finds its session | a failed write stops the session; a read that completes before `close()` has run puts its event behind the Close event |
| `ChatAck` | GameClient.cpp:530: an answer is matched with my own pending row | the match is by a number that every client counts from 1, and by an index that sorting makes stale |
| `ChatOrder` | ChatWindow.cpp:378: among equal times id 0 goes to the back | the comparison puts 0 first |

Next to each there is a passing run that says how far the claim does hold:
`PacketMovedOnceOrGivenUp`, `ReceiveFindsSessionOrGivenUp`, `RowsAreAnswers`,
`InServerOrder`.

`InServerOrder` says nothing of a row without number next to one of the same time, since
code and comment differ there.

Seen on the way, without a run of their own; the properties named make the case an exception or do
not speak of it, and are not credited with it in `"hazards"`:

- The Close event of the client's service hides the session, which stays open and goes on
  receiving (GameClient.cpp:398); `StatusIsTrue` exempts the time after it (`CloseHandled`).
- The main thread of the game client starts before the service: a window closed in between leaves the service
  running for ever (GameClient.cpp:42), although stop() means to end the attempts to connect (line 72);
  `ProcessEnds` exempts it (`StoppedTooEarly`).
- A repeating timer whose own callback calls `clear()` is queued again, although clear() removes all
  timers (Timer.h:89); `SilencedStaysSilent` exempts it.
- `getTimerCount()` (Timer.cpp:87) subtracts the number of cancelled ids, also of those whose timer is gone.
- `ReceiveBuffer::onWritten` asserts (Buffer.cpp:24) that a read brings at most `m_size` bytes, while
  `asyncRead` offers up to four times as many (take `ReadSizes` in `ReceiveBuffer`).
- The limit of 1000 rows is applied by one of three operations.
- A stop signal before a service's `start()` is lost.
- In the clients the assertion of Server.cpp:197 stands in Client.cpp:224, and fails in the same way
  (`ReceiveCrashes`).

## 6. Proofs

Every safety property that a passing run checks, and both refinements, are theorems, for
every value of the constants. TLAPS checks every obligation of eight modules.

- **`Session_proofs`**, for any set of sessions, chunks and bounds: `TypeCorrect`,
  `ReadIsExclusive`, `ClosedOnce`, `WritesServed`, `SendsImplement`. None of the three protocols is
  inductive alone. `IInv` is the type invariant and, for each session, `Local`: the
  read token, the close protocol and the service of the queue as the runs check
  them, and three facts that tie them together: an outbox holds at most one posted
  handler (`OutboxOne`), an operation is aborted only on a closed socket (`AbortedLate`, so
  `handleError` ignores no error of a running session), and a session not yet started has
  nothing anywhere (`Fresh`, so `Start` creates the first token). `Frame` says that a
  step on one session keeps `Local` of the others; after it there is one lemma per
  action, over lemmas on appending to and popping from queues, with which the module begins.
  Its last part is the refinement of `SendChannel`: a handler that is not a send handler and not
  `onWritten` (`Passive`) may be pushed and popped without a change to what is pending; posting and running a
  send handler move its chunk along within `PendingOf`; a write that succeeds is the only `Deliver`, and the
  queue's protocol gives it its head. `ChunksOf` names the k-th send handler by counting, not by filtering the queue
  recursively, because the provers cannot unfold a recursion. `SessionCall`, which the refinement rests
  on, leaves out the bound of module `Session` that a chunk is sent once; the two clients use it.
- **`Buffer_proofs`**, for any size, capacity factor and number of packets. Of the receive
  buffer: `TypeCorrect`, `RoomForFrontHolds`, `IntactHolds`.
  The strengthening is that a whole packet at the read offset would end inside the
  buffer (`FrontFits`: an offset is kept only while `Size` bytes are left behind the
  write offset), that a read is issued only while the packet is incomplete
  (`ReadingIsShort`), and that the buffer holds no more than the stream (`WithinStream`).
  The first two leave room to complete the packet. Of the send buffer: `SendTypeCorrect`, `SentStaysIntact`;
  the strengthening compares every chunk of the current buffer with the chunk offset.
- **`ClientLoop_proofs`**, what both clients' proofs rest on, for any set of sockets: `ServiceInv` is kept by every
  step of the service and implies `ConnectProtocol`, which is not
  inductive. That no handler is doubled rests on the resolve being done once
  (`ResolvedOnce`: one of a posted `asyncResolve`, an outstanding resolve and a queued
  `onResolved` exists at a time) and on no socket being touched before (`Untried`),
  after which each leaves its state `new` for good (`SocketSteps`). That the service
  closes once rests on the exchange of `m_running`: who clears it posts `close()`
  (`StoppedOnce`), and before `start()` there is nothing to stop (`NotStarted`). A service that nobody
  will close any more is `ServiceOver`. Of the loop: an open socket belongs to a session that
  the main thread still has (`OpenKnown`), which is why waiting for the sessions to be gone is enough.
- **`DummyClient_proofs`**, for any number of connections, chunks and packets: `ClientTypeCorrect`,
  `Connects`, `ClientAsserts`, `ClientReadsExclusive`, `ClientSends`. Each step
  of the program is shown to be a step of its sessions (`IInv` above) and of its
  service (`ServiceInv`), or to leave them alone. The program adds that it stops
  only when its service is over for good (`StopsLast`), which is why no second Close
  event comes.
- **`GameClient_proofs`**, for any number of messages and packets: `ClientTypeCorrect`, `StatusStaysTrue`,
  `ClientConnects`, `ClientReadsExclusive`, `ClientSends`. Here the main thread is a third party that stops the service,
  in two steps: between them the service is `ServiceOver` (in `UiShape`), since `m_running` is cleared and the
  close not yet posted, and no signal can post another. The state shown follows two event queues: a session is not
  shown only when close() has begun, which stays so (`ClosingStays`), or when the service's Close event has been
  handled, after which the service is over for good (`ShownUnlessClosed`, `OverStays`).
- **`WorldServer_proofs`**, for any number of clients, packets and responses: `ServerTypeCorrect`, `Accepts`,
  `AcceptsNoMore`, `ServerAsserts`, `NothingIsLeftOpen`, `ReadsNeverStall`, `Broadcasts`, `ServerImplementsSession`, `ServerSends`,
  `PacketsMoveOnce`, `ReceivesFindSession`. `ServerInv` has the accepting service (`OneAccept`: the accept that
  `start()` begins is the only one; `StoppedOnce` as above), the main thread (`OpenKnown`, `StopsLast`), the read token
  (`NoReadStall` is inductive together with `IInv`, with a lemma on where each step passes the token), and the streams (`StreamInv`).
  `BroadcastOrder` alone does not survive a send: what is queued must also not be later than the last one queued (`QueueBehind`), a running session must
  have been sent everything dispatched so far, and a socket that does not exist yet has delivered nothing
  (`FreshDelivered`). The last two theorems are
  about what a failed write does (`PacketInv`). A session that stopped has nothing left to read as long as the server
  runs, unless its write was given up (`StoppedUnread`), which is for good (`GivenUpStays`); what is queued was taken from
  the buffer first, or is the packet stuck at its front (`PacketsTaken`, `StuckStays`).
- **`Chat_proofs`**, for any users, messages, limit of rows and clock readings: `ChatTypeCorrect`,
  `StaysInServerOrder`, `RowsStayAnswers`. The comparator of the sort is shown to be a strict weak order (`LessOrder`), and the sort, which
  puts each row at the number of those before it, to permute the rows and to order them (`Sorted`). `ChatInv` keeps
  `WindowInv` of each window: rows are answers, each once; a pending row has neither number nor time
  of the server yet (`PendingFresh`), which is why appending it keeps the order; every index is that of a row,
  because the rows never become fewer unless all of them and the index go.
- **`Timer_proofs`**, for any number of timers and any delays and intervals: `TypeCorrect`, `KeepsSchedule`, `StaysSilent`.
  An id has one task at most, queued or running (`OneTask`), so that what forgets a cancelled id forgets it with its task;
  every task that was silenced is still noted as cancelled (`StillNoted`); the running task is
  one interval behind its count of runs (`Scheduled`). `StaysSilent` is an action property.

Assumptions: those of the modules, which TLC evaluates in the runs: the capacity
factor is at least 2, a header fits a buffer, `NoSession` is not a session, talkers
are sessions, chunks of server and clients are numbers, the game client has one connection
(GameClient.cpp:233), the list keeps at least one row, the bounds, delays, intervals and clock readings are natural numbers.
The theorems hold for any value of the bounds (`MaxPackets`, `MaxQueue`, `MaxOwn` and so on), however large.

Only model-checked: liveness under fairness, which is beyond these provers (`StopLeadsToClose`,
`StopShutsDown`, `ArrivedIsHandled`, `DueTimerLeaves`, `AnswersReachAll`, `TimersEnd`, `BrokenIsShown` and the two `ProcessEnds`).
What the runs of section 5 refute is not proved either, of course.

## 7. Not modelled

- The bytes of messages: protobuf, unknown message types, payloads that do not
  parse. `push()` and `dispatch()` only assert that these do not happen. Messages
  are taken to fit a send buffer, as `SendBuffer::open` asserts.
- Which error codes a system returns: the assertions of `handleError` that some
  codes never reach a running session, and exceptions of asio (`remote_endpoint`).
- Time-outs: the code has none; a stalled peer is an operation that never completes.
- The address and lifetime of objects: `shared_from_this` in every handler keeps
  sessions and services alive; chunks hold their buffer.
- Drawing, input, fonts, logging, the console, the build.
- Which endpoints a server name has, and the order in which a connect tries them.
- The game client's destructor and a second start of anything: no program does it.

## 8. Plan

Done, in this order: `ReceiveBuffer`, `Queues`, `Session`, `SendChannel`/`SessionChannel`,
`ServerService`, `WorldServer`, `Timer`, `SendBuffer`, `ChatWindow`, `Service`, `ClientService`, `ClientLoop`,
`DummyClient`, `GameClient`, `Chat`; the proofs of sessions and buffers, of the dummy client, of the game client, the
server, the chat and the timer, and of the refinements. What is left:

1. A theorem that `ClientLoop`'s `ReceiveCrashes` needs a failing write, as `ReceivesFindSession` says of the server.
2. The converse half of the index in `Chat`: an index of a row that is still pending, as long as nothing was sorted since.
3. Abstract specifications of the other two parts that promise something to the rest: the chat as
   one log that every user reads, and the timer as a set of alarms.
