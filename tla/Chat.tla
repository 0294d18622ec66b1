---- MODULE Chat ----
(***************************************************************************)
(* The chat from end to end: the windows of the game clients, the server's *)
(* chat room (WorldServer/ChatRoom.cpp) and the connections in between,    *)
(* which keep the order of what they carry and may be lost at any time.    *)
(* Everything of a client runs on its main thread.  That each connection   *)
(* carries a run of the server's answers without gaps is what module       *)
(* WorldServer shows (BroadcastOrder), so a client here reads the log of   *)
(* all answers from where it joined.  The dummy clients, which write but   *)
(* have no window, are connected from the beginning.                       *)
(***************************************************************************)
EXTENDS ChatWindow

CONSTANTS
  Users,     \* the game clients
  Dummies,   \* the dummy clients
  System,    \* who the program's own messages are from
  Times,     \* readings of system_clock, of the clients and of the server
  MaxOwn,    \* bound: messages that a client writes
  MaxRows    \* bound: rows in a window when the user writes or clears

ASSUME ChatAssumption ==
  System \notin Users \cup Dummies /\ Users \cap Dummies = {} /\ Times \subseteq Nat /\ {MaxOwn, MaxRows} \subseteq Nat

VARIABLES
  windows,              \* the ChatWindow of each user
  link,                 \* the user's connection, see Links
  nextClientMessageId,  \* m_nextClientMessageId of each client
  sent,                 \* messages of each client on their way to the server
  log,                  \* the answers the server has broadcast, by number
  joined,               \* the client is in m_activeSessions
  cursor,               \* answers that each user's client has handled or missed
  reach                 \* the last answer that a lost connection still brings

vars == <<windows, link, nextClientMessageId, sent, log, joined, cursor, reach>>

\* What a message says: who wrote it, and which of their messages it is.
Content(c, n) == [from |-> c, cmid |-> n]
Notice == Content(System, 0)

Clients == Users \cup Dummies

\* "none" until the client has handled its connect; "up"; "cut" when the
\* client's service has closed, which the client takes for the end of the
\* connection; "lost" when it was closed and the client does not know; "gone".
Links == {"none", "up", "cut", "lost", "gone"}
Open(c) == link[c] \in {"up", "cut"}

Init ==
  /\ windows = [c \in Users |-> EmptyWindow]
  /\ link = [c \in Users |-> "none"]
  /\ nextClientMessageId = [c \in Clients |-> 1]
  /\ sent = [c \in Clients |-> <<>>]
  /\ log = <<>>
  /\ joined = [c \in Clients |-> c \in Dummies]
  /\ cursor = [c \in Users |-> 0]
  /\ reach = [c \in Users |-> 0]

SetWindow(c, w) == windows' = [windows EXCEPT ![c] = w]
SetLink(c, l) == link' = [link EXCEPT ![c] = l]

----------------------------------------------------------------------------
(* The server. *)

\* onClientAccepted(): from here on the client gets what is broadcast.
Accept(c) ==
  /\ ~joined[c] /\ (link[c] = "none" \/ Open(c))
  /\ joined' = [joined EXCEPT ![c] = TRUE]
  /\ cursor' = [cursor EXCEPT ![c] = Len(log)]
  /\ UNCHANGED <<windows, link, nextClientMessageId, sent, log, reach>>

\* handleChat(): the answer gets the next number and goes to everybody.
HandleChat(c, time) ==
  /\ joined[c] /\ sent[c] # <<>>
  /\ log' = Append(log, [content |-> Content(c, Head(sent[c])), time |-> time])
  /\ sent' = [sent EXCEPT ![c] = Tail(@)]
  /\ UNCHANGED <<windows, link, nextClientMessageId, joined, cursor, reach>>

----------------------------------------------------------------------------
(* The clients. *)

\* The dummy client's timer (module DummyClient).
SendDummy(c) ==
  LET n == nextClientMessageId[c]
  IN  /\ n <= MaxOwn
      /\ nextClientMessageId' = [nextClientMessageId EXCEPT ![c] = n + 1]
      /\ sent' = [sent EXCEPT ![c] = Append(@, n)]
      /\ UNCHANGED <<windows, link, log, joined, cursor, reach>>

\* handleServiceEvent(ServiceConnectEvent&)
Connect(c, time) ==
  /\ link[c] = "none"
  /\ SetLink(c, "up")
  /\ SetWindow(c, AddChatMessage(windows[c], Notice, time))
  /\ UNCHANGED <<nextClientMessageId, sent, log, joined, cursor, reach>>

\* sendChatMessage(), when the client believes that it is connected: the row
\* is there at once, whether or not the session takes the message.
Send(c) ==
  LET n == nextClientMessageId[c]
  IN  /\ link[c] \in {"up", "lost"}
      /\ n <= MaxOwn
      /\ nextClientMessageId' = [nextClientMessageId EXCEPT ![c] = n + 1]
      /\ SetWindow(c, AddLocalPending(windows[c], Content(c, n), n))
      /\ sent' = IF link[c] = "up" THEN [sent EXCEPT ![c] = Append(@, n)] ELSE sent
      /\ UNCHANGED <<link, log, joined, cursor, reach>>

\* ... and when it does not: only a notice.
SendUnconnected(c, time) ==
  /\ link[c] \in {"none", "cut", "gone"}
  /\ Len(windows[c].rows) < MaxRows
  /\ SetWindow(c, AddChatMessage(windows[c], Notice, time))
  /\ UNCHANGED <<link, nextClientMessageId, sent, log, joined, cursor, reach>>

\* handleMessage(): an answer to a message of the index, or a new row.
AckOrIgnore(w, m) ==   \* variant: answers without a match are not shown
  LET a == log[m]
      cmid == a.content.cmid
  IN  IF cmid \in DOMAIN w.pendingIndex
      THEN AckPending(w, a.content, cmid, m, a.time)
      ELSE w

AckAndAdd(w, m) ==   \* variant: a matched answer is added as well
  LET a == log[m]
      cmid == a.content.cmid
  IN  AddAuthoritative(IF cmid \in DOMAIN w.pendingIndex
                       THEN AckPending(w, a.content, cmid, m, a.time)
                       ELSE w,
                       a.content, cmid, m, a.time)

Show(w, m) ==
  LET a == log[m]
      cmid == a.content.cmid
  IN  IF cmid # 0 /\ cmid \in DOMAIN w.pendingIndex
      THEN AckPending(w, a.content, cmid, m, a.time)
      ELSE AddAuthoritative(w, a.content, cmid, m, a.time)

Readable(c) ==
  /\ joined[c] /\ link[c] # "none" /\ cursor[c] < Len(log)
  /\ Open(c) \/ cursor[c] < reach[c]

HandleMessage(c) ==
  /\ Readable(c)
  /\ cursor' = [cursor EXCEPT ![c] = @ + 1]
  /\ SetWindow(c, Show(windows[c], cursor[c] + 1))
  /\ UNCHANGED <<link, nextClientMessageId, sent, log, joined, reach>>

\* The button that clears the window.
ClearWindow(c) ==
  /\ windows[c].rows # <<>>
  /\ SetWindow(c, Clear(windows[c]))
  /\ UNCHANGED <<link, nextClientMessageId, sent, log, joined, cursor, reach>>

\* handleServiceEvent(ServiceCloseEvent&): the session goes on.
NoticeServiceClose(c, time) ==
  /\ link[c] = "up"
  /\ SetLink(c, "cut")
  /\ SetWindow(c, AddChatMessage(windows[c], Notice, time))
  /\ UNCHANGED <<nextClientMessageId, sent, log, joined, cursor, reach>>

\* The connection fails: a part of what it carried, in either direction, has
\* come through, the rest has not.
LoseConnection(c) ==
  /\ Open(c)
  /\ SetLink(c, IF link[c] = "up" THEN "lost" ELSE "gone")
  /\ \E n \in 0..Len(sent[c]) : sent' = [sent EXCEPT ![c] = SubSeq(@, 1, n)]
  /\ \E n \in cursor[c]..Len(log) : reach' = [reach EXCEPT ![c] = n]
  /\ UNCHANGED <<windows, nextClientMessageId, log, joined, cursor>>

\* handleSessionEvent(SessionCloseEvent&), or the service's, if it comes first;
\* coming second, or before a connect, the service's adds only a notice, as
\* SendUnconnected does.  Messages that wait in the queue are handled after it.
NoticeClose(c, time) ==
  /\ link[c] = "lost"
  /\ SetLink(c, "gone")
  /\ SetWindow(c, AddChatMessage(windows[c], Notice, time))
  /\ UNCHANGED <<nextClientMessageId, sent, log, joined, cursor, reach>>

----------------------------------------------------------------------------
HandleAnyChat == \E c \in Clients, time \in Times : HandleChat(c, time)

Next ==
  \/ HandleAnyChat
  \/ \E c \in Dummies : SendDummy(c)
  \/ \E c \in Users :
       \/ Accept(c) \/ Send(c) \/ HandleMessage(c) \/ ClearWindow(c)
       \/ LoseConnection(c)
       \/ \E time \in Times :
            \/ Connect(c, time) \/ SendUnconnected(c, time)
            \/ NoticeServiceClose(c, time) \/ NoticeClose(c, time)

Spec == Init /\ [][Next]_vars

\* The main loops of the clients never rest, and a connection that is up
\* brings what it carries.  The second line is WF_vars(HandleMessage(c)) with
\* Readable(c) in the place of ENABLED HandleMessage(c), which it equals and
\* which TLC evaluates faster.
Fairness ==
  \A c \in Users :
    /\ WF_vars(Accept(c))
    /\ []<>~Readable(c) \/ []<><<HandleMessage(c)>>_vars

FairSpec == Spec /\ Fairness

----------------------------------------------------------------------------
\* The state has its C++ shape.  In particular every index is that of a row:
\* stale though an index may be, ackPendingMessage() does not read beyond the
\* vector.
TypeOK ==
  /\ \A c \in Users :
       LET w == windows[c]
       IN  /\ w.rows \in Seq(RowsOf([from : Clients \cup {System}, cmid : Nat]))
           /\ \A n \in DOMAIN w.pendingIndex :
                n < nextClientMessageId[c] /\ w.pendingIndex[n] \in 0..Len(w.rows) - 1
  /\ link \in [Users -> Links]
  /\ nextClientMessageId \in [Clients -> 1..MaxOwn + 1]
  /\ sent \in [Clients -> Seq(1..MaxOwn)]
  /\ log \in Seq([content : [from : Clients, cmid : 1..MaxOwn], time : Times])
  /\ joined \in [Clients -> BOOLEAN]
  /\ cursor \in [Users -> 0..Len(log)]
  /\ reach \in [Users -> 0..Len(log)]

\* Pending rows stand last, in the order in which they were sent; the others
\* stand by time, and answers of the same time by number (ChatWindow.cpp:371,
\* 374, 378), for any two rows at any moment, though addLocalPendingMessage()
\* appends without sorting and notices carry the client's own clock.  Nothing
\* is said of a row without number next to one of the same time.
InServerOrder ==
  \A c \in Users : LET rows == windows[c].rows IN
    \A i, j \in DOMAIN rows : LET a == rows[i]  b == rows[j] IN
      i < j =>
        /\ a.pending => b.pending /\ a.clientMessageId <= b.clientMessageId
        /\ ~b.pending => a.serverSentAtMs <= b.serverSentAtMs
        /\ ~b.pending /\ a.serverSentAtMs = b.serverSentAtMs
             /\ a.serverMessageId # 0 /\ b.serverMessageId # 0 =>
               a.serverMessageId < b.serverMessageId

\* ChatWindow.cpp:378 says that among rows of the same time those without a
\* number go to the back ("0은 자연히 뒤로 감").
UnnumberedLast ==
  \A c \in Users : LET rows == windows[c].rows IN
    \A i, j \in DOMAIN rows : LET a == rows[i]  b == rows[j] IN
      i < j /\ ~b.pending /\ a.serverSentAtMs = b.serverSentAtMs =>
        (a.serverMessageId = 0 => b.serverMessageId = 0)

\* A row with a number shows the server's answer of that number, as the server
\* said it, that the client has been sent, and no answer is shown twice: not
\* when it replaces a pending row of this client, of another client's message
\* with the same client id, or a row that the index points to by mistake.  So
\* what two users see is in the same order for both.
RowsAreAnswers ==
  \A c \in Users : LET rows == windows[c].rows IN
    \A i \in DOMAIN rows : LET m == rows[i].serverMessageId IN
      m # 0 =>
        /\ m <= cursor[c] /\ ~rows[i].pending
        /\ rows[i].content = log[m].content
        /\ rows[i].serverSentAtMs = log[m].time
        /\ \A j \in DOMAIN rows : rows[j].serverMessageId = m => i = j

\* While its connection lasts, even behind the back of a client that was told
\* of the end of its service, a client catches up with the server, and the
\* latest answer, be it to the user or to others, gets a row, whatever is
\* pending, cleared or written meanwhile.
Shown(c, m) ==
  \E i \in DOMAIN windows[c].rows : windows[c].rows[i].serverMessageId = m

AnswersReachAll ==
  \A c \in Users :
    (Readable(c) /\ Open(c))
      ~> (~Open(c) \/ (cursor[c] = Len(log) /\ Shown(c, Len(log))))

\* GameClient.cpp:530 ("내 pending과 매칭"), 541: an answer that is matched
\* replaces the user's own pending row of the message it answers.
AcksOwn ==
  \A c \in Users :
    Readable(c) =>
      LET w == windows[c]
          content == log[cursor[c] + 1].content
          n == content.cmid
      IN  n \in DOMAIN w.pendingIndex =>
            /\ content.from = c
            /\ w.rows[w.pendingIndex[n] + 1] = Row(content, TRUE, n, 0, 0)

====
