---- MODULE ChatWindow ----
(***************************************************************************)
(* The list of messages of the game client's chat window                   *)
(* (GameClient/ChatWindow.cpp), with its index of the user's own messages  *)
(* that the server has not answered yet.  A window is a record of the two; *)
(* the operations return the window they leave.                            *)
(***************************************************************************)
EXTENDS Integers, Sequences, FiniteSets

CONSTANT
  MaxMessages   \* messages kept (1000)

ASSUME MaxMessagesAssumption == MaxMessages \in Nat \ {0}

\* A message of the list; content says whose message it is, and which.
Row(content, pending, cmid, smid, sentAt) ==
  [content |-> content, pending |-> pending, clientMessageId |-> cmid,
   serverMessageId |-> smid, serverSentAtMs |-> sentAt]

RowsOf(contents) ==
  [content : contents, pending : BOOLEAN, clientMessageId : Nat,
   serverMessageId : Nat, serverSentAtMs : Nat]

\* The comparator of sortMessagesByServerOrder().
Less(a, b) ==
  \/ ~a.pending /\ b.pending
  \/ /\ a.pending = b.pending
     /\ \/ a.serverSentAtMs < b.serverSentAtMs
        \/ /\ a.serverSentAtMs = b.serverSentAtMs
           /\ \/ a.serverMessageId < b.serverMessageId
              \/ /\ a.serverMessageId = b.serverMessageId
                 /\ a.clientMessageId < b.clientMessageId

\* stable_sort: a row comes behind those that are less, and behind the equal
\* ones that were in front of it.
SortByServerOrder(rows) ==
  LET place == [i \in DOMAIN rows |->
        Cardinality({j \in DOMAIN rows : IF j <= i THEN ~Less(rows[i], rows[j])
                                                   ELSE Less(rows[j], rows[i])})]
  IN  [k \in DOMAIN rows |-> rows[CHOOSE i \in DOMAIN rows : place[i] = k]]

EmptyWindow == [rows |-> <<>>, pendingIndex |-> <<>>]

\* addChatMessage(): the oldest row goes when there are too many.
AddChatMessage(w, content, time) ==
  LET rows == SortByServerOrder(Append(w.rows, Row(content, FALSE, 0, 0, time)))
  IN  [w EXCEPT !.rows = IF Len(rows) > MaxMessages THEN Tail(rows) ELSE rows]

\* addLocalPendingMessage(); rows are counted from 0 there.
AddLocalPending(w, content, cmid) ==
  [rows |-> Append(w.rows, Row(content, TRUE, cmid, 0, 0)),
   pendingIndex |-> [d \in DOMAIN w.pendingIndex \cup {cmid} |->
                       IF d = cmid THEN Len(w.rows) ELSE w.pendingIndex[d]]]

\* ackPendingMessage(), when it finds the id in the index.
AckRow(w, content, cmid, smid, time) ==
  [w.rows EXCEPT ![w.pendingIndex[cmid] + 1] =
     Row(content, FALSE, @.clientMessageId, smid, time)]

AckPending(w, content, cmid, smid, time) ==
  [rows |-> SortByServerOrder(AckRow(w, content, cmid, smid, time)),
   pendingIndex |-> [d \in DOMAIN w.pendingIndex \ {cmid} |-> w.pendingIndex[d]]]

\* addAuthoritativeMessage()
AddUnsorted(w, content, cmid, smid, time) ==   \* variant: no sorting
  [w EXCEPT !.rows = Append(@, Row(content, FALSE, cmid, smid, time))]

AddAuthoritative(w, content, cmid, smid, time) ==
  [w EXCEPT !.rows =
     SortByServerOrder(Append(@, Row(content, FALSE, cmid, smid, time)))]

\* The button that clears the window.
ClearRows(w) == [w EXCEPT !.rows = <<>>]   \* variant: m_pendingIndex is kept

Clear(w) == EmptyWindow

====
