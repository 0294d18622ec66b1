---- MODULE Chat_proofs ----
(***************************************************************************)
(* The windows of the chat for any number of users, messages and rows.     *)
(*                                                                         *)
(* stable_sort with the comparator of sortMessagesByServerOrder() is shown *)
(* to permute the rows and to order them (Sorted), from which follows what *)
(* each operation keeps of a window (WindowInv): its rows are answers,     *)
(* each once, or have no number; a pending row has no number and no time   *)
(* yet (PendingFresh), so the next one may be appended without sorting;    *)
(* and the index stays inside, since rows never get fewer unless all go.   *)
(***************************************************************************)
EXTENDS Chat, FiniteSetTheorems, TLAPS

Contents == [from : Clients \cup {System}, cmid : Nat]
ChatRows == RowsOf(Contents)

(* What the operations keep of the rows of a window: next is the client's  *)
(* m_nextClientMessageId, last its cursor, answers the server's log.       *)

\* A pending row has no number or time of the server yet.
PendingFresh(rows, next) ==
  \A i \in DOMAIN rows :
    rows[i].pending =>
      /\ rows[i].serverSentAtMs = 0 /\ rows[i].serverMessageId = 0
      /\ rows[i].clientMessageId < next

Answered(r, last, answers) ==
  r.serverMessageId # 0 =>
    /\ r.serverMessageId <= last /\ ~r.pending
    /\ r.content = answers[r.serverMessageId].content
    /\ r.serverSentAtMs = answers[r.serverMessageId].time

NumbersDiffer(rows) ==
  \A i, j \in DOMAIN rows :
    rows[i].serverMessageId # 0 /\ rows[i].serverMessageId = rows[j].serverMessageId => i = j

Ordered(rows) == \A i, j \in DOMAIN rows : i < j => ~Less(rows[j], rows[i])

\* The rows but for their order.
Kept(rows, next, last, answers) ==
  /\ rows \in Seq(ChatRows)
  /\ PendingFresh(rows, next)
  /\ \A i \in DOMAIN rows : Answered(rows[i], last, answers)
  /\ NumbersDiffer(rows)

\* The index of pending rows, when there are len rows.
IndexInside(index, len, next) ==
  \A n \in DOMAIN index : n \in 1..next - 1 /\ index[n] \in 0..len - 1

WindowInv(w, next, last, answers) ==
  /\ w = [rows |-> w.rows, pendingIndex |-> w.pendingIndex]
  /\ Kept(w.rows, next, last, answers) /\ Ordered(w.rows)
  /\ IndexInside(w.pendingIndex, Len(w.rows), next)

----------------------------------------------------------------------------
(* stable_sort and its comparator. *)

\* The part of Less() that decides between two rows of which both, or none,
\* are pending.
Earlier(a, b) ==
  \/ a.serverSentAtMs < b.serverSentAtMs
  \/ /\ a.serverSentAtMs = b.serverSentAtMs
     /\ \/ a.serverMessageId < b.serverMessageId
        \/ /\ a.serverMessageId = b.serverMessageId
           /\ a.clientMessageId < b.clientMessageId

\* Time, number and client id make a strict weak order,
LEMMA EarlierOrder ==
  ASSUME NEW C, NEW a \in RowsOf(C), NEW b \in RowsOf(C), NEW c \in RowsOf(C)
  PROVE  /\ ~Earlier(a, a)
         /\ Earlier(a, b) => ~Earlier(b, a)
         /\ Earlier(a, b) /\ Earlier(b, c) => Earlier(a, c)
         /\ ~Earlier(a, b) /\ ~Earlier(b, c) => ~Earlier(a, c)
<1>1. /\ a.serverSentAtMs \in Nat /\ b.serverSentAtMs \in Nat /\ c.serverSentAtMs \in Nat
      /\ a.serverMessageId \in Nat /\ b.serverMessageId \in Nat /\ c.serverMessageId \in Nat
      /\ a.clientMessageId \in Nat /\ b.clientMessageId \in Nat /\ c.clientMessageId \in Nat
  BY DEF RowsOf
<1> QED
  BY <1>1 DEF Earlier

\* ... and pending rows are behind the others.
LEMMA LessParts ==
  ASSUME NEW C, NEW a \in RowsOf(C), NEW b \in RowsOf(C)
  PROVE  Less(a, b) <=> \/ ~a.pending /\ b.pending
                        \/ (a.pending <=> b.pending) /\ Earlier(a, b)
<1>1. a.pending \in BOOLEAN /\ b.pending \in BOOLEAN
  BY DEF RowsOf
<1>2. a.pending = b.pending <=> (a.pending <=> b.pending)
  BY <1>1
<1> QED
  BY <1>2 DEF Less, Earlier

\* The comparator is a strict weak ordering, without which stable_sort() would
\* have undefined behaviour.
LEMMA LessOrder ==
  ASSUME NEW C, NEW a \in RowsOf(C), NEW b \in RowsOf(C), NEW c \in RowsOf(C)
  PROVE  /\ ~Less(a, a)
         /\ Less(a, b) => ~Less(b, a)
         /\ Less(a, b) /\ Less(b, c) => Less(a, c)
         /\ ~Less(a, b) /\ ~Less(b, c) => ~Less(a, c)
<1>1. /\ ~Earlier(a, a)
      /\ Earlier(a, b) => ~Earlier(b, a)
      /\ Earlier(a, b) /\ Earlier(b, c) => Earlier(a, c)
      /\ ~Earlier(a, b) /\ ~Earlier(b, c) => ~Earlier(a, c)
  BY EarlierOrder
<1>2. /\ Less(a, a) <=> Earlier(a, a)
      /\ Less(a, b) <=> \/ ~a.pending /\ b.pending
                        \/ (a.pending <=> b.pending) /\ Earlier(a, b)
      /\ Less(b, a) <=> \/ ~b.pending /\ a.pending
                        \/ (b.pending <=> a.pending) /\ Earlier(b, a)
      /\ Less(b, c) <=> \/ ~b.pending /\ c.pending
                        \/ (b.pending <=> c.pending) /\ Earlier(b, c)
      /\ Less(a, c) <=> \/ ~a.pending /\ c.pending
                        \/ (a.pending <=> c.pending) /\ Earlier(a, c)
  BY LessParts
<1> QED
  BY <1>1, <1>2

\* Row j comes to stand before row i, or is row i.
Before(rows, j, i) ==
  IF j <= i THEN ~Less(rows[i], rows[j]) ELSE Less(rows[j], rows[i])

\* It makes a total order of the rows' old places, in which no row is in front
\* of a lesser one.
LEMMA BeforeOrder ==
  ASSUME NEW C, NEW rows \in Seq(RowsOf(C)),
         NEW i \in DOMAIN rows, NEW j \in DOMAIN rows, NEW k \in DOMAIN rows
  PROVE  /\ Before(rows, i, i)
         /\ Before(rows, i, j) \/ Before(rows, j, i)
         /\ Before(rows, i, j) /\ Before(rows, j, i) => i = j
         /\ Before(rows, i, j) /\ Before(rows, j, k) => Before(rows, i, k)
         /\ Before(rows, i, j) => ~Less(rows[j], rows[i])
<1>1. i \in Int /\ j \in Int /\ k \in Int
  OBVIOUS
<1>2. rows[i] \in RowsOf(C) /\ rows[j] \in RowsOf(C) /\ rows[k] \in RowsOf(C)
  OBVIOUS
<1> DEFINE L(a, b) == Less(rows[a], rows[b])
<1>3. /\ ~L(i, i)
      /\ L(i, j) => ~L(j, i)
      /\ L(i, j) /\ L(j, k) => L(i, k)
      /\ ~L(k, j) /\ ~L(j, i) => ~L(k, i)
      /\ ~L(j, i) /\ ~L(i, k) => ~L(j, k)
      /\ ~L(i, k) /\ ~L(k, j) => ~L(i, j)
      /\ L(j, k) /\ L(k, i) => L(j, i)
      /\ L(k, i) /\ L(i, j) => L(k, j)
      /\ L(j, i) => ~L(i, j)
  BY <1>2, LessOrder
<1> HIDE DEF L
<1>4. \A a, b : Before(rows, a, b) <=> IF a <= b THEN ~L(b, a) ELSE L(a, b)
  BY DEF Before, L
<1>5. Before(rows, i, j) => ~Less(rows[j], rows[i])
  BY <1>3, <1>4 DEF L
<1>6. /\ Before(rows, i, i)
      /\ Before(rows, i, j) \/ Before(rows, j, i)
      /\ Before(rows, i, j) /\ Before(rows, j, i) => i = j
  BY <1>1, <1>3, <1>4
<1>7. Before(rows, i, j) /\ Before(rows, j, k) => Before(rows, i, k)
  BY <1>1, <1>3, <1>4
<1> QED
  BY <1>5, <1>6, <1>7

Place(rows, i) == Cardinality({j \in DOMAIN rows : Before(rows, j, i)})

\* A row that stands before another one has the smaller place.
LEMMA PlaceOrder ==
  ASSUME NEW C, NEW rows \in Seq(RowsOf(C)), NEW i \in DOMAIN rows, NEW j \in DOMAIN rows
  PROVE  /\ Place(rows, i) \in DOMAIN rows
         /\ Before(rows, i, j) /\ i # j => Place(rows, i) < Place(rows, j)
<1> DEFINE Front(k) == {h \in DOMAIN rows : Before(rows, h, k)}
<1>1. DOMAIN rows = 1..Len(rows) /\ Len(rows) \in Nat
  OBVIOUS
<1>2. IsFiniteSet(DOMAIN rows) /\ Cardinality(DOMAIN rows) = Len(rows)
  <2>1. /\ IsFiniteSet(1..Len(rows))
        /\ Cardinality(1..Len(rows)) = IF 1 > Len(rows) THEN 0 ELSE Len(rows) - 1 + 1
    BY <1>1, FS_Interval
  <2> QED
    BY <1>1, <2>1
<1>3. \A k : Front(k) \in SUBSET DOMAIN rows
  OBVIOUS
<1>4. \A k : IsFiniteSet(Front(k)) /\ Cardinality(Front(k)) <= Len(rows)
            /\ Cardinality(Front(k)) \in Nat
  BY <1>2, <1>3, FS_Subset, FS_CardinalityType
<1>5. i \in Front(i) /\ j \in Front(j)
  BY BeforeOrder
<1>6. Cardinality(Front(i)) # 0
  BY <1>4, <1>5, FS_EmptySet
<1>7. ASSUME Before(rows, i, j), i # j PROVE Cardinality(Front(i)) < Cardinality(Front(j))
  <2>1. Front(i) \in SUBSET Front(j)
    BY <1>7, BeforeOrder
  <2>2. j \notin Front(i)
    BY <1>7, BeforeOrder
  <2>3. Front(i) # Front(j)
    BY <1>5, <2>2
  <2> HIDE DEF Front
  <2>4. Cardinality(Front(i)) <= Cardinality(Front(j))
        /\ Cardinality(Front(j)) # Cardinality(Front(i))
    BY <1>4, <2>1, <2>3, FS_Subset
  <2> QED
    BY <1>4, <2>4
<1>8. Place(rows, i) = Cardinality(Front(i)) /\ Place(rows, j) = Cardinality(Front(j))
  BY DEF Place
<1> HIDE DEF Front
<1> QED
  BY <1>1, <1>4, <1>6, <1>7, <1>8

\* sortMessagesByServerOrder() permutes the rows and leaves them sorted.
LEMMA Sorted ==
  ASSUME NEW C, NEW rows \in Seq(RowsOf(C))
  PROVE  /\ SortByServerOrder(rows) \in Seq(RowsOf(C))
         /\ Len(SortByServerOrder(rows)) = Len(rows)
         /\ \E from \in [DOMAIN rows -> DOMAIN rows] :
              /\ \A k \in DOMAIN rows : SortByServerOrder(rows)[k] = rows[from[k]]
              /\ \A k, l \in DOMAIN rows : from[k] = from[l] => k = l
              /\ \A k, l \in DOMAIN rows : k < l => ~Less(rows[from[l]], rows[from[k]])
<1> DEFINE n == Len(rows)
           place == [i \in 1..n |-> Place(rows, i)]
           from == [k \in 1..n |-> CHOOSE i \in 1..n : place[i] = k]
           result == [k \in 1..n |-> rows[from[k]]]
<1>1. DOMAIN rows = 1..n /\ n \in Nat
  OBVIOUS
<1>2. SortByServerOrder(rows) = result
  BY <1>1 DEF SortByServerOrder, Place, Before
<1>3. \A i, j \in 1..n : /\ Place(rows, i) \in 1..n
                         /\ Before(rows, i, j) /\ i # j => Place(rows, i) < Place(rows, j)
  BY <1>1, PlaceOrder
<1>4. place \in Injection(1..n, 1..n)
  <2>1. ASSUME NEW i \in 1..n, NEW j \in 1..n, place[i] = place[j] PROVE i = j
    <3>1. Before(rows, i, j) \/ Before(rows, j, i)
      BY <1>1, BeforeOrder
    <3> QED
      BY <1>3, <2>1, <3>1
  <2> QED
    BY <1>3, <2>1 DEF Injection, IsInjective
<1>5. place \in Surjection(1..n, 1..n)
  <2>1. IsFiniteSet(1..n)
    BY <1>1, FS_Interval
  <2> HIDE DEF place
  <2> QED
    BY <1>4, <2>1, FS_Injection
<1>6. \A k \in 1..n : from[k] \in 1..n /\ place[from[k]] = k
  <2> SUFFICES ASSUME NEW k \in 1..n
               PROVE  (CHOOSE i \in 1..n : place[i] = k) \in 1..n
                      /\ place[CHOOSE i \in 1..n : place[i] = k] = k
    OBVIOUS
  <2>1. \E i \in 1..n : place[i] = k
    BY <1>5 DEF Surjection
  <2> HIDE DEF place
  <2> QED
    BY <2>1
<1>7. \A k, l \in 1..n : from[k] = from[l] => k = l
  BY <1>6
<1>8. \A k, l \in 1..n : k < l => ~Less(rows[from[l]], rows[from[k]])
  <2> SUFFICES ASSUME NEW k \in 1..n, NEW l \in 1..n, k < l
               PROVE  ~Less(rows[from[l]], rows[from[k]])
    OBVIOUS
  <2> DEFINE i == from[k]
             j == from[l]
  <2>1. i \in 1..n /\ j \in 1..n /\ Place(rows, i) = k /\ Place(rows, j) = l
    BY <1>6
  <2> HIDE DEF i, j
  <2>2. ~Before(rows, j, i)
    BY <1>3, <2>1
  <2>3. Before(rows, i, j)
    BY <1>1, <2>1, <2>2, BeforeOrder
  <2>4. ~Less(rows[j], rows[i])
    BY <1>1, <2>1, <2>3, BeforeOrder
  <2> QED
    BY <2>4 DEF i, j
<1>9. from \in [1..n -> 1..n] /\ \A k \in 1..n : result[k] = rows[from[k]]
  BY <1>6
<1>10. result \in Seq(RowsOf(C)) /\ Len(result) = n
  <2>1. \A k \in 1..n : from[k] \in 1..n
    BY <1>6
  <2> HIDE DEF from
  <2>2. \A k \in 1..n : rows[from[k]] \in RowsOf(C)
    BY <1>1, <2>1
  <2> QED
    BY <1>1, <2>2
<1> HIDE DEF from, result, place
<1> QED
  BY <1>1, <1>2, <1>7, <1>8, <1>9, <1>10

----------------------------------------------------------------------------
(* The operations on the rows. *)

\* Sorting keeps what is said of the rows, and orders them.
LEMMA SortKeeps ==
  ASSUME NEW rows, NEW next, NEW last, NEW answers, Kept(rows, next, last, answers)
  PROVE  /\ Kept(SortByServerOrder(rows), next, last, answers)
         /\ Ordered(SortByServerOrder(rows))
         /\ Len(SortByServerOrder(rows)) = Len(rows)
<1> DEFINE sorted == SortByServerOrder(rows)
<1>1. rows \in Seq(ChatRows)
  BY DEF Kept
<1>2. sorted \in Seq(ChatRows) /\ Len(sorted) = Len(rows)
  BY <1>1, Sorted DEF ChatRows
<1>3. PICK from \in [DOMAIN rows -> DOMAIN rows] :
        /\ \A k \in DOMAIN rows : sorted[k] = rows[from[k]]
        /\ \A k, l \in DOMAIN rows : from[k] = from[l] => k = l
        /\ \A k, l \in DOMAIN rows : k < l => ~Less(rows[from[l]], rows[from[k]])
  BY <1>1, Sorted DEF ChatRows
<1> HIDE DEF sorted
<1>4. DOMAIN sorted = DOMAIN rows /\ DOMAIN rows = 1..Len(rows) /\ Len(rows) \in Nat
  BY <1>1, <1>2
<1>5. PendingFresh(sorted, next)
  BY <1>3, <1>4 DEF Kept, PendingFresh
<1>6. \A i \in DOMAIN sorted : Answered(sorted[i], last, answers)
  BY <1>3, <1>4 DEF Kept
<1>7. NumbersDiffer(sorted)
  BY <1>3, <1>4 DEF Kept, NumbersDiffer
<1>8. Ordered(sorted)
  BY <1>3, <1>4 DEF Ordered
<1> QED
  BY <1>2, <1>5, <1>6, <1>7, <1>8 DEF Kept, sorted

\* A row at the end that is an answer not shown yet, or none.
LEMMA AppendKeeps ==
  ASSUME NEW rows, NEW next, NEW last, NEW answers, Kept(rows, next, last, answers),
         NEW r \in ChatRows,
         r.pending => /\ r.serverSentAtMs = 0 /\ r.serverMessageId = 0
                      /\ r.clientMessageId < next,
         Answered(r, last, answers),
         r.serverMessageId # 0 =>
           \A i \in DOMAIN rows : rows[i].serverMessageId # r.serverMessageId
  PROVE  /\ Kept(Append(rows, r), next, last, answers)
         /\ Len(Append(rows, r)) = Len(rows) + 1
<1> DEFINE longer == Append(rows, r)
<1>1. rows \in Seq(ChatRows)
  BY DEF Kept
<1>2. /\ longer \in Seq(ChatRows) /\ Len(longer) = Len(rows) + 1 /\ Len(rows) \in Nat
      /\ longer[Len(rows) + 1] = r /\ DOMAIN longer = 1..Len(rows) + 1
      /\ DOMAIN rows = 1..Len(rows)
      /\ \A i \in 1..Len(rows) : longer[i] = rows[i]
  <2> HIDE DEF ChatRows
  <2> QED
    BY <1>1
<1> HIDE DEF longer
<1>3. \A i \in DOMAIN longer : \/ i \in DOMAIN rows /\ longer[i] = rows[i]
                               \/ i = Len(rows) + 1 /\ longer[i] = r
  BY <1>2
<1>4. PendingFresh(longer, next)
  BY <1>3 DEF Kept, PendingFresh
<1>5. \A i \in DOMAIN longer : Answered(longer[i], last, answers)
  BY <1>3 DEF Kept
<1>6. NumbersDiffer(longer)
  BY <1>3 DEF Kept, NumbersDiffer
<1> QED
  BY <1>2, <1>4, <1>5, <1>6 DEF Kept, longer

\* Without the oldest row.
LEMMA TailKeeps ==
  ASSUME NEW rows, NEW next, NEW last, NEW answers, Kept(rows, next, last, answers),
         Ordered(rows), rows # <<>>
  PROVE  Kept(Tail(rows), next, last, answers) /\ Ordered(Tail(rows))
<1> DEFINE rest == Tail(rows)
<1>1. rows \in Seq(ChatRows)
  BY DEF Kept
<1>2. /\ rest \in Seq(ChatRows) /\ Len(rest) = Len(rows) - 1 /\ Len(rows) \in Nat
      /\ DOMAIN rest = 1..Len(rows) - 1 /\ DOMAIN rows = 1..Len(rows)
      /\ \A i \in 1..Len(rows) - 1 : rest[i] = rows[i + 1]
  BY <1>1
<1> HIDE DEF rest
<1>3. \A i \in DOMAIN rest : i + 1 \in DOMAIN rows /\ rest[i] = rows[i + 1] /\ i \in Nat
  BY <1>2
<1>4. PendingFresh(rest, next)
  BY <1>3 DEF Kept, PendingFresh
<1>5. \A i \in DOMAIN rest : Answered(rest[i], last, answers)
  BY <1>3 DEF Kept
<1>6. NumbersDiffer(rest)
  <2> SUFFICES ASSUME NEW i \in DOMAIN rest, NEW j \in DOMAIN rest,
                      rest[i].serverMessageId # 0,
                      rest[i].serverMessageId = rest[j].serverMessageId
               PROVE  i = j
    BY DEF NumbersDiffer
  <2>1. i + 1 = j + 1
    BY <1>3 DEF Kept, NumbersDiffer
  <2> QED
    BY <1>3, <2>1
<1>7. Ordered(rest)
  <2> SUFFICES ASSUME NEW i \in DOMAIN rest, NEW j \in DOMAIN rest, i < j
               PROVE  ~Less(rest[j], rest[i])
    BY DEF Ordered
  <2>1. i + 1 < j + 1
    BY <1>3
  <2> QED
    BY <1>3, <2>1 DEF Ordered
<1> QED
  BY <1>2, <1>4, <1>5, <1>6, <1>7 DEF Kept, rest

\* What is said of the rows stays true when more is written and answered.
LEMMA LaterKeeps ==
  ASSUME NEW rows, NEW next \in Nat, NEW last \in Nat, NEW answers,
         Kept(rows, next, last, answers),
         NEW next2 \in Nat, NEW last2 \in Nat, NEW answers2,
         next <= next2, last <= last2, \A m \in 1..last : answers2[m] = answers[m]
  PROVE  Kept(rows, next2, last2, answers2)
<1>1. rows \in Seq(ChatRows) /\ NumbersDiffer(rows)
  BY DEF Kept
<1>2. \A i \in DOMAIN rows : rows[i].clientMessageId \in Nat /\ rows[i].serverMessageId \in Nat
  <2>1. \A i \in DOMAIN rows : rows[i] \in ChatRows
    <3> HIDE DEF ChatRows
    <3> QED
      BY <1>1
  <2> QED
    BY <2>1 DEF ChatRows, RowsOf
<1>3. PendingFresh(rows, next2)
  BY <1>2 DEF Kept, PendingFresh
<1>4. \A i \in DOMAIN rows : Answered(rows[i], last2, answers2)
  <2> SUFFICES ASSUME NEW i \in DOMAIN rows, rows[i].serverMessageId # 0
               PROVE  Answered(rows[i], last2, answers2)
    BY DEF Answered
  <2>1. Answered(rows[i], last, answers)
    BY DEF Kept
  <2>2. rows[i].serverMessageId \in 1..last
    BY <1>2, <2>1 DEF Answered
  <2> QED
    BY <1>2, <2>1, <2>2 DEF Answered
<1> QED
  BY <1>1, <1>3, <1>4 DEF Kept

----------------------------------------------------------------------------
(* The operations on the window. *)

\* Nothing happens in the window itself.
LEMMA LaterWindow ==
  ASSUME NEW w, NEW next \in Nat, NEW last \in Nat, NEW answers,
         WindowInv(w, next, last, answers),
         NEW next2 \in Nat, NEW last2 \in Nat, NEW answers2,
         next <= next2, last <= last2, \A m \in 1..last : answers2[m] = answers[m]
  PROVE  WindowInv(w, next2, last2, answers2)
<1>1. Kept(w.rows, next2, last2, answers2)
  BY LaterKeeps DEF WindowInv
<1>2. IndexInside(w.pendingIndex, Len(w.rows), next2)
  BY DEF WindowInv, IndexInside
<1> QED
  BY <1>1, <1>2 DEF WindowInv

\* A window is a record of two fields.
LEMMA RowsReplaced ==
  ASSUME NEW w, NEW rows, w = [rows |-> w.rows, pendingIndex |-> w.pendingIndex]
  PROVE  [w EXCEPT !.rows = rows] = [rows |-> rows, pendingIndex |-> w.pendingIndex]
<1>1. PICK a, b : w = [rows |-> a, pendingIndex |-> b]
  OBVIOUS
<1> QED
  BY <1>1

\* A notice of the program: one row more, or the oldest one gone.
LEMMA NoticeWindow ==
  ASSUME NEW w, NEW next, NEW last, NEW answers, WindowInv(w, next, last, answers),
         NEW time \in Nat
  PROVE  WindowInv(AddChatMessage(w, Notice, time), next, last, answers)
<1> DEFINE r == Row(Notice, FALSE, 0, 0, time)
           rows == SortByServerOrder(Append(w.rows, r))
           shorter == IF Len(rows) > MaxMessages THEN Tail(rows) ELSE rows
<1>1. Kept(w.rows, next, last, answers) /\ Len(w.rows) \in Nat
  BY DEF WindowInv, Kept
<1>2. r \in ChatRows /\ ~r.pending /\ r.serverMessageId = 0
  BY DEF Row, Notice, Content, ChatRows, RowsOf, Contents
<1> HIDE DEF r
<1>3. Kept(Append(w.rows, r), next, last, answers) /\ Len(Append(w.rows, r)) = Len(w.rows) + 1
  BY <1>1, <1>2, AppendKeeps DEF Answered
<1>4. /\ Kept(rows, next, last, answers) /\ Ordered(rows)
      /\ Len(rows) = Len(w.rows) + 1
  BY <1>3, SortKeeps
<1> HIDE DEF rows
<1>5. rows # <<>>
  BY <1>1, <1>4
<1>6. Kept(shorter, next, last, answers) /\ Ordered(shorter)
  BY <1>4, <1>5, TailKeeps
<1>7. Len(shorter) \in Nat /\ Len(w.rows) <= Len(shorter)
  BY <1>1, <1>4, <1>5 DEF Kept
<1>8. AddChatMessage(w, Notice, time) = [rows |-> shorter, pendingIndex |-> w.pendingIndex]
  <2>1. AddChatMessage(w, Notice, time) = [w EXCEPT !.rows = shorter]
    BY DEF AddChatMessage, rows, r
  <2> QED
    BY <2>1, RowsReplaced DEF WindowInv
<1> HIDE DEF shorter
<1>9. IndexInside(w.pendingIndex, Len(shorter), next)
  BY <1>1, <1>7 DEF WindowInv, IndexInside
<1> QED
  BY <1>6, <1>8, <1>9 DEF WindowInv

\* The user's own message, pending at the end: no row is behind it.
LEMMA PendingWindow ==
  ASSUME NEW w, NEW next \in Nat \ {0}, NEW last \in Nat, NEW answers,
         WindowInv(w, next, last, answers),
         NEW content \in Contents
  PROVE  WindowInv(AddLocalPending(w, content, next), next + 1, last, answers)
<1> DEFINE r == Row(content, TRUE, next, 0, 0)
           longer == Append(w.rows, r)
           index == [d \in DOMAIN w.pendingIndex \cup {next} |->
                       IF d = next THEN Len(w.rows) ELSE w.pendingIndex[d]]
<1>1. Kept(w.rows, next + 1, last, answers)
  BY LaterKeeps DEF WindowInv
<1>2. w.rows \in Seq(ChatRows) /\ Len(w.rows) \in Nat /\ DOMAIN w.rows = 1..Len(w.rows)
  BY <1>1 DEF Kept
<1>3. /\ r \in ChatRows /\ r.pending = TRUE /\ r.serverMessageId = 0 /\ r.serverSentAtMs = 0
      /\ r.clientMessageId = next
  BY DEF Row, ChatRows, RowsOf
<1> HIDE DEF r
<1>4. Kept(longer, next + 1, last, answers) /\ Len(longer) = Len(w.rows) + 1
  BY <1>1, <1>3, AppendKeeps DEF Answered
<1>5. Ordered(longer)
  <2>1. /\ DOMAIN longer = 1..Len(w.rows) + 1 /\ longer[Len(w.rows) + 1] = r
        /\ \A i \in 1..Len(w.rows) : longer[i] = w.rows[i]
    <3> HIDE DEF ChatRows
    <3> QED
      BY <1>2, <1>3
  <2> HIDE DEF longer
  <2> SUFFICES ASSUME NEW i \in DOMAIN longer, NEW j \in DOMAIN longer, i < j
               PROVE  ~Less(longer[j], longer[i])
    BY DEF Ordered
  <2>2. CASE j \in 1..Len(w.rows)
    BY <1>2, <2>1, <2>2 DEF WindowInv, Ordered
  <2>3. CASE j = Len(w.rows) + 1
    <3> DEFINE q == w.rows[i]
    <3>1. q \in ChatRows /\ longer[j] = r /\ longer[i] = q /\ i \in DOMAIN w.rows
      <4> HIDE DEF ChatRows
      <4> QED
        BY <1>2, <2>1, <2>3
    <3>2. q.pending => /\ q.serverSentAtMs = 0 /\ q.serverMessageId = 0
                       /\ q.clientMessageId < next
      BY <3>1 DEF WindowInv, Kept, PendingFresh
    <3> HIDE DEF q
    <3>3. q.clientMessageId \in Nat
      BY <3>1 DEF ChatRows, RowsOf
    <3>4. q.pending => ~Earlier(r, q)
      BY <1>3, <3>2, <3>3 DEF Earlier
    <3>5. Less(r, q) <=> \/ ~r.pending /\ q.pending
                         \/ (r.pending <=> q.pending) /\ Earlier(r, q)
      BY <1>3, <3>1, LessParts DEF ChatRows
    <3>6. ~Less(r, q)
      BY <1>3, <3>4, <3>5
    <3> QED
      BY <3>1, <3>6
  <2> QED
    BY <1>2, <2>1, <2>2, <2>3
<1>6. IndexInside(index, Len(longer), next + 1)
  BY <1>2, <1>4 DEF WindowInv, IndexInside
<1>7. AddLocalPending(w, content, next) = [rows |-> longer, pendingIndex |-> index]
  BY DEF AddLocalPending, r
<1> HIDE DEF longer, index
<1> QED
  BY <1>4, <1>5, <1>6, <1>7 DEF WindowInv

\* An answer that is matched replaces the row that the index points to,
\* whichever that is.
LEMMA AckWindow ==
  ASSUME NEW w, NEW next \in Nat, NEW last \in Nat, NEW answers,
         WindowInv(w, next, last, answers), NEW cmid \in DOMAIN w.pendingIndex,
         NEW content \in Contents, NEW time \in Nat,
         content = answers[last + 1].content, time = answers[last + 1].time
  PROVE  WindowInv(AckPending(w, content, cmid, last + 1, time), next, last + 1, answers)
<1> DEFINE m == last + 1
           k == w.pendingIndex[cmid] + 1
           q == w.rows[k]
           r == Row(content, FALSE, q.clientMessageId, m, time)
           acked == AckRow(w, content, cmid, m, time)
           index == [d \in DOMAIN w.pendingIndex \ {cmid} |-> w.pendingIndex[d]]
<1>1. Kept(w.rows, next, m, answers) /\ w.rows \in Seq(ChatRows)
  <2>1. Kept(w.rows, next, m, answers)
    BY LaterKeeps DEF WindowInv
  <2> QED
    BY <2>1 DEF Kept
<1>2. Len(w.rows) \in Nat /\ DOMAIN w.rows = 1..Len(w.rows) /\ k \in DOMAIN w.rows
  BY <1>1 DEF WindowInv, IndexInside
<1>3. q \in ChatRows
  <2> HIDE DEF ChatRows, k
  <2> QED
    BY <1>1, <1>2
<1>4. /\ r \in ChatRows /\ r.pending = FALSE /\ r.serverMessageId = m
      /\ r.content = content /\ r.serverSentAtMs = time
  BY <1>3 DEF ChatRows, RowsOf, Row
<1>5. acked = [w.rows EXCEPT ![k] = r]
  BY DEF AckRow
<1> HIDE DEF r, q, k, acked
<1>6. /\ acked \in Seq(ChatRows) /\ Len(acked) = Len(w.rows) /\ DOMAIN acked = DOMAIN w.rows
      /\ acked[k] = r /\ \A i \in DOMAIN w.rows : i # k => acked[i] = w.rows[i]
  <2> HIDE DEF ChatRows
  <2> QED
    BY <1>1, <1>2, <1>4, <1>5
<1>7. PendingFresh(acked, next)
  BY <1>1, <1>4, <1>6 DEF Kept, PendingFresh
<1>8. \A i \in DOMAIN acked : Answered(acked[i], m, answers)
  BY <1>1, <1>4, <1>6 DEF Kept, Answered
<1>9. \A i \in DOMAIN w.rows : w.rows[i].serverMessageId # m
  BY DEF WindowInv, Kept, Answered
<1>10. NumbersDiffer(acked)
  BY <1>1, <1>4, <1>6, <1>9 DEF Kept, NumbersDiffer
<1>11. Kept(acked, next, m, answers)
  BY <1>6, <1>7, <1>8, <1>10 DEF Kept
<1>12. IndexInside(index, Len(acked), next)
  BY <1>6 DEF WindowInv, IndexInside
<1>13. AckPending(w, content, cmid, m, time)
         = [rows |-> SortByServerOrder(acked), pendingIndex |-> index]
  BY DEF AckPending, acked
<1>14. /\ Kept(SortByServerOrder(acked), next, m, answers)
       /\ Ordered(SortByServerOrder(acked))
       /\ Len(SortByServerOrder(acked)) = Len(acked)
  BY <1>11, SortKeeps
<1> HIDE DEF index, m
<1>15. WindowInv(AckPending(w, content, cmid, m, time), next, m, answers)
  BY <1>12, <1>13, <1>14 DEF WindowInv
<1> QED
  BY <1>15 DEF m

\* An answer without a match is a new row.
LEMMA AddWindow ==
  ASSUME NEW w, NEW next \in Nat, NEW last \in Nat, NEW answers,
         WindowInv(w, next, last, answers), NEW cmid \in Nat,
         NEW content \in Contents, NEW time \in Nat,
         content = answers[last + 1].content, time = answers[last + 1].time
  PROVE  WindowInv(AddAuthoritative(w, content, cmid, last + 1, time), next, last + 1, answers)
<1> DEFINE m == last + 1
           r == Row(content, FALSE, cmid, m, time)
           rows == SortByServerOrder(Append(w.rows, r))
<1>1. Kept(w.rows, next, m, answers) /\ Len(w.rows) \in Nat
  <2>1. Kept(w.rows, next, m, answers)
    BY LaterKeeps DEF WindowInv
  <2> QED
    BY <2>1 DEF Kept
<1>2. /\ r \in ChatRows /\ r.pending = FALSE /\ r.serverMessageId = m
      /\ r.content = content /\ r.serverSentAtMs = time
  BY DEF Row, ChatRows, RowsOf
<1>3. \A i \in DOMAIN w.rows : w.rows[i].serverMessageId # m
  BY DEF WindowInv, Kept, Answered
<1> HIDE DEF r
<1>4. Answered(r, m, answers)
  BY <1>2 DEF Answered
<1> HIDE DEF m
<1>5. Kept(Append(w.rows, r), next, m, answers) /\ Len(Append(w.rows, r)) = Len(w.rows) + 1
  BY <1>1, <1>2, <1>3, <1>4, AppendKeeps
<1>6. /\ Kept(rows, next, m, answers) /\ Ordered(rows)
      /\ Len(rows) = Len(w.rows) + 1
  BY <1>5, SortKeeps
<1>7. AddAuthoritative(w, content, cmid, m, time)
        = [rows |-> rows, pendingIndex |-> w.pendingIndex]
  <2>1. AddAuthoritative(w, content, cmid, m, time) = [w EXCEPT !.rows = rows]
    BY DEF AddAuthoritative, r
  <2> QED
    BY <2>1, RowsReplaced DEF WindowInv
<1> HIDE DEF rows
<1>8. IndexInside(w.pendingIndex, Len(rows), next)
  BY <1>1, <1>6 DEF WindowInv, IndexInside
<1>9. WindowInv(AddAuthoritative(w, content, cmid, m, time), next, m, answers)
  BY <1>6, <1>7, <1>8 DEF WindowInv
<1> QED
  BY <1>9 DEF m

\* A window without rows.
LEMMA ClearedWindow ==
  ASSUME NEW next, NEW last, NEW answers
  PROVE  WindowInv(EmptyWindow, next, last, answers)
<1>1. /\ EmptyWindow.rows = <<>> /\ EmptyWindow.pendingIndex = <<>>
      /\ EmptyWindow = [rows |-> EmptyWindow.rows, pendingIndex |-> EmptyWindow.pendingIndex]
  BY DEF EmptyWindow
<1>2. Kept(<<>>, next, last, answers) /\ Ordered(<<>>)
  BY DEF Kept, PendingFresh, NumbersDiffer, Ordered
<1>3. IndexInside(<<>>, 0, next)
  BY DEF IndexInside
<1> QED
  BY <1>1, <1>2, <1>3 DEF WindowInv

----------------------------------------------------------------------------
(* The chat. *)

\* The conjuncts of TypeOK that are not about windows.
OtherTypes ==
  /\ link \in [Users -> Links]
  /\ nextClientMessageId \in [Clients -> 1..MaxOwn + 1]
  /\ sent \in [Clients -> Seq(1..MaxOwn)]
  /\ log \in Seq([content : [from : Clients, cmid : 1..MaxOwn], time : Times])
  /\ joined \in [Clients -> BOOLEAN]
  /\ cursor \in [Users -> 0..Len(log)]
  /\ reach \in [Users -> 0..Len(log)]

ChatInv ==
  /\ OtherTypes
  /\ windows = [c \in Users |-> windows[c]]
  /\ \A c \in Users : WindowInv(windows[c], nextClientMessageId[c], cursor[c], log)

\* What a client counts.
LEMMA Counters ==
  ASSUME ChatInv, NEW c \in Users
  PROVE  /\ c \in Clients /\ MaxOwn \in Nat
         /\ nextClientMessageId[c] \in Nat \ {0}
         /\ cursor[c] \in Nat /\ Len(log) \in Nat /\ cursor[c] <= Len(log)
         /\ WindowInv(windows[c], nextClientMessageId[c], cursor[c], log)
<1>1. c \in Clients /\ MaxOwn \in Nat
  BY ChatAssumption DEF Clients
<1> QED
  BY <1>1 DEF ChatInv, OtherTypes

\* An answer in the log.
LEMMA LogEntry ==
  ASSUME ChatInv, NEW m \in 1..Len(log)
  PROVE  /\ log[m].content \in Contents /\ log[m].time \in Nat
         /\ log[m].content.cmid \in Nat
<1> DEFINE Answers == [content : [from : Clients, cmid : 1..MaxOwn], time : Times]
<1>1. log \in Seq(Answers) /\ Times \subseteq Nat /\ MaxOwn \in Nat
  BY ChatAssumption DEF ChatInv, OtherTypes
<1>2. log[m] \in Answers
  <2> HIDE DEF Answers
  <2> QED
    BY <1>1
<1>3. log[m].content \in [from : Clients, cmid : 1..MaxOwn] /\ log[m].time \in Times
  BY <1>2
<1>4. \A x \in [from : Clients, cmid : 1..MaxOwn] : x \in Contents /\ x.cmid \in Nat
  <2>1. MaxOwn \in Nat
    BY <1>1
  <2> QED
    BY <2>1 DEF Contents
<1>5. Times \subseteq Nat
  BY <1>1
<1> QED
  BY <1>3, <1>4, <1>5

\* Showing the next answer.
LEMMA ShowWindow ==
  ASSUME ChatInv, NEW c \in Users, cursor[c] < Len(log)
  PROVE  WindowInv(Show(windows[c], cursor[c] + 1), nextClientMessageId[c],
                   cursor[c] + 1, log)
<1> DEFINE m == cursor[c] + 1
           w == windows[c]
           cmid == log[m].content.cmid
<1>1. /\ cursor[c] \in Nat /\ nextClientMessageId[c] \in Nat /\ m \in 1..Len(log)
      /\ WindowInv(w, nextClientMessageId[c], cursor[c], log)
  BY Counters
<1>2. log[m].content \in Contents /\ log[m].time \in Nat /\ cmid \in Nat
  BY <1>1, LogEntry
<1>3. CASE cmid # 0 /\ cmid \in DOMAIN w.pendingIndex
  <2>1. Show(w, m) = AckPending(w, log[m].content, cmid, m, log[m].time)
    BY <1>3 DEF Show
  <2> QED
    BY <1>1, <1>2, <1>3, <2>1, AckWindow
<1>4. CASE ~(cmid # 0 /\ cmid \in DOMAIN w.pendingIndex)
  <2>1. Show(w, m) = AddAuthoritative(w, log[m].content, cmid, m, log[m].time)
    BY <1>4 DEF Show
  <2> QED
    BY <1>1, <1>2, <2>1, AddWindow
<1> QED
  BY <1>3, <1>4

\* The answers that have been given do not change.
LEMMA LogGrows ==
  ASSUME ChatInv, NEW c \in Users, HandleAnyChat \/ log' = log
  PROVE  /\ Len(log') \in Nat /\ Len(log) <= Len(log')
         /\ \A m \in 1..cursor[c] : log'[m] = log[m]
<1> DEFINE Answers == [content : [from : Clients, cmid : 1..MaxOwn], time : Times]
<1>1. log \in Seq(Answers)
  BY DEF ChatInv, OtherTypes
<1>2. cursor[c] \in Nat /\ Len(log) \in Nat /\ cursor[c] <= Len(log)
  BY Counters
<1>3. CASE log' = log
  BY <1>2, <1>3
<1>4. ASSUME NEW d \in Clients, NEW time \in Times, HandleChat(d, time)
      PROVE  /\ Len(log') = Len(log) + 1 /\ \A m \in 1..Len(log) : log'[m] = log[m]
  <2> DEFINE answer == [content |-> Content(d, Head(sent[d])), time |-> time]
  <2>1. log' = Append(log, answer) /\ sent[d] \in Seq(1..MaxOwn) /\ sent[d] # <<>>
    BY <1>4 DEF HandleChat, ChatInv, OtherTypes
  <2>2. answer \in Answers
    <3> DEFINE q == sent[d]
    <3>1. q \in Seq(1..MaxOwn) /\ q # <<>> /\ MaxOwn \in Nat
      BY <2>1, ChatAssumption
    <3> HIDE DEF q
    <3>2. Head(q) \in 1..MaxOwn
      BY <3>1
    <3> QED
      BY <3>2 DEF Content, q
  <2> HIDE DEF answer, Answers
  <2> QED
    BY <1>1, <2>1, <2>2
<1> QED
  BY <1>2, <1>3, <1>4 DEF HandleAnyChat

\* A step that does not touch the window.
LEMMA WindowStays ==
  ASSUME ChatInv, NEW c \in Users, HandleAnyChat \/ log' = log,
         windows'[c] = windows[c],
         nextClientMessageId'[c] \in Nat, nextClientMessageId[c] <= nextClientMessageId'[c],
         cursor'[c] \in Nat, cursor[c] <= cursor'[c]
  PROVE  WindowInv(windows[c], nextClientMessageId[c], cursor[c], log)'
<1>1. /\ WindowInv(windows[c], nextClientMessageId[c], cursor[c], log)
      /\ nextClientMessageId[c] \in Nat /\ cursor[c] \in Nat
  BY Counters
<1>2. \A m \in 1..cursor[c] : log'[m] = log[m]
  BY LogGrows
<1>3. WindowInv(windows[c], nextClientMessageId'[c], cursor'[c], log')
  BY <1>1, <1>2, LaterWindow
<1> QED
  BY <1>3

\* A step of one user's client that changes its window.
WindowStep(c) ==
  \/ Send(c) \/ HandleMessage(c) \/ ClearWindow(c)
  \/ \E time \in Times : \/ Connect(c, time) \/ SendUnconnected(c, time)
                         \/ NoticeServiceClose(c, time) \/ NoticeClose(c, time)

\* Such a step keeps what is said of the window.
LEMMA WindowChanges ==
  ASSUME ChatInv, NEW c \in Users, WindowStep(c)
  PROVE  WindowInv(windows[c], nextClientMessageId[c], cursor[c], log)'
<1> DEFINE w == windows[c]
           next == nextClientMessageId[c]
           last == cursor[c]
<1>1. /\ WindowInv(w, next, last, log) /\ next \in Nat \ {0} /\ last \in Nat
      /\ c \in Clients
  BY Counters
<1>2. /\ windows = [d \in Users |-> windows[d]]
      /\ nextClientMessageId \in [Clients -> 1..MaxOwn + 1]
      /\ cursor \in [Users -> 0..Len(log)]
  BY DEF ChatInv, OtherTypes
<1>3. \A x : SetWindow(c, x) => windows'[c] = x
  BY <1>2 DEF SetWindow
<1>4. CASE Send(c)
  <2>1. /\ windows'[c] = AddLocalPending(w, Content(c, next), next)
        /\ nextClientMessageId'[c] = next + 1 /\ cursor' = cursor /\ log' = log
    BY <1>1, <1>2, <1>3, <1>4 DEF Send
  <2>2. Content(c, next) \in Contents
    BY <1>1 DEF Content, Contents
  <2>3. WindowInv(AddLocalPending(w, Content(c, next), next), next + 1, last, log)
    BY <1>1, <2>2, PendingWindow
  <2> QED
    BY <2>1, <2>3
<1>5. CASE HandleMessage(c)
  <2>1. /\ windows'[c] = Show(w, last + 1) /\ cursor'[c] = last + 1
        /\ nextClientMessageId' = nextClientMessageId /\ log' = log /\ last < Len(log)
    BY <1>2, <1>3, <1>5 DEF HandleMessage, Readable
  <2>2. WindowInv(Show(w, last + 1), next, last + 1, log)
    BY <2>1, ShowWindow
  <2> QED
    BY <2>1, <2>2
<1>6. CASE ClearWindow(c)
  <2>1. /\ windows'[c] = EmptyWindow /\ cursor' = cursor
        /\ nextClientMessageId' = nextClientMessageId /\ log' = log
    BY <1>3, <1>6 DEF ClearWindow, Clear
  <2> QED
    BY <2>1, ClearedWindow
<1>7. ASSUME NEW time \in Times,
             \/ Connect(c, time) \/ SendUnconnected(c, time)
             \/ NoticeServiceClose(c, time) \/ NoticeClose(c, time)
      PROVE  WindowInv(windows[c], nextClientMessageId[c], cursor[c], log)'
  <2>1. /\ windows'[c] = AddChatMessage(w, Notice, time) /\ cursor' = cursor
        /\ nextClientMessageId' = nextClientMessageId /\ log' = log
    BY <1>3, <1>7 DEF Connect, SendUnconnected, NoticeServiceClose, NoticeClose
  <2>2. time \in Nat
    BY ChatAssumption
  <2>3. WindowInv(AddChatMessage(w, Notice, time), next, last, log)
    BY <1>1, <2>2, NoticeWindow
  <2> QED
    BY <2>1, <2>3
<1> QED
  BY <1>4, <1>5, <1>6, <1>7 DEF WindowStep

\* The steps, by what they do to a user's window.
LEMMA StepKinds ==
  ASSUME Next
  PROVE  \/ \E d \in Users : WindowStep(d)
         \/ \E d \in Users : Accept(d) \/ LoseConnection(d)
         \/ \E d \in Dummies : SendDummy(d)
         \/ HandleAnyChat
BY DEF Next, WindowStep

\* A window step of one user is none of another.
LEMMA WindowStepElsewhere ==
  ASSUME ChatInv, NEW c \in Users, NEW d \in Users, c # d, WindowStep(d)
  PROVE  /\ windows'[c] = windows[c] /\ nextClientMessageId'[c] = nextClientMessageId[c]
         /\ cursor'[c] = cursor[c] /\ log' = log
<1>1. /\ windows = [e \in Users |-> windows[e]] /\ c \in Clients
      /\ nextClientMessageId \in [Clients -> 1..MaxOwn + 1]
      /\ cursor \in [Users -> 0..Len(log)]
  BY Counters DEF ChatInv, OtherTypes
<1>2. \A x : SetWindow(d, x) => windows'[c] = windows[c]
  BY <1>1 DEF SetWindow
<1> QED
  BY <1>1, <1>2 DEF WindowStep, Send, HandleMessage, ClearWindow, Connect, SendUnconnected,
     NoticeServiceClose, NoticeClose

\* Each step keeps what is said of each window.
LEMMA StepWindows ==
  ASSUME ChatInv, [Next]_vars, NEW c \in Users
  PROVE  WindowInv(windows[c], nextClientMessageId[c], cursor[c], log)'
<1>1. /\ nextClientMessageId[c] \in Nat /\ cursor[c] \in Nat /\ cursor[c] <= Len(log)
      /\ Len(log) \in Nat /\ c \in Clients
  BY Counters
<1>2. /\ nextClientMessageId \in [Clients -> 1..MaxOwn + 1]
      /\ cursor \in [Users -> 0..Len(log)]
  BY DEF ChatInv, OtherTypes
<1>3. CASE UNCHANGED vars
  BY <1>1, <1>3, WindowStays DEF vars
<1>4. ASSUME NEW d \in Users, WindowStep(d)
      PROVE  WindowInv(windows[c], nextClientMessageId[c], cursor[c], log)'
  <2>1. CASE d = c
    BY <1>4, <2>1, WindowChanges
  <2>2. CASE d # c
    BY <1>1, <1>4, <2>2, WindowStepElsewhere, WindowStays
  <2> QED
    BY <2>1, <2>2
<1>5. ASSUME NEW d \in Users, Accept(d)
      PROVE  WindowInv(windows[c], nextClientMessageId[c], cursor[c], log)'
  <2>1. /\ windows' = windows /\ nextClientMessageId' = nextClientMessageId /\ log' = log
        /\ cursor'[c] = IF c = d THEN Len(log) ELSE cursor[c]
    BY <1>2, <1>5 DEF Accept
  <2> QED
    BY <1>1, <2>1, WindowStays
<1>6. ASSUME NEW d \in Users, LoseConnection(d)
      PROVE  WindowInv(windows[c], nextClientMessageId[c], cursor[c], log)'
  BY <1>1, <1>6, WindowStays DEF LoseConnection
<1>7. ASSUME NEW d \in Dummies, SendDummy(d)
      PROVE  WindowInv(windows[c], nextClientMessageId[c], cursor[c], log)'
  <2>1. /\ windows' = windows /\ cursor' = cursor /\ log' = log
        /\ nextClientMessageId'[c] = nextClientMessageId[c]
    BY <1>1, <1>2, <1>7, ChatAssumption DEF SendDummy
  <2> QED
    BY <1>1, <2>1, WindowStays
<1>8. CASE HandleAnyChat
  <2>1. /\ windows' = windows /\ cursor' = cursor
        /\ nextClientMessageId' = nextClientMessageId
    BY <1>8 DEF HandleAnyChat, HandleChat
  <2> QED
    BY <1>1, <1>8, <2>1, WindowStays
<1> QED
  BY <1>3, <1>4, <1>5, <1>6, <1>7, <1>8, StepKinds

\* A prefix of a queue.
LEMMA PrefixOf ==
  ASSUME NEW S, NEW q \in Seq(S), NEW n \in 0..Len(q)
  PROVE  SubSeq(q, 1, n) \in Seq(S)
OBVIOUS

\* The other variables.
LEMMA StepTypes ==
  ASSUME ChatInv, [Next]_vars
  PROVE  OtherTypes' /\ windows' = [c \in Users |-> windows'[c]]
<1> DEFINE Answers == [content : [from : Clients, cmid : 1..MaxOwn], time : Times]
<1>1. /\ link \in [Users -> Links]
      /\ nextClientMessageId \in [Clients -> 1..MaxOwn + 1]
      /\ sent \in [Clients -> Seq(1..MaxOwn)] /\ log \in Seq(Answers)
      /\ joined \in [Clients -> BOOLEAN]
      /\ cursor \in [Users -> 0..Len(log)] /\ reach \in [Users -> 0..Len(log)]
      /\ windows = [c \in Users |-> windows[c]]
      /\ MaxOwn \in Nat /\ Len(log) \in Nat /\ Users \subseteq Clients /\ Dummies \subseteq Clients
  BY ChatAssumption DEF ChatInv, OtherTypes, Clients
<1> HIDE DEF Answers
<1>2. /\ \A c, l : SetLink(c, l) /\ l \in Links => link' \in [Users -> Links]
      /\ \A c, w : SetWindow(c, w) => windows' = [d \in Users |-> windows'[d]]
  BY <1>1 DEF SetLink, SetWindow
<1>3. CASE UNCHANGED vars
  BY <1>1, <1>3 DEF vars, OtherTypes, Answers
<1>4. ASSUME NEW c \in Users, Send(c) PROVE OtherTypes' /\ windows' = [d \in Users |-> windows'[d]]
  <2>1. nextClientMessageId[c] \in 1..MaxOwn /\ sent[c] \in Seq(1..MaxOwn)
    BY <1>1, <1>4 DEF Send
  <2>2. nextClientMessageId' \in [Clients -> 1..MaxOwn + 1]
    BY <1>1, <1>4, <2>1 DEF Send
  <2>3. Append(sent[c], nextClientMessageId[c]) \in Seq(1..MaxOwn)
    BY <2>1
  <2>4. sent' \in [Clients -> Seq(1..MaxOwn)]
    BY <1>1, <1>4, <2>3 DEF Send
  <2> QED
    BY <1>1, <1>2, <1>4, <2>2, <2>4 DEF Send, OtherTypes, Answers
<1>5. ASSUME NEW c \in Dummies, SendDummy(c)
      PROVE OtherTypes' /\ windows' = [d \in Users |-> windows'[d]]
  <2>1. nextClientMessageId[c] \in 1..MaxOwn /\ sent[c] \in Seq(1..MaxOwn)
    BY <1>1, <1>5 DEF SendDummy
  <2>2. nextClientMessageId' \in [Clients -> 1..MaxOwn + 1]
    BY <1>1, <1>5, <2>1 DEF SendDummy
  <2>3. Append(sent[c], nextClientMessageId[c]) \in Seq(1..MaxOwn)
    BY <2>1
  <2>4. sent' \in [Clients -> Seq(1..MaxOwn)]
    BY <1>1, <1>5, <2>3 DEF SendDummy
  <2> QED
    BY <1>1, <1>5, <2>2, <2>4 DEF SendDummy, OtherTypes, Answers
<1>6. ASSUME NEW c \in Clients, NEW time \in Times, HandleChat(c, time)
      PROVE OtherTypes' /\ windows' = [d \in Users |-> windows'[d]]
  <2> DEFINE answer == [content |-> Content(c, Head(sent[c])), time |-> time]
  <2>1. /\ Head(sent[c]) \in 1..MaxOwn /\ Tail(sent[c]) \in Seq(1..MaxOwn)
        /\ log' = Append(log, answer)
    BY <1>1, <1>6 DEF HandleChat
  <2>2. answer \in Answers
    BY <2>1 DEF Content, Answers
  <2> HIDE DEF answer
  <2>3. log' \in Seq(Answers) /\ Len(log') = Len(log) + 1
    BY <1>1, <2>1, <2>2
  <2>4. sent' \in [Clients -> Seq(1..MaxOwn)]
    BY <1>1, <1>6, <2>1 DEF HandleChat
  <2>5. cursor' \in [Users -> 0..Len(log')] /\ reach' \in [Users -> 0..Len(log')]
    BY <1>1, <1>6, <2>3 DEF HandleChat
  <2> QED
    BY <1>1, <1>6, <2>3, <2>4, <2>5 DEF HandleChat, OtherTypes, Answers
<1>7. ASSUME NEW c \in Users, HandleMessage(c)
      PROVE OtherTypes' /\ windows' = [d \in Users |-> windows'[d]]
  <2>1. cursor' \in [Users -> 0..Len(log)]
    BY <1>1, <1>7 DEF HandleMessage, Readable
  <2> QED
    BY <1>1, <1>2, <1>7, <2>1 DEF HandleMessage, OtherTypes, Answers
<1>8. ASSUME NEW c \in Users, LoseConnection(c)
      PROVE OtherTypes' /\ windows' = [d \in Users |-> windows'[d]]
  <2>1. sent' \in [Clients -> Seq(1..MaxOwn)]
    <3>1. PICK n \in 0..Len(sent[c]) : sent' = [sent EXCEPT ![c] = SubSeq(@, 1, n)]
      BY <1>8 DEF LoseConnection
    <3>2. sent[c] \in Seq(1..MaxOwn)
      BY <1>1
    <3>3. SubSeq(sent[c], 1, n) \in Seq(1..MaxOwn)
      BY <3>2, PrefixOf
    <3> QED
      BY <1>1, <3>1, <3>3
  <2>2. reach' \in [Users -> 0..Len(log)]
    <3>1. PICK n \in cursor[c]..Len(log) : reach' = [reach EXCEPT ![c] = n]
      BY <1>8 DEF LoseConnection
    <3>2. n \in 0..Len(log)
      BY <1>1
    <3> QED
      BY <1>1, <3>1, <3>2
  <2>3. link' \in [Users -> Links]
    BY <1>1, <1>8 DEF LoseConnection, SetLink, Links
  <2> QED
    BY <1>1, <1>8, <2>1, <2>2, <2>3 DEF LoseConnection, OtherTypes, Answers
<1>9. ASSUME NEW c \in Users, Accept(c)
      PROVE OtherTypes' /\ windows' = [d \in Users |-> windows'[d]]
  <2>1. cursor' \in [Users -> 0..Len(log)] /\ joined' \in [Clients -> BOOLEAN]
    BY <1>1, <1>9 DEF Accept
  <2> QED
    BY <1>1, <1>9, <2>1 DEF Accept, OtherTypes, Answers
<1>10. ASSUME NEW c \in Users, ClearWindow(c)
       PROVE OtherTypes' /\ windows' = [d \in Users |-> windows'[d]]
  BY <1>1, <1>2, <1>10 DEF ClearWindow, OtherTypes, Answers
<1>11. ASSUME NEW c \in Users, NEW time \in Times,
              \/ Connect(c, time) \/ SendUnconnected(c, time)
              \/ NoticeServiceClose(c, time) \/ NoticeClose(c, time)
       PROVE  OtherTypes' /\ windows' = [d \in Users |-> windows'[d]]
  <2>1. link' \in [Users -> Links]
    BY <1>1, <1>2, <1>11 DEF Connect, SendUnconnected, NoticeServiceClose, NoticeClose, Links
  <2> QED
    BY <1>1, <1>2, <1>11, <2>1 DEF Connect, SendUnconnected, NoticeServiceClose,
       NoticeClose, OtherTypes, Answers
<1> QED
  BY <1>3, <1>4, <1>5, <1>6, <1>7, <1>8, <1>9, <1>11, <1>10 DEF Next, HandleAnyChat

\* Nothing has been written or answered in the beginning.
LEMMA InitChatInv == Init => ChatInv
<1> SUFFICES ASSUME Init PROVE ChatInv
  OBVIOUS
<1>1. MaxOwn \in Nat
  BY ChatAssumption
<1>2. OtherTypes
  BY <1>1 DEF Init, OtherTypes, Links
<1>3. \A c \in Users : WindowInv(windows[c], nextClientMessageId[c], cursor[c], log)
  BY ClearedWindow DEF Init
<1>4. windows = [c \in Users |-> windows[c]]
  BY DEF Init
<1> QED
  BY <1>2, <1>3, <1>4 DEF ChatInv

\* The inductive invariant.
THEOREM ChatInvariance == Spec => []ChatInv
<1>1. ChatInv /\ [Next]_vars => ChatInv'
  BY StepWindows, StepTypes DEF ChatInv
<1> QED
  BY <1>1, InitChatInv, PTL DEF Spec

\* The state has its C++ shape, and no operation on a window uses an index
\* beyond its rows, stale though the index may be.
THEOREM ChatTypeCorrect == Spec => []TypeOK
<1>1. ChatInv => TypeOK
  <2> SUFFICES ASSUME ChatInv PROVE TypeOK
    OBVIOUS
  <2>1. ASSUME NEW c \in Users
        PROVE  /\ windows[c].rows \in Seq(RowsOf([from : Clients \cup {System}, cmid : Nat]))
               /\ \A n \in DOMAIN windows[c].pendingIndex :
                    /\ n < nextClientMessageId[c]
                    /\ windows[c].pendingIndex[n] \in 0..Len(windows[c].rows) - 1
    <3>1. WindowInv(windows[c], nextClientMessageId[c], cursor[c], log)
          /\ nextClientMessageId[c] \in Nat
      BY Counters
    <3>2. windows[c].rows \in Seq(ChatRows)
      BY <3>1 DEF WindowInv, Kept
    <3> QED
      BY <3>1, <3>2 DEF WindowInv, IndexInside, ChatRows, Contents
  <2> QED
    BY <2>1 DEF TypeOK, ChatInv, OtherTypes
<1> QED
  BY <1>1, ChatInvariance, PTL

\* The rows of every window are in order at all times, though not every
\* operation sorts: pending ones last, the others by time, answers of one time
\* by number.
THEOREM StaysInServerOrder == Spec => []InServerOrder
<1>1. ChatInv => InServerOrder
  <2> SUFFICES ASSUME ChatInv, NEW c \in Users,
                      NEW i \in DOMAIN windows[c].rows, NEW j \in DOMAIN windows[c].rows, i < j
               PROVE  LET a == windows[c].rows[i]
                          b == windows[c].rows[j]
                      IN  /\ a.pending => b.pending /\ a.clientMessageId <= b.clientMessageId
                          /\ ~b.pending => a.serverSentAtMs <= b.serverSentAtMs
                          /\ ~b.pending /\ a.serverSentAtMs = b.serverSentAtMs
                               /\ a.serverMessageId # 0 /\ b.serverMessageId # 0 =>
                                 a.serverMessageId < b.serverMessageId
    BY DEF InServerOrder
  <2> DEFINE rows == windows[c].rows
             a == rows[i]
             b == rows[j]
  <2>1. /\ rows \in Seq(ChatRows) /\ Ordered(rows) /\ NumbersDiffer(rows)
        /\ PendingFresh(rows, nextClientMessageId[c])
    BY Counters DEF WindowInv, Kept
  <2>2. a \in ChatRows /\ b \in ChatRows
    <3> HIDE DEF ChatRows
    <3> QED
      BY <2>1
  <2>3. /\ a.pending \in BOOLEAN /\ b.pending \in BOOLEAN
        /\ a.serverSentAtMs \in Nat /\ b.serverSentAtMs \in Nat
        /\ a.serverMessageId \in Nat /\ b.serverMessageId \in Nat
        /\ a.clientMessageId \in Nat /\ b.clientMessageId \in Nat
    BY <2>2 DEF ChatRows, RowsOf
  <2>4. ~Less(b, a)
    BY <2>1 DEF Ordered
  <2>5. ~(~b.pending /\ a.pending) /\ ((b.pending <=> a.pending) => ~Earlier(b, a))
    BY <2>2, <2>4, LessParts DEF ChatRows
  <2>6. /\ a.pending => a.serverSentAtMs = 0 /\ a.serverMessageId = 0
        /\ b.pending => b.serverSentAtMs = 0 /\ b.serverMessageId = 0
    BY <2>1 DEF PendingFresh
  <2>7. a.serverMessageId # 0 => a.serverMessageId # b.serverMessageId
    BY <2>1 DEF NumbersDiffer
  <2> HIDE DEF a, b
  <2>8. a.pending => b.pending /\ a.clientMessageId <= b.clientMessageId
    BY <2>3, <2>5, <2>6 DEF Earlier
  <2>9. ~b.pending => /\ a.serverSentAtMs <= b.serverSentAtMs
                      /\ a.serverSentAtMs = b.serverSentAtMs =>
                           a.serverMessageId <= b.serverMessageId
    BY <2>3, <2>5, <2>8 DEF Earlier
  <2> QED
    BY <2>3, <2>7, <2>8, <2>9 DEF a, b
<1> QED
  BY <1>1, ChatInvariance, PTL

\* Every numbered row is the server's answer of that number, once, whichever
\* row the answer was written into.
THEOREM RowsStayAnswers == Spec => []RowsAreAnswers
<1>1. ChatInv => RowsAreAnswers
  <2> SUFFICES ASSUME ChatInv, NEW c \in Users, NEW i \in DOMAIN windows[c].rows,
                      windows[c].rows[i].serverMessageId # 0
               PROVE  /\ Answered(windows[c].rows[i], cursor[c], log)
                      /\ \A j \in DOMAIN windows[c].rows :
                           windows[c].rows[j].serverMessageId
                             = windows[c].rows[i].serverMessageId => i = j
    BY DEF RowsAreAnswers, Answered
  <2>1. WindowInv(windows[c], nextClientMessageId[c], cursor[c], log)
    BY Counters
  <2> QED
    BY <2>1 DEF WindowInv, Kept, NumbersDiffer
<1> QED
  BY <1>1, ChatInvariance, PTL

====
