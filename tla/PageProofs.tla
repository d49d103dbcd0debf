------------------------------ MODULE PageProofs ------------------------------
(***************************************************************************)
(* What the public page shows, for any number of settlements, visits and   *)
(* requests.  The feed shows each settlement once, oldest first, and none  *)
(* from before the page was opened.  The visit counters are a floor, and lose*)
(* visits to overlaps only.  The reports on the receipts are what a reader of*)
(* the whole log would compute, and agree with one another.                *)
(***************************************************************************)
EXTENDS SettlementFeed, Reports, FiniteFolds, TLAPS

-----------------------------------------------------------------------------
(* The feed.  The page's cursor carries both: it is never behind an event  *)
(* that is shown, and, while reads are fresh, never behind the one event of*)
(* before that a stream can still read.                                    *)

\* What is stored, and what is under way, has been stamped, in the past.
Stamped == /\ \A e \in Event : stamp[e] <= now
           /\ \A i \in DOMAIN written : stamp[written[i]] # NoTime
           /\ latest # NoEvent => latest \in Written
           /\ before \subseteq Written
           /\ \A i \in DOMAIN queue : queue[i].type = "payment_settled" => stamp[queue[i].event] # NoTime

\* The page's cursor is not behind what is shown.
Reached == \A i \in DOMAIN shown : stamp[shown[i]] # NoTime /\ stamp[shown[i]] <= seen

\* A stream that continues from t does not send the latest event if that was
\* there before the page.
Past(t) == latest \in before => stamp[latest] <= t

\* All the cursors there are, in the stream, under way and in the page, are past it.
CursorsPast ==
    "stale" \notin faults =>
        /\ conn = "open" => Past(cursor)
        /\ conn = "starting" /\ cursor # NoTime => Past(cursor)
        /\ seen # NoTime => Past(seen)
        /\ \A i \in DOMAIN queue :
              /\ queue[i].type = "connected" => Past(queue[i].ts)
              /\ queue[i].type = "payment_settled" =>
                    Past(stamp[queue[i].event]) /\ queue[i].event \notin before

IInv == TypeOK /\ Stamped /\ Reached /\ ShownOnceInOrder /\ CursorsPast /\ NothingStaleShown

LEMMA InitIInv == Init => IInv
  <1> SUFFICES ASSUME Init PROVE IInv
    OBVIOUS
  <1> USE FeedAssumption DEF Init, NoTime
  <1>1. TypeOK
    BY DEF TypeOK
  <1>2. Stamped
    BY DEF Stamped
  <1>3. Reached /\ ShownOnceInOrder /\ CursorsPast /\ NothingStaleShown
    BY DEF Reached, ShownOnceInOrder, CursorsPast, NothingStaleShown
  <1> QED BY <1>1, <1>2, <1>3 DEF IInv

-----------------------------------------------------------------------------
(* The seller: the clock, the stamps, and the one key that is overwritten. *)

LEMMA TickIInv == IInv /\ Tick /\ UNCHANGED faults => IInv'
  <1> SUFFICES ASSUME IInv, Tick, UNCHANGED faults PROVE IInv'
    OBVIOUS
  <1> USE DEF IInv, Tick, kv, stream, opening
  <1>1. TypeOK'
    BY FeedAssumption DEF TypeOK
  <1>2. Stamped'
    BY DEF Stamped, TypeOK, Written
  <1>3. Reached' /\ ShownOnceInOrder' /\ CursorsPast' /\ NothingStaleShown'
    BY DEF Reached, ShownOnceInOrder, CursorsPast, Past, NothingStaleShown
  <1> QED BY <1>1, <1>2, <1>3

\* A stamp is set once, and before anything else knows of the event.
LEMMA StampIInv == ASSUME NEW e \in Event, IInv, Stamp(e), UNCHANGED faults PROVE IInv'
  <1> USE DEF IInv, Stamp, stream, opening
  <1>1. TypeOK'
    BY DEF TypeOK
  <1>2. \A d \in Event : stamp[d] # NoTime => stamp'[d] = stamp[d]
    BY DEF TypeOK
  <1>3. Written' = Written /\ \A d \in Written : d \in Event /\ stamp'[d] = stamp[d]
    BY <1>2 DEF Written, TypeOK, Stamped
  <1>4. Stamped'
    <2>1. \A d \in Event : stamp'[d] <= now'
      BY DEF TypeOK, Stamped
    <2>2. \A i \in DOMAIN queue' : queue'[i].type = "payment_settled" => stamp'[queue'[i].event] # NoTime
      <3> SUFFICES ASSUME NEW i \in DOMAIN queue, queue[i].type = "payment_settled"
                   PROVE  stamp'[queue[i].event] # NoTime
        OBVIOUS
      <3>1. queue[i] \in Message
        BY DEF TypeOK
      <3>2. queue[i].event \in Event
        BY <3>1 DEF Message
      <3> QED BY <1>2, <3>2 DEF Stamped
    <2> QED BY <1>3, <2>1, <2>2 DEF Stamped, Written
  <1>5. Reached' /\ ShownOnceInOrder'
    <2>1. \A i \in DOMAIN shown : shown[i] \in Event /\ stamp'[shown[i]] = stamp[shown[i]]
      BY <1>2 DEF TypeOK, Reached
    <2> QED BY <2>1 DEF Reached, ShownOnceInOrder
  <1>6. CursorsPast'
    <2>1. \A t : Past(t) => Past(t)'
      BY <1>3 DEF Past, Stamped
    <2>2. \A i \in DOMAIN queue : queue[i].type = "payment_settled" =>
              stamp'[queue[i].event] = stamp[queue[i].event]
      <3> SUFFICES ASSUME NEW i \in DOMAIN queue, queue[i].type = "payment_settled"
                   PROVE  stamp'[queue[i].event] = stamp[queue[i].event]
        OBVIOUS
      <3>1. queue[i] \in Message
        BY DEF TypeOK
      <3>2. queue[i].event \in Event
        BY <3>1 DEF Message
      <3> QED BY <1>2, <3>2 DEF Stamped
    <2> QED BY <1>3, <2>2 DEF CursorsPast, Past, Stamped
  <1>7. NothingStaleShown'
    BY DEF NothingStaleShown
  <1> QED BY <1>1, <1>4, <1>5, <1>6, <1>7

\* An event that is put is new, so it was not there before the page.
LEMMA PutEventIInv == ASSUME NEW e \in Event, IInv, PutEvent(e), UNCHANGED faults PROVE IInv'
  <1> USE DEF IInv, PutEvent, stream, opening
  <1>1. TypeOK'
    BY DEF TypeOK
  <1>2. /\ DOMAIN written' = 1 .. Len(written) + 1
        /\ \A i \in DOMAIN written : written'[i] = written[i]
        /\ written'[Len(written) + 1] = e
        /\ DOMAIN written = 1 .. Len(written)
    BY DEF TypeOK
  <1>3. Written' = Written \cup {e}
    <2>1. Len(written) + 1 \in DOMAIN written' /\ \A i \in DOMAIN written : i \in DOMAIN written'
      BY <1>2 DEF TypeOK
    <2>2. \A i \in DOMAIN written' : i \in DOMAIN written \/ i = Len(written) + 1
      BY <1>2 DEF TypeOK
    <2>3. Written' = {written'[i] : i \in DOMAIN written'}
      BY DEF Written
    <2>4. ASSUME NEW d \in Written' PROVE d \in Written \cup {e}
      BY <1>2, <2>2, <2>3 DEF Written
    <2>5. ASSUME NEW d \in Written \cup {e} PROVE d \in Written'
      <3>1. CASE d = e
        BY <1>2, <2>1, <2>3, <3>1
      <3>2. CASE d \in Written
        BY <1>2, <2>1, <2>3, <3>2 DEF Written
      <3> QED BY <2>5, <3>1, <3>2
    <2> QED BY <2>4, <2>5
  <1>4. Stamped'
    <2>1. \A i \in DOMAIN written' : stamp'[written'[i]] # NoTime
      BY <1>2 DEF Stamped, TypeOK
    <2> QED BY <1>3, <2>1 DEF Stamped
  <1>5. Reached' /\ ShownOnceInOrder' /\ NothingStaleShown'
    BY DEF Reached, ShownOnceInOrder, NothingStaleShown
  <1>6. CursorsPast'
    <2>1. latest' \notin before'
      BY DEF Stamped
    <2> QED BY <2>1 DEF CursorsPast, Past
  <1> QED BY <1>1, <1>4, <1>5, <1>6

LEMMA ExpireIInv == IInv /\ Expire /\ UNCHANGED faults => IInv'
  <1> SUFFICES ASSUME IInv, Expire, UNCHANGED faults PROVE IInv'
    OBVIOUS
  <1> USE DEF IInv, Expire, stream, opening
  <1>1. TypeOK'
    BY DEF TypeOK
  <1>2. Stamped'
    BY DEF Stamped, Written
  <1>3. Reached' /\ ShownOnceInOrder' /\ NothingStaleShown'
    BY DEF Reached, ShownOnceInOrder, NothingStaleShown
  <1>4. CursorsPast'
    BY FeedAssumption DEF CursorsPast, Past, TypeOK
  <1> QED BY <1>1, <1>2, <1>3, <1>4

-----------------------------------------------------------------------------
(* The stream.                                                             *)

\* What a stream reads as it starts is the latest event, or none.
LEMMA StreamReadIInv == IInv /\ StreamRead /\ UNCHANGED faults => IInv'
  <1> SUFFICES ASSUME IInv, StreamRead, UNCHANGED faults PROVE IInv'
    OBVIOUS
  <1> USE DEF IInv, StreamRead, kv
  <1>1. PICK e \in Readable \cup (IF "kv" \in faults THEN {NoEvent} ELSE {}) : cursor' = TsOf(e)
    OBVIOUS
  <1>2. e \in Event \cup {NoEvent} /\ cursor' \in Nat /\ queue' = << >>
    BY <1>1 DEF Readable, Written, TsOf, TypeOK, NoTime
  <1>3. Written \subseteq Event /\ Written' = Written /\ before' \in {Written, before}
    BY DEF Written, TypeOK
  <1>4. TypeOK'
    <2>1. queue' \in Seq(Message)
      <3>1. << >> \in Seq(Message)
        OBVIOUS
      <3> QED BY <1>2, <3>1
    <2> QED BY <1>2, <1>3, <2>1 DEF TypeOK
  <1>5. Stamped'
    BY <1>2, <1>3 DEF Stamped, Written
  <1>6. Reached' /\ ShownOnceInOrder'
    BY DEF Reached, ShownOnceInOrder
  <1>7. \A i \in DOMAIN shown' : shown'[i] = shown[i] /\ (shown # << >> => before' = before)
    BY DEF FirstStream
  <1>8. NothingStaleShown'
    BY <1>7 DEF NothingStaleShown, FirstStream
  <1>9. CursorsPast'
    <2> SUFFICES ASSUME "stale" \notin faults PROVE CursorsPast'
      BY DEF CursorsPast
    <2>1. cursor' # NoTime => Past(cursor)'
      <3>1. e = latest \/ e = NoEvent
        BY <1>1 DEF Readable
      <3> QED BY <1>1, <1>2, <3>1 DEF TsOf, Past, TypeOK, NoTime
    <2>2. CASE FirstStream
      <3>1. seen' = NoTime
        BY <2>2 DEF FirstStream
      <3> QED BY <1>2, <2>1, <3>1 DEF CursorsPast, Past
    <2>3. CASE ~FirstStream
      <3>1. before' = before
        BY <2>3
      <3> QED BY <1>2, <2>1, <3>1 DEF CursorsPast, Past
    <2> QED BY <2>2, <2>3
  <1> QED BY <1>4, <1>5, <1>6, <1>8, <1>9

\* A stream starts past the latest event, or where the page has been.
LEMMA StreamStartIInv == IInv /\ StreamStart /\ UNCHANGED faults => IInv'
  <1> SUFFICES ASSUME IInv, StreamStart, UNCHANGED faults PROVE IInv'
    OBVIOUS
  <1> USE DEF IInv, StreamStart, kv
  <1>1. cursor' \in Nat /\ Written' = Written
    BY DEF SseStartCursor, TypeOK, NoTime, Written
  <1>2. TypeOK'
    <2>1. queue' \in Seq(Message)
      <3>1. [type |-> "connected", ts |-> cursor'] \in Message
        BY <1>1 DEF Message
      <3> QED BY <3>1
    <2>2. blank' \in Nat
      BY DEF TypeOK, NoTime
    <2> QED BY <1>1, <2>1, <2>2, FeedAssumption DEF TypeOK
  <1>3. DOMAIN queue' = {1} /\ queue'[1].type = "connected" /\ queue'[1].ts = cursor'
    OBVIOUS
  <1>4. Stamped'
    BY <1>1, <1>3 DEF Stamped
  <1>5. Reached' /\ ShownOnceInOrder' /\ NothingStaleShown'
    BY DEF Reached, ShownOnceInOrder, NothingStaleShown
  <1>6. ASSUME "stale" \notin faults PROVE Past(cursor') /\ (seen # NoTime => Past(seen))
    <2>1. latest \in before => latest \in Event /\ stamp[latest] \in Nat /\ stamp[latest] <= now
      BY DEF TypeOK, Stamped
    <2>2. CASE seen # NoTime
      BY <1>6, <2>2 DEF SseStartCursor, CursorsPast
    <2>3. CASE seen = NoTime /\ cursor # NoTime
      BY <1>6, <2>3 DEF SseStartCursor, CursorsPast
    <2>4. CASE seen = NoTime /\ cursor = NoTime
      BY <2>1, <2>4 DEF SseStartCursor, Past
    <2> QED BY <2>2, <2>3, <2>4
  <1>7. CursorsPast'
    BY <1>3, <1>6 DEF CursorsPast, Past
  <1> QED BY <1>2, <1>4, <1>5, <1>7

\* A poll sends what is newer than its cursor: no event of before.
LEMMA PollIInv == IInv /\ Poll /\ UNCHANGED faults => IInv'
  <1> SUFFICES ASSUME IInv, Poll, UNCHANGED faults PROVE IInv'
    OBVIOUS
  <1> USE DEF IInv, Poll, kv, opening
  <1>1. CASE UNCHANGED <<cursor, queue>>
    <2>1. TypeOK'
      BY <1>1, FeedAssumption DEF TypeOK
    <2>2. Stamped' /\ Reached' /\ ShownOnceInOrder' /\ NothingStaleShown'
      BY <1>1 DEF Stamped, Written, Reached, ShownOnceInOrder, NothingStaleShown
    <2>3. CursorsPast'
      BY <1>1 DEF CursorsPast, Past
    <2> QED BY <2>1, <2>2, <2>3
  <1>2. ASSUME NEW e \in Readable, SseShouldEmit(e), cursor' = stamp[e],
               queue' = Append(queue, [type |-> "payment_settled", event |-> e])
        PROVE  IInv'
    <2> DEFINE m == [type |-> "payment_settled", event |-> e]
    <2>1. e \in Event /\ e \in Written /\ stamp[e] \in Nat /\ stamp[e] > cursor
      BY <1>2, FeedAssumption DEF Readable, SseShouldEmit, Written, TypeOK, Stamped
    <2>2. m \in Message /\ m.type = "payment_settled" /\ m.event = e
      BY <2>1 DEF Message
    <2>3. /\ queue' \in Seq(Message)
          /\ DOMAIN queue = 1 .. Len(queue) /\ DOMAIN queue' = 1 .. Len(queue) + 1
          /\ \A i \in DOMAIN queue : queue'[i] = queue[i]
          /\ queue'[Len(queue) + 1] = m /\ Len(queue) \in Nat
      <3> HIDE DEF m
      <3>1. queue' = Append(queue, m) /\ queue \in Seq(Message)
        BY <1>2 DEF TypeOK, m
      <3> QED BY <2>2, <3>1
    <2>4. TypeOK'
      <3>1. polls' \in 0 .. PollsPerStream + 1
        BY FeedAssumption DEF TypeOK
      <3>2. queue' \in Seq(Message) /\ cursor' \in Nat
        BY <1>2, <2>1, <2>3
      <3> QED BY <3>1, <3>2 DEF TypeOK
    <2>5. \A i \in DOMAIN queue' : i \in DOMAIN queue \/ i = Len(queue) + 1
      BY <2>3
    <2>6. Stamped'
      <3>1. stamp[e] # NoTime
        BY <2>1 DEF Stamped, Written
      <3>2. \A i \in DOMAIN queue' : queue'[i].type = "payment_settled" => stamp'[queue'[i].event] # NoTime
        BY <2>2, <2>3, <2>5, <3>1 DEF Stamped
      <3> QED BY <3>2 DEF Stamped, Written
    <2>7. Reached' /\ ShownOnceInOrder' /\ NothingStaleShown'
      BY DEF Reached, ShownOnceInOrder, NothingStaleShown
    <2>8. CursorsPast'
      <3> SUFFICES ASSUME "stale" \notin faults PROVE CursorsPast'
        BY DEF CursorsPast
      <3>1. e = latest
        BY <2>1, FeedAssumption DEF Readable
      <3>2. e \notin before /\ cursor \in Nat
        BY <2>1, <3>1 DEF CursorsPast, Past, TypeOK
      <3>3. latest' \notin before'
        BY <3>1, <3>2
      <3>4. \A i \in DOMAIN queue' : queue'[i].type = "payment_settled" => queue'[i].event \notin before'
        BY <2>2, <2>3, <2>5, <3>2 DEF CursorsPast
      <3> QED BY <3>3, <3>4 DEF CursorsPast, Past
    <2> QED BY <2>4, <2>6, <2>7, <2>8
  <1> QED BY <1>1, <1>2

LEMMA PlannedCloseIInv == IInv /\ PlannedClose /\ UNCHANGED faults => IInv'
  <1> SUFFICES ASSUME IInv, PlannedClose, UNCHANGED faults PROVE IInv'
    OBVIOUS
  <1> USE DEF IInv, PlannedClose, kv, opening
  <1> DEFINE m == [type |-> "reconnect"]
  <1>1. m \in Message /\ m.type = "reconnect"
    BY DEF Message
  <1>2. /\ queue' \in Seq(Message)
        /\ DOMAIN queue = 1 .. Len(queue) /\ DOMAIN queue' = 1 .. Len(queue) + 1
        /\ \A i \in DOMAIN queue : queue'[i] = queue[i]
        /\ queue'[Len(queue) + 1].type = "reconnect" /\ Len(queue) \in Nat
    <2>1. queue' = Append(queue, m) /\ queue \in Seq(Message)
      BY DEF TypeOK
    <2> HIDE DEF m
    <2> QED BY <1>1, <2>1
  <1>3. \A i \in DOMAIN queue' : i \in DOMAIN queue \/ i = Len(queue) + 1
    BY <1>2
  <1>4. TypeOK'
    BY <1>2, FeedAssumption DEF TypeOK
  <1>5. Stamped'
    BY <1>2, <1>3 DEF Stamped, Written
  <1>6. Reached' /\ ShownOnceInOrder' /\ NothingStaleShown'
    BY DEF Reached, ShownOnceInOrder, NothingStaleShown
  <1>7. CursorsPast'
    BY <1>2, <1>3 DEF CursorsPast, Past
  <1> QED BY <1>4, <1>5, <1>6, <1>7

-----------------------------------------------------------------------------
(* The page.                                                               *)

LEMMA ConnectIInv == IInv /\ (Connect \/ Break) /\ UNCHANGED faults => IInv'
  <1> SUFFICES ASSUME IInv, Connect \/ Break, UNCHANGED faults PROVE IInv'
    OBVIOUS
  <1> USE DEF IInv, Connect, Break, kv, stream, opening
  <1>1. TypeOK'
    <2>1. breaks' \in 0 .. MaxBreaks
      BY FeedAssumption DEF TypeOK
    <2>2. queue' \in Seq(Message)
      <3>1. << >> \in Seq(Message)
        OBVIOUS
      <3>2. queue' = << >>
        OBVIOUS
      <3> QED BY <3>1, <3>2
    <2> QED BY <2>1, <2>2 DEF TypeOK
  <1>2. Stamped' /\ Reached' /\ ShownOnceInOrder' /\ NothingStaleShown'
    BY DEF Stamped, Written, Reached, ShownOnceInOrder, NothingStaleShown
  <1>3. CursorsPast'
    BY DEF CursorsPast, Past
  <1> QED BY <1>1, <1>2, <1>3

LEMMA DeliverIInv == IInv /\ Deliver /\ UNCHANGED faults => IInv'
  <1> SUFFICES ASSUME IInv, Deliver, UNCHANGED faults PROVE IInv'
    OBVIOUS
  <1> DEFINE m == Head(queue)
  <1>1. /\ m \in Message /\ m = queue[1] /\ 1 \in DOMAIN queue
        /\ queue' \in Seq(Message)
        /\ \A i \in DOMAIN queue' : i + 1 \in DOMAIN queue /\ queue'[i] = queue[i + 1]
    BY DEF IInv, Deliver, TypeOK
  <1> HIDE DEF m
  <1>2. /\ UNCHANGED <<now, stamp, written, latest, cursor, polls, breaks, before, blank>>
        /\ Written' = Written /\ conn = "open"
    BY DEF Deliver, kv, stream, opening, Written
  <1>3. Stamped'
    BY <1>1, <1>2 DEF IInv, Stamped
  <1>4. /\ TypeOK' /\ Reached' /\ ShownOnceInOrder' /\ NothingStaleShown'
        /\ "stale" \notin faults => (conn' = "open" => conn = "open") /\ conn' # "starting" /\ (seen' # NoTime => Past(seen)')
    <2>1. CASE m.type = "connected"
      <3>1. OnConnected(m)
        BY <1>1, <2>1 DEF Deliver, m
      <3>2. m.ts \in Nat
        BY <1>1, <2>1 DEF Message
      <3>3. TypeOK'
        BY <1>1, <1>2, <3>1, <3>2 DEF IInv, TypeOK, OnConnected
      <3>4. Reached'
        BY <1>2, <3>1, <3>2 DEF IInv, TypeOK, Reached, OnConnected, NoTime
      <3>5. ShownOnceInOrder' /\ NothingStaleShown'
        BY <1>2, <3>1 DEF IInv, ShownOnceInOrder, NothingStaleShown, OnConnected
      <3>6. "stale" \notin faults => (conn' = "open" => conn = "open") /\ conn' # "starting" /\ (seen' # NoTime => Past(seen)')
        BY <1>1, <1>2, <2>1, <3>1 DEF IInv, CursorsPast, Past, OnConnected
      <3> QED BY <3>3, <3>4, <3>5, <3>6
    <2>2. CASE m.type = "payment_settled"
      <3> DEFINE e == m.event
      <3>1. OnPaymentSettled(e)
        BY <1>1, <2>2 DEF Deliver, m
      <3>2. e \in Event
        BY <1>1, <2>2 DEF Message
      <3>3. stamp[e] \in Nat /\ stamp[e] # NoTime
        BY <1>1, <2>2, <3>2 DEF IInv, TypeOK, Stamped
      <3>4. "stale" \notin faults => Past(stamp[e]) /\ e \notin before
        BY <1>1, <2>2 DEF IInv, CursorsPast
      <3> HIDE DEF e
      <3>5. CASE seen # NoTime /\ stamp[e] <= seen
        <4>1. UNCHANGED <<seen, shown, conn>>
          BY <3>1, <3>5 DEF OnPaymentSettled
        <4>2. TypeOK'
          BY <1>1, <1>2, <4>1 DEF IInv, TypeOK
        <4>3. Reached' /\ ShownOnceInOrder' /\ NothingStaleShown'
          BY <1>2, <4>1 DEF IInv, Reached, ShownOnceInOrder, NothingStaleShown
        <4> QED BY <1>2, <4>1, <4>2, <4>3 DEF IInv, CursorsPast, Past
      <3>6. CASE ~(seen # NoTime /\ stamp[e] <= seen)
        <4>1. seen' = stamp[e] /\ shown' = Append(shown, e) /\ conn' = conn
          BY <3>1, <3>6 DEF OnPaymentSettled, AddEvent
        <4>2. /\ shown \in Seq(Event) /\ DOMAIN shown = 1 .. Len(shown) /\ Len(shown) \in Nat
              /\ shown' \in Seq(Event) /\ DOMAIN shown' = 1 .. Len(shown) + 1
              /\ \A i \in DOMAIN shown : shown'[i] = shown[i] /\ shown[i] \in Event
              /\ shown'[Len(shown) + 1] = e
          BY <3>2, <4>1 DEF IInv, TypeOK
        <4>3. TypeOK'
          BY <1>1, <1>2, <3>3, <4>1, <4>2 DEF IInv, TypeOK
        <4>4. \A i \in DOMAIN shown : stamp[shown[i]] # NoTime /\ stamp[shown[i]] < stamp[e]
          BY <3>3, <3>6, <4>2 DEF IInv, Reached, TypeOK, NoTime
        <4>5. \A i \in DOMAIN shown' : i \in DOMAIN shown \/ i = Len(shown) + 1
          BY <4>2
        <4>6. Reached'
          BY <1>2, <3>3, <4>1, <4>2, <4>4, <4>5 DEF Reached, IInv, TypeOK
        <4>7. ShownOnceInOrder'
          <5> SUFFICES ASSUME NEW i \in DOMAIN shown', NEW j \in DOMAIN shown', i < j
                       PROVE  stamp[shown'[i]] < stamp[shown'[j]]
            BY <1>2 DEF ShownOnceInOrder
          <5>1. i \in DOMAIN shown
            BY <4>2, <4>5
          <5>2. CASE j \in DOMAIN shown
            BY <4>2, <5>1, <5>2 DEF IInv, ShownOnceInOrder
          <5>3. CASE j = Len(shown) + 1
            BY <4>2, <4>4, <5>1, <5>3
          <5> QED BY <4>5, <5>2, <5>3
        <4>8. NothingStaleShown'
          BY <1>2, <3>4, <4>2, <4>5 DEF IInv, NothingStaleShown
        <4> QED BY <1>2, <3>4, <4>1, <4>3, <4>6, <4>7, <4>8 DEF Past
      <3> QED BY <3>5, <3>6
    <2>3. CASE m.type = "reconnect"
      <3>1. OnReconnect
        BY <1>1, <2>3 DEF Deliver, m
      <3>2. TypeOK'
        BY <1>1, <1>2, <3>1 DEF IInv, TypeOK, OnReconnect
      <3>3. Reached' /\ ShownOnceInOrder' /\ NothingStaleShown'
        BY <1>2, <3>1 DEF IInv, Reached, ShownOnceInOrder, NothingStaleShown, OnReconnect
      <3> QED BY <1>2, <3>1, <3>2, <3>3 DEF IInv, CursorsPast, Past, OnReconnect
    <2> QED BY <1>1, <2>1, <2>2, <2>3 DEF Message
  <1>5. CursorsPast'
    <2>1. \A t : Past(t) => (latest' \in before' => stamp'[latest'] <= t)
      BY <1>2 DEF Past
    <2> QED BY <1>1, <1>2, <1>4 DEF IInv, CursorsPast, Past
  <1> QED BY <1>3, <1>4, <1>5 DEF IInv

-----------------------------------------------------------------------------
LEMMA NextIInv == IInv /\ [Next]_vars => IInv'
  <1> SUFFICES ASSUME IInv, [Next]_vars PROVE IInv'
    OBVIOUS
  <1>1. CASE UNCHANGED vars
    <2>1. TypeOK' /\ Stamped' /\ Reached'
      BY <1>1 DEF vars, IInv, TypeOK, Stamped, Written, Reached
    <2>2. ShownOnceInOrder' /\ NothingStaleShown' /\ CursorsPast'
      BY <1>1 DEF vars, IInv, ShownOnceInOrder, NothingStaleShown, CursorsPast, Past
    <2> QED BY <2>1, <2>2 DEF IInv
  <1>2. CASE Seller /\ UNCHANGED faults
    BY <1>2, TickIInv, StampIInv, PutEventIInv, ExpireIInv DEF Seller
  <1>3. CASE Stream /\ UNCHANGED faults
    BY <1>3, StreamReadIInv, StreamStartIInv, PollIInv, PlannedCloseIInv DEF Stream
  <1>4. CASE (Page \/ Break) /\ UNCHANGED faults
    BY <1>4, ConnectIInv, DeliverIInv DEF Page
  <1> QED BY <1>1, <1>2, <1>3, <1>4 DEF Next

\* The invariant behind the results on the feed.
THEOREM Invariance == Spec => []IInv
  BY InitIInv, NextIInv, PTL DEF Spec

\* The variables of stream and page keep their types.
THEOREM TypeCorrect == Spec => []TypeOK
  <1>1. IInv => TypeOK
    BY DEF IInv
  <1> QED BY <1>1, Invariance, PTL

\* demo.ts:26-30: over all streams, breaks and reconnects, with stale and failing
\* reads, each settlement is shown once, oldest first.
THEOREM EachShownOnce == Spec => []ShownOnceInOrder
  <1>1. IInv => ShownOnceInOrder
    BY DEF IInv
  <1> QED BY <1>1, Invariance, PTL

\* demo.ts:33-34: while reads are fresh, nothing stored before the page had its
\* first stream is shown as live.
THEOREM OnlyNewShown == Spec => []NothingStaleShown
  <1>1. IInv => NothingStaleShown
    BY DEF IInv
  <1> QED BY <1>1, Invariance, PTL

-----------------------------------------------------------------------------
(* The visit counters.  A counter shows no more than its visits that are   *)
(* over, and no fewer than those of them that overlapped no other.         *)

VisitTypes ==
    /\ load \in Workloads
    /\ pc \in [Visit -> {"new", "put", "done"}]
    /\ named \in [load.visits -> [source : Source \cup {Unlisted}, campaign : Campaign \cup {Unlisted}]]
    /\ read \in [Visit -> Nat]
    /\ held \in [Counter -> Seq(Nat)] /\ \A k \in Counter : held[k] # << >>
    /\ overlapped \subseteq load.visits

ReportTypes == left \subseteq Counter /\ total \in Nat /\ reports \in 0 .. MaxReports

LogTypes == log \in Seq(Receipt) /\ Len(log) <= LogMax /\ sales \in 0 .. load.sales

PageTypes == fetch \in [Fetch -> {Idle, Asked} \cup 0 .. sales] /\ table \in 0 .. sales

Types == VisitTypes /\ ReportTypes /\ LogTypes /\ PageTypes

\* Whatever a counter has held, or a visit has read of it, was a visit of it
\* that is over; the report has added no more than it has read.
Counts ==
    /\ \A k \in Counter : \A i \in DOMAIN held[k] : held[k][i] <= Cardinality(Done(k))
    /\ \A v \in load.visits : pc[v] = "put" => read[v] <= Cardinality(Done(CounterOf(v)))
    /\ total <= Cardinality({v \in load.visits : pc[v] = "done" /\ CounterOf(v) \notin left})

\* The visits of a counter that met no other; and what it must show at least:
\* these, and one of those that did, once one of them is over.
Serial(k) == Done(k) \ overlapped
Floor(k) == Cardinality(Serial(k)) + IF Done(k) \cap overlapped = {} THEN 0 ELSE 1

Losses ==
    load.faults = {} =>
        /\ \A k \in Counter : Floor(k) <= Last(held[k])
        /\ \A v \in load.visits : pc[v] = "put" =>
              /\ Cardinality(Serial(CounterOf(v))) <= read[v]
              /\ v \notin overlapped => Others(v) = {} /\ Floor(CounterOf(v)) <= read[v]

LEMMA LoadIs ==
    ASSUME load \in Workloads
    PROVE  /\ load.visits \in SUBSET Visit /\ IsFiniteSet(load.visits)
           /\ load.sales \in Nat /\ load.fetches \in SUBSET Fetch
           /\ load.faults \in SUBSET {"stale", "kv"}
  <1>1. /\ load.visits \in SUBSET Visit /\ load.sales \in Nat /\ load.fetches \in SUBSET Fetch
        /\ load.faults \in SUBSET {"stale", "kv"} /\ IsFiniteSet(Visit)
    BY ReportsAssumption
  <1> QED BY <1>1, FS_Subset

LEMMA CounterIs ==
    ASSUME VisitTypes, NEW v \in load.visits
    PROVE  CounterOf(v) \in Counter
  <1>1. /\ Clean(named[v].source, Source, Direct) \in Source
        /\ Clean(named[v].campaign, Campaign, NoCampaign) \in Campaign
    BY ReportsAssumption DEF Clean
  <1> QED BY <1>1 DEF CounterOf, Counter

LEMMA LastIs ==
    ASSUME VisitTypes, NEW k \in Counter
    PROVE  Len(held[k]) \in DOMAIN held[k] /\ Last(held[k]) = held[k][Len(held[k])] /\ Last(held[k]) \in Nat
  <1>1. held[k] \in Seq(Nat) /\ held[k] # << >>
    BY DEF VisitTypes
  <1> QED BY <1>1 DEF Last

\* A value that is read is one the counter has held; the last of them, unless
\* reads are stale.
LEMMA ReadableIs ==
    ASSUME VisitTypes, NEW k \in Counter, NEW n \in ReadableCounts(k)
    PROVE  /\ \E i \in DOMAIN held[k] : n = held[k][i]
           /\ n \in Nat
           /\ load.faults = {} => n = Last(held[k])
           /\ Last(held[k]) \in Nat /\ Len(held[k]) \in DOMAIN held[k]
  <1>1. held[k] \in Seq(Nat) /\ held[k] # << >>
    BY DEF VisitTypes
  <1>2. Len(held[k]) \in DOMAIN held[k] /\ Last(held[k]) = held[k][Len(held[k])]
    BY <1>1 DEF Last
  <1>3. \E i \in DOMAIN held[k] : n = held[k][i]
    BY <1>2 DEF ReadableCounts, Range
  <1> QED BY <1>1, <1>2, <1>3 DEF ReadableCounts

\* The counter a visit adds to has one value more, the others have none.
LEMMA PutIs ==
    ASSUME VisitTypes, NEW v \in load.visits, VisitPut(v)
    PROVE  /\ held' \in [Counter -> Seq(Nat)]
           /\ \A k \in Counter : held'[k] # << >>
           /\ \A k \in Counter \ {CounterOf(v)} : held'[k] = held[k]
           /\ Last(held'[CounterOf(v)]) = read[v] + 1
           /\ \A i \in DOMAIN held'[CounterOf(v)] :
                 \/ held'[CounterOf(v)][i] = read[v] + 1
                 \/ i \in DOMAIN held[CounterOf(v)] /\ held'[CounterOf(v)][i] = held[CounterOf(v)][i]
  <1> DEFINE k == CounterOf(v)
  <1>1. k \in Counter /\ held[k] \in Seq(Nat) /\ read[v] + 1 \in Nat
    BY CounterIs, LoadIs DEF VisitTypes
  <1>2. held' = [held EXCEPT ![k] = Append(held[k], read[v] + 1)]
    BY DEF VisitPut
  <1> HIDE DEF k
  <1> DEFINE s == Append(held[k], read[v] + 1)
  <1>3. held'[k] = s /\ \A j \in Counter \ {k} : held'[j] = held[j]
    BY <1>1, <1>2 DEF VisitTypes
  <1>4. s \in Seq(Nat) /\ s # << >> /\ Len(s) = Len(held[k]) + 1 /\ s[Len(s)] = read[v] + 1
    BY <1>1
  <1>5. \A i \in DOMAIN s : s[i] = read[v] + 1 \/ (i \in DOMAIN held[k] /\ s[i] = held[k][i])
    <2>1. DOMAIN held[k] = 1 .. Len(held[k]) /\ DOMAIN s = 1 .. (Len(held[k]) + 1)
      BY <1>1
    <2>2. s[Len(held[k]) + 1] = read[v] + 1
      BY <1>1
    <2>3. \A i \in 1 .. Len(held[k]) : s[i] = held[k][i]
      BY <1>1
    <2>4. \A i \in DOMAIN s : i = Len(held[k]) + 1 \/ i \in 1 .. Len(held[k])
      BY <1>1, <2>1
    <2> HIDE DEF s
    <2>5. ASSUME NEW i \in DOMAIN s
          PROVE  s[i] = read[v] + 1 \/ (i \in DOMAIN held[k] /\ s[i] = held[k][i])
      <3>1. CASE i = Len(held[k]) + 1
        BY <2>2, <3>1
      <3>2. CASE i \in 1 .. Len(held[k])
        BY <2>1, <2>3, <3>2
      <3> QED BY <2>4, <3>1, <3>2
    <2> QED BY <2>5
  <1>6. held' \in [Counter -> Seq(Nat)]
    BY <1>1, <1>2, <1>4 DEF VisitTypes
  <1>7. \A j \in Counter : held'[j] # << >>
    BY <1>3, <1>4 DEF VisitTypes
  <1> HIDE DEF s
  <1>8. Last(held'[k]) = read[v] + 1
    BY <1>3, <1>4 DEF Last
  <1> QED BY <1>3, <1>5, <1>6, <1>7, <1>8 DEF k

LEMMA NextVisitTypes ==
    ASSUME VisitTypes, [ReportsNext]_reportsVars
    PROVE  VisitTypes'
  <1> USE DEF VisitTypes
  <1>0. load.visits \in SUBSET Visit
    BY LoadIs
  <1>1. ASSUME NEW v \in load.visits, VisitGet(v) PROVE VisitTypes'
    <2>1. CounterOf(v) \in Counter
      BY CounterIs
    <2>2. PICK n \in ReadableCounts(CounterOf(v)) : read' = [read EXCEPT ![v] = n]
      BY <1>1 DEF VisitGet
    <2>3. n \in Nat
      BY <2>1, ReadableIs
    <2>4. overlapped' \subseteq load.visits
      BY <1>1 DEF VisitGet, Others
    <2> QED BY <1>0, <1>1, <2>2, <2>3, <2>4 DEF VisitGet
  <1>2. ASSUME NEW v \in load.visits, VisitPut(v) PROVE VisitTypes'
    <2>1. /\ load' = load /\ named' = named /\ read' = read /\ overlapped' = overlapped
          /\ pc' = [pc EXCEPT ![v] = "done"]
      BY <1>2 DEF VisitPut
    <2>2. held' \in [Counter -> Seq(Nat)] /\ \A k \in Counter : held'[k] # << >>
      BY <1>2, PutIs
    <2> QED BY <1>0, <2>1, <2>2
  <1>3. ASSUME NEW v \in load.visits, VisitFails(v) PROVE VisitTypes'
    BY <1>0, <1>3 DEF VisitFails
  <1>4. ASSUME UNCHANGED <<load, visits>> PROVE VisitTypes'
    BY <1>4 DEF visits
  <1>5. CASE \E r \in Receipt : Record(r)
    BY <1>4, <1>5 DEF Record
  <1>6. CASE ReportList \/ ReportFails \/ \E k \in Counter : ReportRead(k)
    BY <1>4, <1>6 DEF ReportList, ReportFails, ReportRead
  <1>7. CASE LoadReceipts \/ \E f \in Fetch : AnswerFetch(f) \/ RenderReceipts(f) \/ FetchFails(f)
    BY <1>4, <1>7 DEF LoadReceipts, AnswerFetch, RenderReceipts, FetchFails
  <1>8. CASE UNCHANGED reportsVars
    BY <1>4, <1>8 DEF reportsVars
  <1> QED BY <1>1, <1>2, <1>3, <1>5, <1>6, <1>7, <1>8 DEF ReportsNext

LEMMA NextOtherTypes ==
    ASSUME Types, [ReportsNext]_reportsVars
    PROVE  ReportTypes' /\ PageTypes' /\ (sales \in 0 .. load.sales)'
  <1> USE DEF Types, ReportTypes, PageTypes
  <1>0. load.sales \in Nat /\ load.fetches \in SUBSET Fetch /\ sales \in 0 .. load.sales /\ MaxReports \in Nat
    BY LoadIs, ReportsAssumption DEF VisitTypes, LogTypes
  <1>1. CASE \E r \in Receipt : Record(r)
    <2>1. /\ sales' = sales + 1 /\ sales < load.sales /\ load' = load
          /\ UNCHANGED <<report, page>>
      BY <1>1 DEF Record
    <2>2. 0 .. sales \subseteq 0 .. sales'
      BY <1>0, <2>1
    <2> QED BY <1>0, <2>1, <2>2 DEF report, page
  <1>2. CASE \E v \in load.visits : VisitGet(v) \/ VisitPut(v) \/ VisitFails(v)
    BY <1>0, <1>2 DEF VisitGet, VisitPut, VisitFails, report, page
  <1>3. CASE ReportList
    BY <1>0, <1>3 DEF ReportList, page
  <1>4. CASE ReportFails
    BY <1>0, <1>4 DEF ReportFails, page
  <1>5. ASSUME NEW k \in Counter, ReportRead(k) PROVE ReportTypes' /\ PageTypes' /\ (sales \in 0 .. load.sales)'
    <2>1. PICK n \in ReadableCounts(k) : total' = total + n
      BY <1>5 DEF ReportRead
    <2>2. n \in Nat
      BY ReadableIs
    <2> QED BY <1>0, <1>5, <2>1, <2>2 DEF ReportRead, page
  <1>6. CASE LoadReceipts
    BY <1>0, <1>6 DEF LoadReceipts, report
  <1>7. ASSUME NEW f \in Fetch, AnswerFetch(f) PROVE ReportTypes' /\ PageTypes' /\ (sales \in 0 .. load.sales)'
    <2>1. PICK n \in 0 .. sales : fetch' = [fetch EXCEPT ![f] = n]
      <3>1. CASE "stale" \in load.faults
        BY <1>7, <3>1 DEF AnswerFetch
      <3>2. CASE "stale" \notin load.faults
        <4>1. sales \in 0 .. sales
          BY <1>0
        <4>2. fetch' = [fetch EXCEPT ![f] = sales]
          BY <1>7, <3>2 DEF AnswerFetch
        <4> QED BY <4>1, <4>2
      <3> QED BY <3>1, <3>2
    <2> QED BY <1>0, <1>7, <2>1 DEF AnswerFetch, report
  <1>8. ASSUME NEW f \in Fetch, RenderReceipts(f) PROVE ReportTypes' /\ PageTypes' /\ (sales \in 0 .. load.sales)'
    <2>1. fetch[f] \in 0 .. sales
      BY <1>8 DEF RenderReceipts, Idle, Asked
    <2> QED BY <1>0, <1>8, <2>1 DEF RenderReceipts, report
  <1>9. ASSUME NEW f \in Fetch, FetchFails(f) PROVE ReportTypes' /\ PageTypes' /\ (sales \in 0 .. load.sales)'
    BY <1>0, <1>9 DEF FetchFails, report
  <1>10. CASE UNCHANGED reportsVars
    BY <1>0, <1>10 DEF reportsVars, report, page
  <1> QED BY <1>1, <1>2, <1>3, <1>4, <1>5, <1>6, <1>7, <1>8, <1>9, <1>10 DEF ReportsNext

\* The log is a sequence of receipts, no longer than it may be.
LEMMA NextLogTypes ==
    ASSUME Types, [ReportsNext]_reportsVars
    PROVE  log' \in Seq(Receipt) /\ Len(log') <= LogMax
  <1>0. log \in Seq(Receipt) /\ Len(log) <= LogMax /\ LogMax \in Nat \ {0}
    BY ReportsAssumption DEF Types, LogTypes
  <1>1. ASSUME NEW r \in Receipt, Record(r) PROVE log' \in Seq(Receipt) /\ Len(log') <= LogMax
    <2> DEFINE longer == <<r>> \o log
               n == IF Len(log) >= LogMax THEN LogMax ELSE Len(log) + 1
    <2>1. longer \in Seq(Receipt) /\ Len(longer) = Len(log) + 1
      BY <1>0
    <2>2. n \in Nat /\ n <= Len(longer) /\ n <= LogMax
      BY <1>0, <2>1
    <2>3. log' = SubSeq(longer, 1, n)
      BY <1>1 DEF Record
    <2> HIDE DEF longer, n
    <2>4. SubSeq(longer, 1, n) \in Seq(Receipt) /\ Len(SubSeq(longer, 1, n)) = n
      BY <2>1, <2>2
    <2> QED BY <2>2, <2>3, <2>4
  <1>2. ASSUME log' = log PROVE log' \in Seq(Receipt) /\ Len(log') <= LogMax
    BY <1>0, <1>2
  <1> QED BY <1>1, <1>2 DEF ReportsNext, reportsVars, VisitGet, VisitPut, VisitFails, ReportList, ReportFails, ReportRead,
             LoadReceipts, AnswerFetch, RenderReceipts, FetchFails

LEMMA NextTypes == Types /\ [ReportsNext]_reportsVars => Types'
  BY NextVisitTypes, NextOtherTypes, NextLogTypes DEF Types, LogTypes

LEMMA InitTypes == ReportsInit => Types
  <1> SUFFICES ASSUME ReportsInit PROVE Types
    OBVIOUS
  <1>1. load \in Workloads /\ load.sales \in Nat /\ LogMax \in Nat
    BY LoadIs, ReportsAssumption DEF ReportsInit
  <1>2. VisitTypes
    <2>1. <<0>> \in Seq(Nat) /\ <<0>> # << >>
      OBVIOUS
    <2> QED BY <1>1, <2>1 DEF ReportsInit, VisitTypes
  <1>3. ReportTypes /\ PageTypes
    BY ReportsAssumption DEF ReportsInit, ReportTypes, PageTypes
  <1>4. LogTypes
    <2>1. << >> \in Seq(Receipt) /\ Len(<< >>) = 0
      OBVIOUS
    <2> QED BY <1>1, <2>1 DEF ReportsInit, LogTypes
  <1> QED BY <1>2, <1>3, <1>4 DEF Types

\* The visits that are over, of counter k, of all counters but those left to
\* read; as far as a step leaves the visits alone they stay the same.
DoneIn(K) == {v \in load.visits : pc[v] = "done" /\ CounterOf(v) \in K}

LEMMA DoneIs ==
    ASSUME VisitTypes
    PROVE  /\ \A k : IsFiniteSet(Done(k)) /\ Cardinality(Done(k)) \in Nat
           /\ \A K : IsFiniteSet(DoneIn(K)) /\ Cardinality(DoneIn(K)) \in Nat
           /\ {v \in load.visits : pc[v] = "done" /\ CounterOf(v) \notin left} = DoneIn(Counter \ left)
           /\ DoneIn(Counter) = {v \in load.visits : pc[v] = "done"}
  <1>1. IsFiniteSet(load.visits)
    BY LoadIs DEF VisitTypes
  <1>2. \A S \in SUBSET load.visits : IsFiniteSet(S) /\ Cardinality(S) \in Nat
    BY <1>1, FS_Subset, FS_CardinalityType
  <1>3. /\ \A k : Done(k) \in SUBSET load.visits
        /\ \A K : DoneIn(K) \in SUBSET load.visits
    BY DEF Done, DoneIn
  <1>4. \A v \in load.visits : CounterOf(v) \in Counter
    BY CounterIs
  <1> QED BY <1>2, <1>3, <1>4 DEF DoneIn

LEMMA VisitsStay ==
    ASSUME UNCHANGED <<load, visits>>
    PROVE  /\ \A v : CounterOf(v)' = CounterOf(v)
           /\ \A k : Done(k)' = Done(k)
           /\ \A K : DoneIn(K)' = DoneIn(K)
           /\ \A v : Others(v)' = Others(v)
           /\ UNCHANGED <<load, pc, read, held, overlapped>>
  BY DEF visits, CounterOf, Done, DoneIn, Others

\* A visit is over: it is one more of its counter.
LEMMA DoneMore ==
    ASSUME VisitTypes, NEW v \in load.visits, pc[v] # "done", pc' = [pc EXCEPT ![v] = "done"],
           UNCHANGED <<load, named>>, NEW k, k = CounterOf(v)
    PROVE  /\ \A w : CounterOf(w)' = CounterOf(w)
           /\ k \in Counter /\ v \notin Done(k)
           /\ Done(k)' = Done(k) \cup {v}
           /\ \A j \in Counter \ {k} : Done(j)' = Done(j)
           /\ \A K : DoneIn(K) \subseteq DoneIn(K)'
           /\ \A w \in load.visits \ {v} : pc'[w] = pc[w]
           /\ pc'[v] = "done"
  <1>1. \A w : CounterOf(w)' = CounterOf(w)
    BY DEF CounterOf
  <1>2. v \in Visit /\ load.visits \in SUBSET Visit /\ k \in Counter
    BY LoadIs, CounterIs DEF VisitTypes
  <1>3. pc'[v] = "done" /\ \A w \in load.visits \ {v} : pc'[w] = pc[w]
    BY <1>2 DEF VisitTypes
  <1>4. Done(k)' = Done(k) \cup {v}
    BY <1>1, <1>3 DEF Done
  <1>5. \A j \in Counter \ {k} : Done(j)' = Done(j)
    BY <1>1, <1>3 DEF Done
  <1>6. \A K : DoneIn(K) \subseteq DoneIn(K)'
    BY <1>1, <1>3 DEF DoneIn
  <1> QED BY <1>1, <1>2, <1>3, <1>4, <1>5, <1>6 DEF Done

LEMMA NextCounts ==
    ASSUME Types, Counts, [ReportsNext]_reportsVars
    PROVE  Counts'
  <1>0. VisitTypes /\ ReportTypes /\ VisitTypes' /\ ReportTypes'
    BY NextTypes DEF Types
  <1> DEFINE Sum == total <= Cardinality(DoneIn(Counter \ left))
  <1>1. /\ \A k : IsFiniteSet(Done(k)) /\ Cardinality(Done(k)) \in Nat
        /\ \A K : IsFiniteSet(DoneIn(K)) /\ Cardinality(DoneIn(K)) \in Nat
        /\ Sum
    BY <1>0, DoneIs DEF Counts
  <1>2. /\ \A k : IsFiniteSet(Done(k)') /\ Cardinality(Done(k)') \in Nat
        /\ \A K : IsFiniteSet(DoneIn(K)') /\ Cardinality(DoneIn(K)') \in Nat
        /\ {v \in load.visits : pc[v] = "done" /\ CounterOf(v) \notin left}' = DoneIn(Counter \ left)'
    <2>1. IsFiniteSet(load'.visits) /\ load'.visits \subseteq Visit
      BY <1>0, ReportsAssumption, FS_Subset DEF VisitTypes
    <2>2. \A S \in SUBSET load'.visits : IsFiniteSet(S) /\ Cardinality(S) \in Nat
      BY <2>1, FS_Subset, FS_CardinalityType
    <2>3. /\ \A k : Done(k)' \in SUBSET load'.visits
          /\ \A K : DoneIn(K)' \in SUBSET load'.visits
      BY DEF Done, DoneIn
    <2>4. \A v \in load'.visits : CounterOf(v)' \in Counter
      <3>1. \A v \in load'.visits :
               /\ Clean(named'[v].source, Source, Direct) \in Source
               /\ Clean(named'[v].campaign, Campaign, NoCampaign) \in Campaign
        BY ReportsAssumption DEF Clean
      <3> QED BY <3>1 DEF CounterOf, Counter
    <2> QED BY <2>2, <2>3, <2>4 DEF DoneIn
  \* A step that leaves the visits alone adds up no more than it has read.
  <1>3. ASSUME UNCHANGED <<load, visits>>, Sum' PROVE Counts'
    <2>1. /\ \A v : CounterOf(v)' = CounterOf(v)
          /\ \A k : Done(k)' = Done(k)
          /\ UNCHANGED <<load, pc, read, held>>
      BY <1>3, VisitsStay
    <2> QED BY <1>2, <1>3, <2>1 DEF Counts
  <1>4. CASE \E r \in Receipt : Record(r)
    <2>1. UNCHANGED <<load, visits, total, left>>
      BY <1>4 DEF Record, report
    <2> QED BY <1>1, <1>3, <2>1, VisitsStay
  <1>5. CASE LoadReceipts \/ \E f \in Fetch : AnswerFetch(f) \/ RenderReceipts(f) \/ FetchFails(f)
    <2>1. UNCHANGED <<load, visits, total, left>>
      BY <1>5 DEF LoadReceipts, AnswerFetch, RenderReceipts, FetchFails, report
    <2> QED BY <1>1, <1>3, <2>1, VisitsStay
  <1>6. CASE UNCHANGED reportsVars
    <2>1. UNCHANGED <<load, visits, total, left>>
      BY <1>6 DEF reportsVars, report
    <2> QED BY <1>1, <1>3, <2>1, VisitsStay
  <1>7. CASE ReportList \/ ReportFails
    <2>1. UNCHANGED <<load, visits>> /\ total' = 0
      BY <1>7 DEF ReportList, ReportFails
    <2>2. Sum'
      BY <1>2, <2>1
    <2> QED BY <1>3, <2>1, <2>2
  <1>8. ASSUME NEW k \in Counter, ReportRead(k) PROVE Counts'
    <2>1. PICK n \in ReadableCounts(k) : total' = total + n
      BY <1>8 DEF ReportRead
    <2>2. UNCHANGED <<load, visits>> /\ k \in left /\ left' = left \ {k}
      BY <1>8 DEF ReportRead
    <2>3. n <= Cardinality(Done(k)) /\ n \in Nat
      BY <1>0, ReadableIs DEF Counts
    <2> DEFINE A == DoneIn(Counter \ left)
    <2>4. DoneIn(Counter \ left)' = A \cup Done(k) /\ A \cap Done(k) = {}
      <3>1. DoneIn(Counter \ left)' = DoneIn(Counter \ left')
        BY <2>2, VisitsStay
      <3> QED BY <2>2, <3>1 DEF DoneIn, Done
    <2>5. Cardinality(A \cup Done(k)) = Cardinality(A) + Cardinality(Done(k))
      <3>1. IsFiniteSet(A) /\ IsFiniteSet(Done(k))
        BY <1>1
      <3> HIDE DEF A
      <3>2. Cardinality(A \cup Done(k)) = Cardinality(A) + Cardinality(Done(k)) - Cardinality(A \cap Done(k))
        BY <3>1, FS_Union
      <3>3. A \cap Done(k) = {} /\ Cardinality({}) = 0
        BY <2>4, FS_EmptySet
      <3>4. Cardinality(A) \in Nat /\ Cardinality(Done(k)) \in Nat
        BY <3>1, FS_CardinalityType
      <3>5. Cardinality(A \cap Done(k)) = 0
        BY <3>3
      <3> QED BY <3>2, <3>4, <3>5
    <2>6. total \in Nat /\ Cardinality(A) \in Nat /\ Cardinality(Done(k)) \in Nat /\ total <= Cardinality(A)
      BY <1>0, <1>1 DEF ReportTypes
    <2>7. Cardinality(DoneIn(Counter \ left)') = Cardinality(A) + Cardinality(Done(k))
      BY <2>4, <2>5
    <2>8. Sum'
      <3> HIDE DEF A
      <3> QED BY <2>1, <2>3, <2>6, <2>7
    <2> QED BY <1>3, <2>2, <2>8
  <1>9. ASSUME NEW v \in load.visits, VisitGet(v) PROVE Counts'
    <2>1. CounterOf(v) \in Counter /\ v \in Visit
      BY <1>0, CounterIs, LoadIs DEF VisitTypes
    <2>2. PICK n \in ReadableCounts(CounterOf(v)) : read' = [read EXCEPT ![v] = n]
      BY <1>9 DEF VisitGet
    <2>3. n <= Cardinality(Done(CounterOf(v)))
      BY <1>0, <2>1, ReadableIs DEF Counts
    <2>4. /\ pc[v] = "new" /\ pc' = [pc EXCEPT ![v] = "put"]
          /\ UNCHANGED <<load, named, held, total, left>>
      BY <1>9 DEF VisitGet, report
    <2>5. /\ \A w : CounterOf(w)' = CounterOf(w)
          /\ \A w \in load.visits \ {v} : pc'[w] = pc[w] /\ read'[w] = read[w]
          /\ pc'[v] = "put" /\ read'[v] = n
      BY <1>0, <2>1, <2>2, <2>4, LoadIs DEF CounterOf, VisitTypes
    <2>6. /\ \A k : Done(k)' = Done(k)
          /\ \A K : DoneIn(K)' = DoneIn(K)
      BY <2>4, <2>5 DEF Done, DoneIn
    <2>7. DoneIn(Counter \ left)' = DoneIn(Counter \ left)
      BY <2>4, <2>5 DEF DoneIn
    <2>8. Sum'
      BY <1>1, <2>4, <2>7
    <2> QED BY <1>2, <2>3, <2>4, <2>5, <2>6, <2>8 DEF Counts
  <1>10. ASSUME NEW v \in load.visits, pc[v] # "done", pc' = [pc EXCEPT ![v] = "done"],
                UNCHANGED <<load, named, read, report>>,
                \A k \in Counter : \A i \in DOMAIN held'[k] :
                   \/ i \in DOMAIN held[k] /\ held'[k][i] = held[k][i]
                   \/ k = CounterOf(v) /\ pc[v] = "put" /\ held'[k][i] = read[v] + 1
         PROVE  Counts'
    <2>0. PICK k : k = CounterOf(v)
      OBVIOUS
    <2>1. /\ \A w : CounterOf(w)' = CounterOf(w)
          /\ k \in Counter /\ v \notin Done(k)
          /\ Done(k)' = Done(k) \cup {v}
          /\ \A j \in Counter \ {k} : Done(j)' = Done(j)
          /\ \A K : DoneIn(K) \subseteq DoneIn(K)'
          /\ \A w \in load.visits \ {v} : pc'[w] = pc[w]
          /\ pc'[v] = "done"
      BY <1>0, <1>10, <2>0, DoneMore
    <2>2. Cardinality(Done(k)') = Cardinality(Done(k)) + 1
      BY <1>1, <2>1, FS_AddElement
    <2>3. \A j \in Counter : /\ Cardinality(Done(j)) <= Cardinality(Done(j)')
                             /\ Cardinality(Done(j)) \in Nat /\ Cardinality(Done(j)') \in Nat
      <3> SUFFICES ASSUME NEW j \in Counter
                   PROVE  /\ Cardinality(Done(j)) <= Cardinality(Done(j)')
                          /\ Cardinality(Done(j)) \in Nat /\ Cardinality(Done(j)') \in Nat
        OBVIOUS
      <3>1. Cardinality(Done(j)) \in Nat /\ Cardinality(Done(j)') \in Nat
        BY <1>1, <1>2
      <3>2. CASE j = k
        <4>1. Cardinality(Done(j)') = Cardinality(Done(j)) + 1
          BY <2>2, <3>2
        <4> QED BY <3>1, <4>1
      <3>3. CASE j # k
        BY <2>1, <3>1, <3>3
      <3> QED BY <3>2, <3>3
    <2>4. \A w \in load.visits : CounterOf(w) \in Counter
      BY <1>0, CounterIs
    <2>5. Sum'
      <3>1. DoneIn(Counter \ left) \subseteq DoneIn(Counter \ left)'
        BY <1>10, <2>1 DEF DoneIn, report
      <3>2. Cardinality(DoneIn(Counter \ left)) <= Cardinality(DoneIn(Counter \ left)')
        BY <1>2, <3>1, FS_Subset
      <3>3. total' = total /\ total \in Nat
        BY <1>0, <1>10 DEF report, ReportTypes
      <3> QED BY <1>1, <1>2, <3>2, <3>3
    <2>6. ASSUME NEW j \in Counter, NEW i \in DOMAIN held'[j]
          PROVE  held'[j][i] <= Cardinality(Done(j)')
      <3>1. CASE i \in DOMAIN held[j] /\ held'[j][i] = held[j][i]
        <4>1. held[j][i] \in Nat /\ held[j][i] <= Cardinality(Done(j))
          BY <1>0, <3>1 DEF VisitTypes, Counts
        <4> QED BY <2>3, <3>1, <4>1
      <3>2. CASE j = k /\ pc[v] = "put" /\ held'[j][i] = read[v] + 1
        <4>1. read[v] \in Nat /\ read[v] <= Cardinality(Done(k))
          BY <1>0, <2>0, <3>2, LoadIs DEF VisitTypes, Counts
        <4>2. Cardinality(Done(j)') = Cardinality(Done(j)) + 1 /\ Cardinality(Done(j)) \in Nat
          BY <2>2, <2>3, <3>2
        <4>3. read[v] + 1 <= Cardinality(Done(j)')
          BY <3>2, <4>1, <4>2
        <4> QED BY <3>2, <4>3
      <3> QED BY <1>10, <2>0, <3>1, <3>2
    <2>7. ASSUME NEW w \in load.visits, pc'[w] = "put"
          PROVE  read[w] <= Cardinality(Done(CounterOf(w))')
      <3>1. w # v /\ pc[w] = "put"
        BY <2>1, <2>7
      <3>2. PICK j \in Counter : j = CounterOf(w)
        BY <2>4
      <3>3. read[w] \in Nat /\ read[w] <= Cardinality(Done(j))
        BY <1>0, <3>1, <3>2, LoadIs DEF VisitTypes, Counts
      <3>4. read[w] <= Cardinality(Done(j)')
        BY <2>3, <3>3
      <3> QED BY <2>1, <3>2, <3>4
    <2> QED BY <1>2, <1>10, <2>1, <2>5, <2>6, <2>7 DEF Counts
  <1>11. ASSUME NEW v \in load.visits, VisitPut(v) PROVE Counts'
    <2>1. \A k \in Counter : \A i \in DOMAIN held'[k] :
             \/ i \in DOMAIN held[k] /\ held'[k][i] = held[k][i]
             \/ k = CounterOf(v) /\ pc[v] = "put" /\ held'[k][i] = read[v] + 1
      BY <1>0, <1>11, PutIs DEF VisitPut
    <2> QED BY <1>10, <1>11, <2>1 DEF VisitPut
  <1>12. ASSUME NEW v \in load.visits, VisitFails(v) PROVE Counts'
    BY <1>10, <1>12 DEF VisitFails
  <1> QED BY <1>4, <1>5, <1>6, <1>7, <1>8, <1>9, <1>11, <1>12 DEF ReportsNext

LEMMA FloorIs ==
    ASSUME VisitTypes
    PROVE  \A k : /\ IsFiniteSet(Serial(k)) /\ Cardinality(Serial(k)) \in Nat
                  /\ Floor(k) \in Nat /\ Cardinality(Serial(k)) <= Floor(k)
  <1>1. \A k : IsFiniteSet(Serial(k)) /\ Cardinality(Serial(k)) \in Nat
    BY DoneIs, FS_Subset, FS_CardinalityType DEF Serial
  <1> QED BY <1>1 DEF Floor

LEMMA NextLosses ==
    ASSUME Types, Losses, [ReportsNext]_reportsVars
    PROVE  Losses'
  <1>0. VisitTypes
    BY DEF Types
  <1> SUFFICES ASSUME load'.faults = {} PROVE Losses'
    BY DEF Losses
  <1>1. load' = load /\ load.faults = {}
    BY DEF ReportsNext, reportsVars, Record, VisitGet, VisitPut, VisitFails, ReportList, ReportFails, ReportRead,
           LoadReceipts, AnswerFetch, RenderReceipts, FetchFails
  <1>2. /\ \A k \in Counter : Floor(k) <= Last(held[k])
        /\ \A v \in load.visits : pc[v] = "put" =>
              /\ Cardinality(Serial(CounterOf(v))) <= read[v]
              /\ v \notin overlapped => Others(v) = {} /\ Floor(CounterOf(v)) <= read[v]
    BY <1>1 DEF Losses
  <1>3. load.visits \in SUBSET Visit /\ \A v \in load.visits : CounterOf(v) \in Counter /\ read[v] \in Nat
    BY <1>0, LoadIs, CounterIs DEF VisitTypes
  <1>4. \A k : /\ IsFiniteSet(Serial(k)) /\ Cardinality(Serial(k)) \in Nat
               /\ Floor(k) \in Nat /\ Cardinality(Serial(k)) <= Floor(k)
    BY <1>0, FloorIs
  <1>5. ASSUME UNCHANGED <<load, visits>> PROVE Losses'
    <2>1. /\ \A v : CounterOf(v)' = CounterOf(v)
          /\ \A k : Done(k)' = Done(k)
          /\ \A v : Others(v)' = Others(v)
          /\ UNCHANGED <<load, pc, read, held, overlapped>>
      BY <1>5, VisitsStay
    <2>2. \A k : Serial(k)' = Serial(k) /\ Floor(k)' = Floor(k)
      BY <2>1 DEF Serial, Floor
    <2> QED BY <1>2, <2>1, <2>2 DEF Losses
  <1>6. CASE \E r \in Receipt : Record(r)
    BY <1>5, <1>6 DEF Record
  <1>7. CASE ReportList \/ ReportFails \/ \E k \in Counter : ReportRead(k)
    BY <1>5, <1>7 DEF ReportList, ReportFails, ReportRead
  <1>8. CASE LoadReceipts \/ \E f \in Fetch : AnswerFetch(f) \/ RenderReceipts(f) \/ FetchFails(f)
    BY <1>5, <1>8 DEF LoadReceipts, AnswerFetch, RenderReceipts, FetchFails
  <1>9. CASE UNCHANGED reportsVars
    BY <1>5, <1>9 DEF reportsVars
  \* A visit that reads makes those that have read, and have still to write, and
  \* itself overlap; what it reads shows the floor.
  <1>10. ASSUME NEW v \in load.visits, VisitGet(v) PROVE Losses'
    <2>1. PICK k \in Counter : k = CounterOf(v)
      BY <1>3
    <2>2. read' = [read EXCEPT ![v] = Last(held[k])]
      BY <1>0, <1>1, <1>10, <2>1, ReadableIs DEF VisitGet
    <2>3. /\ pc[v] = "new" /\ pc' = [pc EXCEPT ![v] = "put"]
          /\ overlapped' = IF Others(v) = {} THEN overlapped ELSE overlapped \cup Others(v) \cup {v}
          /\ UNCHANGED <<load, named, held>>
      BY <1>10 DEF VisitGet
    <2>4. /\ \A w : CounterOf(w)' = CounterOf(w)
          /\ \A w \in load.visits \ {v} : pc'[w] = pc[w] /\ read'[w] = read[w]
          /\ pc'[v] = "put" /\ read'[v] = Last(held[k])
      BY <1>0, <1>3, <2>2, <2>3 DEF CounterOf, VisitTypes
    <2>5. \A j : Done(j)' = Done(j) /\ Done(j) \cap overlapped' = Done(j) \cap overlapped
      BY <2>3, <2>4 DEF Done, Others
    <2>6. \A j : Serial(j)' = Serial(j) /\ Floor(j)' = Floor(j)
      <3> SUFFICES ASSUME NEW j PROVE Serial(j)' = Serial(j) /\ Floor(j)' = Floor(j)
        OBVIOUS
      <3>1. Serial(j)' = Serial(j)
        BY <2>5 DEF Serial
      <3> QED BY <2>5, <3>1 DEF Floor
    <2>7. \A w \in load.visits : w # v /\ w \notin overlapped' /\ pc'[w] = "put" => CounterOf(w) # k
      BY <2>1, <2>3, <2>4 DEF Others
    <2>8. /\ Others(v)' = Others(v)
          /\ \A w \in load.visits : w # v /\ CounterOf(w) # k => Others(w)' = Others(w)
      BY <2>1, <2>3, <2>4 DEF Others
    <2>9. \A w \in load.visits : w # v /\ w \notin overlapped' => w \notin overlapped
      BY <2>3
    <2>10. v \notin overlapped' => Others(v) = {}
      BY <2>3
    <2>11. ASSUME NEW w \in load.visits, pc'[w] = "put"
           PROVE  /\ Cardinality(Serial(CounterOf(w))) <= read'[w]
                  /\ w \notin overlapped' => Others(w)' = {} /\ Floor(CounterOf(w)) <= read'[w]
      <3>1. CASE w = v
        <4>1. Floor(k) <= Last(held[k]) /\ Last(held[k]) \in Nat
          BY <1>2, <2>2, <1>0, LastIs
        <4>2. Cardinality(Serial(k)) <= Last(held[k])
          BY <1>4, <4>1
        <4> QED BY <2>1, <2>4, <2>8, <2>10, <3>1, <4>1, <4>2
      <3>2. CASE w # v
        BY <1>2, <2>4, <2>7, <2>8, <2>9, <2>11, <3>2
      <3> QED BY <3>1, <3>2
    <2> QED BY <1>2, <2>3, <2>4, <2>6, <2>11 DEF Losses
  \* A visit that writes is one more of the floor, or the first that met others.
  <1>11. ASSUME NEW v \in load.visits, VisitPut(v) PROVE Losses'
    <2>1. PICK k \in Counter : k = CounterOf(v)
      BY <1>3
    <2>2. /\ pc[v] = "put" /\ pc' = [pc EXCEPT ![v] = "done"]
          /\ UNCHANGED <<load, named, read, overlapped>>
      BY <1>11 DEF VisitPut
    <2>3. /\ \A j \in Counter \ {k} : held'[j] = held[j]
          /\ Last(held'[k]) = read[v] + 1
      BY <1>0, <1>11, <2>1, PutIs
    <2>4. /\ \A w : CounterOf(w)' = CounterOf(w)
          /\ v \notin Done(k) /\ Done(k)' = Done(k) \cup {v}
          /\ \A j \in Counter \ {k} : Done(j)' = Done(j)
          /\ \A w \in load.visits \ {v} : pc'[w] = pc[w]
          /\ pc'[v] = "done"
      BY <1>0, <2>1, <2>2, DoneMore
    <2>5. \A j \in Counter \ {k} : Serial(j)' = Serial(j) /\ Floor(j)' = Floor(j)
      BY <2>2, <2>4 DEF Serial, Floor
    <2>6. /\ Cardinality(Serial(k)) <= read[v]
          /\ v \notin overlapped => Others(v) = {} /\ Floor(k) <= read[v]
      BY <1>2, <2>1, <2>2
    <2>7. CASE v \in overlapped
      <3>1. Serial(k)' = Serial(k)
        BY <2>2, <2>4, <2>7 DEF Serial
      <3>2. Floor(k)' <= read[v] + 1
        <4>1. Floor(k)' = Cardinality(Serial(k)) + 1
          BY <2>2, <2>4, <2>7, <3>1 DEF Floor
        <4> QED BY <1>3, <1>4, <2>6, <4>1
      <3>3. ASSUME NEW w \in load.visits, pc'[w] = "put"
            PROVE  /\ Cardinality(Serial(CounterOf(w))') <= read[w]
                   /\ w \notin overlapped => Others(w)' = {} /\ Floor(CounterOf(w))' <= read[w]
        <4>1. w # v /\ pc[w] = "put"
          BY <2>4, <3>3
        <4>2. PICK j \in Counter : j = CounterOf(w)
          BY <1>3
        <4>3. /\ Cardinality(Serial(j)) <= read[w]
              /\ w \notin overlapped => Others(w) = {} /\ Floor(j) <= read[w]
          BY <1>2, <4>1, <4>2
        <4>4. Serial(j)' = Serial(j)
          BY <2>5, <3>1
        <4>5. w \notin overlapped => j # k
          BY <2>1, <2>2, <4>1, <4>2, <4>3 DEF Others
        <4>6. Others(w)' \subseteq Others(w)
          BY <2>2, <2>4 DEF Others
        <4>7. w \notin overlapped => Others(w)' = {} /\ Floor(j)' <= read[w]
          BY <2>5, <4>3, <4>5, <4>6
        <4> QED BY <2>4, <4>2, <4>3, <4>4, <4>7
      <3>4. \A j \in Counter : Floor(j)' <= Last(held'[j])
        BY <1>2, <2>3, <2>5, <3>2
      <3> QED BY <2>2, <2>4, <3>3, <3>4 DEF Losses
    <2>8. CASE v \notin overlapped
      <3>1. Serial(k)' = Serial(k) \cup {v} /\ v \notin Serial(k)
        BY <2>2, <2>4, <2>8 DEF Serial
      <3>2. Cardinality(Serial(k)') = Cardinality(Serial(k)) + 1
        BY <1>4, <3>1, FS_AddElement
      <3>3. Floor(k)' = Floor(k) + 1
        <4>1. Done(k)' \cap overlapped' = Done(k) \cap overlapped
          BY <2>2, <2>4, <2>8
        <4> QED BY <1>4, <3>2, <4>1 DEF Floor
      <3>4. ASSUME NEW w \in load.visits, pc'[w] = "put"
            PROVE  /\ Cardinality(Serial(CounterOf(w))') <= read[w]
                   /\ w \notin overlapped => Others(w)' = {} /\ Floor(CounterOf(w))' <= read[w]
        <4>1. w # v /\ pc[w] = "put"
          BY <2>4, <3>4
        <4>2. PICK j \in Counter : j = CounterOf(w)
          BY <1>3
        <4>3. j # k
          BY <2>1, <2>6, <2>8, <4>1, <4>2 DEF Others
        <4>4. Serial(j)' = Serial(j) /\ Floor(j)' = Floor(j)
          BY <2>5, <4>3
        <4>5. Others(w)' \subseteq Others(w)
          BY <2>2, <2>4 DEF Others
        <4>6. /\ Cardinality(Serial(j)) <= read[w]
              /\ w \notin overlapped => Others(w) = {} /\ Floor(j) <= read[w]
          BY <1>2, <4>1, <4>2
        <4> QED BY <2>4, <4>2, <4>4, <4>5, <4>6
      <3>5. \A j \in Counter : Floor(j)' <= Last(held'[j])
        <4>1. Floor(k)' <= Last(held'[k])
          BY <1>3, <1>4, <2>3, <2>6, <2>8, <3>3
        <4> QED BY <1>2, <2>3, <2>5, <4>1
      <3> QED BY <2>2, <2>4, <3>4, <3>5 DEF Losses
    <2> QED BY <2>7, <2>8
  <1>12. ASSUME NEW v \in load.visits, VisitFails(v) PROVE FALSE
    BY <1>1, <1>12 DEF VisitFails
  <1> QED BY <1>6, <1>7, <1>8, <1>9, <1>10, <1>11, <1>12 DEF ReportsNext

LEMMA InitCounting == ReportsInit => Counts /\ Losses
  <1> SUFFICES ASSUME ReportsInit PROVE Counts /\ Losses
    OBVIOUS
  <1>0. VisitTypes
    BY InitTypes DEF Types
  <1>1. /\ \A k \in Counter : Last(held[k]) = 0 /\ \A i \in DOMAIN held[k] : held[k][i] = 0
        /\ \A v \in load.visits : pc[v] # "put" /\ pc[v] # "done"
    <2>1. \A k \in Counter : held[k] = <<0>>
      BY DEF ReportsInit
    <2>2. Last(<<0>>) = 0 /\ \A i \in DOMAIN <<0>> : <<0>>[i] = 0
      BY DEF Last
    <2> QED BY <1>0, <2>1, <2>2, LoadIs DEF ReportsInit, VisitTypes
  <1>2. \A k : Done(k) = {}
    BY <1>1 DEF Done
  <1>3. Counts
    <2>1. /\ \A k : Cardinality(Done(k)) \in Nat
          /\ Cardinality({v \in load.visits : pc[v] = "done" /\ CounterOf(v) \notin left}) \in Nat
      BY <1>0, DoneIs
    <2>2. total = 0
      BY DEF ReportsInit
    <2> QED BY <1>1, <2>1, <2>2 DEF Counts
  <1>4. \A k : Serial(k) = {} /\ Floor(k) = 0
    <2>1. \A k : Serial(k) = {}
      BY <1>2 DEF Serial
    <2> QED BY <1>2, <2>1, FS_EmptySet DEF Floor
  <1> QED BY <1>1, <1>3, <1>4 DEF Losses

\* The inductive invariant of Reports.
RInv == Types /\ Counts /\ Losses

\* The invariant behind the results on the counters and the reports.
THEOREM ReportsInvariance == ReportsSpec => []RInv
  <1>1. ReportsInit => RInv
    BY InitTypes, InitCounting DEF RInv
  <1>2. RInv /\ [ReportsNext]_reportsVars => RInv'
    BY NextTypes, NextCounts, NextLosses DEF RInv
  <1> QED BY <1>1, <1>2, PTL DEF ReportsSpec

\* What is stored, read and shown keeps its type; the table never shows more
\* receipts than were recorded.
THEOREM ReportsTypeCorrect == ReportsSpec => []ReportsTypeOK
  <1>1. RInv => ReportsTypeOK
    <2> SUFFICES ASSUME RInv PROVE ReportsTypeOK
      OBVIOUS
    <2>1. load.visits \in SUBSET Visit
      BY LoadIs DEF RInv, Types, VisitTypes
    <2> QED BY <2>1 DEF RInv, Types, VisitTypes, ReportTypes, LogTypes, PageTypes, ReportsTypeOK
  <1> QED BY <1>1, ReportsInvariance, PTL

\* metrics.ts:159, the caveat of the report: "Visit counts are a floor".
THEOREM VisitsAreAFloor == ReportsSpec => []CountsAreAFloor
  <1>1. RInv => CountsAreAFloor
    <2> SUFFICES ASSUME RInv PROVE CountsAreAFloor
      OBVIOUS
    <2>0. VisitTypes
      BY DEF RInv, Types
    <2>1. ASSUME NEW k \in Counter PROVE Last(held[k]) <= Cardinality(Done(k))
      BY <2>0, LastIs DEF RInv, Counts
    <2> DEFINE Part == {v \in load.visits : pc[v] = "done" /\ CounterOf(v) \notin left}
               All == {v \in load.visits : pc[v] = "done"}
    <2>2. IsFiniteSet(All) /\ Part \subseteq All /\ total \in Nat /\ total <= Cardinality(Part)
      BY <2>0, LoadIs, FS_Subset DEF RInv, Types, VisitTypes, ReportTypes, Counts
    <2>3. total <= Cardinality(All)
      <3> HIDE DEF Part, All
      <3>1. Cardinality(Part) <= Cardinality(All) /\ Cardinality(Part) \in Nat /\ Cardinality(All) \in Nat
        BY <2>2, FS_Subset, FS_CardinalityType
      <3> QED BY <2>2, <3>1
    <2> QED BY <2>1, <2>3 DEF CountsAreAFloor
  <1> QED BY <1>1, ReportsInvariance, PTL

\* metrics.ts:13-15: without atomic increments, visits are lost to overlaps, but
\* to nothing else while KV answers, and never all of those that overlapped.
THEOREM LostOnlyToOverlap == ReportsSpec => []LossNeedsOverlap
  <1>1. RInv => LossNeedsOverlap
    <2> SUFFICES ASSUME RInv, load.faults = {}, NEW k \in Counter,
                        Cardinality(Done(k)) - Last(held[k]) > 0
                 PROVE  Cardinality(Done(k)) - Last(held[k])
                           < Cardinality({v \in overlapped : CounterOf(v) = k})
      BY DEF LossNeedsOverlap
    <2> DEFINE met == Done(k) \cap overlapped
               all == {v \in overlapped : CounterOf(v) = k}
    <2>0. VisitTypes
      BY DEF RInv, Types
    <2>1. Floor(k) <= Last(held[k]) /\ Last(held[k]) \in Nat
      BY <2>0, LastIs DEF RInv, Losses
    <2>2. IsFiniteSet(Done(k)) /\ IsFiniteSet(Serial(k)) /\ IsFiniteSet(all) /\ IsFiniteSet(met)
      BY <2>0, LoadIs, DoneIs, FloorIs, FS_Subset DEF VisitTypes
    <2>3. met \subseteq all
      BY DEF Done
    <2>4. Done(k) = Serial(k) \cup met /\ Serial(k) \cap met = {}
      BY DEF Serial
    <2>5. Floor(k) = Cardinality(Serial(k)) + IF met = {} THEN 0 ELSE 1
      BY DEF Floor
    <2> HIDE DEF met, all
    <2>6. Cardinality(Done(k)) = Cardinality(Serial(k)) + Cardinality(met)
      <3>1. Cardinality(Serial(k) \cup met) = Cardinality(Serial(k)) + Cardinality(met) - Cardinality(Serial(k) \cap met)
        BY <2>2, FS_Union
      <3>2. Cardinality(Serial(k) \cap met) = 0
        BY <2>4, FS_EmptySet
      <3>3. Cardinality(Serial(k)) \in Nat /\ Cardinality(met) \in Nat
        BY <2>2, FS_CardinalityType
      <3> QED BY <2>4, <3>1, <3>2, <3>3
    <2>7. /\ Cardinality(met) <= Cardinality(all) /\ Cardinality(all) \in Nat
          /\ Cardinality(met) \in Nat /\ Cardinality(Serial(k)) \in Nat
      BY <2>2, <2>3, FS_Subset, FS_CardinalityType
    <2>8. met # {}
      <3>1. ASSUME met = {} PROVE FALSE
        <4>1. Cardinality(met) = 0 /\ Floor(k) = Cardinality(Serial(k)) + 0
          BY <2>5, <3>1, FS_EmptySet
        <4> QED BY <2>1, <2>6, <2>7, <4>1
      <3> QED BY <3>1
    <2>9. Floor(k) = Cardinality(Serial(k)) + 1
      BY <2>5, <2>8
    <2>10. Cardinality(Done(k)) - Last(held[k]) < Cardinality(all)
      BY <2>1, <2>6, <2>7, <2>9
    <2> QED BY <2>10 DEF all
  <1> QED BY <1>1, ReportsInvariance, PTL

-----------------------------------------------------------------------------
(* The reports, receipt by receipt.                                        *)

Summary == [settlements : Nat, volume : Nat, first : Nat, last : Nat, external : BOOLEAN]

\* What the loop of summarise does with one receipt.
Summed(sums, r) == IF IsSettledReceipt(r) /\ r.payer # NoPayer
                   THEN [sums EXCEPT ![r.payer] = AddTo(@, r)] ELSE sums

LEMMA ReceiptIs ==
    ASSUME NEW r \in Receipt
    PROVE  /\ r.payer \in Payer \cup {NoPayer} /\ r.settled \in BOOLEAN
           /\ r.amount \in Nat /\ r.ts \in Nat
  BY ReportsAssumption DEF Receipt

LEMMA AddToIs ==
    ASSUME NEW s \in Summary, NEW r \in Receipt
    PROVE  /\ AddTo(s, r) \in Summary
           /\ AddTo(s, r).settlements = s.settlements + 1
           /\ AddTo(s, r).volume = s.volume + r.amount
           /\ AddTo(s, r).first = IF s # NotSeen /\ s.first <= r.ts THEN s.first ELSE r.ts
           /\ AddTo(s, r).last = IF s # NotSeen /\ s.last >= r.ts THEN s.last ELSE r.ts
           /\ AddTo(s, r).external = IF s = NotSeen THEN r.payer \notin OwnWallets ELSE s.external
  <1>1. r.amount \in Nat /\ r.ts \in Nat
    BY ReceiptIs
  <1>2. CASE s = NotSeen
    BY <1>1, <1>2 DEF AddTo, Summary, NotSeen
  <1>3. CASE s # NotSeen
    <2>1. /\ s.settlements \in Nat /\ s.volume \in Nat /\ s.first \in Nat /\ s.last \in Nat
          /\ s.external \in BOOLEAN
      BY DEF Summary
    <2> DEFINE t == [settlements |-> s.settlements + 1, volume |-> s.volume + r.amount,
                     first |-> IF r.ts < s.first THEN r.ts ELSE s.first,
                     last |-> IF r.ts > s.last THEN r.ts ELSE s.last, external |-> s.external]
    <2>2. AddTo(s, r) = t
      BY <1>3 DEF AddTo, Summary
    <2>3. t \in Summary
      BY <1>1, <2>1 DEF Summary
    <2>4. /\ t.first = IF s.first <= r.ts THEN s.first ELSE r.ts
          /\ t.last = IF s.last >= r.ts THEN s.last ELSE r.ts
      BY <1>1, <2>1
    <2> QED BY <1>3, <2>2, <2>3, <2>4
  <1> QED BY <1>2, <1>3

LEMMA SummedIs ==
    ASSUME NEW sums \in [Payer -> Summary], NEW r \in Receipt
    PROVE  Summed(sums, r) \in [Payer -> Summary]
  <1>1. CASE IsSettledReceipt(r) /\ r.payer # NoPayer
    <2>1. r.payer \in Payer
      BY <1>1, ReceiptIs
    <2>2. AddTo(sums[r.payer], r) \in Summary
      BY <2>1, AddToIs
    <2> QED BY <2>1, <2>2 DEF Summed
  <1>2. CASE ~(IsSettledReceipt(r) /\ r.payer # NoPayer)
    BY <1>2 DEF Summed
  <1> QED BY <1>1, <1>2

LEMMA SummariseIs ==
    ASSUME NEW q \in Seq(Receipt)
    PROVE  \E h : /\ h[0] = [p \in Payer |-> NotSeen]
                  /\ \A k \in 0 .. (Len(q) - 1) : h[k + 1] = Summed(h[k], q[k + 1])
                  /\ h[Len(q)] = Summarise(q)
  <1> DEFINE n == Len(q)
             Acc == [Payer -> Summary]
             none == [p \in Payer |-> NotSeen]
             F == [x \in Acc \X (1 .. n) |-> Summed(x[1], q[x[2]])]
             Solves(g) == g = [s \in SUBSET DOMAIN q |->
                                 IF s = {} THEN none
                                 ELSE LET x == Max(s) IN Summed(g[s \ {x}], q[x])]
             h == CHOOSE g : Solves(g)
  <1>1. n \in Nat /\ DOMAIN q = 1 .. n /\ \A i \in 1 .. n : q[i] \in Receipt
    OBVIOUS
  <1>2. none \in Acc
    BY DEF NotSeen, Summary
  <1>3. F \in [Acc \X (1 .. n) -> Acc]
    BY <1>1, SummedIs
  <1>4. PICK g : /\ FoldsOn(g, SUBSET (1 .. n), F, none)
                 /\ \A s \in SUBSET (1 .. n) : g[s] \in Acc
    <2> HIDE DEF F, none, Acc, n
    <2> QED BY <1>1, <1>2, <1>3, FoldsClosed
  <1>5. Solves(g)
    <2>1. \A s \in SUBSET (1 .. n) : s # {} => F[<<g[s \ {Max(s)}], Max(s)>>] = Summed(g[s \ {Max(s)}], q[Max(s)])
      <3> SUFFICES ASSUME NEW s \in SUBSET (1 .. n), s # {}
                   PROVE  F[<<g[s \ {Max(s)}], Max(s)>>] = Summed(g[s \ {Max(s)}], q[Max(s)])
        OBVIOUS
      <3>1. Max(s) \in 1 .. n
        BY <1>1, MaxIs
      <3>2. g[s \ {Max(s)}] \in Acc
        BY <1>4
      <3> HIDE DEF Acc
      <3> QED BY <3>1, <3>2
    <2>2. g = [s \in SUBSET (1 .. n) |-> IF s = {} THEN none ELSE F[<<g[s \ {Max(s)}], Max(s)>>]]
      BY <1>4 DEF FoldsOn
    <2> HIDE DEF F, none
    <2> QED BY <1>1, <2>1, <2>2
  <1>6. Solves(h)
    BY <1>5
  <1>7. Summarise(q) = h[DOMAIN q]
    BY DEF Summarise, FoldLeft, MapThenFoldSet, Summed
  <1> HIDE DEF h
  <1>8. h[1 .. 0] = none
    BY <1>1, <1>6
  <1>9. \A k \in 0 .. (n - 1) : h[1 .. (k + 1)] = Summed(h[1 .. k], q[k + 1])
    <2> SUFFICES ASSUME NEW k \in 0 .. (n - 1) PROVE h[1 .. (k + 1)] = Summed(h[1 .. k], q[k + 1])
      OBVIOUS
    <2>1. 1 .. (k + 1) \in SUBSET DOMAIN q /\ k \in Nat
      BY <1>1
    <2>2. \A s \in SUBSET DOMAIN q : s # {} => h[s] = Summed(h[s \ {Max(s)}], q[Max(s)])
      BY <1>6
    <2>3. h[1 .. (k + 1)] = Summed(h[(1 .. (k + 1)) \ {Max(1 .. (k + 1))}], q[Max(1 .. (k + 1))])
      BY <2>1, <2>2, PrefixIs
    <2> QED BY <2>1, <2>3, PrefixIs
  <1> DEFINE f == [k \in 0 .. n |-> h[1 .. k]]
  <1>10. f[0] = none /\ f[n] = Summarise(q) /\ \A k \in 0 .. (n - 1) : f[k + 1] = Summed(f[k], q[k + 1])
    BY <1>1, <1>7, <1>8, <1>9
  <1> QED BY <1>10

\* The amounts in a log; the entries up to k of what payer p has settled.
Amounts(q) == [i \in DOMAIN q |-> q[i].amount]
OfUpTo(q, p, k) == {i \in 1 .. k : q[i].settled /\ q[i].payer = p}

\* s is the summary of payer p over the entries I of q.
Summarises(s, q, I, p) ==
    /\ s.settlements = Cardinality(I)
    /\ s.volume = Total(Amounts(q), I)
    /\ I = {} => s = NotSeen
    /\ I # {} => /\ s # NotSeen
                 /\ \E i \in I : s.first = q[i].ts
                 /\ \E i \in I : s.last = q[i].ts
                 /\ \A i \in I : s.first <= q[i].ts /\ q[i].ts <= s.last
                 /\ s.external = (p \notin OwnWallets)

LEMMA IndexSets ==
    ASSUME NEW q \in Seq(Receipt), NEW I \in SUBSET (1 .. Len(q))
    PROVE  /\ IsFiniteSet(I) /\ Cardinality(I) \in Nat
           /\ \A i \in I : Amounts(q)[i] = q[i].amount /\ Amounts(q)[i] \in Nat /\ q[i] \in Receipt
           /\ Total(Amounts(q), I) \in Nat
  <1>1. Len(q) \in Nat /\ DOMAIN q = 1 .. Len(q) /\ \A i \in 1 .. Len(q) : q[i] \in Receipt
    OBVIOUS
  <1>2. IsFiniteSet(I) /\ Cardinality(I) \in Nat
    BY <1>1, IndicesAre
  <1>3. \A i \in I : Amounts(q)[i] = q[i].amount /\ Amounts(q)[i] \in Nat /\ q[i] \in Receipt
    BY <1>1, ReceiptIs DEF Amounts
  <1> QED BY <1>2, <1>3, TotalType

LEMMA OneMore ==
    ASSUME NEW q \in Seq(Receipt), NEW k \in 0 .. (Len(q) - 1), NEW I \in SUBSET (1 .. k)
    PROVE  /\ I \in SUBSET (1 .. Len(q)) /\ I \cup {k + 1} \in SUBSET (1 .. Len(q))
           /\ k + 1 \notin I /\ k + 1 \in DOMAIN q
           /\ Cardinality(I \cup {k + 1}) = Cardinality(I) + 1
           /\ Total(Amounts(q), I \cup {k + 1}) = Total(Amounts(q), I) + q[k + 1].amount
  <1> DEFINE J == I \cup {k + 1}
  <1>1. Len(q) \in Nat /\ k \in Nat /\ k + 1 \in 1 .. Len(q) /\ DOMAIN q = 1 .. Len(q)
    OBVIOUS
  <1>2. I \in SUBSET (1 .. Len(q)) /\ J \in SUBSET (1 .. Len(q)) /\ k + 1 \notin I
    BY <1>1
  <1>3. IsFiniteSet(I) /\ Cardinality(J) = Cardinality(I) + 1
    BY <1>2, IndexSets, FS_AddElement
  <1>4. Total(Amounts(q), J) = Amounts(q)[k + 1] + Total(Amounts(q), J \ {k + 1})
    <2>1. k + 1 \in J
      OBVIOUS
    <2> HIDE DEF J
    <2> QED BY <1>2, <2>1, IndexSets, TotalRemove
  <1>5. J \ {k + 1} = I
    BY <1>2
  <1>6. Amounts(q)[k + 1] = q[k + 1].amount /\ q[k + 1].amount \in Nat /\ Total(Amounts(q), I) \in Nat
    BY <1>1, <1>2, IndexSets, ReceiptIs DEF Amounts
  <1>7. Total(Amounts(q), J) = Total(Amounts(q), I) + q[k + 1].amount
    <2>1. Total(Amounts(q), J) = q[k + 1].amount + Total(Amounts(q), I)
      BY <1>4, <1>5, <1>6
    <2> HIDE DEF J
    <2> QED BY <1>6, <2>1
  <1> QED BY <1>1, <1>2, <1>3, <1>7

\* A summary to which a receipt of its payer is added is the summary of one more.
LEMMA SummaryGrows ==
    ASSUME NEW q \in Seq(Receipt), NEW k \in 0 .. (Len(q) - 1), NEW p \in Payer,
           NEW I \in SUBSET (1 .. k), NEW s \in Summary, Summarises(s, q, I, p), q[k + 1].payer = p
    PROVE  Summarises(AddTo(s, q[k + 1]), q, I \cup {k + 1}, p)
  <1> DEFINE J == I \cup {k + 1}
             r == q[k + 1]
             t == AddTo(s, r)
  <1>1. /\ I \in SUBSET (1 .. Len(q)) /\ J \in SUBSET (1 .. Len(q)) /\ k + 1 \notin I
        /\ Cardinality(J) = Cardinality(I) + 1
        /\ Total(Amounts(q), J) = Total(Amounts(q), I) + r.amount
        /\ k + 1 \in DOMAIN q
    BY OneMore
  <1>2. r \in Receipt /\ r.ts \in Nat /\ \A i \in I : q[i].ts \in Nat
    BY <1>1, ReceiptIs, IndexSets
  <1>3. /\ t.settlements = s.settlements + 1
        /\ t.volume = s.volume + r.amount
        /\ t.first = IF s # NotSeen /\ s.first <= r.ts THEN s.first ELSE r.ts
        /\ t.last = IF s # NotSeen /\ s.last >= r.ts THEN s.last ELSE r.ts
        /\ t.external = IF s = NotSeen THEN r.payer \notin OwnWallets ELSE s.external
    BY <1>2, AddToIs
  <1>4. t # NotSeen
    <2>1. s.settlements \in Nat /\ NotSeen.settlements = 0
      BY DEF Summary, NotSeen
    <2> HIDE DEF t
    <2> QED BY <1>3, <2>1
  <1>5. s.first \in Nat /\ s.last \in Nat
    BY DEF Summary
  <1>6. /\ I = {} => s = NotSeen
        /\ I # {} => s # NotSeen
    BY DEF Summarises
  <1> HIDE DEF t
  <1>7. CASE I = {}
    <2>1. t.first = r.ts /\ t.last = r.ts /\ t.external = (p \notin OwnWallets) /\ J = {k + 1}
      BY <1>3, <1>6, <1>7
    <2> QED BY <1>1, <1>2, <1>3, <1>4, <2>1 DEF Summarises, t
  <1>8. CASE I # {}
    <2>1. /\ \E i \in I : s.first = q[i].ts
          /\ \E i \in I : s.last = q[i].ts
          /\ \A i \in I : s.first <= q[i].ts /\ q[i].ts <= s.last
          /\ s.external = (p \notin OwnWallets)
      BY <1>8 DEF Summarises
    <2>2. (\E i \in J : t.first = q[i].ts) /\ (\E i \in J : t.last = q[i].ts)
      BY <1>3, <2>1
    <2>3. \A i \in J : t.first <= q[i].ts /\ q[i].ts <= t.last
      <3> SUFFICES ASSUME NEW i \in J PROVE t.first <= q[i].ts /\ q[i].ts <= t.last
        OBVIOUS
      <3>1. CASE i = k + 1
        BY <1>2, <1>3, <1>5, <3>1
      <3>2. CASE i \in I
        <4>1. s.first <= q[i].ts /\ q[i].ts <= s.last /\ q[i].ts \in Nat
          BY <1>2, <2>1, <3>2
        <4> QED BY <1>2, <1>3, <1>5, <1>6, <1>8, <4>1
      <3> QED BY <3>1, <3>2
    <2>4. t.external = (p \notin OwnWallets)
      BY <1>3, <1>6, <1>8, <2>1
    <2>5. s.settlements = Cardinality(I) /\ s.volume = Total(Amounts(q), I) /\ J # {}
      BY DEF Summarises
    <2> HIDE DEF J
    <2>6. Summarises(t, q, J, p)
      BY <1>1, <1>3, <1>4, <2>2, <2>3, <2>4, <2>5 DEF Summarises
    <2> QED BY <2>6 DEF t, J
  <1> QED BY <1>7, <1>8

\* payers.ts:47-78, for every log: the loop computes a summary of each payer.
LEMMA SummariseComputes ==
    ASSUME NEW q \in Seq(Receipt)
    PROVE  /\ Summarise(q) \in [Payer -> Summary]
           /\ \A p \in Payer : Summarises(Summarise(q)[p], q, OfUpTo(q, p, Len(q)), p)
  <1>1. PICK h : /\ h[0] = [p \in Payer |-> NotSeen]
                 /\ \A k \in 0 .. (Len(q) - 1) : h[k + 1] = Summed(h[k], q[k + 1])
                 /\ h[Len(q)] = Summarise(q)
    BY SummariseIs
  <1> DEFINE Right(k) == /\ h[k] \in [Payer -> Summary]
                         /\ \A p \in Payer : Summarises(h[k][p], q, OfUpTo(q, p, k), p)
             S == {k \in Nat : k <= Len(q) => Right(k)}
  <1>2. 0 \in S
    <2>1. NotSeen \in Summary /\ h[0] \in [Payer -> Summary] /\ \A p \in Payer : h[0][p] = NotSeen
      BY <1>1 DEF Summary, NotSeen
    <2>2. \A p \in Payer : OfUpTo(q, p, 0) = {}
      BY DEF OfUpTo
    <2>3. \A p \in Payer : Summarises(NotSeen, q, {}, p)
      BY TotalEmpty, FS_EmptySet DEF Summarises, NotSeen
    <2> QED BY <2>1, <2>2, <2>3
  <1>3. ASSUME NEW k \in S PROVE k + 1 \in S
    <2>1. k \in Nat /\ Len(q) \in Nat
      OBVIOUS
    <2> SUFFICES ASSUME k + 1 <= Len(q) PROVE Right(k + 1)
      BY <2>1
    <2>2. Right(k) /\ k \in 0 .. (Len(q) - 1)
      BY <1>3, <2>1
    <2> DEFINE r == q[k + 1]
    <2>3. h[k + 1] = Summed(h[k], r)
      BY <1>1, <2>2
    <2>4. r \in Receipt
      BY <2>2
    <2>5. \A p \in Payer : /\ OfUpTo(q, p, k) \in SUBSET (1 .. k)
                           /\ OfUpTo(q, p, k + 1) = IF r.settled /\ r.payer = p
                                                     THEN OfUpTo(q, p, k) \cup {k + 1}
                                                     ELSE OfUpTo(q, p, k)
      <3>1. 1 .. (k + 1) = (1 .. k) \cup {k + 1} /\ k + 1 \notin 1 .. k
        BY <2>1
      <3> QED BY <3>1 DEF OfUpTo
    <2> HIDE DEF r
    <2>6. h[k + 1] \in [Payer -> Summary]
      BY <2>2, <2>3, <2>4, SummedIs
    <2>7. ASSUME NEW p \in Payer PROVE Summarises(h[k + 1][p], q, OfUpTo(q, p, k + 1), p)
      <3>1. h[k][p] \in Summary /\ Summarises(h[k][p], q, OfUpTo(q, p, k), p) /\ h[k] \in [Payer -> Summary]
        BY <2>2
      <3>2. CASE r.settled /\ r.payer = p
        <4>1. h[k + 1][p] = AddTo(h[k][p], r)
          BY <2>3, <3>1, <3>2, ReportsAssumption DEF Summed, IsSettledReceipt
        <4>2. Summarises(AddTo(h[k][p], q[k + 1]), q, OfUpTo(q, p, k) \cup {k + 1}, p)
          BY <2>2, <2>5, <3>1, <3>2, SummaryGrows DEF r
        <4> QED BY <2>5, <3>2, <4>1, <4>2 DEF r
      <3>3. CASE ~(r.settled /\ r.payer = p)
        <4>1. h[k + 1][p] = h[k][p]
          BY <2>3, <3>1, <3>3 DEF Summed, IsSettledReceipt
        <4> QED BY <2>5, <3>1, <3>3, <4>1
      <3> QED BY <3>2, <3>3
    <2> QED BY <2>6, <2>7
  <1> HIDE DEF S, Right
  <1>4. S = Nat
    BY <1>2, <1>3, SetInduction DEF S
  <1>5. Right(Len(q))
    <2>1. Len(q) \in Nat /\ Len(q) <= Len(q)
      OBVIOUS
    <2> QED BY <1>4, <2>1 DEF S
  <1> QED BY <1>1, <1>5 DEF Right

LEMMA VolumeIs ==
    ASSUME log \in Seq(Receipt), NEW I \in SUBSET (1 .. Len(log))
    PROVE  MapThenSumSet(LAMBDA i : log[i].amount, I) = Total(Amounts(log), I)
  <1> DEFINE Solves(g) == g = [s \in SUBSET I |->
                                 IF s = {} THEN 0
                                 ELSE LET x == CHOOSE x \in s : TRUE IN log[x].amount + g[s \ {x}]]
             h == CHOOSE g : Solves(g)
  <1>1. IsFiniteSet(I) /\ \A i \in I : Amounts(log)[i] = log[i].amount
    BY IndexSets
  <1>2. PICK g : Sums(g, I, Amounts(log))
    BY <1>1, SumsExists
  <1>3. Solves(g)
    BY <1>1, <1>2, PickIs DEF Sums, Adds, Pick
  <1>4. Solves(h)
    BY <1>3
  <1>5. MapThenSumSet(LAMBDA i : log[i].amount, I) = h[I]
    BY DEF MapThenSumSet, MapThenFoldSet
  <1> HIDE DEF h
  <1>6. Sums(h, I, Amounts(log))
    BY <1>1, <1>4, PickIs DEF Sums, Adds, Pick
  <1> QED BY <1>1, <1>5, <1>6, TotalOf

\* The first and the last of some timestamps.
LEMMA EndsAre ==
    ASSUME NEW T \in SUBSET Nat, NEW t \in T
    PROVE  /\ (\A x \in T : t <= x) => t = Min(T)
           /\ (\A x \in T : x <= t) => t = Max(T)
  <1>1. ASSUME \A x \in T : t <= x PROVE t = Min(T)
    <2>1. \A y \in T : (\A x \in T : y <= x) => y = t
      BY <1>1
    <2> QED BY <1>1, <2>1 DEF Min
  <1>2. ASSUME \A x \in T : x <= t PROVE t = Max(T)
    <2>1. \A y \in T : (\A x \in T : y >= x) => y = t
      BY <1>2
    <2> QED BY <1>2, <2>1 DEF Max
  <1> QED BY <1>1, <1>2

LEMMA GroupBy == log \in Seq(Receipt) => SummariseIsGroupBy
  <1> SUFFICES ASSUME log \in Seq(Receipt), NEW p \in Payer
               PROVE  /\ Summarise(log)[p].settlements = Cardinality(Of(p))
                      /\ Summarise(log)[p].volume = MapThenSumSet(LAMBDA i : log[i].amount, Of(p))
                      /\ Of(p) # {} => /\ Summarise(log)[p].first = Min({log[i].ts : i \in Of(p)})
                                       /\ Summarise(log)[p].last = Max({log[i].ts : i \in Of(p)})
                                       /\ Summarise(log)[p].external = (p \notin OwnWallets)
    BY DEF SummariseIsGroupBy
  <1>1. Of(p) = OfUpTo(log, p, Len(log)) /\ Of(p) \in SUBSET (1 .. Len(log))
    BY DEF Of, OfUpTo
  <1>2. Summarises(Summarise(log)[p], log, Of(p), p)
    BY <1>1, SummariseComputes
  <1>3. Summarise(log)[p].volume = MapThenSumSet(LAMBDA i : log[i].amount, Of(p))
    BY <1>1, <1>2, VolumeIs DEF Summarises
  <1>4. ASSUME Of(p) # {}
        PROVE  /\ Summarise(log)[p].first = Min({log[i].ts : i \in Of(p)})
               /\ Summarise(log)[p].last = Max({log[i].ts : i \in Of(p)})
    <2> DEFINE T == {log[i].ts : i \in Of(p)}
               s == Summarise(log)[p]
    <2>1. T \subseteq Nat
      BY <1>1, IndexSets, ReceiptIs
    <2>2. /\ s.first \in T /\ \A x \in T : s.first <= x
          /\ s.last \in T /\ \A x \in T : x <= s.last
      BY <1>2, <1>4 DEF Summarises
    <2> HIDE DEF T, s
    <2>3. s.first = Min(T) /\ s.last = Max(T)
      BY <2>1, <2>2, EndsAre
    <2> QED BY <2>3 DEF T, s
  <1> QED BY <1>2, <1>3, <1>4 DEF Summarises

-----------------------------------------------------------------------------
DayReport == [total : Nat, volume : Nat, payers : SUBSET Payer, externalPayers : SUBSET Payer]

\* What the loops of dailyMetricsHandler, and of the filter, do with one receipt.
Counted(day, r, date) ==
    IF IsSettledReceipt(r) /\ DayOf(r.ts) = date
    THEN [total          |-> day.total + 1,
          volume         |-> day.volume + r.amount,
          payers         |-> day.payers \cup ({r.payer} \ {NoPayer}),
          externalPayers |-> day.externalPayers \cup ({r.payer} \ ({NoPayer} \cup OwnWallets))]
    ELSE day

Kept(kept, r) == IF IsSettledReceipt(r) THEN Append(kept, r) ELSE kept

LEMMA CountedIs ==
    ASSUME NEW day \in DayReport, NEW r \in Receipt, NEW date
    PROVE  Counted(day, r, date) \in DayReport
  <1>1. r.amount \in Nat /\ r.payer \in Payer \cup {NoPayer}
    BY ReceiptIs
  <1>2. day.total \in Nat /\ day.volume \in Nat /\ day.payers \subseteq Payer /\ day.externalPayers \subseteq Payer
    BY DEF DayReport
  <1>3. /\ day.total + 1 \in Nat /\ day.volume + r.amount \in Nat
        /\ day.payers \cup ({r.payer} \ {NoPayer}) \in SUBSET Payer
        /\ day.externalPayers \cup ({r.payer} \ ({NoPayer} \cup OwnWallets)) \in SUBSET Payer
    BY <1>1, <1>2
  <1> QED BY <1>3 DEF Counted, DayReport

LEMMA KeptIs ==
    ASSUME NEW kept \in Seq(Receipt), NEW r \in Receipt
    PROVE  Kept(kept, r) \in Seq(Receipt)
  BY DEF Kept

LEMMA DailyMetricsIs ==
    ASSUME log \in Seq(Receipt), NEW date
    PROVE  \E h : /\ h[0] = Empty
                  /\ \A k \in 0 .. (Len(log) - 1) : h[k + 1] = Counted(h[k], log[k + 1], date)
                  /\ h[Len(log)] = DailyMetrics(date)
  <1> DEFINE n == Len(log)
             Acc == DayReport
             none == Empty
             F == [x \in Acc \X (1 .. n) |-> Counted(x[1], log[x[2]], date)]
             Solves(g) == g = [s \in SUBSET DOMAIN log |->
                                 IF s = {} THEN none
                                 ELSE LET x == Max(s) IN Counted(g[s \ {x}], log[x], date)]
             h == CHOOSE g : Solves(g)
  <1>1. n \in Nat /\ DOMAIN log = 1 .. n /\ \A i \in 1 .. n : log[i] \in Receipt
    OBVIOUS
  <1>2. none \in Acc
    BY DEF Empty, DayReport
  <1>3. F \in [Acc \X (1 .. n) -> Acc]
    BY <1>1, CountedIs
  <1>4. PICK g : /\ FoldsOn(g, SUBSET (1 .. n), F, none)
                 /\ \A s \in SUBSET (1 .. n) : g[s] \in Acc
    <2> HIDE DEF F, none, Acc, n
    <2> QED BY <1>1, <1>2, <1>3, FoldsClosed
  <1>5. Solves(g)
    <2>1. \A s \in SUBSET (1 .. n) : s # {} => F[<<g[s \ {Max(s)}], Max(s)>>] = Counted(g[s \ {Max(s)}], log[Max(s)], date)
      <3> SUFFICES ASSUME NEW s \in SUBSET (1 .. n), s # {}
                   PROVE  F[<<g[s \ {Max(s)}], Max(s)>>] = Counted(g[s \ {Max(s)}], log[Max(s)], date)
        OBVIOUS
      <3>1. Max(s) \in 1 .. n
        BY <1>1, MaxIs
      <3>2. g[s \ {Max(s)}] \in Acc
        BY <1>4
      <3> HIDE DEF Acc
      <3> QED BY <3>1, <3>2
    <2>2. g = [s \in SUBSET (1 .. n) |-> IF s = {} THEN none ELSE F[<<g[s \ {Max(s)}], Max(s)>>]]
      BY <1>4 DEF FoldsOn
    <2> HIDE DEF F, none
    <2> QED BY <1>1, <2>1, <2>2
  <1>6. Solves(h)
    BY <1>5
  <1>7. DailyMetrics(date) = h[DOMAIN log]
    BY DEF DailyMetrics, FoldLeft, MapThenFoldSet, Counted
  <1> HIDE DEF h
  <1>8. h[1 .. 0] = none
    BY <1>1, <1>6
  <1>9. \A k \in 0 .. (n - 1) : h[1 .. (k + 1)] = Counted(h[1 .. k], log[k + 1], date)
    <2> SUFFICES ASSUME NEW k \in 0 .. (n - 1) PROVE h[1 .. (k + 1)] = Counted(h[1 .. k], log[k + 1], date)
      OBVIOUS
    <2>1. 1 .. (k + 1) \in SUBSET DOMAIN log /\ k \in Nat
      BY <1>1
    <2>2. \A s \in SUBSET DOMAIN log : s # {} => h[s] = Counted(h[s \ {Max(s)}], log[Max(s)], date)
      BY <1>6
    <2>3. h[1 .. (k + 1)] = Counted(h[(1 .. (k + 1)) \ {Max(1 .. (k + 1))}], log[Max(1 .. (k + 1))], date)
      BY <2>1, <2>2, PrefixIs
    <2> QED BY <2>1, <2>3, PrefixIs
  <1> DEFINE f == [k \in 0 .. n |-> h[1 .. k]]
  <1>10. f[0] = none /\ f[n] = DailyMetrics(date) /\ \A k \in 0 .. (n - 1) : f[k + 1] = Counted(f[k], log[k + 1], date)
    BY <1>1, <1>7, <1>8, <1>9
  <1> QED BY <1>10


LEMMA SettledReceiptsIs ==
    ASSUME log \in Seq(Receipt)
    PROVE  \E h : /\ h[0] = << >>
                  /\ \A k \in 0 .. (Len(log) - 1) : h[k + 1] = Kept(h[k], log[k + 1])
                  /\ h[Len(log)] = SettledReceipts
  <1> DEFINE n == Len(log)
             Acc == Seq(Receipt)
             none == << >>
             F == [x \in Acc \X (1 .. n) |-> Kept(x[1], log[x[2]])]
             Solves(g) == g = [s \in SUBSET DOMAIN log |->
                                 IF s = {} THEN none
                                 ELSE LET x == Max(s) IN Kept(g[s \ {x}], log[x])]
             h == CHOOSE g : Solves(g)
  <1>1. n \in Nat /\ DOMAIN log = 1 .. n /\ \A i \in 1 .. n : log[i] \in Receipt
    OBVIOUS
  <1>2. none \in Acc
    OBVIOUS
  <1>3. F \in [Acc \X (1 .. n) -> Acc]
    BY <1>1, KeptIs
  <1>4. PICK g : /\ FoldsOn(g, SUBSET (1 .. n), F, none)
                 /\ \A s \in SUBSET (1 .. n) : g[s] \in Acc
    <2> HIDE DEF F, none, Acc, n
    <2> QED BY <1>1, <1>2, <1>3, FoldsClosed
  <1>5. Solves(g)
    <2>1. \A s \in SUBSET (1 .. n) : s # {} => F[<<g[s \ {Max(s)}], Max(s)>>] = Kept(g[s \ {Max(s)}], log[Max(s)])
      <3> SUFFICES ASSUME NEW s \in SUBSET (1 .. n), s # {}
                   PROVE  F[<<g[s \ {Max(s)}], Max(s)>>] = Kept(g[s \ {Max(s)}], log[Max(s)])
        OBVIOUS
      <3>1. Max(s) \in 1 .. n
        BY <1>1, MaxIs
      <3>2. g[s \ {Max(s)}] \in Acc
        BY <1>4
      <3> HIDE DEF Acc
      <3> QED BY <3>1, <3>2
    <2>2. g = [s \in SUBSET (1 .. n) |-> IF s = {} THEN none ELSE F[<<g[s \ {Max(s)}], Max(s)>>]]
      BY <1>4 DEF FoldsOn
    <2> HIDE DEF F, none
    <2> QED BY <1>1, <2>1, <2>2
  <1>6. Solves(h)
    BY <1>5
  <1>7. SettledReceipts = h[DOMAIN log]
    BY DEF SettledReceipts, FoldLeft, MapThenFoldSet, Kept
  <1> HIDE DEF h
  <1>8. h[1 .. 0] = none
    BY <1>1, <1>6
  <1>9. \A k \in 0 .. (n - 1) : h[1 .. (k + 1)] = Kept(h[1 .. k], log[k + 1])
    <2> SUFFICES ASSUME NEW k \in 0 .. (n - 1) PROVE h[1 .. (k + 1)] = Kept(h[1 .. k], log[k + 1])
      OBVIOUS
    <2>1. 1 .. (k + 1) \in SUBSET DOMAIN log /\ k \in Nat
      BY <1>1
    <2>2. \A s \in SUBSET DOMAIN log : s # {} => h[s] = Kept(h[s \ {Max(s)}], log[Max(s)])
      BY <1>6
    <2>3. h[1 .. (k + 1)] = Kept(h[(1 .. (k + 1)) \ {Max(1 .. (k + 1))}], log[Max(1 .. (k + 1))])
      BY <2>1, <2>2, PrefixIs
    <2> QED BY <2>1, <2>3, PrefixIs
  <1> DEFINE f == [k \in 0 .. n |-> h[1 .. k]]
  <1>10. f[0] = none /\ f[n] = SettledReceipts /\ \A k \in 0 .. (n - 1) : f[k + 1] = Kept(f[k], log[k + 1])
    BY <1>1, <1>7, <1>8, <1>9
  <1> QED BY <1>10



\* The settled receipts among the first k of the log, those of one date, and payers.
Settled(k) == {i \in 1 .. k : log[i].settled}
OnDay(date, k) == {i \in 1 .. k : log[i].settled /\ DayOf(log[i].ts) = date}
PayersOf(I) == {log[i].payer : i \in I}

\* day is the report of the entries I.
IsReportOf(day, I) == /\ day.total = Cardinality(I)
                      /\ day.volume = Total(Amounts(log), I)
                      /\ day.payers = PayersOf(I) \ {NoPayer}
                      /\ day.externalPayers = PayersOf(I) \ ({NoPayer} \cup OwnWallets)

\* index.ts:118-175, for every log and date: the loop reports the settled
\* receipts of that date.
LEMMA DailyComputes ==
    ASSUME log \in Seq(Receipt), NEW date
    PROVE  IsReportOf(DailyMetrics(date), OnDay(date, Len(log)))
  <1>1. PICK h : /\ h[0] = Empty
                 /\ \A k \in 0 .. (Len(log) - 1) : h[k + 1] = Counted(h[k], log[k + 1], date)
                 /\ h[Len(log)] = DailyMetrics(date)
    BY DailyMetricsIs
  <1> DEFINE Right(k) == h[k] \in DayReport /\ IsReportOf(h[k], OnDay(date, k))
             S == {k \in Nat : k <= Len(log) => Right(k)}
  <1>2. 0 \in S
    <2>1. OnDay(date, 0) = {}
      BY DEF OnDay
    <2>2. Empty \in DayReport /\ IsReportOf(Empty, {})
      BY TotalEmpty, FS_EmptySet DEF Empty, DayReport, IsReportOf, PayersOf
    <2> QED BY <1>1, <2>1, <2>2
  <1>3. ASSUME NEW k \in S PROVE k + 1 \in S
    <2>1. k \in Nat /\ Len(log) \in Nat
      OBVIOUS
    <2> SUFFICES ASSUME k + 1 <= Len(log) PROVE Right(k + 1)
      BY <2>1
    <2>2. Right(k) /\ k \in 0 .. (Len(log) - 1)
      BY <1>3, <2>1
    <2> DEFINE r == log[k + 1]
               I == OnDay(date, k)
    <2>3. h[k + 1] = Counted(h[k], r, date) /\ h[k] \in DayReport /\ IsReportOf(h[k], I)
      BY <1>1, <2>2
    <2>4. r \in Receipt /\ h[k + 1] \in DayReport
      BY <2>2, <2>3, CountedIs
    <2>5. 1 .. (k + 1) = (1 .. k) \cup {k + 1} /\ k + 1 \notin 1 .. k /\ I \in SUBSET (1 .. k)
      BY <2>1 DEF OnDay
    <2>6. CASE r.settled /\ DayOf(r.ts) = date
      <3> DEFINE J == I \cup {k + 1}
      <3>1. OnDay(date, k + 1) = J
        BY <2>5, <2>6 DEF OnDay
      <3>2. PayersOf(J) = PayersOf(I) \cup {r.payer}
        BY DEF PayersOf
      <3>3. /\ Cardinality(J) = Cardinality(I) + 1
            /\ Total(Amounts(log), J) = Total(Amounts(log), I) + r.amount
        BY <2>2, <2>5, OneMore
      <3>4. h[k + 1] = [total          |-> h[k].total + 1,
                        volume         |-> h[k].volume + r.amount,
                        payers         |-> h[k].payers \cup ({r.payer} \ {NoPayer}),
                        externalPayers |-> h[k].externalPayers \cup ({r.payer} \ ({NoPayer} \cup OwnWallets))]
        BY <2>3, <2>6 DEF Counted, IsSettledReceipt
      <3> HIDE DEF J, I, r
      <3>5. IsReportOf(h[k + 1], J)
        BY <2>3, <3>2, <3>3, <3>4 DEF IsReportOf
      <3> QED BY <2>4, <3>1, <3>5
    <2>7. CASE ~(r.settled /\ DayOf(r.ts) = date)
      <3>1. OnDay(date, k + 1) = I
        BY <2>5, <2>7 DEF OnDay
      <3>2. h[k + 1] = h[k]
        BY <2>3, <2>7 DEF Counted, IsSettledReceipt
      <3> QED BY <2>3, <2>4, <3>1, <3>2
    <2> QED BY <2>6, <2>7
  <1> HIDE DEF S, Right
  <1>4. S = Nat
    BY <1>2, <1>3, SetInduction DEF S
  <1>5. Right(Len(log))
    <2>1. Len(log) \in Nat /\ Len(log) <= Len(log)
      OBVIOUS
    <2> QED BY <1>4, <2>1 DEF S
  <1> QED BY <1>1, <1>5 DEF Right

\* index.ts:186, for every log: the filter keeps every settled receipt, once.
LEMMA FilterComputes ==
    ASSUME log \in Seq(Receipt)
    PROVE  /\ SettledReceipts \in Seq(Receipt)
           /\ Len(SettledReceipts) = Cardinality(Settled(Len(log)))
  <1>1. PICK h : /\ h[0] = << >>
                 /\ \A k \in 0 .. (Len(log) - 1) : h[k + 1] = Kept(h[k], log[k + 1])
                 /\ h[Len(log)] = SettledReceipts
    BY SettledReceiptsIs
  <1> DEFINE Right(k) == h[k] \in Seq(Receipt) /\ Len(h[k]) = Cardinality(Settled(k))
             S == {k \in Nat : k <= Len(log) => Right(k)}
  <1>2. 0 \in S
    <2>1. Settled(0) = {} /\ << >> \in Seq(Receipt) /\ Len(<< >>) = 0
      BY DEF Settled
    <2> QED BY <1>1, <2>1, FS_EmptySet
  <1>3. ASSUME NEW k \in S PROVE k + 1 \in S
    <2>1. k \in Nat /\ Len(log) \in Nat
      OBVIOUS
    <2> SUFFICES ASSUME k + 1 <= Len(log) PROVE Right(k + 1)
      BY <2>1
    <2>2. Right(k) /\ k \in 0 .. (Len(log) - 1)
      BY <1>3, <2>1
    <2> DEFINE r == log[k + 1]
               I == Settled(k)
    <2>3. h[k + 1] = Kept(h[k], r) /\ h[k] \in Seq(Receipt) /\ Len(h[k]) = Cardinality(I)
      BY <1>1, <2>2
    <2>4. r \in Receipt
      BY <2>2
    <2>5. 1 .. (k + 1) = (1 .. k) \cup {k + 1} /\ k + 1 \notin 1 .. k /\ I \in SUBSET (1 .. k)
      BY <2>1 DEF Settled
    <2>6. CASE r.settled
      <3>1. Settled(k + 1) = I \cup {k + 1}
        BY <2>5, <2>6 DEF Settled
      <3>2. Cardinality(I \cup {k + 1}) = Cardinality(I) + 1
        BY <2>2, <2>5, OneMore
      <3>3. h[k + 1] = Append(h[k], r)
        BY <2>3, <2>6 DEF Kept, IsSettledReceipt
      <3> HIDE DEF r, I
      <3>4. h[k + 1] \in Seq(Receipt) /\ Len(h[k + 1]) = Len(h[k]) + 1
        <4>1. h[k] \in Seq(Receipt) /\ r \in Receipt
          BY <2>3, <2>4
        <4> QED BY <3>3, <4>1
      <3> QED BY <2>3, <3>1, <3>2, <3>4
    <2>7. CASE ~r.settled
      <3>1. Settled(k + 1) = I
        BY <2>5, <2>7 DEF Settled
      <3>2. h[k + 1] = h[k]
        BY <2>3, <2>7 DEF Kept, IsSettledReceipt
      <3> QED BY <2>3, <3>1, <3>2
    <2> QED BY <2>6, <2>7
  <1> HIDE DEF S, Right
  <1>4. S = Nat
    BY <1>2, <1>3, SetInduction DEF S
  <1>5. Right(Len(log))
    <2>1. Len(log) \in Nat /\ Len(log) <= Len(log)
      OBVIOUS
    <2> QED BY <1>4, <2>1 DEF S
  <1> QED BY <1>1, <1>5 DEF Right

-----------------------------------------------------------------------------
(* The reports against one another.                                        *)

Days == {DayOf(log[i].ts) : i \in DOMAIN log}
Sold == Settled(Len(log))

LEMMA SoldAre ==
    ASSUME log \in Seq(Receipt)
    PROVE  /\ Sold \in SUBSET (1 .. Len(log)) /\ Sold = {i \in DOMAIN log : log[i].settled}
           /\ IsFiniteSet(Sold) /\ IsFiniteSet(Days) /\ Cardinality(Sold) \in Nat
           /\ \A d : /\ OnDay(d, Len(log)) \in SUBSET Sold
                     /\ OnDay(d, Len(log)) = {i \in Sold : DayOf(log[i].ts) = d}
           /\ \A i \in Sold : DayOf(log[i].ts) \in Days
           /\ \A i \in Sold : Amounts(log)[i] \in Nat
  <1>1. Len(log) \in Nat /\ DOMAIN log = 1 .. Len(log)
    OBVIOUS
  <1>2. Sold \in SUBSET (1 .. Len(log)) /\ Sold = {i \in DOMAIN log : log[i].settled}
    BY <1>1 DEF Sold, Settled
  <1>3. IsFiniteSet(Sold) /\ Cardinality(Sold) \in Nat /\ \A i \in Sold : Amounts(log)[i] \in Nat
    BY <1>2, IndexSets
  <1>4. IsFiniteSet(Days)
    <2> DEFINE f == [i \in DOMAIN log |-> DayOf(log[i].ts)]
    <2>1. IsFiniteSet(DOMAIN log)
      BY <1>1, IndicesAre
    <2>2. Days = {f[i] : i \in DOMAIN log}
      BY DEF Days
    <2>3. f \in [DOMAIN log -> Days] /\ \A d \in Days : \E i \in DOMAIN log : f[i] = d
      BY DEF Days
    <2>4. f \in Surjection(DOMAIN log, Days)
      BY <2>3 DEF Surjection
    <2> HIDE DEF f
    <2> QED BY <2>1, <2>4, FS_Surjection
  <1>5. \A d : /\ OnDay(d, Len(log)) \in SUBSET Sold
               /\ OnDay(d, Len(log)) = {i \in Sold : DayOf(log[i].ts) = d}
    BY DEF OnDay, Sold, Settled
  <1>6. \A i \in Sold : DayOf(log[i].ts) \in Days
    BY <1>2 DEF Days
  <1> QED BY <1>2, <1>3, <1>4, <1>5, <1>6

\* Three sums of the reports, as the sums of functions.
LEMMA TotalsAre ==
    ASSUME log \in Seq(Receipt)
    PROVE  MapThenSumSet(LAMBDA d : DailyMetrics(d).total, Days)
              = Total([d \in Days |-> DailyMetrics(d).total], Days)
  <1> DEFINE D == Days
             f == [d \in D |-> DailyMetrics(d).total]
             Solves(g) == g = [s \in SUBSET D |->
                                 IF s = {} THEN 0
                                 ELSE LET x == CHOOSE x \in s : TRUE IN DailyMetrics(x).total + g[s \ {x}]]
             h == CHOOSE g : Solves(g)
  <1>1. IsFiniteSet(D) /\ \A d \in D : f[d] = DailyMetrics(d).total
    BY SoldAre
  <1>2. MapThenSumSet(LAMBDA d : DailyMetrics(d).total, D) = h[D]
    BY DEF MapThenSumSet, MapThenFoldSet
  <1> HIDE DEF f, D
  <1>3. PICK g : Sums(g, D, f)
    BY <1>1, SumsExists
  <1>4. Solves(g)
    BY <1>1, <1>3, PickIs DEF Sums, Adds, Pick
  <1>5. Solves(h)
    BY <1>4
  <1> HIDE DEF h
  <1>6. Sums(h, D, f)
    BY <1>1, <1>5, PickIs DEF Sums, Adds, Pick
  <1> QED BY <1>1, <1>2, <1>6, TotalOf DEF f, D

LEMMA VolumesAre ==
    ASSUME log \in Seq(Receipt)
    PROVE  MapThenSumSet(LAMBDA d : DailyMetrics(d).volume, Days)
              = Total([d \in Days |-> DailyMetrics(d).volume], Days)
  <1> DEFINE D == Days
             f == [d \in D |-> DailyMetrics(d).volume]
             Solves(g) == g = [s \in SUBSET D |->
                                 IF s = {} THEN 0
                                 ELSE LET x == CHOOSE x \in s : TRUE IN DailyMetrics(x).volume + g[s \ {x}]]
             h == CHOOSE g : Solves(g)
  <1>1. IsFiniteSet(D) /\ \A d \in D : f[d] = DailyMetrics(d).volume
    BY SoldAre
  <1>2. MapThenSumSet(LAMBDA d : DailyMetrics(d).volume, D) = h[D]
    BY DEF MapThenSumSet, MapThenFoldSet
  <1> HIDE DEF f, D
  <1>3. PICK g : Sums(g, D, f)
    BY <1>1, SumsExists
  <1>4. Solves(g)
    BY <1>1, <1>3, PickIs DEF Sums, Adds, Pick
  <1>5. Solves(h)
    BY <1>4
  <1> HIDE DEF h
  <1>6. Sums(h, D, f)
    BY <1>1, <1>5, PickIs DEF Sums, Adds, Pick
  <1> QED BY <1>1, <1>2, <1>6, TotalOf DEF f, D

LEMMA PaidAre ==
    ASSUME NEW sums \in [Payer -> Summary], NEW D \in SUBSET Payer, IsFiniteSet(D)
    PROVE  MapThenSumSet(LAMBDA p : sums[p].volume, D) = Total([p \in D |-> sums[p].volume], D)
  <1> DEFINE f == [p \in D |-> sums[p].volume]
             Solves(g) == g = [s \in SUBSET D |->
                                 IF s = {} THEN 0
                                 ELSE LET x == CHOOSE x \in s : TRUE IN sums[x].volume + g[s \ {x}]]
             h == CHOOSE g : Solves(g)
  <1>1. \A p \in D : f[p] = sums[p].volume
    OBVIOUS
  <1>2. MapThenSumSet(LAMBDA p : sums[p].volume, D) = h[D]
    BY DEF MapThenSumSet, MapThenFoldSet
  <1> HIDE DEF f
  <1>3. PICK g : Sums(g, D, f)
    BY SumsExists
  <1>4. Solves(g)
    BY <1>1, <1>3, PickIs DEF Sums, Adds, Pick
  <1>5. Solves(h)
    BY <1>4
  <1> HIDE DEF h
  <1>6. Sums(h, D, f)
    BY <1>1, <1>5, PickIs DEF Sums, Adds, Pick
  <1> QED BY <1>2, <1>6, TotalOf DEF f

\* The days partition the settled receipts, and what was paid.
LEMMA DaysPartition ==
    ASSUME log \in Seq(Receipt)
    PROVE  /\ Total([d \in Days |-> DailyMetrics(d).total], Days) = Cardinality(Sold)
           /\ Total([d \in Days |-> DailyMetrics(d).volume], Days) = Total(Amounts(log), Sold)
  <1> DEFINE class == [i \in Sold |-> DayOf(log[i].ts)]
             ones == [i \in Sold |-> 1]
             f == [d \in Days |-> DailyMetrics(d).total]
             v == [d \in Days |-> DailyMetrics(d).volume]
  <1>1. /\ IsFiniteSet(Sold) /\ IsFiniteSet(Days) /\ class \in [Sold -> Days]
        /\ \A i \in Sold : ones[i] = 1 /\ ones[i] \in Nat
        /\ \A i \in Sold : Amounts(log)[i] \in Nat
        /\ \A i \in Sold : class[i] = DayOf(log[i].ts)
    BY SoldAre
  <1>2. \A d \in Days : f[d] = DailyMetrics(d).total /\ v[d] = DailyMetrics(d).volume
    OBVIOUS
  <1> HIDE DEF class, ones, f, v
  <1>3. ASSUME NEW d \in Days
        PROVE  /\ f[d] = Total(ones, InClass(Sold, class, d))
               /\ v[d] = Total(Amounts(log), InClass(Sold, class, d))
    <2> DEFINE I == InClass(Sold, class, d)
    <2>1. OnDay(d, Len(log)) = I /\ I \in SUBSET Sold
      BY <1>1, SoldAre DEF InClass
    <2>2. IsFiniteSet(I) /\ Cardinality(I) \in Nat
      BY <1>1, <2>1, FS_Subset, FS_CardinalityType
    <2>3. \A i \in I : ones[i] = 1
      BY <1>1 DEF InClass
    <2>4. f[d] = Cardinality(I) /\ v[d] = Total(Amounts(log), I)
      BY <1>2, <2>1, DailyComputes DEF IsReportOf
    <2> HIDE DEF I
    <2>5. Total(ones, I) = 1 * Cardinality(I)
      BY <2>2, <2>3, TotalConstant
    <2>6. f[d] = Total(ones, I)
      BY <2>2, <2>4, <2>5
    <2> QED BY <2>4, <2>6 DEF I
  <1>4. Total(f, Days) = Total(ones, Sold)
    BY <1>1, <1>3, TotalByClass
  <1>5. Total(ones, Sold) = 1 * Cardinality(Sold) /\ Cardinality(Sold) \in Nat
    BY <1>1, TotalConstant, SoldAre
  <1>6. Total(v, Days) = Total(Amounts(log), Sold)
    BY <1>1, <1>3, TotalByClass
  <1>7. Total(f, Days) = Cardinality(Sold)
    BY <1>4, <1>5
  <1> QED BY <1>6, <1>7 DEF f, v

Summaries == Summarise(log)

\* The payers seen are those who have settled; no payer is both theirs and ours.
LEMMA SeenIs ==
    ASSUME log \in Seq(Receipt)
    PROVE  /\ Seen(Summaries) = PayersOf(Sold) \ {NoPayer} /\ Seen(Summaries) \in SUBSET Payer
           /\ IsFiniteSet(Seen(Summaries))
           /\ Seen(Summaries) = {p \in Payer : Of(p) # {}}
           /\ ExternalPayers(Summaries) = Seen(Summaries) \ OwnWallets
           /\ \A p \in Seen(Summaries) : Of(p) = {i \in Sold : log[i].payer = p}
  <1>1. \A p \in Payer : Of(p) = OfUpTo(log, p, Len(log)) /\ Of(p) = {i \in Sold : log[i].payer = p}
    BY DEF Of, OfUpTo, Sold, Settled
  <1>2. \A p \in Payer : Summarises(Summaries[p], log, Of(p), p)
    BY <1>1, SummariseComputes DEF Summaries
  <1>3. \A p \in Payer : (Summaries[p] # NotSeen) <=> (Of(p) # {})
    BY <1>2 DEF Summarises
  <1>4. Seen(Summaries) = {p \in Payer : Of(p) # {}}
    BY <1>3 DEF Seen
  <1>5. \A i \in Sold : log[i].payer \in Payer \cup {NoPayer}
    BY SoldAre, IndexSets, ReceiptIs
  <1>6. Seen(Summaries) = PayersOf(Sold) \ {NoPayer}
    BY <1>1, <1>4, <1>5, ReportsAssumption DEF PayersOf
  <1>7. IsFiniteSet(Seen(Summaries))
    <2> DEFINE f == [i \in Sold |-> log[i].payer]
    <2>1. f \in [Sold -> PayersOf(Sold)] /\ \A p \in PayersOf(Sold) : \E i \in Sold : f[i] = p
      BY DEF PayersOf
    <2>2. f \in Surjection(Sold, PayersOf(Sold))
      BY <2>1 DEF Surjection
    <2> HIDE DEF f
    <2>3. IsFiniteSet(PayersOf(Sold))
      BY <2>2, FS_Surjection, SoldAre
    <2> QED BY <1>6, <2>3, FS_Subset
  <1>8. ExternalPayers(Summaries) = Seen(Summaries) \ OwnWallets
    <2>1. \A p \in Seen(Summaries) : Summaries[p].external = (p \notin OwnWallets)
      BY <1>2, <1>4 DEF Summarises
    <2> QED BY <2>1 DEF ExternalPayers
  <1> QED BY <1>1, <1>4, <1>6, <1>7, <1>8

\* What the payers seen have paid is no more than what was paid.
LEMMA PaidIsPartOf ==
    ASSUME log \in Seq(Receipt)
    PROVE  /\ Total([p \in Seen(Summaries) |-> Summaries[p].volume], Seen(Summaries)) <= Total(Amounts(log), Sold)
  <1> DEFINE D == Seen(Summaries)
             known == {i \in Sold : log[i].payer # NoPayer}
             rest == Sold \ known
             class == [i \in known |-> log[i].payer]
             f == [p \in D |-> Summaries[p].volume]
  <1>1. /\ IsFiniteSet(known) /\ IsFiniteSet(rest) /\ IsFiniteSet(D)
        /\ known \cup rest = Sold /\ known \cap rest = {}
        /\ \A i \in Sold : Amounts(log)[i] \in Nat
    BY SoldAre, SeenIs, FS_Subset
  <1>2. class \in [known -> D] /\ \A i \in known : class[i] = log[i].payer
    BY SeenIs DEF PayersOf
  <1>3. ASSUME NEW p \in D PROVE f[p] = Total(Amounts(log), InClass(known, class, p))
    <2>1. Of(p) = InClass(known, class, p) /\ p \in Payer
      BY SeenIs, ReportsAssumption DEF InClass
    <2>2. Of(p) = OfUpTo(log, p, Len(log))
      BY DEF Of, OfUpTo
    <2>3. f[p] = Total(Amounts(log), Of(p))
      BY <2>1, <2>2, SummariseComputes DEF Summarises, Summaries
    <2> QED BY <2>1, <2>3
  <1> HIDE DEF f, D, class, known, rest
  <1>4. Total(f, D) = Total(Amounts(log), known)
    BY <1>1, <1>2, <1>3, TotalByClass
  <1>5. /\ Total(Amounts(log), known \cup rest) = Total(Amounts(log), known) + Total(Amounts(log), rest)
        /\ Total(Amounts(log), known) \in Nat /\ Total(Amounts(log), rest) \in Nat
    <2>1. \A i \in known \cup rest : Amounts(log)[i] \in Nat
      BY <1>1
    <2> QED BY <1>1, <2>1, TotalUnion, TotalType
  <1>6. Total(f, D) <= Total(Amounts(log), Sold)
    <2>1. Total(Amounts(log), Sold) = Total(Amounts(log), known) + Total(Amounts(log), rest)
      BY <1>1, <1>5
    <2> QED BY <1>4, <1>5, <2>1
  <1> QED BY <1>6 DEF f, D

\* What the days report of payers is what /api/payers counts.
LEMMA PayersAgree ==
    ASSUME log \in Seq(Receipt)
    PROVE  /\ UNION {DailyMetrics(d).payers : d \in Days} = Seen(Summaries)
           /\ UNION {DailyMetrics(d).externalPayers : d \in Days} = Seen(Summaries) \ OwnWallets
  <1>1. \A d : /\ DailyMetrics(d).payers = PayersOf(OnDay(d, Len(log))) \ {NoPayer}
               /\ DailyMetrics(d).externalPayers = PayersOf(OnDay(d, Len(log))) \ ({NoPayer} \cup OwnWallets)
    BY DailyComputes DEF IsReportOf
  <1>2. \A x : x \in PayersOf(Sold) <=> \E d \in Days : x \in PayersOf(OnDay(d, Len(log)))
    <2>1. \A d : OnDay(d, Len(log)) = {i \in Sold : DayOf(log[i].ts) = d}
      BY SoldAre
    <2>2. \A i \in Sold : DayOf(log[i].ts) \in Days /\ i \in OnDay(DayOf(log[i].ts), Len(log))
      BY <2>1, SoldAre
    <2>3. \A d : OnDay(d, Len(log)) \subseteq Sold
      BY <2>1
    <2> QED BY <2>2, <2>3 DEF PayersOf
  <1>3. Seen(Summaries) = PayersOf(Sold) \ {NoPayer}
    BY SeenIs
  <1>4. UNION {DailyMetrics(d).payers : d \in Days} = Seen(Summaries)
    BY <1>1, <1>2, <1>3
  <1>5. UNION {DailyMetrics(d).externalPayers : d \in Days} = Seen(Summaries) \ OwnWallets
    BY <1>1, <1>2, <1>3
  <1> QED BY <1>4, <1>5

LEMMA PayersHandlerIs ==
    ASSUME log \in Seq(Receipt)
    PROVE  PayersHandler = [external  |-> Cardinality(Seen(Summaries) \ OwnWallets),
                            own       |-> Cardinality({p \in OwnWallets : Of(p) # {}}),
                            milestone |-> Seen(Summaries) \ OwnWallets # {}]
  <1> DEFINE S == Seen(Summaries)
             E == S \ OwnWallets
  <1>1. IsFiniteSet(S) /\ ExternalPayers(Summaries) = E
    BY SeenIs
  <1>2. S \cap OwnWallets = {p \in OwnWallets : Of(p) # {}}
    BY SeenIs, ReportsAssumption
  <1> HIDE DEF S
  <1>3. IsFiniteSet(E) /\ Cardinality(E) = Cardinality(S) - Cardinality(S \cap OwnWallets)
    BY <1>1, FS_Difference
  <1>4. Cardinality(S) \in Nat /\ Cardinality(S \cap OwnWallets) \in Nat /\ Cardinality(E) \in Nat
    BY <1>1, <1>3, FS_CardinalityType, FS_Subset
  <1>5. (Cardinality(E) >= 1) = (E # {})
    <2>1. Cardinality(E) = 0 <=> E = {}
      BY <1>3, FS_EmptySet
    <2> HIDE DEF E
    <2> QED BY <1>4, <2>1
  <1>6. PayersHandler = [external |-> Cardinality(E), own |-> Cardinality(S) - Cardinality(E),
                         milestone |-> Cardinality(E) >= 1]
    BY <1>1 DEF PayersHandler, Summaries, S
  <1> HIDE DEF E
  <1>7. Cardinality(S) - Cardinality(E) = Cardinality(S \cap OwnWallets)
    BY <1>3, <1>4
  <1>8. PayersHandler = [external |-> Cardinality(E), own |-> Cardinality(S \cap OwnWallets),
                         milestone |-> E # {}]
    BY <1>5, <1>6, <1>7
  <1> QED BY <1>2, <1>8 DEF E, S

\* A page of receipts is cut from the settled ones.
LEMMA ApiReceiptsIs ==
    ASSUME log \in Seq(Receipt), NEW limit \in 1 .. LogMax
    PROVE  Len(ApiReceipts(limit)) = Min({limit, Cardinality(Sold)})
  <1> DEFINE n == Cardinality(Sold)
             m == IF limit < n THEN limit ELSE n
  <1>1. SettledReceipts \in Seq(Receipt) /\ Len(SettledReceipts) = n /\ n \in Nat /\ limit \in Nat
    BY FilterComputes, SoldAre, ReportsAssumption DEF Sold
  <1> HIDE DEF n
  <1>2. ApiReceipts(limit) = SubSeq(SettledReceipts, 1, m)
    BY <1>1 DEF ApiReceipts
  <1>3. m \in Nat /\ m <= Len(SettledReceipts)
    BY <1>1
  <1>4. Len(SubSeq(SettledReceipts, 1, m)) = m
    <2> HIDE DEF m
    <2> QED BY <1>1, <1>3
  <1>5. m = Min({limit, n})
    <2>1. {limit, n} \subseteq Nat /\ m \in {limit, n} /\ \A x \in {limit, n} : m <= x
      BY <1>1
    <2> HIDE DEF m
    <2> QED BY <2>1, EndsAre
  <1> QED BY <1>2, <1>4, <1>5 DEF n

LEMMA Agreement == log \in Seq(Receipt) => ReportsAgree
  <1> SUFFICES ASSUME log \in Seq(Receipt) PROVE ReportsAgree
    OBVIOUS
  <1>1. MapThenSumSet(LAMBDA d : DailyMetrics(d).total, Days) = Cardinality(Sold)
    BY TotalsAre, DaysPartition
  <1>2. MapThenSumSet(LAMBDA d : DailyMetrics(d).volume, Days)
           >= MapThenSumSet(LAMBDA p : Summaries[p].volume, Seen(Summaries))
    <2>1. Summaries \in [Payer -> Summary]
      BY SummariseComputes DEF Summaries
    <2>2. MapThenSumSet(LAMBDA p : Summaries[p].volume, Seen(Summaries))
             = Total([p \in Seen(Summaries) |-> Summaries[p].volume], Seen(Summaries))
      BY <2>1, SeenIs, PaidAre
    <2>3. MapThenSumSet(LAMBDA d : DailyMetrics(d).volume, Days) = Total(Amounts(log), Sold)
      BY VolumesAre, DaysPartition
    <2> QED BY <2>2, <2>3, PaidIsPartOf
  <1>3. /\ UNION {DailyMetrics(d).payers : d \in Days} = Seen(Summaries)
        /\ PayersHandler = [external  |-> Cardinality(UNION {DailyMetrics(d).externalPayers : d \in Days}),
                            own       |-> Cardinality({p \in OwnWallets : Of(p) # {}}),
                            milestone |-> UNION {DailyMetrics(d).externalPayers : d \in Days} # {}]
    BY PayersAgree, PayersHandlerIs
  <1>4. \A limit \in 1 .. LogMax : Len(ApiReceipts(limit)) = Min({limit, Cardinality(Sold)})
    BY ApiReceiptsIs
  <1>5. Sold = {i \in DOMAIN log : log[i].settled}
    BY SoldAre
  <1> QED BY <1>1, <1>2, <1>3, <1>4, <1>5 DEF ReportsAgree, Days, Summaries

\* payers.ts:47-78: whatever the order of the log and of its timestamps, the one
\* pass of summarise computes the settlements, volume, first and last of each payer.
THEOREM OnePassIsGroupBy == ReportsSpec => []SummariseIsGroupBy
  <1>1. RInv => SummariseIsGroupBy
    BY GroupBy DEF RInv, Types, LogTypes
  <1> QED BY <1>1, ReportsInvariance, PTL

\* index.ts:118-188 and payers.ts: the days, the payers and the receipts are
\* reports on the same sales, for every log and every division into days.
THEOREM ReportsDoAgree == ReportsSpec => []ReportsAgree
  <1>1. RInv => ReportsAgree
    BY Agreement DEF RInv, Types, LogTypes
  <1> QED BY <1>1, ReportsInvariance, PTL
=============================================================================
