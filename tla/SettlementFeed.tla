--------------------------- MODULE SettlementFeed ----------------------------
(***************************************************************************)
(* The live feed (src/demo.ts): recordSettlement overwrites one KV key,    *)
(* latest_event; each open page has a stream that polls the key and sends  *)
(* what is newer than its cursor; streams close after 25 s and the page    *)
(* connects again with the cursor it has reached.  One page is modelled:   *)
(* pages do not know of each other; its table of receipts is in Reports.   *)
(***************************************************************************)
EXTENDS Naturals, Sequences

CONSTANTS Event,           \* settlements
          NoEvent,
          PollsPerStream,  \* polls before the planned close (25 s / 2 s: 12)
          MaxTime,         \* bound: the clock stops here
          MaxBreaks,       \* bound: connections that break
          FaultSets        \* the sets of faults to consider

FaultKinds == {"stale",    \* a KV read returns an older value
               "expiry",   \* latest_event expires
               "kv"}       \* a KV read rejects

ASSUME FeedAssumption == /\ NoEvent \notin Event
                         /\ PollsPerStream \in Nat \ {0}
                         /\ MaxTime \in Nat \ {0} /\ MaxBreaks \in Nat
                         /\ FaultSets \subseteq SUBSET FaultKinds

NoTime == 0    \* no cursor yet; the clock starts at 1

VARIABLES faults,   \* what may fail in this behaviour: fixed at the start
          now,
          stamp,    \* timestamp of each receipt; NoTime before it is settled
          written,  \* history: events in the order they were put
          latest,   \* KV "latest_event"
          conn,     \* the page's EventSource; "starting": its stream is in start()
          cursor,   \* the stream's cursor; while it is starting, latestTs
          polls,    \* polls the stream has made
          queue,    \* messages under way: connected, payment_settled, reconnect
          seen,     \* sseCursor of the page
          shown,    \* events in the Live Events panel, in the order they came
          breaks,   \* connections broken so far
          before,   \* history: events put when the page's first stream read KV
          blank     \* history: the now it started at, if it found no event

vars == <<faults, now, stamp, written, latest, conn, cursor, polls, queue, seen, shown, breaks, before, blank>>
kv == <<stamp, written, latest>>
opening == <<before, blank>>
stream == <<cursor, polls>>

Written == {written[i] : i \in DOMAIN written}

\* A message: what a stream sends under each name.
Message == [type : {"connected"}, ts : Nat] \cup [type : {"payment_settled"}, event : Event]
               \cup [type : {"reconnect"}]

TypeOK == /\ faults \in FaultSets
          /\ now \in 1 .. MaxTime
          /\ stamp \in [Event -> Nat]
          /\ written \in Seq(Event) /\ latest \in Event \cup {NoEvent}
          /\ conn \in {"down", "connecting", "starting", "open"}
          /\ cursor \in Nat /\ polls \in 0 .. PollsPerStream + 1
          /\ queue \in Seq(Message)
          /\ seen \in Nat /\ shown \in Seq(Event)
          /\ breaks \in 0 .. MaxBreaks
          /\ before \subseteq Event /\ blank \in Nat

Init == /\ faults \in FaultSets
        /\ now = 1
        /\ stamp = [e \in Event |-> NoTime]
        /\ written = << >> /\ latest = NoEvent
        /\ conn = "down" /\ cursor = NoTime /\ polls = 0 /\ queue = << >>
        /\ seen = NoTime /\ shown = << >> /\ breaks = 0
        /\ before = {} /\ blank = NoTime

-----------------------------------------------------------------------------
(* The seller.                                                             *)

Tick == /\ now < MaxTime
        /\ now' = now + 1
        /\ UNCHANGED <<kv, conn, stream, queue, seen, shown, breaks, opening>>

\* recordSettlement stamps the receipt ...
Stamp(e) == /\ stamp[e] = NoTime
            /\ stamp' = [stamp EXCEPT ![e] = now]
            /\ UNCHANGED <<now, written, latest, conn, stream, queue, seen, shown, breaks, opening>>

\* ... and puts the event later, after the receipt log.
PutEvent(e) == /\ stamp[e] # NoTime /\ e \notin Written
               /\ latest' = e
               /\ written' = Append(written, e)
               /\ UNCHANGED <<now, stamp, conn, stream, queue, seen, shown, breaks, opening>>

\* expirationTtl of latest_event.
Expire == /\ "expiry" \in faults
          /\ latest # NoEvent
          /\ latest' = NoEvent
          /\ UNCHANGED <<now, stamp, written, conn, stream, queue, seen, shown, breaks, opening>>

-----------------------------------------------------------------------------
(* The stream.                                                             *)

\* What a read of latest_event may return: its value, or an older one.
Readable == {latest} \cup (IF "stale" \in faults THEN Written \cup {NoEvent} ELSE {})

TsOf(e) == IF e = NoEvent THEN NoTime ELSE stamp[e]

\* Bug: every stream starts at the beginning (the defect of 2026-09-14).
SseStartCursor_None(since, latestTs) == since

\* Bug: a reconnect starts at the present, whatever the page has seen.
SseStartCursor_Now(since, latestTs) == now

SseStartCursor(since, latestTs) ==
    IF since # NoTime THEN since ELSE IF latestTs # NoTime THEN latestTs ELSE now

\* The page has not learned a cursor from any stream yet.
FirstStream == seen = NoTime /\ shown = << >>

\* The request arrives, and start() reads the latest event; a read that fails
\* counts as no event.
StreamRead ==
    /\ conn = "connecting"
    /\ conn' = "starting"
    /\ \E e \in Readable \cup (IF "kv" \in faults THEN {NoEvent} ELSE {}) : cursor' = TsOf(e)
    /\ queue' = << >>
    /\ before' = IF FirstStream THEN Written ELSE before
    /\ UNCHANGED <<now, kv, polls, seen, shown, breaks, blank>>

\* Later, with what it has read: since, or the latest event, or the now of now.
StreamStart ==
    /\ conn = "starting"
    /\ conn' = "open"
    /\ cursor' = SseStartCursor(seen, cursor)
    /\ queue' = <<[type |-> "connected", ts |-> cursor']>>
    /\ polls' = 0
    /\ blank' = IF FirstStream THEN IF cursor = NoTime THEN now ELSE NoTime ELSE blank
    /\ UNCHANGED <<now, kv, seen, shown, breaks, before>>

SseShouldEmit(e) == e # NoEvent /\ stamp[e] > cursor

\* One turn of the poll interval; a read that fails sends connection_issue,
\* which the page does not listen for.
Poll == /\ conn = "open" /\ polls < PollsPerStream
        /\ polls' = polls + 1
        /\ \/ \E e \in Readable :
                 IF SseShouldEmit(e)
                 THEN /\ cursor' = stamp[e]
                      /\ queue' = Append(queue, [type |-> "payment_settled", event |-> e])
                 ELSE UNCHANGED <<cursor, queue>>
           \/ "kv" \in faults /\ UNCHANGED <<cursor, queue>>
        /\ UNCHANGED <<now, kv, conn, seen, shown, breaks, opening>>

\* After 25 s: announce the close, and close.
PlannedClose == /\ conn = "open" /\ polls = PollsPerStream
                /\ queue' = Append(queue, [type |-> "reconnect"])
                /\ polls' = PollsPerStream + 1
                /\ UNCHANGED <<now, kv, conn, cursor, seen, shown, breaks, opening>>

-----------------------------------------------------------------------------
(* The page.                                                               *)

\* connectSSE: at load, after a delay, or at once after a planned close.
Connect == /\ conn = "down"
           /\ conn' = "connecting"
           /\ queue' = << >>
           /\ UNCHANGED <<now, kv, stream, seen, shown, breaks, opening>>

OnConnected(m) == /\ seen' = IF seen = NoTime THEN m.ts ELSE seen
                  /\ UNCHANGED <<shown, conn>>

\* addEvent: on top of the panel, which keeps the newest 31.
AddEvent(e) == shown' = Append(shown, e)

\* Bug: the page shows the event but does not remember it.
OnPaymentSettled_Forgets(e) == /\ IF seen # NoTime /\ stamp[e] <= seen
                                  THEN UNCHANGED shown ELSE AddEvent(e)
                               /\ UNCHANGED <<seen, conn>>

OnPaymentSettled(e) == /\ IF seen # NoTime /\ stamp[e] <= seen
                          THEN UNCHANGED <<seen, shown>>
                          ELSE seen' = stamp[e] /\ AddEvent(e)
                       /\ UNCHANGED conn

OnReconnect == conn' = "connecting" /\ UNCHANGED <<seen, shown>>

\* Messages of one stream arrive in order.
Deliver == /\ conn = "open" /\ queue # << >>
           /\ LET m == Head(queue)
              IN CASE m.type = "connected" -> OnConnected(m)
                   [] m.type = "payment_settled" -> OnPaymentSettled(m.event)
                   [] m.type = "reconnect" -> OnReconnect
           /\ queue' = Tail(queue)
           /\ UNCHANGED <<now, kv, stream, breaks, opening>>

\* onerror: the connection breaks, and what was under way is lost.
Break == /\ conn # "down" /\ breaks < MaxBreaks
         /\ conn' = "down"
         /\ queue' = << >>
         /\ breaks' = breaks + 1
         /\ UNCHANGED <<now, kv, stream, seen, shown, opening>>

Seller == Tick \/ (\E e \in Event : Stamp(e) \/ PutEvent(e)) \/ Expire
Stream == StreamRead \/ StreamStart \/ Poll \/ PlannedClose
Page == Connect \/ Deliver
Next == (Seller \/ Stream \/ Page \/ Break) /\ UNCHANGED faults

Spec == Init /\ [][Next]_vars

\* Timers fire and messages arrive while a connection holds; nobody has to buy.
FairSpec == /\ Spec
            /\ WF_vars(Stream /\ UNCHANGED faults)
            /\ WF_vars(Connect /\ UNCHANGED faults)
            /\ WF_vars(Deliver /\ UNCHANGED faults)

-----------------------------------------------------------------------------
\* demo.ts:26-30 "every stream ... re-sent whatever latest_event was": over all
\* streams, breaks and reconnects, each settlement is shown once, oldest first.
ShownOnceInOrder ==
    \A i, j \in DOMAIN shown : i < j => stamp[shown[i]] < stamp[shown[j]]

\* demo.ts:33-34 "settlements that happen while it is open, not a stale one as
\* live": nothing is shown that was stored before the page had its first stream,
\* as far as KV reads see what was written.
NothingStaleShown ==
    "stale" \notin faults => \A i \in DOMAIN shown : shown[i] \notin before

\* README.md:159 "Each settlement appears in Live Events", as far as the code
\* goes: once the settlements pause, through planned closes and breaks, the
\* newest one stored is in the panel, unless one stamped no earlier is there or
\* was there before the page, or the page's first stream found no event and
\* started at a now that the stamp does not exceed.
NewestIsShown ==
    \/ latest = NoEvent
    \/ \E d \in before \cup {shown[i] : i \in DOMAIN shown} : stamp[d] >= stamp[latest]
    \/ stamp[latest] <= blank

CatchesUp == faults \cap {"stale", "kv"} = {} => <>[]NewestIsShown
=============================================================================
