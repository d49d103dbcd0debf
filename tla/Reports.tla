------------------------------- MODULE Reports -------------------------------
(***************************************************************************)
(* The public reports: /api/payers (src/payers.ts), /api/metrics/daily     *)
(* (src/metrics.ts) and /api/receipts (src/index.ts), with what they read. *)
(* receipt_log keeps the last receipts only, their timestamps may be out   *)
(* of order, and it may still hold records of failed settlements from an   *)
(* older version.  The visit counters are read and written back by every   *)
(* page load, without atomicity, while a report adds them up.  The demo    *)
(* page (src/demo.ts) fetches the receipts again and again, and answers of *)
(* overlapping fetches may arrive in any order.                            *)
(***************************************************************************)
EXTENDS Integers, Sequences, FiniteSets, FiniteSetsExt, SequencesExt

CONSTANTS Payer, NoPayer,
          OwnWallets,  \* payers we control
          Amount,      \* in the smallest unit of the asset
          Time,        \* timestamps
          DayOf(_),    \* the date a timestamp starts with
          LogMax,      \* receipts kept (100 in the code)
          Visit,       \* page loads of one day that carry a well-formed body
          Source, Direct,         \* the sources of the naming sheet; the default
          Campaign, NoCampaign,   \* the campaigns; the default
          Unlisted,    \* the body names none, or one that is not on the sheet
          Fetch,       \* bound: fetches of the receipts a page has under way at once
          MaxReports,  \* bound: daily reports asked for
          Workloads    \* bounds: the visits, receipts, fetches and KV faults of a behaviour

ASSUME ReportsAssumption ==
    /\ NoPayer \notin Payer /\ OwnWallets \subseteq Payer
    /\ Amount \subseteq Nat /\ Time \subseteq Nat /\ LogMax \in Nat \ {0}
    /\ IsFiniteSet(Visit) /\ MaxReports \in Nat
    /\ Direct \in Source /\ NoCampaign \in Campaign /\ Unlisted \notin Source \cup Campaign
    /\ Workloads \subseteq [visits : SUBSET Visit, sales : Nat, fetches : SUBSET Fetch,
                            faults : SUBSET {"stale", "kv"}]

Receipt == [payer : Payer \cup {NoPayer}, amount : Amount, ts : Time, settled : BOOLEAN]

(* A fetch is idle, asked, or holds its answer: how many of the receipts    *)
(* were recorded when the seller read the log.                              *)
Idle == -2
Asked == -1

Counter == [source : Source, campaign : Campaign]    \* KV "visits:<date>:..."

VARIABLES load,        \* the workload of this behaviour: fixed at the start
          log, sales,  \* KV "receipt_log", receipts recorded so far
          pc,          \* next KV call of each visit
          named,       \* the source and the campaign its body names
          read,        \* the count it has read
          held,        \* what each counter has held, oldest first
          left,        \* counters the report under way has still to read
          total,       \* what it has added up
          reports,     \* reports asked for so far
          overlapped,  \* history: visits that overlapped another of their counter
          fetch,       \* the page's fetches of /api/receipts
          table        \* what its table shows: the log of this many receipts

visits == <<pc, named, read, held, overlapped>>
report == <<left, total, reports>>
page == <<fetch, table>>
reportsVars == <<load, log, sales, visits, report, page>>

ReportsTypeOK == /\ load \in Workloads
                 /\ log \in Seq(Receipt) /\ Len(log) <= LogMax
                 /\ sales \in 0 .. load.sales
                 /\ pc \in [Visit -> {"new", "put", "done"}]
                 /\ read \in [Visit -> Nat]
                 /\ \A k \in Counter : held[k] \in Seq(Nat) /\ held[k] # << >>
                 /\ left \subseteq Counter /\ total \in Nat /\ reports \in 0 .. MaxReports
                 /\ overlapped \subseteq Visit
                 /\ fetch \in [Fetch -> {Idle, Asked} \cup 0 .. sales] /\ table \in 0 .. sales

ReportsInit == /\ load \in Workloads
               /\ log = << >> /\ sales = 0
               /\ pc = [v \in Visit |-> "new"]
               /\ named \in [load.visits -> [source : Source \cup {Unlisted}, campaign : Campaign \cup {Unlisted}]]
               /\ read = [v \in Visit |-> 0]
               /\ held = [k \in Counter |-> <<0>>]
               /\ left = {} /\ total = 0 /\ reports = 0
               /\ overlapped = {}
               /\ fetch = [f \in Fetch |-> Idle] /\ table = 0

\* recordSettlement: prepend, and keep the newest (PaidRoute has the race).
Record(r) == /\ sales < load.sales
             /\ sales' = sales + 1
             /\ log' = SubSeq(<<r>> \o log, 1, IF Len(log) >= LogMax THEN LogMax ELSE Len(log) + 1)
             /\ UNCHANGED <<load, visits, report, page>>

-----------------------------------------------------------------------------
(* Visits, and the report that adds them up.                               *)

\* What is not on the sheet falls back to the default.
Clean(name, allowed, fallback) == IF name \in allowed THEN name ELSE fallback

CounterOf(v) == [source   |-> Clean(named[v].source, Source, Direct),
                 campaign |-> Clean(named[v].campaign, Campaign, NoCampaign)]

\* What a read of a counter may return: its value, or an older one.
ReadableCounts(k) == IF "stale" \in load.faults THEN Range(held[k]) ELSE {Last(held[k])}

Others(v) == {w \in load.visits \ {v} : pc[w] = "put" /\ CounterOf(w) = CounterOf(v)}

VisitGet(v) ==
    /\ pc[v] = "new"
    /\ \E n \in ReadableCounts(CounterOf(v)) : read' = [read EXCEPT ![v] = n]
    /\ pc' = [pc EXCEPT ![v] = "put"]
    /\ overlapped' = IF Others(v) = {} THEN overlapped ELSE overlapped \cup Others(v) \cup {v}
    /\ UNCHANGED <<load, log, sales, named, held, report, page>>

\* Bug: the count read is added to the counter instead of replacing it.
VisitPut_Adds(v) == /\ pc[v] = "put"
                    /\ held' = [held EXCEPT ![CounterOf(v)] = Append(@, Last(@) + read[v] + 1)]
                    /\ pc' = [pc EXCEPT ![v] = "done"]
                    /\ UNCHANGED <<load, log, sales, named, read, overlapped, report, page>>

\* Bug: the key that is written leaves the campaign out.
VisitPut_NoCampaign(v) ==
    /\ pc[v] = "put"
    /\ held' = [held EXCEPT ![[CounterOf(v) EXCEPT !.campaign = NoCampaign]] = Append(@, read[v] + 1)]
    /\ pc' = [pc EXCEPT ![v] = "done"]
    /\ UNCHANGED <<load, log, sales, named, read, overlapped, report, page>>

VisitPut(v) == /\ pc[v] = "put"
               /\ held' = [held EXCEPT ![CounterOf(v)] = Append(@, read[v] + 1)]
               /\ pc' = [pc EXCEPT ![v] = "done"]
               /\ UNCHANGED <<load, log, sales, named, read, overlapped, report, page>>

\* A get or a put rejects: nothing catches it, and the beacon does not try again.
VisitFails(v) == /\ "kv" \in load.faults
                 /\ v \in load.visits /\ pc[v] # "done"
                 /\ pc' = [pc EXCEPT ![v] = "done"]
                 /\ UNCHANGED <<load, log, sales, named, read, held, overlapped, report, page>>

\* dailyMetricsHandler lists the counters that exist; a list may be out of date ...
ReportList == /\ left = {} /\ reports < MaxReports
              /\ LET exist == {k \in Counter : Len(held[k]) > 1}
                 IN left' \in IF "stale" \in load.faults THEN SUBSET exist ELSE {exist}
              /\ total' = 0
              /\ reports' = reports + 1
              /\ UNCHANGED <<load, log, sales, visits, page>>

\* ... and reads each of them.
ReportRead(k) == /\ k \in left
                 /\ left' = left \ {k}
                 /\ \E n \in ReadableCounts(k) : total' = total + n
                 /\ UNCHANGED <<load, log, sales, reports, visits, page>>

\* A read rejects: the report is not answered.
ReportFails == /\ "kv" \in load.faults /\ left # {}
               /\ left' = {} /\ total' = 0
               /\ UNCHANGED <<load, log, sales, reports, visits, page>>

-----------------------------------------------------------------------------
(* The page's table of receipts.                                           *)

\* loadReceipts: by the timer of 10 s, at load or after an event of the feed
\* (SettlementFeed), whatever else is under way.
LoadReceipts == /\ \E f \in load.fetches : fetch[f] = Idle /\ fetch' = [fetch EXCEPT ![f] = Asked]
                /\ UNCHANGED <<load, log, sales, visits, report, table>>

\* The seller reads receipt_log.
AnswerFetch(f) == /\ fetch[f] = Asked
                  /\ \E n \in IF "stale" \in load.faults THEN 0 .. sales ELSE {sales} :
                        fetch' = [fetch EXCEPT ![f] = n]
                  /\ UNCHANGED <<load, log, sales, visits, report, table>>

\* Bug: an answer is dropped while another fetch is under way.
RenderReceipts_UnlessAnother(f) ==
    /\ fetch[f] >= 0
    /\ table' = IF \E g \in Fetch \ {f} : fetch[g] # Idle THEN table ELSE fetch[f]
    /\ fetch' = [fetch EXCEPT ![f] = Idle]
    /\ UNCHANGED <<load, log, sales, visits, report>>

\* The answer arrives, after answers that were asked for later perhaps, and
\* replaces the table.
RenderReceipts(f) == /\ fetch[f] >= 0
                     /\ table' = fetch[f]
                     /\ fetch' = [fetch EXCEPT ![f] = Idle]
                     /\ UNCHANGED <<load, log, sales, visits, report>>

\* An answer that is no list, or none at all, leaves the table as it is.
FetchFails(f) == /\ "kv" \in load.faults /\ fetch[f] # Idle
                 /\ fetch' = [fetch EXCEPT ![f] = Idle]
                 /\ UNCHANGED <<load, log, sales, visits, report, table>>

ReportsNext == \/ \E r \in Receipt : Record(r)
               \/ \E v \in load.visits : VisitGet(v) \/ VisitPut(v) \/ VisitFails(v)
               \/ ReportList \/ ReportFails
               \/ \E k \in Counter : ReportRead(k)
               \/ LoadReceipts
               \/ \E f \in Fetch : AnswerFetch(f) \/ RenderReceipts(f) \/ FetchFails(f)

ReportsSpec == ReportsInit /\ [][ReportsNext]_reportsVars

\* The page's timer keeps firing, and what is asked is answered or fails.
ReportsFairSpec == /\ ReportsSpec
                   /\ WF_reportsVars(LoadReceipts)
                   /\ \A f \in Fetch : WF_reportsVars(AnswerFetch(f) \/ RenderReceipts(f))

-----------------------------------------------------------------------------
\* Bug: any receipt with a timestamp is taken for a sale (before 2026-09-11).
IsSettledReceipt_Any(r) == TRUE

IsSettledReceipt(r) == r.settled    \* it has a transaction hash

NotSeen == [settlements |-> 0, volume |-> 0, first |-> 0, last |-> 0, external |-> FALSE]

\* Bug: the log is newest first, so the entry that opens a summary is the last.
AddTo_FirstIsNewest(s, r) ==
    IF s = NotSeen
    THEN [settlements |-> 1, volume |-> r.amount, first |-> r.ts, last |-> r.ts,
          external |-> r.payer \notin OwnWallets]
    ELSE [s EXCEPT !.settlements = @ + 1, !.volume = @ + r.amount, !.first = r.ts]

\* One receipt more for a payer: a new summary, or one extended at either end.
AddTo(s, r) ==
    IF s = NotSeen
    THEN [settlements |-> 1, volume |-> r.amount, first |-> r.ts, last |-> r.ts,
          external |-> r.payer \notin OwnWallets]
    ELSE [s EXCEPT !.settlements = @ + 1,
                   !.volume = @ + r.amount,
                   !.first = IF r.ts < @ THEN r.ts ELSE @,
                   !.last = IF r.ts > @ THEN r.ts ELSE @]

\* The loop of summarise, newest receipt first.
Summarise(receipts) ==
    FoldLeft(LAMBDA sums, r : IF IsSettledReceipt(r) /\ r.payer # NoPayer
                              THEN [sums EXCEPT ![r.payer] = AddTo(@, r)] ELSE sums,
             [p \in Payer |-> NotSeen], receipts)

Seen(sums) == {p \in Payer : sums[p] # NotSeen}
ExternalPayers(sums) == {p \in Seen(sums) : sums[p].external}

\* /api/payers: how many payers are external, how many our own, and whether
\* the milestone of a first external payer is met.
PayersHandler ==
    LET sums == Summarise(log)
        external == Cardinality(ExternalPayers(sums))
    IN [external |-> external, own |-> Cardinality(Seen(sums)) - external,
        milestone |-> external >= 1]

Empty == [total |-> 0, volume |-> 0, payers |-> {}, externalPayers |-> {}]

\* dailyMetricsHandler: the settled receipts of one date, added up.
DailyMetrics(date) ==
    FoldLeft(LAMBDA day, r :
                 IF IsSettledReceipt(r) /\ DayOf(r.ts) = date
                 THEN [total          |-> day.total + 1,
                       volume         |-> day.volume + r.amount,
                       payers         |-> day.payers \cup ({r.payer} \ {NoPayer}),
                       externalPayers |-> day.externalPayers \cup ({r.payer} \ ({NoPayer} \cup OwnWallets))]
                 ELSE day,
             Empty, log)

\* log.filter(isSettledReceipt)
SettledReceipts == FoldLeft(LAMBDA kept, r : IF IsSettledReceipt(r) THEN Append(kept, r) ELSE kept,
                            << >>, log)

\* /api/receipts: settled receipts, newest first, at most limit of them.
ApiReceipts(limit) ==
    SubSeq(SettledReceipts, 1, IF limit < Len(SettledReceipts) THEN limit ELSE Len(SettledReceipts))

-----------------------------------------------------------------------------
\* What the summary of a payer means, without the order of the loop.
Of(p) == {i \in DOMAIN log : log[i].settled /\ log[i].payer = p}

\* payers.ts: one pass over a log whose timestamps may be out of order computes,
\* for each payer, its settlements, their volume, and the first and the last.
SummariseIsGroupBy ==
    LET sums == Summarise(log)
    IN \A p \in Payer :
          /\ sums[p].settlements = Cardinality(Of(p))
          /\ sums[p].volume = MapThenSumSet(LAMBDA i : log[i].amount, Of(p))
          /\ Of(p) # {} => /\ sums[p].first = Min({log[i].ts : i \in Of(p)})
                           /\ sums[p].last = Max({log[i].ts : i \in Of(p)})
                           /\ sums[p].external = (p \notin OwnWallets)

\* The reports agree: the days partition the settled receipts, the external
\* payers of the days are those /api/payers counts, our own apart, and
\* /api/receipts (index.ts:186-188) serves as many as the days count: a failed
\* settlement takes no place among them.
ReportsAgree ==
    LET settled == {i \in DOMAIN log : log[i].settled}
        days == {DayOf(log[i].ts) : i \in DOMAIN log}
        sums == Summarise(log)
        external == UNION {DailyMetrics(d).externalPayers : d \in days}
    IN /\ MapThenSumSet(LAMBDA d : DailyMetrics(d).total, days) = Cardinality(settled)
       /\ MapThenSumSet(LAMBDA d : DailyMetrics(d).volume, days)
             >= MapThenSumSet(LAMBDA p : sums[p].volume, Seen(sums))
       /\ UNION {DailyMetrics(d).payers : d \in days} = Seen(sums)
       /\ PayersHandler = [external  |-> Cardinality(external),
                           own       |-> Cardinality({p \in OwnWallets : Of(p) # {}}),
                           milestone |-> external # {}]
       /\ \A limit \in 1 .. LogMax : Len(ApiReceipts(limit)) = Min({limit, Cardinality(settled)})

\* The visits of a counter whose handlers have returned.
Done(k) == {v \in load.visits : CounterOf(v) = k /\ pc[v] = "done"}

\* metrics.ts:159 "Visit counts are a floor": whatever overlaps, fails or is read
\* late, no counter and no report's total shows more visits than were made.
CountsAreAFloor ==
    /\ \A k \in Counter : Last(held[k]) <= Cardinality(Done(k))
    /\ total <= Cardinality({v \in load.visits : pc[v] = "done"})

\* metrics.ts:13-15: while KV answers, visits are lost only to overlaps, and of
\* those that overlapped on a counter at least one is counted.
LossNeedsOverlap ==
    load.faults = {} =>
        \A k \in Counter :
            LET lost == Cardinality(Done(k)) - Last(held[k])
            IN lost > 0 => lost < Cardinality({v \in overlapped : CounterOf(v) = k})

\* demo.ts:871-895: an older answer may overwrite a newer one, but the table does
\* not stay behind: once the sales pause, it shows all that are stored.
TableCatchesUp == load.faults = {} /\ load.fetches # {} => <>[](table = sales)
=============================================================================
