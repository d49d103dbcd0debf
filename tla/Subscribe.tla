------------------------------ MODULE Subscribe ------------------------------
(***************************************************************************)
(* The mailing list (src/subscribe.ts): a form post is validated, counted  *)
(* against its IP address in KV, and stored under its address unless that  *)
(* is there already.  Every KV call is awaited, so posts interleave        *)
(* between any two of them; each may reject, which ends the post with 500. *)
(* Meanwhile the list may be exported or counted, a page of keys at a time.*)
(* KV is bound (without it each handler answers 503 at once).  Read from   *)
(* the location it was written at, it shows what was written; elsewhere a  *)
(* read or a list may show what was there before.                          *)
(***************************************************************************)
EXTENDS Naturals, FiniteSets

CONSTANTS Post, Email, Ip,
          Page,     \* keys on a page of KV's list (1000)
          Quota,    \* SUBMIT_QUOTA
          Window,   \* SUBMIT_WINDOW_S, in time units
          MaxTime,  \* bound: the clock stops here
          Settings  \* the settings to consider: see Setting

Kind == {"csv", "count"}    \* subscribers.csv, subscribers/count

Setting == [posts : Nat,           \* bound: posts made
            overlap : Nat \ {0},   \* posts in progress at once
            faulty : BOOLEAN,      \* KV calls may reject
            stale : BOOLEAN,       \* KV may show what it held earlier
            listing : SUBSET Kind] \* what is asked of the list

ASSUME SubscribeAssumption == /\ Quota \in Nat \ {0} /\ Window \in Nat \ {0}
                              /\ MaxTime \in Nat /\ Page \in Nat \ {0}
                              /\ Settings \subseteq Setting
                              /\ IsFiniteSet(Post) /\ "nobody" \notin Post

Form == [email : Email, ip : Ip, shape : {"ok", "null", "malformed", "invalid_email"},
         consent : {"yes", "no", "absent"}]
Answer == {"none", "subscribe_malformed", "subscribe_invalid_email",
           "subscribe_consent_required", "rate_limit_exceeded",
           "already_subscribed", "subscribed", "internal_error"}

VARIABLES setting,  \* of this behaviour: fixed at the start
          now,
          pc,       \* next KV call of each post
          form,     \* what was posted
          read,     \* the count a post has read
          answer,
          counter,  \* KV "subrl:<ip>": count, and when the entry expires
          former,   \* entries it has held before, where reads may be stale
          record,   \* KV "sub:<email>": the post that stored it, or nobody
          passed,   \* history: posts the throttle let through, and when
          listing   \* the export or count under way

posts == <<pc, form, read, answer>>
vars == <<setting, now, posts, counter, former, record, passed, listing>>

\* step: its next KV call, or how it ended; due: history, the addresses on the
\* list when it began; seen: keys behind the cursor; page: keys still to be read;
\* last: list_complete; lines: how often each address has been counted or written.
NoListing == [kind |-> "csv", step |-> "none", due |-> {}, seen |-> {}, page |-> {},
              last |-> FALSE, lines |-> [e \in Email |-> 0]]

Blank == [email |-> "none", ip |-> "none", shape |-> "ok", consent |-> "absent"]

InProgress == {"throttleGet", "throttlePut", "recordGet", "recordPut"}

Listing == [kind : Kind, step : {"none", "list", "read", "done", "refused", "failed"},
            due : SUBSET Email, seen : SUBSET Email, page : SUBSET Email,
            last : BOOLEAN, lines : [Email -> Nat]]

Entry == [count : Nat, until : Nat]

TypeOK == /\ setting \in Settings
          /\ now \in 0 .. MaxTime
          /\ pc \in [Post -> {"new", "done"} \cup InProgress]
          /\ form \in [Post -> Form \cup {Blank}]
          /\ read \in [Post -> Nat]
          /\ answer \in [Post -> Answer]
          /\ counter \in [Ip -> Entry]
          /\ former \in [Ip -> SUBSET Entry]
          /\ record \in [Email -> Post \cup {"nobody"}]
          /\ passed \subseteq [post : Post, ip : Ip, at : 0 .. MaxTime]
          /\ listing \in Listing

Init == /\ setting \in Settings
        /\ now = 0
        /\ pc = [p \in Post |-> "new"]
        /\ form = [p \in Post |-> Blank]
        /\ read = [p \in Post |-> 0]
        /\ answer = [p \in Post |-> "none"]
        /\ counter = [ip \in Ip |-> [count |-> 0, until |-> 0]]
        /\ former = [ip \in Ip |-> {}]
        /\ record = [e \in Email |-> "nobody"]
        /\ passed = {}
        /\ listing = NoListing

Tick == /\ now < MaxTime
        /\ now' = now + 1
        /\ UNCHANGED <<posts, counter, record, passed, listing>>

Finish(p, a) == /\ pc' = [pc EXCEPT ![p] = "done"]
                /\ answer' = [answer EXCEPT ![p] = a]

GoTo(p, step) == /\ pc' = [pc EXCEPT ![p] = step]
                 /\ UNCHANGED answer

\* Bug: any value of the consent field counts.
Validate_AnyConsent(p, f) ==
    IF f.shape # "ok" THEN Finish(p, "subscribe_invalid_email")
    ELSE IF f.consent = "absent" THEN Finish(p, "subscribe_consent_required")
    ELSE GoTo(p, "throttleGet")

\* Parsing, the shape of the address, and consent, in this order.  A JSON body of
\* null parses and has no fields to read.
Validate(p, f) ==
    CASE f.shape = "null" -> Finish(p, "internal_error")
      [] f.shape = "malformed" -> Finish(p, "subscribe_malformed")
      [] f.shape = "invalid_email" -> Finish(p, "subscribe_invalid_email")
      [] f.shape = "ok" /\ f.consent # "yes" -> Finish(p, "subscribe_consent_required")
      [] OTHER -> GoTo(p, "throttleGet")

Arrive(p) == /\ pc[p] = "new"
             /\ Cardinality({q \in Post : pc[q] # "new"}) < setting.posts
             /\ Cardinality({q \in Post : pc[q] \in InProgress}) < setting.overlap
             /\ \E f \in Form : form' = [form EXCEPT ![p] = f] /\ Validate(p, f)
             /\ UNCHANGED <<now, read, counter, record, passed, listing>>

\* An entry as KV shows it: an expired one is gone.
CountIn(entry) == IF entry.until > now THEN entry.count ELSE 0

\* The counts a read may find: former is empty where reads are fresh.
CountsShown(ip) == {CountIn(entry) : entry \in former[ip] \cup {counter[ip]}}

ThrottleGet(p) ==
    /\ pc[p] = "throttleGet"
    /\ \E count \in CountsShown(form[p].ip) :
          IF count >= Quota
          THEN Finish(p, "rate_limit_exceeded") /\ UNCHANGED read
          ELSE GoTo(p, "throttlePut") /\ read' = [read EXCEPT ![p] = count]
    /\ UNCHANGED <<now, form, counter, record, passed, listing>>

\* Bug: the entry keeps the expiry it was created with, a fixed window.
NewUntil_Fixed(ip) == IF CountIn(counter[ip]) = 0 THEN now + Window ELSE counter[ip].until

\* Each put renews the expiry.
NewUntil(ip) == now + Window

Counted(p) == [count |-> read[p] + 1, until |-> NewUntil(form[p].ip)]

ThrottlePut(p) ==
    /\ pc[p] = "throttlePut"
    /\ counter' = [counter EXCEPT ![form[p].ip] = Counted(p)]
    /\ passed' = passed \cup {[post |-> p, ip |-> form[p].ip, at |-> now]}
    /\ GoTo(p, "recordGet")
    /\ UNCHANGED <<now, form, read, record, listing>>

\* There was no record once: a stale read may still say so.
RecordGet(p) == /\ pc[p] = "recordGet"
                /\ \/ record[form[p].email] # "nobody" /\ Finish(p, "already_subscribed")
                   \/ /\ record[form[p].email] = "nobody" \/ setting.stale
                      /\ GoTo(p, "recordPut")
                /\ UNCHANGED <<now, form, read, counter, record, passed, listing>>

RecordPut(p) == /\ pc[p] = "recordPut"
                /\ record' = [record EXCEPT ![form[p].email] = p]
                /\ Finish(p, "subscribed")
                /\ UNCHANGED <<now, form, read, counter, passed, listing>>

\* Bug: a failing put is swallowed.
KvRejects_Swallowed(p) == /\ setting.faulty
                          /\ pc[p] = "recordPut"
                          /\ Finish(p, "subscribed")
                          /\ UNCHANGED <<now, form, read, counter, record, passed, listing>>

\* No call is caught: the framework answers 500.  A put that rejects may have
\* been applied.
KvRejects(p) ==
    /\ setting.faulty
    /\ pc[p] \in InProgress
    /\ Finish(p, "internal_error")
    /\ \/ UNCHANGED <<counter, record>>
       \/ /\ pc[p] = "throttlePut"
          /\ counter' = [counter EXCEPT ![form[p].ip] = Counted(p)]
          /\ UNCHANGED record
       \/ /\ pc[p] = "recordPut"
          /\ record' = [record EXCEPT ![form[p].email] = p]
          /\ UNCHANGED counter
    /\ UNCHANGED <<now, form, read, passed, listing>>

-----------------------------------------------------------------------------
(* The export and the count.                                               *)

Listed == {e \in Email : record[e] # "nobody"}

\* The count is public.  The export needs the token: a 503 when none is
\* configured and a 401 for a wrong one end it before KV is read.
ListingAsked(kind) ==
    /\ kind \in setting.listing /\ listing.step = "none"
    /\ \/ listing' = [NoListing EXCEPT !.kind = kind, !.step = "list", !.due = Listed]
       \/ kind = "csv" /\ listing' = [NoListing EXCEPT !.kind = kind, !.step = "refused"]
    /\ UNCHANGED <<now, posts, counter, record, passed>>

\* Bug: the cursor is not passed on.
Ahead_FromTheStart == Listed

Ahead == Listed \ listing.seen

\* KV lists keys in the order of their names: those that were there when the
\* listing began all come, unless the list is stale, and one that is added
\* meanwhile may be behind the cursor.  The count adds up the keys, the export
\* goes on to read them.
ListingPage ==
    /\ listing.step = "list"
    /\ \E page \in SUBSET Ahead : \E last \in BOOLEAN :
          /\ Cardinality(page) <= Page
          /\ last => setting.stale \/ listing.due \subseteq listing.seen \cup page
          /\ ~last => page # {}
          /\ listing' = [listing EXCEPT
                 !.seen = @ \cup page, !.last = last,
                 !.page = IF listing.kind = "csv" THEN page ELSE {},
                 !.lines = IF listing.kind = "csv" THEN @
                           ELSE [e \in Email |-> IF e \in page THEN @[e] + 1 ELSE @[e]],
                 !.step = IF listing.kind = "csv" THEN "read"
                          ELSE IF last THEN "done" ELSE "list"]
    /\ UNCHANGED <<now, posts, counter, record, passed>>

\* A line for each key of the page that can be read, and none for one whose
\* value a stale read does not find; then the next page.
ListingRead ==
    /\ listing.step = "read"
    /\ \/ \E e \in listing.page :
             listing' = [listing EXCEPT !.page = @ \ {e}, !.lines[e] = @ + 1]
       \/ /\ setting.stale
          /\ \E e \in listing.page : listing' = [listing EXCEPT !.page = @ \ {e}]
       \/ /\ listing.page = {}
          /\ listing' = [listing EXCEPT !.step = IF listing.last THEN "done" ELSE "list"]
    /\ UNCHANGED <<now, posts, counter, record, passed>>

ListingRejects ==
    /\ setting.faulty /\ listing.step \in {"list", "read"}
    /\ listing' = [listing EXCEPT !.step = "failed"]
    /\ UNCHANGED <<now, posts, counter, record, passed>>

Next == /\ \/ Tick
           \/ (\E kind \in Kind : ListingAsked(kind)) \/ ListingPage \/ ListingRead \/ ListingRejects
           \/ \E p \in Post : \/ Arrive(p) \/ ThrottleGet(p) \/ ThrottlePut(p)
                              \/ RecordGet(p) \/ RecordPut(p) \/ KvRejects(p)
        /\ former' = IF setting.stale THEN [ip \in Ip |-> former[ip] \cup {counter[ip]}]
                     ELSE former
        /\ UNCHANGED setting

Spec == Init /\ [][Next]_vars

-----------------------------------------------------------------------------
\* A visitor who is told "ok" is on the list, however posts for one address
\* interleave, whatever KV call fails and however old what it shows.
AcknowledgedIsStored ==
    \A p \in Post : answer[p] \in {"subscribed", "already_subscribed"}
                        => record[form[p].email] # "nobody"

\* subscribe.ts:14 "the checkbox must be ticked or the request is refused": an
\* address is on the list only by a post of that address whose box was ticked
\* and which its throttle let through.
ListedOnlyWithConsent ==
    \A e \in Email : record[e] # "nobody" =>
        /\ form[record[e]].email = e /\ form[record[e]].consent = "yes"
        /\ \E t \in passed : t.post = record[e]

\* Hits of one address in the window that ends with t.
Recent(t) == {u \in passed : u.ip = t.ip /\ u.at <= t.at /\ u.at + Window > t.at}

\* subscribe.ts:85 "Throttle by IP so the form cannot be used to stuff the
\* list": no window of the full width lets more than Quota posts through.
ThrottleHolds == \A t \in passed : Cardinality(Recent(t)) <= Quota

\* It holds while posts do not overlap and reads are fresh: the counter's expiry,
\* which every post renews, never forgets a post that is still in the window.
SerialThrottleHolds == setting.overlap = 1 /\ ~setting.stale => ThrottleHolds

\* subscribe.ts:140-158, :175-180: an export or a count that is paged through
\* while posts go on has no address twice and, while reads are fresh, every
\* address that was on the list when it began.
ListingIsComplete ==
    listing.step = "done" =>
        \A e \in Email : /\ listing.lines[e] <= 1
                         /\ e \in listing.due /\ ~setting.stale => listing.lines[e] = 1
=============================================================================
