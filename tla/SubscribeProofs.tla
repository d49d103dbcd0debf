--------------------------- MODULE SubscribeProofs ---------------------------
(***************************************************************************)
(* What the mailing list promises, for any number of posts, addresses and  *)
(* failures of KV: who is told ok is on the list, who is on it has ticked  *)
(* the box and been let through, an export is complete, and while posts do *)
(* not overlap the throttle counts the true window.                        *)
(***************************************************************************)
EXTENDS Subscribe, FiniteSetTheorems, TLAPS

\* A post has a form once it has arrived.
Formed == \A p \in Post : pc[p] \in InProgress => form[p] \in Form

LEMMA InitTypes == Init => TypeOK /\ Formed
  <1> SUFFICES ASSUME Init PROVE TypeOK /\ Formed
    OBVIOUS
  <1> USE SubscribeAssumption DEF Init
  <1>1. NoListing \in Listing
    BY DEF NoListing, Listing, Kind
  <1>2. TypeOK
    BY <1>1 DEF TypeOK, Entry, Answer, InProgress
  <1>3. Formed
    BY DEF Formed, InProgress
  <1> QED BY <1>2, <1>3

\* What KV held before is entries, too, and its reads find counts.
FormerStep == former' = IF setting.stale THEN [ip \in Ip |-> former[ip] \cup {counter[ip]}]
                        ELSE former

LEMMA FormerTypes == ASSUME TypeOK, FormerStep PROVE former' \in [Ip -> SUBSET Entry]
  <1>1. counter \in [Ip -> Entry] /\ former \in [Ip -> SUBSET Entry]
    BY DEF TypeOK
  <1>2. \A ip \in Ip : former[ip] \cup {counter[ip]} \in SUBSET Entry
    BY <1>1
  <1> QED BY <1>1, <1>2 DEF FormerStep

LEMMA ShownTypes == ASSUME TypeOK, NEW ip \in Ip PROVE CountsShown(ip) \subseteq Nat
  <1>1. former[ip] \cup {counter[ip]} \subseteq Entry
    BY DEF TypeOK
  <1>2. \A entry \in Entry : CountIn(entry) \in Nat
    BY DEF CountIn, Entry
  <1> QED BY <1>1, <1>2 DEF CountsShown

\* What a post does to its own step and answer.
LEMMA FinishTypes ==
    ASSUME TypeOK, NEW p \in Post, NEW a \in Answer, Finish(p, a)
    PROVE  /\ pc' \in [Post -> {"new", "done"} \cup InProgress]
           /\ answer' \in [Post -> Answer]
           /\ pc'[p] = "done" /\ answer'[p] = a
           /\ \A q \in Post \ {p} : pc'[q] = pc[q] /\ answer'[q] = answer[q]
  BY DEF Finish, TypeOK

LEMMA GoToTypes ==
    ASSUME TypeOK, NEW p \in Post, NEW step \in InProgress, GoTo(p, step)
    PROVE  /\ pc' \in [Post -> {"new", "done"} \cup InProgress]
           /\ answer' = answer
           /\ pc'[p] = step
           /\ \A q \in Post \ {p} : pc'[q] = pc[q]
  BY DEF GoTo, TypeOK

Refusals == {"subscribe_malformed", "subscribe_invalid_email", "subscribe_consent_required",
             "internal_error"}

\* A post that is validated ends with an error, or goes on with consent.
LEMMA ValidateIs ==
    ASSUME TypeOK, NEW p \in Post, NEW f \in Form, Validate(p, f)
    PROVE  \/ /\ f.consent = "yes"
              /\ GoTo(p, "throttleGet")
           \/ \E a \in Refusals : Finish(p, a)
  <1>1. f.shape \in {"ok", "null", "malformed", "invalid_email"}
    BY DEF Form
  <1> QED BY <1>1 DEF Validate, Refusals

\* Where the step of a post leads: it is the only one that moves.
LEMMA PostTypes ==
    ASSUME TypeOK, Formed, NEW p \in Post, UNCHANGED setting, FormerStep,
           Arrive(p) \/ ThrottleGet(p) \/ ThrottlePut(p) \/ RecordGet(p) \/ RecordPut(p) \/ KvRejects(p)
    PROVE  TypeOK' /\ Formed'
  <1> USE SubscribeAssumption, FormerTypes
  <1>1. CASE Arrive(p)
    <2>1. PICK f \in Form : form' = [form EXCEPT ![p] = f] /\ Validate(p, f)
      BY <1>1 DEF Arrive
    <2>2. /\ pc' \in [Post -> {"new", "done"} \cup InProgress] /\ answer' \in [Post -> Answer]
          /\ \A q \in Post \ {p} : pc'[q] = pc[q]
      <3>1. CASE GoTo(p, "throttleGet")
        BY <3>1, GoToTypes DEF InProgress, TypeOK
      <3>2. CASE \E a \in Refusals : Finish(p, a)
        BY <3>2, FinishTypes DEF Answer, Refusals
      <3> QED BY <2>1, <3>1, <3>2, ValidateIs
    <2>3. form' \in [Post -> Form \cup {Blank}] /\ form'[p] = f /\ \A q \in Post \ {p} : form'[q] = form[q]
      BY <2>1 DEF TypeOK
    <2>4. TypeOK'
      BY <1>1, <2>2, <2>3 DEF Arrive, TypeOK
    <2>5. Formed'
      BY <2>2, <2>3 DEF Formed
    <2> QED BY <2>4, <2>5
  <1>2. CASE ThrottleGet(p)
    <2>1. form[p] \in Form /\ form[p].ip \in Ip
      BY <1>2 DEF ThrottleGet, Formed, Form, InProgress
    <2>2. CountsShown(form[p].ip) \subseteq Nat
      BY <2>1, ShownTypes
    <2>3. /\ pc' \in [Post -> {"new", "done"} \cup InProgress] /\ answer' \in [Post -> Answer]
          /\ \A q \in Post \ {p} : pc'[q] = pc[q]
      <3>1. GoTo(p, "throttlePut") \/ Finish(p, "rate_limit_exceeded")
        BY <1>2 DEF ThrottleGet
      <3> QED BY <3>1, GoToTypes, FinishTypes DEF InProgress, Answer, TypeOK
    <2>4. TypeOK'
      BY <1>2, <2>2, <2>3 DEF ThrottleGet, TypeOK
    <2>5. Formed'
      BY <1>2, <2>1, <2>3 DEF ThrottleGet, Formed
    <2> QED BY <2>4, <2>5
  <1>3. CASE ThrottlePut(p)
    <2>1. form[p] \in Form /\ form[p].ip \in Ip
      BY <1>3 DEF ThrottlePut, Formed, Form, InProgress
    <2>2. Counted(p) \in Entry
      BY DEF Counted, NewUntil, Entry, TypeOK
    <2>3. /\ pc' \in [Post -> {"new", "done"} \cup InProgress] /\ answer' = answer
          /\ \A q \in Post \ {p} : pc'[q] = pc[q]
      BY <1>3, GoToTypes DEF ThrottlePut, InProgress
    <2>4. [post |-> p, ip |-> form[p].ip, at |-> now] \in [post : Post, ip : Ip, at : 0 .. MaxTime]
      BY <2>1 DEF TypeOK
    <2>5. TypeOK'
      BY <1>3, <2>2, <2>3, <2>4 DEF ThrottlePut, TypeOK
    <2>6. Formed'
      BY <1>3, <2>1, <2>3 DEF ThrottlePut, Formed
    <2> QED BY <2>5, <2>6
  <1>4. CASE RecordGet(p)
    <2>1. /\ pc' \in [Post -> {"new", "done"} \cup InProgress] /\ answer' \in [Post -> Answer]
          /\ \A q \in Post \ {p} : pc'[q] = pc[q]
      <3>1. GoTo(p, "recordPut") \/ Finish(p, "already_subscribed")
        BY <1>4 DEF RecordGet
      <3> QED BY <3>1, GoToTypes, FinishTypes DEF InProgress, Answer, TypeOK
    <2>2. TypeOK'
      BY <1>4, <2>1 DEF RecordGet, TypeOK
    <2>3. Formed'
      BY <1>4, <2>1 DEF RecordGet, Formed, InProgress
    <2> QED BY <2>2, <2>3
  <1>5. CASE RecordPut(p)
    <2>1. /\ pc' \in [Post -> {"new", "done"} \cup InProgress] /\ answer' \in [Post -> Answer]
          /\ \A q \in Post \ {p} : pc'[q] = pc[q]
      BY <1>5, FinishTypes DEF RecordPut, Answer
    <2>2. TypeOK'
      BY <1>5, <2>1 DEF RecordPut, TypeOK
    <2>3. Formed'
      BY <1>5, <2>1 DEF RecordPut, Formed, InProgress
    <2> QED BY <2>2, <2>3
  <1>6. CASE KvRejects(p)
    <2>1. /\ pc' \in [Post -> {"new", "done"} \cup InProgress] /\ answer' \in [Post -> Answer]
          /\ pc'[p] = "done" /\ \A q \in Post \ {p} : pc'[q] = pc[q]
      BY <1>6, FinishTypes DEF KvRejects, Answer
    <2>2. Counted(p) \in Entry
      BY DEF Counted, NewUntil, Entry, TypeOK
    <2>3. counter' \in [Ip -> Entry] /\ record' \in [Email -> Post \cup {"nobody"}]
      BY <1>6, <2>2 DEF KvRejects, TypeOK
    <2>4. TypeOK'
      BY <1>6, <2>1, <2>3 DEF KvRejects, TypeOK
    <2>5. Formed'
      BY <1>6, <2>1 DEF KvRejects, Formed, InProgress
    <2> QED BY <2>4, <2>5
  <1> QED BY <1>1, <1>2, <1>3, <1>4, <1>5, <1>6

ListingStep == (\E kind \in Kind : ListingAsked(kind)) \/ ListingPage \/ ListingRead \/ ListingRejects

LEMMA ListingTypes ==
    ASSUME TypeOK, ListingStep
    PROVE  listing' \in Listing /\ UNCHANGED <<now, posts, counter, record, passed>>
  <1>1. ASSUME NEW kind \in Kind, ListingAsked(kind) PROVE listing' \in Listing
    <2>1. NoListing \in Listing
      BY DEF NoListing, Listing, Kind
    <2>2. Listed \in SUBSET Email
      BY DEF Listed
    <2>3. \/ listing' = [NoListing EXCEPT !.kind = kind, !.step = "list", !.due = Listed]
          \/ listing' = [NoListing EXCEPT !.kind = kind, !.step = "refused"]
      BY <1>1 DEF ListingAsked
    <2> QED BY <2>1, <2>2, <2>3 DEF Listing
  <1>2. ASSUME ListingPage PROVE listing' \in Listing
    <2>1. PICK page \in SUBSET Ahead : \E last \in BOOLEAN :
              listing' = [listing EXCEPT
                 !.seen = @ \cup page, !.last = last,
                 !.page = IF listing.kind = "csv" THEN page ELSE {},
                 !.lines = IF listing.kind = "csv" THEN @
                           ELSE [e \in Email |-> IF e \in page THEN @[e] + 1 ELSE @[e]],
                 !.step = IF listing.kind = "csv" THEN "read"
                          ELSE IF last THEN "done" ELSE "list"]
      BY <1>2 DEF ListingPage
    <2>2. page \subseteq Email
      BY DEF Ahead, Listed
    <2>3. PICK last \in BOOLEAN :
              listing' = [listing EXCEPT
                 !.seen = @ \cup page, !.last = last,
                 !.page = IF listing.kind = "csv" THEN page ELSE {},
                 !.lines = IF listing.kind = "csv" THEN @
                           ELSE [e \in Email |-> IF e \in page THEN @[e] + 1 ELSE @[e]],
                 !.step = IF listing.kind = "csv" THEN "read"
                          ELSE IF last THEN "done" ELSE "list"]
      BY <2>1
    <2>4. listing \in Listing /\ listing.lines \in [Email -> Nat] /\ listing.seen \subseteq Email
      BY DEF TypeOK, Listing
    <2>5. [e \in Email |-> IF e \in page THEN listing.lines[e] + 1 ELSE listing.lines[e]] \in [Email -> Nat]
      BY <2>4
    <2> QED BY <2>2, <2>3, <2>4, <2>5 DEF Listing
  <1>3. ASSUME ListingRead PROVE listing' \in Listing
    <2>1. listing \in Listing /\ listing.lines \in [Email -> Nat] /\ listing.page \subseteq Email
      BY DEF TypeOK, Listing
    <2>2. ASSUME NEW e \in listing.page, listing' = [listing EXCEPT !.page = @ \ {e}, !.lines[e] = @ + 1]
          PROVE  listing' \in Listing
      <3>1. [listing.lines EXCEPT ![e] = @ + 1] \in [Email -> Nat]
        BY <2>1
      <3>2. listing.page \ {e} \in SUBSET Email
        BY <2>1
      <3> QED BY <2>1, <2>2, <3>1, <3>2 DEF Listing
    <2>3. ASSUME listing' = [listing EXCEPT !.step = IF listing.last THEN "done" ELSE "list"]
          PROVE  listing' \in Listing
      BY <2>1, <2>3 DEF Listing
    <2>4. ASSUME NEW e \in listing.page, listing' = [listing EXCEPT !.page = @ \ {e}]
          PROVE  listing' \in Listing
      <3>1. listing.page \ {e} \in SUBSET Email
        BY <2>1
      <3> QED BY <2>1, <2>4, <3>1 DEF Listing
    <2> QED BY <1>3, <2>2, <2>3, <2>4 DEF ListingRead
  <1>4. ASSUME ListingRejects PROVE listing' \in Listing
    BY <1>4 DEF ListingRejects, TypeOK, Listing
  <1>5. UNCHANGED <<now, posts, counter, record, passed>>
    BY DEF ListingStep, ListingAsked, ListingPage, ListingRead, ListingRejects
  <1> QED BY <1>1, <1>2, <1>3, <1>4, <1>5 DEF ListingStep

LEMMA NextTypes == TypeOK /\ Formed /\ [Next]_vars => (TypeOK /\ Formed)'
  <1> SUFFICES ASSUME TypeOK, Formed, [Next]_vars PROVE (TypeOK /\ Formed)'
    OBVIOUS
  <1>1. CASE UNCHANGED vars
    BY <1>1 DEF vars, posts, TypeOK, Formed
  <1>2. CASE Tick /\ UNCHANGED setting /\ FormerStep
    BY <1>2, SubscribeAssumption, FormerTypes DEF Tick, posts, TypeOK, Formed
  <1>3. CASE ListingStep /\ UNCHANGED setting /\ FormerStep
    BY <1>3, ListingTypes, FormerTypes DEF posts, TypeOK, Formed
  <1>4. CASE UNCHANGED setting /\ FormerStep /\ \E p \in Post : \/ Arrive(p) \/ ThrottleGet(p) \/ ThrottlePut(p)
                                                  \/ RecordGet(p) \/ RecordPut(p) \/ KvRejects(p)
    BY <1>4, PostTypes
  <1> QED BY <1>1, <1>2, <1>3, <1>4 DEF Next, ListingStep, FormerStep

\* The variables of the mailing list keep their types.
THEOREM TypeCorrect == Spec => [](TypeOK /\ Formed)
  BY InitTypes, NextTypes, PTL DEF Spec

-----------------------------------------------------------------------------
(* Who is on the list, and who is told so.                                 *)

\* A post on its way has consent, has been counted once it is past the throttle,
\* and keeps its form after it has stored a record.
Granted == /\ \A p \in Post : pc[p] \in InProgress => form[p].consent = "yes"
           /\ \A p \in Post : pc[p] \in {"recordGet", "recordPut"} => \E t \in passed : t.post = p
           /\ \A p \in Post : pc[p] # "done" => answer[p] = "none"
           /\ \A e \in Email : record[e] # "nobody" => pc[record[e]] = "done"
           /\ ListedOnlyWithConsent
           /\ AcknowledgedIsStored

LEMMA InitGranted == Init => Granted
  BY DEF Init, Granted, ListedOnlyWithConsent, AcknowledgedIsStored, InProgress

\* A step that stores nothing and only moves p, to its end without good news or on.
LEMMA MoveGranted ==
    ASSUME TypeOK, Formed, Granted, NEW p \in Post, pc[p] # "done",
           record' = record, passed \subseteq passed',
           \A q \in Post \ {p} : pc'[q] = pc[q] /\ answer'[q] = answer[q] /\ form'[q] = form[q],
           pc'[p] \in InProgress => form'[p].consent = "yes" /\ answer'[p] = "none",
           pc'[p] \in {"recordGet", "recordPut"} => \E t \in passed' : t.post = p,
           pc'[p] \in InProgress \cup {"done"},
           answer'[p] \in {"subscribed", "already_subscribed"} => record[form'[p].email] # "nobody"
    PROVE  Granted'
  <1>1. \A e \in Email : record[e] # "nobody" => record[e] \in Post \ {p}
    BY DEF Granted, TypeOK
  <1>2. ListedOnlyWithConsent'
    BY <1>1 DEF Granted, ListedOnlyWithConsent
  <1>3. AcknowledgedIsStored'
    BY DEF Granted, AcknowledgedIsStored
  <1>4. \A q \in Post : pc'[q] \in {"recordGet", "recordPut"} => \E t \in passed' : t.post = q
    BY DEF Granted
  <1>5. \A q \in Post : /\ pc'[q] \in InProgress => form'[q].consent = "yes"
                       /\ pc'[q] # "done" => answer'[q] = "none"
    BY DEF Granted
  <1>6. \A e \in Email : record'[e] # "nobody" => pc'[record'[e]] = "done"
    BY <1>1 DEF Granted
  <1> QED BY <1>2, <1>3, <1>4, <1>5, <1>6 DEF Granted

\* The record is put: by a post with consent that was let through.
LEMMA PutGranted ==
    ASSUME TypeOK, Formed, Granted, NEW p \in Post, pc[p] = "recordPut",
           UNCHANGED <<form, passed>>,
           record' = [record EXCEPT ![form[p].email] = p],
           NEW a \in Answer, Finish(p, a)
    PROVE  Granted'
  <1>1. form[p] \in Form /\ form[p].email \in Email /\ form[p].consent = "yes"
    BY DEF Formed, Form, Granted, InProgress
  <1>2. \E t \in passed : t.post = p
    BY DEF Granted
  <1>3. /\ pc'[p] = "done" /\ answer'[p] = a
        /\ \A q \in Post \ {p} : pc'[q] = pc[q] /\ answer'[q] = answer[q]
    BY FinishTypes
  <1>4. /\ record'[form[p].email] = p /\ p # "nobody"
        /\ \A e \in Email \ {form[p].email} : record'[e] = record[e]
    BY <1>1, SubscribeAssumption DEF TypeOK
  <1>5. \A e \in Email : record[e] # "nobody" => record[e] \in Post
    BY DEF TypeOK
  <1>6. ListedOnlyWithConsent'
    BY <1>1, <1>2, <1>4 DEF Granted, ListedOnlyWithConsent
  <1>7. AcknowledgedIsStored'
    BY <1>1, <1>3, <1>4 DEF Granted, AcknowledgedIsStored, TypeOK
  <1>8. \A e \in Email : record'[e] # "nobody" => pc'[record'[e]] = "done"
    BY <1>3, <1>4, <1>5 DEF Granted
  <1>9. \A q \in Post : pc'[q] \in InProgress => form'[q].consent = "yes"
    BY <1>3 DEF Granted, InProgress
  <1>10. \A q \in Post : pc'[q] \in {"recordGet", "recordPut"} => \E t \in passed' : t.post = q
    BY <1>3 DEF Granted
  <1>11. \A q \in Post : pc'[q] # "done" => answer'[q] = "none"
    BY <1>3 DEF Granted
  <1> QED BY <1>6, <1>7, <1>8, <1>9, <1>10, <1>11, Zenon DEF Granted

LEMMA PostGranted ==
    ASSUME TypeOK, Formed, Granted, NEW p \in Post,
           Arrive(p) \/ ThrottleGet(p) \/ ThrottlePut(p) \/ RecordGet(p) \/ RecordPut(p) \/ KvRejects(p)
    PROVE  Granted'
  <1>0. pc[p] \in InProgress => form[p].consent = "yes" /\ answer[p] = "none"
    BY DEF Granted, InProgress
  <1>1. CASE Arrive(p)
    <2>1. PICK f \in Form : form' = [form EXCEPT ![p] = f] /\ Validate(p, f)
      BY <1>1 DEF Arrive
    <2>2. form'[p] = f /\ \A q \in Post \ {p} : form'[q] = form[q]
      BY <2>1 DEF TypeOK
    <2>3. pc[p] = "new" /\ answer[p] = "none" /\ record' = record /\ passed' = passed
      BY <1>1 DEF Arrive, Granted
    <2>4. CASE f.consent = "yes" /\ GoTo(p, "throttleGet")
      <3>1. /\ pc'[p] = "throttleGet" /\ answer' = answer
            /\ \A q \in Post \ {p} : pc'[q] = pc[q]
        BY <2>4, GoToTypes DEF InProgress
      <3> QED BY <2>2, <2>3, <2>4, <3>1, MoveGranted DEF InProgress
    <2>5. CASE \E a \in Refusals : Finish(p, a)
      <3>1. PICK a \in Refusals : Finish(p, a)
        BY <2>5
      <3>2. /\ pc'[p] = "done" /\ answer'[p] = a
            /\ \A q \in Post \ {p} : pc'[q] = pc[q] /\ answer'[q] = answer[q]
        BY <3>1, FinishTypes DEF Answer, Refusals
      <3> QED BY <2>2, <2>3, <3>1, <3>2, MoveGranted DEF InProgress, Refusals
    <2> QED BY <2>1, <2>4, <2>5, ValidateIs
  <1>2. CASE ThrottleGet(p)
    <2>1. pc[p] \in InProgress /\ pc[p] # "done" /\ form' = form /\ record' = record /\ passed' = passed
      BY <1>2 DEF ThrottleGet, InProgress
    <2>2. CASE GoTo(p, "throttlePut")
      <3>1. /\ pc'[p] = "throttlePut" /\ answer' = answer
            /\ \A q \in Post \ {p} : pc'[q] = pc[q]
        BY <2>2, GoToTypes DEF InProgress
      <3> QED BY <1>0, <2>1, <3>1, MoveGranted DEF InProgress
    <2>3. CASE Finish(p, "rate_limit_exceeded")
      <3>1. /\ pc'[p] = "done" /\ answer'[p] = "rate_limit_exceeded"
            /\ \A q \in Post \ {p} : pc'[q] = pc[q] /\ answer'[q] = answer[q]
        BY <2>3, FinishTypes DEF Answer
      <3> QED BY <2>1, <3>1, MoveGranted DEF InProgress
    <2> QED BY <1>2, <2>2, <2>3 DEF ThrottleGet
  <1>3. CASE ThrottlePut(p)
    <2>1. pc[p] \in InProgress /\ pc[p] # "done" /\ form' = form /\ record' = record
      BY <1>3 DEF ThrottlePut, InProgress
    <2>2. passed \subseteq passed' /\ \E t \in passed' : t.post = p
      <3>1. passed' = passed \cup {[post |-> p, ip |-> form[p].ip, at |-> now]}
        BY <1>3 DEF ThrottlePut
      <3>2. [post |-> p, ip |-> form[p].ip, at |-> now] \in passed'
        BY <3>1
      <3>3. [post |-> p, ip |-> form[p].ip, at |-> now].post = p
        OBVIOUS
      <3> QED BY <3>1, <3>2, <3>3, Zenon
    <2>3. /\ pc'[p] = "recordGet" /\ answer' = answer
          /\ \A q \in Post \ {p} : pc'[q] = pc[q]
      BY <1>3, GoToTypes DEF ThrottlePut, InProgress
    <2> QED BY <1>0, <2>1, <2>2, <2>3, MoveGranted DEF InProgress
  <1>4. CASE RecordGet(p)
    <2>1. /\ pc[p] = "recordGet" /\ pc[p] \in InProgress
          /\ form' = form /\ record' = record /\ passed' = passed
      BY <1>4 DEF RecordGet, InProgress
    <2>2. \E t \in passed : t.post = p
      BY <2>1 DEF Granted
    <2>3. CASE record[form[p].email] # "nobody" /\ Finish(p, "already_subscribed")
      <3>1. /\ pc'[p] = "done" /\ answer'[p] = "already_subscribed"
            /\ \A q \in Post \ {p} : pc'[q] = pc[q] /\ answer'[q] = answer[q]
        BY <2>3, FinishTypes DEF Answer
      <3> QED BY <2>1, <2>3, <3>1, MoveGranted DEF InProgress
    <2>4. CASE GoTo(p, "recordPut")
      <3>1. /\ pc'[p] = "recordPut" /\ answer' = answer
            /\ \A q \in Post \ {p} : pc'[q] = pc[q]
        BY <2>4, GoToTypes DEF InProgress
      <3> QED BY <1>0, <2>1, <2>2, <3>1, MoveGranted DEF InProgress
    <2> QED BY <1>4, <2>3, <2>4 DEF RecordGet
  <1>5. CASE RecordPut(p)
    BY <1>5, PutGranted DEF RecordPut, Answer
  <1>6. CASE KvRejects(p)
    <2>1. pc[p] \in InProgress /\ form' = form /\ passed' = passed /\ Finish(p, "internal_error")
      BY <1>6 DEF KvRejects
    <2>2. CASE record' = record
      <3>1. /\ pc'[p] = "done" /\ answer'[p] = "internal_error"
            /\ \A q \in Post \ {p} : pc'[q] = pc[q] /\ answer'[q] = answer[q]
        BY <2>1, FinishTypes DEF Answer
      <3> QED BY <2>1, <2>2, <3>1, MoveGranted DEF InProgress
    <2>3. CASE pc[p] = "recordPut" /\ record' = [record EXCEPT ![form[p].email] = p]
      BY <2>1, <2>3, PutGranted DEF Answer
    <2> QED BY <1>6, <2>2, <2>3 DEF KvRejects
  <1> QED BY <1>1, <1>2, <1>3, <1>4, <1>5, <1>6

LEMMA NextGranted == TypeOK /\ Formed /\ Granted /\ [Next]_vars => Granted'
  <1> SUFFICES ASSUME TypeOK, Formed, Granted, [Next]_vars PROVE Granted'
    OBVIOUS
  <1>1. CASE UNCHANGED <<posts, record, passed>>
    BY <1>1 DEF posts, Granted, ListedOnlyWithConsent, AcknowledgedIsStored
  <1>2. CASE \E p \in Post : \/ Arrive(p) \/ ThrottleGet(p) \/ ThrottlePut(p)
                            \/ RecordGet(p) \/ RecordPut(p) \/ KvRejects(p)
    BY <1>2, PostGranted
  <1> QED BY <1>1, <1>2, ListingTypes DEF Next, ListingStep, Tick, vars

\* Consent and acknowledgement, for every interleaving and every failing call.
THEOREM Invariance == Spec => []Granted
  BY InitGranted, NextGranted, TypeCorrect, PTL DEF Spec

\* subscribe.ts:14: only a post whose box was ticked and which its throttle let
\* through puts an address on the list, its own.
THEOREM ConsentIsNeeded == Spec => []ListedOnlyWithConsent
  <1>1. Granted => ListedOnlyWithConsent
    BY DEF Granted
  <1> QED BY <1>1, Invariance, PTL

\* subscribe.ts:97-112: whoever is told ok is on the list.
THEOREM OkMeansStored == Spec => []AcknowledgedIsStored
  <1>1. Granted => AcknowledgedIsStored
    BY DEF Granted
  <1> QED BY <1>1, Invariance, PTL

-----------------------------------------------------------------------------
(* The export and the count.                                               *)

\* A key behind the cursor has a line at most, and while reads are fresh it has
\* one, but for the page that is being read.
Walked == /\ \A e \in Email :
                /\ listing.lines[e] \in {0, 1}
                /\ listing.lines[e] = 1 => e \in listing.seen \ listing.page
                /\ ~setting.stale /\ e \in listing.seen \ listing.page => listing.lines[e] = 1
          /\ listing.page \subseteq listing.seen
          /\ listing.step # "read" => listing.page = {}
          /\ ~setting.stale /\ (listing.step = "done" \/ (listing.step = "read" /\ listing.last))
                => listing.due \subseteq listing.seen

Walk == listing.step \in {"list", "read", "done"} => Walked

LEMMA InitWalk == Init => Walk
  BY DEF Init, Walk, NoListing

LEMMA ListingWalk == TypeOK /\ Walk /\ ListingStep /\ UNCHANGED setting => Walk'
  <1> SUFFICES ASSUME TypeOK, Walk, ListingStep, UNCHANGED setting PROVE Walk'
    OBVIOUS
  <1>0. listing \in Listing
    BY DEF TypeOK
  <1>1. ASSUME NEW kind \in Kind, ListingAsked(kind) PROVE Walk'
    <2>1. \/ listing' = [NoListing EXCEPT !.kind = kind, !.step = "list", !.due = Listed]
          \/ listing' = [NoListing EXCEPT !.kind = kind, !.step = "refused"]
      BY <1>1 DEF ListingAsked
    <2>2. /\ listing'.seen = {} /\ listing'.page = {} /\ listing'.step \in {"list", "refused"}
          /\ listing'.lines = [e \in Email |-> 0]
      BY <2>1 DEF NoListing
    <2> QED BY <2>2 DEF Walk, Walked
  <1>2. ASSUME ListingPage PROVE Walk'
    <2>1. PICK page \in SUBSET Ahead : \E last \in BOOLEAN :
              /\ last => setting.stale \/ listing.due \subseteq listing.seen \cup page
              /\ listing' = [listing EXCEPT
                     !.seen = @ \cup page, !.last = last,
                     !.page = IF listing.kind = "csv" THEN page ELSE {},
                     !.lines = IF listing.kind = "csv" THEN @
                               ELSE [e \in Email |-> IF e \in page THEN @[e] + 1 ELSE @[e]],
                     !.step = IF listing.kind = "csv" THEN "read"
                              ELSE IF last THEN "done" ELSE "list"]
      BY <1>2 DEF ListingPage
    <2>2. PICK last \in BOOLEAN :
              /\ last => setting.stale \/ listing.due \subseteq listing.seen \cup page
              /\ listing' = [listing EXCEPT
                     !.seen = @ \cup page, !.last = last,
                     !.page = IF listing.kind = "csv" THEN page ELSE {},
                     !.lines = IF listing.kind = "csv" THEN @
                               ELSE [e \in Email |-> IF e \in page THEN @[e] + 1 ELSE @[e]],
                     !.step = IF listing.kind = "csv" THEN "read"
                              ELSE IF last THEN "done" ELSE "list"]
      BY <2>1
    <2>3. /\ listing'.seen = listing.seen \cup page /\ listing'.last = last
          /\ listing'.due = listing.due /\ listing'.kind = listing.kind
      BY <1>0, <2>2 DEF Listing
    <2>4. listing.page = {} /\ page \cap listing.seen = {} /\ Walked
      BY <1>2 DEF ListingPage, Walk, Walked, Ahead
    <2>5. CASE listing.kind = "csv"
      <3>1. /\ listing'.page = page /\ listing'.lines = listing.lines
            /\ listing'.step = "read"
        BY <1>0, <2>2, <2>5 DEF Listing
      <3> QED BY <2>2, <2>3, <2>4, <3>1 DEF Walk, Walked
    <2>6. CASE listing.kind # "csv"
      <3>1. /\ listing'.page = {} /\ listing'.step = IF last THEN "done" ELSE "list"
            /\ \A e \in Email : listing'.lines[e] = IF e \in page THEN listing.lines[e] + 1 ELSE listing.lines[e]
        BY <1>0, <2>2, <2>6 DEF Listing
      <3> QED BY <2>2, <2>3, <2>4, <3>1 DEF Walk, Walked
    <2> QED BY <2>5, <2>6
  <1>3. ASSUME ListingRead PROVE Walk'
    <2>0. Walked /\ listing.step = "read"
      BY <1>3 DEF ListingRead, Walk
    <2>1. ASSUME NEW e \in listing.page, listing' = [listing EXCEPT !.page = @ \ {e}, !.lines[e] = @ + 1]
          PROVE  Walk'
      <3>1. /\ listing'.seen = listing.seen /\ listing'.due = listing.due /\ listing'.last = listing.last
            /\ listing'.page = listing.page \ {e} /\ listing'.step = listing.step
            /\ \A d \in Email : listing'.lines[d] = IF d = e THEN listing.lines[d] + 1 ELSE listing.lines[d]
        BY <1>0, <2>1 DEF Listing
      <3> QED BY <2>0, <2>1, <3>1 DEF Walk, Walked
    <2>2. ASSUME listing.page = {},
                 listing' = [listing EXCEPT !.step = IF listing.last THEN "done" ELSE "list"]
          PROVE  Walk'
      <3>1. /\ listing'.seen = listing.seen /\ listing'.due = listing.due
            /\ listing'.page = listing.page /\ listing'.lines = listing.lines
            /\ listing'.step = IF listing.last THEN "done" ELSE "list"
        BY <1>0, <2>2 DEF Listing
      <3> QED BY <2>0, <2>2, <3>1 DEF Walk, Walked
    <2>3. ASSUME setting.stale, NEW e \in listing.page, listing' = [listing EXCEPT !.page = @ \ {e}]
          PROVE  Walk'
      <3>1. /\ listing'.seen = listing.seen /\ listing'.due = listing.due /\ listing'.last = listing.last
            /\ listing'.page = listing.page \ {e} /\ listing'.step = listing.step
            /\ listing'.lines = listing.lines
        BY <1>0, <2>3 DEF Listing
      <3> QED BY <2>0, <2>3, <3>1 DEF Walk, Walked
    <2> QED BY <1>3, <2>1, <2>2, <2>3 DEF ListingRead
  <1>4. ASSUME ListingRejects PROVE Walk'
    BY <1>0, <1>4 DEF ListingRejects, Walk, Listing
  <1> QED BY <1>1, <1>2, <1>3, <1>4 DEF ListingStep

LEMMA NextWalk == TypeOK /\ Walk /\ [Next]_vars => Walk'
  <1> SUFFICES ASSUME TypeOK, Walk, [Next]_vars PROVE Walk'
    OBVIOUS
  <1>1. CASE listing' = listing /\ UNCHANGED setting
    BY <1>1 DEF Walk, Walked
  <1>2. CASE ListingStep /\ UNCHANGED setting
    BY <1>2, ListingWalk
  <1>3. (listing' = listing \/ ListingStep) /\ UNCHANGED setting
    BY DEF Next, vars, ListingStep, Tick, Arrive, ThrottleGet, ThrottlePut, RecordGet, RecordPut, KvRejects
  <1> QED BY <1>1, <1>2, <1>3

\* subscribe.ts:140-158, :175-180: what is paged through while posts go on has
\* no address twice, and while reads are fresh every address of its start, for
\* pages of any size.
THEOREM NobodyIsMissed == Spec => []ListingIsComplete
  <1>1. Walk => ListingIsComplete
    BY DEF Walk, Walked, ListingIsComplete
  <1> QED BY <1>1, InitWalk, NextWalk, TypeCorrect, PTL DEF Spec

-----------------------------------------------------------------------------
(* The throttle, while posts do not overlap.                               *)

PostStep(p) == \/ Arrive(p) \/ ThrottleGet(p) \/ ThrottlePut(p)
               \/ RecordGet(p) \/ RecordPut(p) \/ KvRejects(p)

\* While posts do not overlap and reads are fresh.
Serial == setting.overlap = 1 /\ ~setting.stale

CountOf(ip) == CountIn(counter[ip])

\* Fresh reads find what is there.
Fresh == ~setting.stale => \A ip \in Ip : former[ip] = {}

LEMMA InitFresh == Init => Fresh
  BY DEF Init, Fresh

LEMMA NextFresh == Fresh /\ [Next]_vars => Fresh'
  BY DEF Fresh, Next, vars

\* One post at a time.
OneAtATime == Serial => \A p, q \in Post : pc[p] \in InProgress /\ pc[q] \in InProgress => p = q

\* Posts that still count at this time.
Alive(ip) == {u \in passed : u.ip = ip /\ u.at + Window > now}

\* The entry lives as long as any post it counts, and counts all that are alive;
\* a post between its get and its put has read no less.
Counts == Serial =>
    /\ \A t \in passed : t.at + Window <= counter[t.ip].until
    /\ \A ip \in Ip : Cardinality(Alive(ip)) <= CountOf(ip)
    /\ \A p \in Post, ip \in Ip : pc[p] = "throttlePut" /\ form[p].ip = ip =>
          read[p] < Quota /\ Cardinality(Alive(ip)) <= read[p]
    /\ ThrottleHolds

Past == IsFiniteSet(passed) /\ \A t \in passed : t.at <= now

Throttled == OneAtATime /\ Past /\ Counts

LEMMA InitThrottled == Init => Throttled
  <1> SUFFICES ASSUME Init PROVE Throttled
    OBVIOUS
  <1>1. OneAtATime /\ Past
    BY FS_EmptySet DEF Init, OneAtATime, Past, InProgress
  <1>2. Counts
    <2>1. \A ip \in Ip : Alive(ip) = {} /\ CountOf(ip) = 0
      BY DEF Init, Alive, CountOf, CountIn
    <2>2. Cardinality({}) = 0
      BY FS_EmptySet
    <2>3. \A ip \in Ip : Cardinality(Alive(ip)) <= CountOf(ip)
      BY <2>1, <2>2
    <2> QED BY <2>3 DEF Init, Counts, ThrottleHolds
  <1> QED BY <1>1, <1>2 DEF Throttled

\* A post arrives where none is in progress; the others only move on.
LEMMA OneStays ==
    ASSUME TypeOK, TypeOK', OneAtATime, NEW p \in Post, PostStep(p), UNCHANGED setting
    PROVE  OneAtATime'
  <1> SUFFICES ASSUME Serial PROVE OneAtATime'
    BY DEF OneAtATime, Serial
  <1>1. \A q \in Post \ {p} : pc'[q] = pc[q]
    BY DEF PostStep, Arrive, Validate, ThrottleGet, ThrottlePut, RecordGet, RecordPut, KvRejects,
           Finish, GoTo, TypeOK
  <1>2. CASE pc[p] \in InProgress
    BY <1>1, <1>2 DEF OneAtATime
  <1>3. CASE Arrive(p)
    <2> DEFINE busy == {q \in Post : pc[q] \in InProgress}
    <2>1. IsFiniteSet(busy)
      BY SubscribeAssumption, FS_Subset
    <2>2. Cardinality(busy) \in Nat /\ Cardinality(busy) < 1
      BY <1>3, <2>1, FS_CardinalityType DEF Arrive, Serial
    <2>3. busy = {}
      BY <2>1, <2>2, FS_EmptySet
    <2> QED BY <1>1, <2>3 DEF OneAtATime
  <1> QED BY <1>2, <1>3 DEF PostStep, ThrottleGet, ThrottlePut, RecordGet, RecordPut, KvRejects, InProgress

LEMMA AliveFinite ==
    ASSUME Past, NEW ip
    PROVE  IsFiniteSet(Alive(ip)) /\ Cardinality(Alive(ip)) \in Nat
  BY FS_Subset, FS_CardinalityType DEF Past, Alive

\* Time passes: what is alive becomes less, and an entry expires after all it counts.
LEMMA TickThrottled ==
    ASSUME TypeOK, Formed, Throttled, Tick, UNCHANGED setting
    PROVE  Throttled'
  <1>1. now \in Nat /\ now' = now + 1 /\ UNCHANGED <<pc, form, read, counter, passed>>
    BY DEF Tick, posts, TypeOK
  <1>2. OneAtATime' /\ Past'
    <2>1. \A t \in passed : t.at \in Nat
      BY DEF TypeOK
    <2> QED BY <1>1, <2>1 DEF Throttled, OneAtATime, Serial, Past
  <1>3. ASSUME Serial PROVE Counts'
    <2>1. \A ip \in Ip : Alive(ip)' \subseteq Alive(ip)
      BY <1>1, SubscribeAssumption DEF Alive, TypeOK
    <2>2. \A ip \in Ip : Cardinality(Alive(ip)') \in Nat /\ Cardinality(Alive(ip)') <= Cardinality(Alive(ip))
                         /\ Cardinality(Alive(ip)) \in Nat
      BY <2>1, AliveFinite, FS_Subset, FS_CardinalityType DEF Throttled
    <2>0. \A ip \in Ip : counter[ip].count \in Nat /\ counter[ip].until \in Nat
      BY DEF TypeOK, Entry
    <2>3. ASSUME NEW ip \in Ip PROVE Cardinality(Alive(ip)') <= CountOf(ip)'
      <3>1. CASE counter[ip].until > now'
        <4>1. CountOf(ip)' = CountOf(ip)
          BY <1>1, <3>1, <2>0 DEF CountOf, CountIn
        <4>2. Cardinality(Alive(ip)) <= CountOf(ip) /\ CountOf(ip) \in Nat
          BY <1>3, <2>0 DEF Throttled, Counts, CountOf, CountIn
        <4> QED BY <2>2, <4>1, <4>2
      <3>2. CASE ~(counter[ip].until > now')
        <4>1. Alive(ip)' = {}
          <5>1. \A t \in passed : t.ip = ip => t.at + Window <= counter[ip].until
            BY <1>3 DEF Throttled, Counts
          <5>2. \A t \in passed : t.at \in Nat /\ t.ip \in Ip
            BY DEF TypeOK
          <5>3. counter[ip].until \in Nat
            BY <2>0
          <5> QED BY <1>1, <3>2, <5>1, <5>2, <5>3, SubscribeAssumption DEF Alive
        <4>2. CountOf(ip)' = 0
          BY <1>1, <3>2 DEF CountOf, CountIn
        <4>3. Cardinality({}) = 0
          BY FS_EmptySet
        <4> QED BY <4>1, <4>2, <4>3
      <3> QED BY <3>1, <3>2
    <2>4. ASSUME NEW p \in Post, NEW ip \in Ip, pc[p] = "throttlePut", form[p].ip = ip
          PROVE  read[p] < Quota /\ Cardinality(Alive(ip)') <= read[p]
      <3>1. read[p] < Quota /\ Cardinality(Alive(ip)) <= read[p] /\ read[p] \in Nat
        BY <1>3, <2>4 DEF Throttled, Counts, TypeOK
      <3> QED BY <2>2, <3>1
    <2>5. ThrottleHolds'
      BY <1>1, <1>3 DEF Throttled, Counts, ThrottleHolds, Recent
    <2>6. \A t \in passed : t.at + Window <= counter[t.ip].until
      BY <1>3 DEF Throttled, Counts
    <2> QED BY <1>1, <2>3, <2>4, <2>5, <2>6 DEF Counts
  <1>4. Counts'
    BY <1>3 DEF Counts, Serial
  <1> QED BY <1>2, <1>4 DEF Throttled

\* An arrival, and the steps at the list, leave the throttle alone.
LEMMA QuietThrottled ==
    ASSUME TypeOK, Formed, Throttled, UNCHANGED setting, OneAtATime',
           NEW p \in Post, Arrive(p) \/ RecordGet(p) \/ RecordPut(p)
    PROVE  Throttled'
  <1>1. UNCHANGED <<now, read, counter, passed>>
    BY DEF Arrive, RecordGet, RecordPut
  <1>2. Past'
    BY <1>1 DEF Throttled, Past
  <1>3. \A q \in Post : pc'[q] = "throttlePut" => pc[q] = "throttlePut" /\ form'[q] = form[q]
    BY DEF Arrive, Validate, RecordGet, RecordPut, Finish, GoTo, TypeOK
  <1>4. ASSUME Serial PROVE Counts'
    <2>1. /\ \A t \in passed : t.at + Window <= counter[t.ip].until
          /\ \A ip \in Ip : Cardinality(Alive(ip)) <= CountOf(ip)
          /\ ThrottleHolds
      BY <1>4 DEF Throttled, Counts
    <2>2. \A ip : Alive(ip)' = Alive(ip) /\ CountOf(ip)' = CountOf(ip)
      BY <1>1 DEF Alive, CountOf, CountIn
    <2>3. ThrottleHolds'
      BY <1>1, <2>1 DEF ThrottleHolds, Recent
    <2>4. ASSUME NEW q \in Post, NEW ip \in Ip, pc'[q] = "throttlePut", form'[q].ip = ip
          PROVE  read'[q] < Quota /\ Cardinality(Alive(ip)') <= read'[q]
      <3>1. read[q] < Quota /\ Cardinality(Alive(ip)) <= read[q]
        BY <1>3, <1>4, <2>4 DEF Throttled, Counts
      <3> QED BY <1>1, <1>3, <2>2, <2>4, <3>1
    <2> QED BY <1>1, <2>1, <2>2, <2>3, <2>4 DEF Counts
  <1>5. Counts'
    BY <1>4 DEF Counts, Serial
  <1> QED BY <1>2, <1>5 DEF Throttled

\* A post that goes on has read a count that covers all that are alive.
LEMMA GetThrottled ==
    ASSUME TypeOK, Formed, Throttled, UNCHANGED setting, OneAtATime',
           Fresh, NEW p \in Post, ThrottleGet(p)
    PROVE  Throttled'
  <1>1. UNCHANGED <<now, form, counter, passed>>
    BY DEF ThrottleGet
  <1>2. Past'
    BY <1>1 DEF Throttled, Past
  <1>3. ASSUME Serial PROVE Counts'
    <2>1. /\ \A t \in passed : t.at + Window <= counter[t.ip].until
          /\ \A ip \in Ip : Cardinality(Alive(ip)) <= CountOf(ip)
          /\ ThrottleHolds
      BY <1>3 DEF Throttled, Counts
    <2>2. \A ip : Alive(ip)' = Alive(ip) /\ CountOf(ip)' = CountOf(ip)
      BY <1>1 DEF Alive, CountOf, CountIn
    <2>3. ThrottleHolds'
      BY <1>1, <2>1 DEF ThrottleHolds, Recent
    <2>4. ASSUME NEW q \in Post, NEW ip \in Ip, pc'[q] = "throttlePut", form[q].ip = ip
          PROVE  read'[q] < Quota /\ Cardinality(Alive(ip)) <= read'[q]
      <3>1. form[p].ip \in Ip
        BY DEF ThrottleGet, Formed, Form, InProgress
      <3>2. CountOf(form[p].ip) \in Nat
        BY <3>1 DEF CountOf, CountIn, TypeOK, Entry
      <3>3. CASE q = p
        <4>0. CountsShown(form[p].ip) = {CountOf(form[p].ip)}
          BY <1>3, <3>1 DEF CountsShown, CountOf, Fresh, Serial
        <4>1. ~(CountOf(form[p].ip) >= Quota) /\ read' = [read EXCEPT ![p] = CountOf(form[p].ip)]
          BY <2>4, <3>3, <4>0 DEF ThrottleGet, Finish, TypeOK
        <4> QED BY <2>1, <2>4, <3>1, <3>2, <3>3, <4>1, SubscribeAssumption DEF TypeOK
      <3>4. CASE q # p
        <4>1. pc[q] = "throttlePut" /\ read'[q] = read[q]
          BY <2>4, <3>4 DEF ThrottleGet, Finish, GoTo, TypeOK
        <4> QED BY <1>3, <2>4, <4>1 DEF Throttled, Counts
      <3> QED BY <3>3, <3>4
    <2> QED BY <1>1, <2>1, <2>2, <2>3, <2>4 DEF Counts
  <1>4. Counts'
    BY <1>3 DEF Counts, Serial
  <1> QED BY <1>2, <1>4 DEF Throttled

\* The entry that is put outlives every post so far, and counts one more than
\* was read.
LEMMA PutEntry ==
    ASSUME TypeOK, Formed, Throttled, Serial, now' = now,
           NEW p \in Post, pc[p] = "throttlePut", NEW ip0 \in Ip, form[p].ip = ip0,
           counter' = [counter EXCEPT ![form[p].ip] = Counted(p)]
    PROVE  /\ read[p] \in Nat /\ read[p] < Quota
           /\ Cardinality(Alive(ip0)) <= read[p]
           /\ CountOf(ip0)' = read[p] + 1
           /\ counter'[ip0].until = now + Window
           /\ \A ip \in Ip \ {ip0} : counter'[ip] = counter[ip] /\ CountOf(ip)' = CountOf(ip)
           /\ \A t \in passed : t.at + Window <= counter'[t.ip].until
  <1>1. read[p] \in Nat /\ now \in Nat /\ Window \in Nat \ {0}
    BY SubscribeAssumption DEF TypeOK
  <1>2. read[p] < Quota /\ Cardinality(Alive(ip0)) <= read[p]
    BY DEF Throttled, Counts
  <1>3. counter'[ip0] = [count |-> read[p] + 1, until |-> now + Window]
    BY <1>1 DEF TypeOK, Counted, NewUntil
  <1>4. \A ip \in Ip \ {ip0} : counter'[ip] = counter[ip]
    BY DEF TypeOK
  <1>5. CountOf(ip0)' = read[p] + 1
    BY <1>1, <1>3 DEF CountOf, CountIn
  <1>6. \A ip \in Ip \ {ip0} : CountOf(ip)' = CountOf(ip)
    BY <1>4 DEF CountOf, CountIn
  <1>7. ASSUME NEW t \in passed PROVE t.at + Window <= counter'[t.ip].until
    <2>1. t.at \in Nat /\ t.at <= now /\ t.ip \in Ip /\ t.at + Window <= counter[t.ip].until
      BY DEF TypeOK, Throttled, Past, Counts
    <2> QED BY <1>1, <1>3, <1>4, <2>1
  <1> QED BY <1>1, <1>2, <1>3, <1>4, <1>5, <1>6, <1>7

\* A rejected call counts a post that was not let through, or nothing.
LEMMA RejectThrottled ==
    ASSUME TypeOK, Formed, Throttled, UNCHANGED setting, OneAtATime',
           NEW p \in Post, KvRejects(p)
    PROVE  Throttled'
  <1>1. UNCHANGED <<now, form, read, passed>>
    BY DEF KvRejects
  <1>2. Past'
    BY <1>1 DEF Throttled, Past
  <1>3. \A q \in Post : pc'[q] = "throttlePut" => pc[q] = "throttlePut"
    BY DEF KvRejects, Finish, TypeOK
  <1>4. \A ip : Alive(ip)' = Alive(ip)
    BY <1>1 DEF Alive
  <1>5. ASSUME Serial PROVE Counts'
    <2>1. ThrottleHolds'
      BY <1>1, <1>5 DEF Throttled, Counts, ThrottleHolds, Recent
    <2>2. ASSUME NEW q \in Post, NEW ip \in Ip, pc'[q] = "throttlePut", form'[q].ip = ip
          PROVE  read'[q] < Quota /\ Cardinality(Alive(ip)') <= read'[q]
      <3>1. read[q] < Quota /\ Cardinality(Alive(ip)) <= read[q]
        BY <1>1, <1>3, <1>5, <2>2 DEF Throttled, Counts
      <3> QED BY <1>1, <1>4, <3>1
    <2>3. CASE counter' = counter
      <3>1. \A ip : CountOf(ip)' = CountOf(ip)
        BY <1>1, <2>3 DEF CountOf, CountIn
      <3>2. /\ \A t \in passed : t.at + Window <= counter[t.ip].until
            /\ \A ip \in Ip : Cardinality(Alive(ip)) <= CountOf(ip)
        BY <1>5 DEF Throttled, Counts
      <3> QED BY <1>1, <1>4, <2>1, <2>2, <2>3, <3>1, <3>2 DEF Counts
    <2>4. CASE pc[p] = "throttlePut" /\ counter' = [counter EXCEPT ![form[p].ip] = Counted(p)]
      <3>0. form[p].ip \in Ip
        BY <2>4 DEF Formed, Form, InProgress
      <3>1. \A t \in passed : t.at + Window <= counter'[t.ip].until
        BY <1>1, <1>5, <2>4, <3>0, PutEntry
      <3>2. ASSUME NEW ip \in Ip PROVE Cardinality(Alive(ip)) <= CountOf(ip)'
        <4>1. CASE ip = form[p].ip
          <5>1. Cardinality(Alive(ip)) <= read[p] /\ CountOf(ip)' = read[p] + 1 /\ read[p] \in Nat
            BY <1>1, <1>5, <2>4, <4>1, PutEntry
          <5>2. Cardinality(Alive(ip)) \in Nat
            BY AliveFinite DEF Throttled
          <5> QED BY <5>1, <5>2
        <4>2. CASE ip # form[p].ip
          <5>1. CountOf(ip)' = CountOf(ip)
            BY <1>1, <1>5, <2>4, <3>0, <4>2, PutEntry
          <5> QED BY <1>5, <5>1 DEF Throttled, Counts
        <4> QED BY <4>1, <4>2
      <3> QED BY <1>1, <1>4, <2>1, <2>2, <3>1, <3>2 DEF Counts
    <2> QED BY <2>3, <2>4 DEF KvRejects
  <1>6. Counts'
    BY <1>5 DEF Counts, Serial
  <1> QED BY <1>2, <1>6 DEF Throttled

\* A post that is let through is the only one under way: what is alive with it
\* is one more than was read, so at most Quota.
LEMMA PutThrottled ==
    ASSUME TypeOK, Formed, Throttled, UNCHANGED setting, OneAtATime',
           NEW p \in Post, ThrottlePut(p)
    PROVE  Throttled'
  <1>0. PICK ip0 \in Ip : form[p].ip = ip0
    BY DEF ThrottlePut, Formed, Form, InProgress
  <1> DEFINE t0 == [post |-> p, ip |-> ip0, at |-> now]
  <1>1. /\ UNCHANGED <<now, form, read>> /\ passed' = passed \cup {t0} /\ pc[p] = "throttlePut"
        /\ counter' = [counter EXCEPT ![form[p].ip] = Counted(p)]
    BY <1>0 DEF ThrottlePut
  <1>2. now \in Nat /\ Window \in Nat \ {0} /\ Quota \in Nat \ {0} /\ t0.at = now /\ t0.ip = ip0
    BY SubscribeAssumption DEF TypeOK
  <1>3. Past'
    <2>1. IsFiniteSet(passed')
      BY <1>1, FS_AddElement DEF Throttled, Past
    <2> QED BY <1>1, <1>2, <2>1 DEF Throttled, Past
  <1>4. ASSUME Serial PROVE Counts'
    <2>1. /\ read[p] \in Nat /\ read[p] < Quota
          /\ Cardinality(Alive(ip0)) <= read[p]
          /\ CountOf(ip0)' = read[p] + 1
          /\ counter'[ip0].until = now + Window
          /\ \A ip \in Ip \ {ip0} : counter'[ip] = counter[ip] /\ CountOf(ip)' = CountOf(ip)
          /\ \A t \in passed : t.at + Window <= counter'[t.ip].until
      BY <1>0, <1>1, <1>4, PutEntry
    <2>2. \A t \in passed' : t.at + Window <= counter'[t.ip].until
      BY <1>1, <1>2, <2>1
    <2>3. Cardinality(Alive(ip0)') <= read[p] + 1 /\ Cardinality(Alive(ip0)') \in Nat
      <3>1. Alive(ip0)' \subseteq Alive(ip0) \cup {t0}
        BY <1>1 DEF Alive
      <3>2. IsFiniteSet(Alive(ip0)) /\ Cardinality(Alive(ip0)) \in Nat
        BY AliveFinite DEF Throttled
      <3>3. /\ IsFiniteSet(Alive(ip0) \cup {t0}) /\ Cardinality(Alive(ip0) \cup {t0}) \in Nat
            /\ Cardinality(Alive(ip0) \cup {t0}) <= Cardinality(Alive(ip0)) + 1
        <4> HIDE DEF t0
        <4>1. IsFiniteSet(Alive(ip0) \cup {t0})
          BY <3>2, FS_AddElement
        <4>2. \/ Cardinality(Alive(ip0) \cup {t0}) = Cardinality(Alive(ip0))
              \/ Cardinality(Alive(ip0) \cup {t0}) = Cardinality(Alive(ip0)) + 1
          BY <3>2, FS_AddElement
        <4> QED BY <3>2, <4>1, <4>2, FS_CardinalityType
      <3>4. Cardinality(Alive(ip0)') \in Nat /\ Cardinality(Alive(ip0)') <= Cardinality(Alive(ip0) \cup {t0})
        BY <3>1, <3>3, FS_Subset, FS_CardinalityType
      <3> QED BY <2>1, <3>2, <3>3, <3>4
    <2>4. ASSUME NEW ip \in Ip PROVE Cardinality(Alive(ip)') <= CountOf(ip)'
      <3>1. CASE ip = ip0
        BY <2>1, <2>3, <3>1
      <3>2. CASE ip # ip0
        <4>1. Alive(ip)' = Alive(ip)
          BY <1>1, <1>2, <3>2 DEF Alive
        <4> QED BY <1>4, <2>1, <3>2, <4>1 DEF Throttled, Counts
      <3> QED BY <3>1, <3>2
    <2>5. ASSUME NEW q \in Post PROVE pc'[q] # "throttlePut"
      <3>1. CASE q = p
        BY <3>1 DEF ThrottlePut, GoTo, TypeOK
      <3>2. CASE q # p
        <4>1. pc'[q] = pc[q]
          BY <3>2 DEF ThrottlePut, GoTo, TypeOK
        <4> QED BY <1>1, <1>4, <3>2, <4>1 DEF Throttled, OneAtATime, InProgress
      <3> QED BY <3>1, <3>2
    <2>6. ASSUME NEW u \in passed' PROVE Cardinality(Recent(u)') <= Quota
      <3>1. CASE u.ip = ip0 /\ u.at = now
        <4>1. \A v \in passed' : v.at \in Nat /\ v.at <= now
          BY <1>1, <1>2 DEF Throttled, Past, TypeOK
        <4>2. Recent(u)' = Alive(ip0)'
          BY <1>1, <3>1, <4>1 DEF Recent, Alive
        <4> QED BY <1>2, <2>1, <2>3, <4>2
      <3>2. CASE u.ip # ip0 \/ u.at # now
        <4>1. u \in passed /\ u.at \in Nat /\ u.at <= now
          BY <1>1, <1>2, <3>2 DEF Throttled, Past, TypeOK
        <4>2. Recent(u)' = Recent(u)
          BY <1>1, <1>2, <3>2, <4>1 DEF Recent
        <4> QED BY <1>4, <4>1, <4>2 DEF Throttled, Counts, ThrottleHolds
      <3> QED BY <3>1, <3>2
    <2>7. ThrottleHolds'
      BY <2>6 DEF ThrottleHolds
    <2> QED BY <2>2, <2>4, <2>5, <2>7 DEF Counts
  <1>5. Counts'
    BY <1>4 DEF Counts, Serial
  <1> QED BY <1>3, <1>5 DEF Throttled

LEMMA NextThrottled ==
    ASSUME TypeOK, TypeOK', Formed, Throttled, Fresh, [Next]_vars
    PROVE  Throttled'
  <1>1. CASE UNCHANGED <<setting, now, pc, form, read, counter, passed>>
    <2>1. \A ip : Alive(ip)' = Alive(ip) /\ CountOf(ip)' = CountOf(ip)
      BY <1>1 DEF Alive, CountOf, CountIn
    <2>2. ThrottleHolds' <=> ThrottleHolds
      BY <1>1 DEF ThrottleHolds, Recent
    <2>3. Past' /\ OneAtATime'
      BY <1>1 DEF Throttled, Past, OneAtATime, Serial
    <2>4. Counts'
      <3> SUFFICES ASSUME Serial PROVE Counts'
        BY <1>1 DEF Counts, Serial
      <3>1. /\ \A t \in passed : t.at + Window <= counter[t.ip].until
            /\ \A ip \in Ip : Cardinality(Alive(ip)) <= CountOf(ip)
            /\ \A p \in Post, ip \in Ip : pc[p] = "throttlePut" /\ form[p].ip = ip =>
                   read[p] < Quota /\ Cardinality(Alive(ip)) <= read[p]
            /\ ThrottleHolds
        BY DEF Throttled, Counts
      <3> QED BY <1>1, <2>1, <2>2, <3>1 DEF Counts
    <2> QED BY <2>3, <2>4 DEF Throttled
  <1>2. CASE Tick /\ UNCHANGED setting
    BY <1>2, TickThrottled
  <1>3. ASSUME NEW p \in Post, PostStep(p), UNCHANGED setting PROVE Throttled'
    <2>1. OneAtATime'
      BY <1>3, OneStays DEF Throttled
    <2> QED BY <1>3, <2>1, QuietThrottled, GetThrottled, PutThrottled, RejectThrottled DEF PostStep
  <1>4. CASE ListingStep /\ UNCHANGED setting
    <2>1. UNCHANGED <<now, pc, form, read, counter, passed>>
      BY <1>4, ListingTypes DEF posts
    <2> QED BY <1>1, <1>4, <2>1
  <1> QED BY <1>1, <1>2, <1>3, <1>4 DEF Next, vars, posts, ListingStep, PostStep

\* subscribe.ts:85: while posts do not overlap and reads are fresh, no window of the full width lets
\* more than Quota of one address through, however calls fail in between.
THEOREM SerialIsThrottled == Spec => []SerialThrottleHolds
  <1>1. Throttled => SerialThrottleHolds
    BY DEF Throttled, Counts, Serial, SerialThrottleHolds
  <1> QED BY <1>1, InitFresh, NextFresh, InitThrottled, NextThrottled, TypeCorrect, PTL DEF Spec

=============================================================================
