------------------------ MODULE StatusPollingProofs ------------------------
(***************************************************************************)
(* Proofs about StatusPolling: that no end of a processing the tab knows   *)
(* of escapes the detector, and that the figures catch up.                 *)
(*                                                                         *)
(* Base says what holds in every state.  Order says what holds as long as  *)
(* no answer has been overtaken: it ties lastStatus to what the tab holds. *)
(* Own says what holds besides as long as nobody else has the document     *)
(* parsed again: the status the tab shows is the document's.               *)
(***************************************************************************)
EXTENDS StatusPolling, TLAPS

Statuses == Terminal \cup {"processing"}
\* The document, as an answer may tell of it.
Told(n) == [status : Statuses, ends : 0..n]

TypeOK ==
  /\ doc \in [status : Statuses, ends : Nat]
  /\ cache \in [Queries -> [data : Told(doc.ends) \cup {None}, stale : BOOLEAN]]
  /\ fetch \in [Queries -> Told(doc.ends) \cup {None, Sent}]
  /\ last \in Statuses \cup {"unseen"}
  /\ page \in Pages
  /\ click \in {None, Sent, Refused} \cup [status : {"processing"}, ends : 0..doc.ends]
  /\ due \in 0..(doc.ends + 1) /\ told \in 0..doc.ends
  /\ overtaken \in BOOLEAN
  /\ others \in Nat /\ asked \in Nat /\ failed \in Nat /\ moved \in Nat

Has(q) == cache[q].data # None
Carries(q) == fetch[q] \notin {None, Sent}
Answered == click \notin {None, Sent, Refused}
Rests(q) == Has(q) /\ cache[q].data.status \in Terminal /\ ~cache[q].stale

\* No answer tells of a processing that is still to come.
Past(d) == d.status = "processing" /\ d.ends = doc.ends => doc.status = "processing"

Base ==
  /\ doc.status \in Terminal => due <= doc.ends
  /\ \A q \in Queries : (Has(q) => Past(cache[q].data)) /\ (Carries(q) => Past(fetch[q]))
  /\ Answered => Past(click)
  /\ Answered /\ others = 0 => click.ends = doc.ends - IF doc.status = "processing" THEN 0 ELSE 1
  /\ last = "unseen" => due = 0 /\ told = 0 /\ \A p \in Polled : ~Has(p)

\* The document is at rest as d says, or the tab is about to learn that it is not.
Current(d) == (d.ends = doc.ends /\ doc.status \in Terminal) \/ (Answered /\ click.ends = d.ends)
Outdated(d) == \E p \in Polled : Has(p) /\ Age(d) < Age(cache[p].data)

Shown == \A p \in Polled : Rests(p) => Current(cache[p].data)
OnWay == \A q \in Polled :
           Carries(q) /\ fetch[q].status \in Terminal => Current(fetch[q]) \/ Outdated(fetch[q])
Seen == last = "processing" =>
          \A p \in Polled : Rests(p) => ~(cache[p].data.ends = doc.ends /\ doc.status \in Terminal)
Waits == due > told => last = "processing" /\ \E p \in Polled : Has(p) /\ Age(cache[p].data) >= 2 * due - 1
\* What the detector has seen is told of by what the tab holds, or it waits again.
Heard == \/ told = 0
         \/ \E p \in Polled : /\ Has(p) /\ Age(cache[p].data) >= 2 * told - 1
                             /\ (last = "processing" \/ cache[p].data.ends >= told)
Dash == Has("dash") => cache["dash"].stale \/ cache["dash"].data.ends >= told \/ last = "processing"

Order == ~overtaken => Waits /\ Heard /\ Dash
Own == ~overtaken /\ others = 0 => Shown /\ OnWay /\ Seen

Inv == TypeOK /\ Base /\ Order /\ Own

USE DEF Statuses, Queries, Polled, Terminal

\* A page that opens knows the document as it is, or not at all.
LEMMA InvInit == Init => Inv
<1> SUFFICES ASSUME Init PROVE Inv
  OBVIOUS
<1> USE ConstantsAssumption
<1>1. PICK loaded \in BOOLEAN :
       /\ cache = [q \in Queries |-> [data |-> IF loaded /\ q \in Active THEN doc ELSE None,
                                      stale |-> FALSE]]
       /\ fetch = [q \in Queries |-> IF ~loaded /\ q \in Active THEN Sent ELSE None]
       /\ last = IF loaded /\ Polled \cap Active # {} THEN doc.status ELSE "unseen"
       /\ due = IF loaded /\ doc.status = "processing" THEN 1 ELSE 0
  BY DEF Init
<1>2. Active \subseteq Queries /\ Polled \cap Active # {}
  BY DEF Init, Active, Observed, Pages
<1>3. TypeOK
  <2>1. doc \in [status : Statuses, ends : Nat] /\ doc \in Told(doc.ends) /\ doc.ends = 0
    BY DEF Init, Told
  <2>2. cache \in [Queries -> [data : Told(doc.ends) \cup {None}, stale : BOOLEAN]]
    BY <1>1, <2>1
  <2>3. fetch \in [Queries -> Told(doc.ends) \cup {None, Sent}]
    BY <1>1
  <2>4. last \in Statuses \cup {"unseen"} /\ due \in 0..(doc.ends + 1)
    BY <1>1, <2>1
  <2>5. /\ told = 0 /\ click = None /\ page \in Pages /\ overtaken = FALSE
        /\ others = 0 /\ asked = 0 /\ failed = 0 /\ moved = 0
    BY DEF Init
  <2>6. told \in 0..doc.ends /\ others \in Nat /\ asked \in Nat /\ failed \in Nat /\ moved \in Nat
    BY <2>1, <2>5
  <2>7. click \in {None, Sent, Refused} /\ overtaken \in BOOLEAN
    BY <2>5
  <2> QED BY <2>1, <2>2, <2>3, <2>4, <2>5, <2>6, <2>7, Zenon DEF TypeOK
<1>4. Base
  BY <1>1, <1>2 DEF Init, Base, Has, Carries, Past, Answered
<1>5. Order
  BY <1>1, <1>2 DEF Init, Order, Waits, Heard, Dash, Has, Age
<1>6. Own
  BY <1>1, <1>2 DEF Init, Own, Shown, OnWay, Seen, Has, Carries, Rests, Current, Age
<1> QED BY <1>3, <1>4, <1>5, <1>6 DEF Inv

-----------------------------------------------------------------------------
(* One lemma per action.                                                    *)

\* A page that opens fetches what it has not or no longer has.
LEMMA InvNavigate ==
  ASSUME Inv, NEW p \in Pages, NEW Old \in SUBSET Queries, Navigate(p, Old)
  PROVE  Inv'
<1> USE ConstantsAssumption
<1>1. TypeOK'
  BY DEF Inv, TypeOK, Navigate, Started, AfterStart, Told
<1>2. \A q \in Queries : fetch'[q] = fetch[q] \/ fetch'[q] = Sent
  BY DEF Inv, TypeOK, Navigate, Started
<1>4. Base'
  BY <1>2 DEF Inv, TypeOK, Base, Navigate, AfterStart, Has, Carries, Past, Answered
<1>5. Order'
  BY DEF Inv, Order, Waits, Heard, Dash, Has, Age, Navigate, AfterStart
<1>6. Own'
  BY <1>2 DEF Inv, TypeOK, Own, Shown, OnWay, Seen, Has, Carries, Rests, Current, Outdated, Answered,
              Navigate, AfterStart
<1> QED BY <1>1, <1>4, <1>5, <1>6 DEF Inv

\* Neither a fetch that starts, is served or fails changes what the tab knows; the
\* answer tells of the document as it is.
LEMMA InvPoll ==
  ASSUME Inv, NEW q \in Queries, Poll(q) \/ Read(q) \/ Fail(q)
  PROVE  Inv'
<1> USE ConstantsAssumption
<1>1. TypeOK'
  BY DEF Inv, TypeOK, Poll, Read, Fail, Started, AfterStart, Told, counts
<1>2. \A p \in Queries : fetch'[p] \in {fetch[p], Sent, doc, None}
  BY DEF Inv, TypeOK, Poll, Read, Fail, Started
<1>3. UNCHANGED <<doc, cache, last, page, click, due, told, overtaken, others>>
  BY DEF Poll, Read, Fail, AfterStart, counts
<1>4. doc \notin {None, Sent}
  BY DEF Inv, TypeOK
<1>5. Base'
  <2>1. \A p \in Queries : Carries(p)' => Past(fetch[p])'
    BY <1>2, <1>3, <1>4 DEF Inv, Base, Carries, Past
  <2> QED BY <1>3, <2>1 DEF Inv, Base, Has, Past, Answered
<1>6. Order'
  BY <1>3 DEF Inv, Order, Waits, Heard, Dash, Has, Age
<1>7. Own'
  BY <1>2, <1>3 DEF Inv, TypeOK, Own, Shown, OnWay, Seen, Has, Carries, Rests, Current, Outdated, Answered
<1> QED BY <1>1, <1>5, <1>6, <1>7 DEF Inv

\* The click changes nothing until it is answered.
LEMMA InvAsk ==
  ASSUME Inv, Reparse
  PROVE  Inv'
<1> USE ConstantsAssumption
<1>1. TypeOK'
  BY DEF Inv, TypeOK, Reparse, Told
<1>2. Base'
  BY DEF Inv, Base, Reparse, Has, Carries, Past, Answered
<1>3. Order'
  BY DEF Inv, Order, Reparse, Waits, Heard, Dash, Has, Age
<1>4. Own'
  BY DEF Inv, Own, Reparse, Shown, OnWay, Seen, Has, Carries, Rests, Current, Outdated, Answered
<1> QED BY <1>1, <1>2, <1>3, <1>4 DEF Inv

\* Another user has it parsed again: what the tab holds is of before.
LEMMA InvOthers ==
  ASSUME Inv, OthersReparse
  PROVE  Inv'
<1> USE ConstantsAssumption
<1>0. /\ doc' = [status |-> "processing", ends |-> doc.ends] /\ doc'.ends = doc.ends
      /\ doc'.status = "processing" /\ others' = others + 1 /\ others \in Nat
      /\ UNCHANGED <<cache, fetch, last, page, click, due, told, overtaken, asked, failed, moved>>
  BY DEF Inv, TypeOK, OthersReparse
<1>1. TypeOK'
  BY <1>0 DEF Inv, TypeOK, Told
<1>2. Base'
  BY <1>0 DEF Inv, Base, Has, Carries, Past, Answered
<1>3. Order'
  BY <1>0 DEF Inv, Order, Waits, Heard, Dash, Has, Age
<1>4. Own'
  BY <1>0 DEF Own
<1> QED BY <1>1, <1>2, <1>3, <1>4 DEF Inv

\* The server takes the click: the tab's answers are of before, and the mutation will tell.
LEMMA InvServe ==
  ASSUME Inv, ServeReparse
  PROVE  Inv'
<1> USE ConstantsAssumption
<1>1. CASE doc.status = "processing"
  <2>1. TypeOK'
    BY <1>1 DEF Inv, TypeOK, ServeReparse, Told, counts
  <2>2. Base'
    BY <1>1 DEF Inv, Base, ServeReparse, Has, Carries, Past, Answered, counts
  <2>3. Order'
    BY <1>1 DEF Inv, Order, ServeReparse, Waits, Heard, Dash, Has, Age
  <2>4. Own'
    BY <1>1 DEF Inv, Own, ServeReparse, Shown, OnWay, Seen, Has, Carries, Rests, Current, Outdated, Answered,
                counts
  <2> QED BY <2>1, <2>2, <2>3, <2>4 DEF Inv
<1>2. CASE doc.status # "processing"
  <2>0. doc' = [status |-> "processing", ends |-> doc.ends] /\ click' = doc' /\ click = Sent
    BY <1>2 DEF Inv, TypeOK, ServeReparse
  <2>1. TypeOK'
    BY <1>2, <2>0 DEF Inv, TypeOK, ServeReparse, Told, counts
  <2>2. Base'
    <3>1. UNCHANGED <<cache, fetch, last, page, due, told, others>> /\ doc'.status = "processing"
          /\ doc'.ends = doc.ends /\ click'.ends = doc'.ends
      BY <2>0 DEF ServeReparse, counts
    <3>3. doc.ends \in Nat /\ doc'.ends \in Nat
      BY <3>1 DEF Inv, TypeOK
    <3> QED BY <3>1, <3>3 DEF Inv, Base, Has, Carries, Past, Answered
  <2>3. Order'
    BY <1>2, <2>0 DEF Inv, Order, ServeReparse, Waits, Heard, Dash, Has, Age
  <2>4. Own'
    BY <1>2, <2>0
       DEF Inv, TypeOK, Own, ServeReparse, Shown, OnWay, Seen, Has, Carries, Rests, Current, Outdated, Answered,
                counts
  <2> QED BY <2>1, <2>2, <2>3, <2>4 DEF Inv
<1> QED BY <1>1, <1>2

\* The processing ends: whatever tells of rest is of an earlier end.
LEMMA InvFinish ==
  ASSUME Inv, NEW status \in Terminal, Finish(status)
  PROVE  Inv'
<1> USE ConstantsAssumption
<1>0. /\ doc' = [status |-> status, ends |-> doc.ends + 1] /\ doc'.ends = doc.ends + 1
      /\ doc.status = "processing" /\ doc.ends \in Nat
  BY DEF Inv, TypeOK, Finish
<1>1. TypeOK'
  BY <1>0 DEF Inv, TypeOK, Finish, Told, counts
<1>2. Base'
  <2>1. UNCHANGED <<cache, fetch, last, page, click, due, told, others>>
    BY DEF Finish, counts
  <2>3. \A q \in Queries : (Has(q) => cache[q].data.ends < doc'.ends)
                           /\ (Carries(q) => fetch[q].ends < doc'.ends)
    BY <1>0 DEF Inv, TypeOK, Has, Carries, Told
  <2>4. Answered => click.ends < doc'.ends /\ (others = 0 => click.ends = doc.ends)
    BY <1>0 DEF Inv, Base, TypeOK, Answered
  <2>5. due <= doc'.ends
    BY <1>0 DEF Inv, TypeOK
  <2> QED BY <1>0, <2>1, <2>3, <2>4, <2>5 DEF Inv, Base, Has, Carries, Past, Answered
<1>3. Order'
  BY <1>0 DEF Inv, Order, Finish, Waits, Heard, Dash, Has, Age
<1>4. Own'
  BY <1>0 DEF Inv, TypeOK, Base, Own, Finish, Shown, OnWay, Seen, Has, Carries, Rests, Current, Outdated,
              Answered, Told, counts
<1> QED BY <1>1, <1>2, <1>3, <1>4 DEF Inv

\* An answer of the mutation is a success event of "detail", and invalidates all.
LEMMA InvAnswer ==
  ASSUME Inv, AnswerReparse
  PROVE  Inv'
<1> USE ConstantsAssumption
<1>1. CASE click = Refused
  <2>1. UNCHANGED <<doc, page, overtaken, counts, cache, fetch, last, due, told>> /\ click' = None
    BY <1>1 DEF AnswerReparse
  <2>2. TypeOK'
    BY <2>1 DEF Inv, TypeOK, counts
  <2>3. Base'
    BY <2>1 DEF Inv, Base, Has, Carries, Past, Answered, counts
  <2>4. Order'
    BY <2>1 DEF Inv, Order, Waits, Heard, Dash, Has, Age
  <2>5. Own'
    BY <1>1, <2>1 DEF Inv, Own, Shown, OnWay, Seen, Has, Carries, Rests, Current, Outdated, Answered, counts
  <2> QED BY <2>2, <2>3, <2>4, <2>5 DEF Inv
<1>2. CASE click # Refused
  <2> DEFINE n == click.ends
  <2>0. /\ Answered /\ click' = None /\ n \in Nat /\ click = [status |-> "processing", ends |-> n]
        /\ n <= doc.ends /\ Past(click)
        /\ others = 0 => n = doc.ends - IF doc.status = "processing" THEN 0 ELSE 1
        /\ UNCHANGED <<doc, page, counts, told>> /\ last' = "processing"
        /\ due' = IF due > n + 1 THEN due ELSE n + 1
        /\ ~overtaken' => ~overtaken /\ ~(due > n + 1) /\ ~(told > n + 1)
        /\ overtaken' \in BOOLEAN
    <3>1. Answered /\ click' = None /\ UNCHANGED <<doc, page, counts, told>>
          /\ last' = click.status /\ due' = (IF due > n + 1 THEN due ELSE n + 1)
          /\ overtaken' = (overtaken \/ due > n + 1 \/ told > n + 1)
      BY <1>2 DEF AnswerReparse, Answered, Invalidated, AfterStart, Later
    <3>2. click \in [status : {"processing"}, ends : 0..doc.ends]
      BY <3>1 DEF Inv, TypeOK, Answered
    <3>3. Past(click) /\ (others = 0 => n = doc.ends - IF doc.status = "processing" THEN 0 ELSE 1)
      BY <3>1 DEF Inv, Base
    <3>4. n \in Nat /\ n <= doc.ends /\ click = [status |-> "processing", ends |-> n] /\ last' = "processing"
      BY <3>1, <3>2 DEF Inv, TypeOK
    <3>5. overtaken' \in BOOLEAN
      BY <3>1
    <3> QED BY <3>1, <3>3, <3>4, <3>5
  <2>1. /\ cache' \in [Queries -> [data : Told(doc.ends) \cup {None}, stale : BOOLEAN]]
        /\ \A q \in Queries : /\ cache'[q].data = IF q = "detail" THEN click ELSE cache[q].data
                              /\ cache'[q].stale
    <3> DEFINE c == Seeded(cache, click)
    <3>0. click \in Told(doc.ends)
      BY <2>0 DEF Told, Inv, TypeOK
    <3>1. /\ c \in [Queries -> [data : Told(doc.ends) \cup {None}, stale : BOOLEAN]]
          /\ \A q \in Queries : c[q].data = IF q = "detail" THEN click ELSE cache[q].data
      BY <3>0 DEF Seeded, Inv, TypeOK
    <3>2. cache' = Stale(c, Queries)
      BY <1>2 DEF AnswerReparse, Invalidated
    <3> HIDE DEF c
    <3>3. ASSUME NEW q \in Queries
          PROVE  /\ cache'[q] \in [data : Told(doc.ends) \cup {None}, stale : BOOLEAN]
                 /\ cache'[q].data = c[q].data
                 /\ cache'[q].stale
      <4>1. c[q] \in [data : Told(doc.ends) \cup {None}, stale : BOOLEAN]
        BY <3>1
      <4>2. cache'[q] = [c[q] EXCEPT !.stale = c[q].stale \/ q \in Queries]
        BY <3>2 DEF Stale
      <4> QED BY <4>1, <4>2
    <3>4. cache' \in [Queries -> [data : Told(doc.ends) \cup {None}, stale : BOOLEAN]]
      BY <3>2, <3>3 DEF Stale
    <3> QED BY <3>1, <3>3, <3>4
  <2>3. \A q \in Queries : fetch'[q] \in {fetch[q], Sent}
    BY <1>2 DEF AnswerReparse, Invalidated, Started, Inv, TypeOK
  <2>5. TypeOK'
    <3>3. fetch' \in [Queries -> Told(doc.ends) \cup {None, Sent}]
      BY <1>2, <2>3 DEF Inv, TypeOK, AnswerReparse, Invalidated, Started
    <3>4. due' \in 0..(doc.ends + 1)
      BY <2>0 DEF Inv, TypeOK
    <3> QED BY <2>0, <2>1, <3>3, <3>4 DEF Inv, TypeOK, counts
  <2>6. Base'
    <3>1. \A q \in Queries : Carries(q)' => Past(fetch[q])'
      BY <2>0, <2>3 DEF Inv, Base, Carries, Past
    <3>2. \A q \in Queries : Has(q)' => Past(cache[q].data)'
      BY <2>0, <2>1 DEF Inv, Base, TypeOK, Has, Past
    <3>3. doc.status \in Terminal => due' <= doc.ends
      BY <2>0 DEF Inv, Base, TypeOK, Past
    <3> QED BY <2>0, <3>1, <3>2, <3>3 DEF Base, Answered
  <2>7. Age(cache'["detail"].data) = 2 * n + 1 /\ Has("detail")'
    BY <2>0, <2>1, <2>6 DEF Age, Has
  <2>8. Order'
    <3> SUFFICES ASSUME ~overtaken' PROVE (Waits /\ Heard /\ Dash)'
      BY DEF Order
    <3>1. due <= n + 1 /\ due' = n + 1
      BY <2>0 DEF Inv, TypeOK
    <3>2. Waits'
      BY <2>0, <2>7, <3>1 DEF Waits
    <3>3. told <= n + 1
      BY <2>0 DEF Inv, TypeOK
    <3>4. Heard'
      BY <2>0, <2>7, <3>3 DEF Heard, Inv, TypeOK
    <3>5. Dash'
      BY <2>0 DEF Dash
    <3> QED BY <3>2, <3>4, <3>5
  <2>9. Own'
    <3> SUFFICES ASSUME ~overtaken', others = 0 PROVE (Shown /\ OnWay /\ Seen)'
      BY <2>0 DEF Own, counts
    <3>1. Shown' /\ Seen'
      BY <2>1 DEF Shown, Seen, Rests
    <3>2. OnWay'
      <4> SUFFICES ASSUME NEW q \in Polled, Carries(q)', fetch'[q].status \in Terminal, ~Current(fetch[q])'
                   PROVE  Outdated(fetch[q])'
        BY DEF OnWay
      <4>1. fetch'[q] = fetch[q] /\ Carries(q) /\ fetch[q] \in Told(doc.ends)
        BY <2>3 DEF Carries, Inv, TypeOK
      <4>2. Age(cache'["detail"].data) = 2 * n + 1 /\ Has("detail")'
        BY <2>7
      <4>3. CASE Current(fetch[q])
        <5>1. fetch[q].ends = n
          BY <2>0, <4>1, <4>3 DEF Current
        <5> QED BY <2>0, <4>1, <4>2, <5>1 DEF Outdated, Age
      <4>4. CASE Outdated(fetch[q])
        <5>1. PICK p \in Polled : Has(p) /\ Age(fetch[q]) < Age(cache[p].data)
          BY <4>4 DEF Outdated
        <5>2. CASE p = "list"
          BY <2>1, <4>1, <5>1, <5>2 DEF Outdated, Has
        <5>3. CASE p = "detail"
          <6>1. cache[p].data \in Told(doc.ends)
            BY <5>1 DEF Inv, TypeOK, Has
          <6>2. Age(fetch[q]) = 2 * fetch[q].ends /\ fetch[q].ends \in Nat
            BY <4>1 DEF Age, Told, Inv, TypeOK
          <6>0. n = (IF doc.status = "processing" THEN doc.ends ELSE doc.ends - 1) /\ doc.ends \in Nat
            BY <2>0 DEF Inv, TypeOK
          <6>3. Age(cache[p].data) <= 2 * n + 2
            BY <5>1, <6>0, <6>1 DEF Age, Told, Inv, Base, Past
          <6>4. Age(cache[p].data) \in Nat
            BY <6>1 DEF Age, Told, Inv, TypeOK
          <6>5. Age(fetch[q]) < 2 * n + 1
            BY <2>0, <5>1, <6>2, <6>3, <6>4
          <6> QED BY <4>1, <4>2, <6>5 DEF Outdated
        <5> QED BY <5>2, <5>3
      <4> QED BY <2>0, <4>1, <4>3, <4>4 DEF OnWay, Own, Inv
    <3> QED BY <3>1, <3>2
  <2> QED BY <2>5, <2>6, <2>8, <2>9 DEF Inv
<1> QED BY <1>1, <1>2

\* What an answer does to the cache and to the fetches, whether it is a transition or not.
LEMMA LandEffect ==
  ASSUME Inv, NEW q \in Queries, Land(q)
  PROVE  /\ fetch[q] \in Told(doc.ends) /\ Carries(q)
         /\ UNCHANGED <<doc, page, click, others, asked, failed, moved>>
         /\ cache' \in [Queries -> [data : Told(doc.ends) \cup {None}, stale : BOOLEAN]]
         /\ \A p \in Queries : cache'[p].data = IF p = q THEN fetch[q] ELSE cache[p].data
         /\ fetch' \in [Queries -> Told(doc.ends) \cup {None, Sent}]
         /\ fetch'[q] \in {None, Sent}
         /\ \A p \in Queries \ {q} : fetch'[p] \in {fetch[p], Sent}
         /\ IF q \in Polled /\ IsTransition(last, fetch[q].status)
            THEN \A p \in Queries : cache'[p].stale
            ELSE \A p \in Queries : cache'[p].stale <=> p # q /\ cache[p].stale
<1> USE ConstantsAssumption
<1> DEFINE d == fetch[q]
           c == [cache EXCEPT ![q] = [data |-> d, stale |-> FALSE]]
           f == [fetch EXCEPT ![q] = None]
<1>1. d \in Told(doc.ends) /\ d \notin {None, Sent}
  BY DEF Land, Inv, TypeOK
<1>2. /\ c \in [Queries -> [data : Told(doc.ends) \cup {None}, stale : BOOLEAN]]
      /\ \A p \in Queries : c[p].data = IF p = q THEN d ELSE cache[p].data
      /\ \A p \in Queries : c[p].stale <=> p # q /\ cache[p].stale
  BY <1>1 DEF Inv, TypeOK
<1>3. f \in [Queries -> Told(doc.ends) \cup {None, Sent}] /\ f[q] = None
      /\ \A p \in Queries \ {q} : f[p] = fetch[p]
  BY DEF Inv, TypeOK
<1>4. UNCHANGED <<doc, page, click, others, asked, failed, moved>>
  BY DEF Land, counts
<1>6. CASE q \in Polled /\ IsTransition(last, d.status)
  <2>1. cache' = Stale(c, Queries) /\ fetch' = Started(f, c, Queries \cap Active)
    BY <1>6 DEF Land, Observe, Invalidated, OnTransition
  <2> HIDE DEF c, f
  <2>2. ASSUME NEW p \in Queries
        PROVE  /\ cache'[p] \in [data : Told(doc.ends) \cup {None}, stale : BOOLEAN]
               /\ cache'[p].data = c[p].data
               /\ cache'[p].stale
    <3>1. c[p] \in [data : Told(doc.ends) \cup {None}, stale : BOOLEAN]
      BY <1>2
    <3>2. cache'[p] = [c[p] EXCEPT !.stale = c[p].stale \/ p \in Queries]
      BY <2>1 DEF Stale
    <3> QED BY <3>1, <3>2
  <2>3. cache' \in [Queries -> [data : Told(doc.ends) \cup {None}, stale : BOOLEAN]]
    BY <2>1, <2>2 DEF Stale
  <2>4. fetch' \in [Queries -> Told(doc.ends) \cup {None, Sent}]
        /\ \A p \in Queries : fetch'[p] \in {f[p], Sent}
    BY <1>3, <2>1 DEF Started
  <2> QED BY <1>1, <1>2, <1>3, <1>4, <1>6, <2>2, <2>3, <2>4 DEF Carries
<1>7. CASE ~(q \in Polled /\ IsTransition(last, d.status))
  <2>1. cache' = c /\ fetch' = f
    BY <1>7 DEF Land, Observe
  <2> QED BY <1>1, <1>2, <1>3, <1>4, <1>7, <2>1 DEF Carries
<1> QED BY <1>6, <1>7

\* An answer that is not overtaken is as late as anything the tab holds.
LEMMA LandIsLatest ==
  ASSUME Inv, NEW q \in Queries, Land(q), ~overtaken', NEW p \in Queries, Has(p)
  PROVE  /\ ~overtaken
         /\ cache[p].data \in Told(doc.ends) /\ fetch[q] \in Told(doc.ends)
         /\ cache[p].data.ends <= fetch[q].ends
         /\ q # "dash" => Age(cache[p].data) <= Age(fetch[q])
         /\ Age(cache[p].data) \in Nat /\ Age(fetch[q]) \in Nat
<1>1. ~overtaken /\ ~Overtaken(q, fetch[q])
  BY DEF Land, Inv, TypeOK
<1>2. cache[p].data \in Told(doc.ends) /\ fetch[q] \in Told(doc.ends)
  BY LandEffect DEF Inv, TypeOK, Has
<1>3. Age(cache[p].data) \in Nat /\ Age(fetch[q]) \in Nat
  BY <1>2 DEF Age, Told, Inv, TypeOK
<1>4. q # "dash" => ~(Age(fetch[q]) < Age(cache[p].data))
  BY <1>1 DEF Overtaken, Has
<1>5. q = "dash" => ~(fetch[q].ends < cache[p].data.ends)
  BY <1>1 DEF Overtaken, Has
<1> QED BY <1>1, <1>2, <1>3, <1>4, <1>5 DEF Age, Told, Inv, TypeOK

\* An answer lands: of the processing, of rest with the detector idle, or of the end the
\* detector waits for.
LEMMA InvLand ==
  ASSUME Inv, NEW q \in Queries, Land(q)
  PROVE  Inv'
<1> DEFINE d == fetch[q]
           transition == q \in Polled /\ IsTransition(last, d.status)
<1> USE ConstantsAssumption
<1>0. d \in Told(doc.ends) /\ doc \in [status : Statuses, ends : Nat] /\ d.ends \in Nat /\ d.ends <= doc.ends
      /\ d.status \in Statuses /\ Past(d) /\ doc.ends \in Nat
  BY LandEffect DEF Inv, TypeOK, Base, Told
<1>1. /\ due' = IF q \in Polled /\ d.status = "processing" /\ due <= d.ends + 1 THEN d.ends + 1 ELSE due
      /\ told' = IF transition /\ told <= d.ends THEN d.ends ELSE told
      /\ last' = IF q \in Polled THEN d.status ELSE last
      /\ due \in Nat /\ told \in Nat /\ told <= doc.ends
  BY <1>0 DEF Land, Observe, Later, Invalidated, AfterStart, Inv, TypeOK
<1>2. TypeOK'
  <2>1. due' \in 0..(doc.ends + 1) /\ told' \in 0..doc.ends
    BY <1>0, <1>1 DEF Inv, TypeOK
  <2>2. last' \in Statuses \cup {"unseen"}
    BY <1>0, <1>1 DEF Inv, TypeOK
  <2>3. overtaken' \in BOOLEAN
    BY DEF Land, Inv, TypeOK
  <2> QED BY <2>1, <2>2, <2>3, LandEffect DEF Inv, TypeOK
<1>3. Base'
  <2>1. doc.status \in Terminal => due' <= doc.ends
    BY <1>0, <1>1 DEF Inv, Base, Past
  <2>2. \A p \in Queries : (Has(p)' => Past(cache[p].data)') /\ (Carries(p)' => Past(fetch[p])')
    BY <1>0, LandEffect DEF Inv, Base, Past, Has, Carries
  <2>4. last' = "unseen" => due' = 0 /\ told' = 0 /\ \A p \in Polled : ~Has(p)'
    BY <1>0, <1>1, LandEffect DEF Inv, Base, Has
  <2> QED BY <2>1, <2>2, <2>4, LandEffect DEF Inv, Base, Answered, Past
<1>4. Own'
  <2> SUFFICES ASSUME ~overtaken', others = 0 PROVE (Shown /\ OnWay /\ Seen)'
    BY LandEffect DEF Own
  <2>0. Shown /\ OnWay /\ Seen
    <3>1. ~overtaken
      BY DEF Land, Inv, TypeOK
    <3> QED BY <3>1 DEF Inv, Own
  <2>1. ASSUME NEW x PROVE Current(x)' <=> Current(x)
    BY LandEffect DEF Current, Answered
  <2>2. ASSUME q \in Polled PROVE ~Outdated(d)
    BY <2>2, <1>0, LandIsLatest DEF Outdated
  <2>3. ASSUME NEW x \in Told(doc.ends), Outdated(x) PROVE Outdated(x)'
    <3>1. PICK p \in Polled : Has(p) /\ Age(x) < Age(cache[p].data)
      BY <2>3 DEF Outdated
    <3>2. Age(x) \in Nat
      BY <1>0 DEF Age, Told
    <3>3. CASE p = q
      <4>1. Age(cache[p].data) <= Age(d) /\ Age(cache[p].data) \in Nat /\ Age(d) \in Nat
        BY <3>1, <3>3, LandIsLatest
      <4>2. cache'[q].data = d /\ d # None
        BY LandEffect DEF Carries
      <4> QED BY <3>1, <3>2, <3>3, <4>1, <4>2 DEF Outdated, Has
    <3>4. CASE p # q
      BY <3>1, <3>4, LandEffect DEF Outdated, Has
    <3> QED BY <3>3, <3>4
  <2>4. OnWay'
    <3> SUFFICES ASSUME NEW p \in Polled, Carries(p)', fetch'[p].status \in Terminal, ~Current(fetch[p])'
                 PROVE  Outdated(fetch[p])'
      BY DEF OnWay
    <3>1. p # q /\ fetch'[p] = fetch[p] /\ Carries(p) /\ fetch[p] \in Told(doc.ends)
      BY LandEffect DEF Carries, Inv, TypeOK
    <3>2. ~Current(fetch[p])
      BY <2>1, <3>1
    <3>3. Outdated(fetch[p])
      BY <2>0, <3>1, <3>2 DEF OnWay
    <3> QED BY <2>3, <3>1, <3>3 DEF Outdated
  <2>5. Shown'
    <3> SUFFICES ASSUME NEW p \in Polled, Rests(p)' PROVE Current(cache[p].data)'
      BY DEF Shown
    <3>1. CASE p = q
      BY <2>0, <2>1, <2>2, <3>1, LandEffect DEF OnWay, Rests
    <3>2. CASE p # q
      BY <2>0, <2>1, <3>2, LandEffect DEF Shown, Rests, Has
    <3> QED BY <3>1, <3>2
  <2>6. Seen'
    <3> SUFFICES ASSUME last' = "processing", NEW p \in Polled, Rests(p)', doc.status \in Terminal
                 PROVE  cache'[p].data.ends # doc.ends
      BY LandEffect DEF Seen
    <3>1. CASE q \notin Polled
      BY <1>1, <2>0, <3>1, LandEffect DEF Seen, Rests, Has
    <3>2. CASE q \in Polled
      <4>1. d.status = "processing" /\ d.ends < doc.ends
        BY <1>0, <1>1, <3>2 DEF Past
      <4>2. p # q /\ cache'[p].data = cache[p].data /\ Has(p)
        BY <4>1, LandEffect DEF Rests, Has
      <4>3. cache[p].data.ends <= d.ends
        BY <4>2, LandIsLatest
      <4>4. cache[p].data.ends \in Nat
        BY <4>2 DEF Inv, TypeOK, Has, Told
      <4> QED BY <1>0, <4>1, <4>2, <4>3, <4>4
    <3> QED BY <3>1, <3>2
  <2> QED BY <2>4, <2>5, <2>6
<1>5. Order'
  <2> SUFFICES ASSUME ~overtaken' PROVE (Waits /\ Heard /\ Dash)'
    BY DEF Order
  <2>0. Waits /\ Heard /\ Dash
    <3>1. ~overtaken
      BY DEF Land, Inv, TypeOK
    <3> QED BY <3>1 DEF Inv, Order
  <2>7. CASE q \notin Polled
    <3>1. q = "dash" /\ due' = due /\ told' = told /\ last' = last /\ ~transition
      BY <1>1, <2>7
    <3>2. Waits' /\ Heard'
      BY <2>0, <2>7, <3>1, LandEffect DEF Waits, Heard, Has, Age
    <3>3. Dash'
      <4>1. cache'["dash"].data = d
        BY <3>1, LandEffect
      <4>2. ASSUME NEW p \in Polled, Has(p), cache[p].data.ends >= told PROVE d.ends >= told
        BY <1>0, <1>1, <2>7, <4>2, LandIsLatest DEF Told
      <4>3. told = 0 \/ last = "processing" \/ d.ends >= told
        BY <2>0, <4>2 DEF Heard
      <4> QED BY <1>0, <1>1, <3>1, <4>1, <4>3 DEF Dash
    <3> QED BY <3>2, <3>3
  <2>8. CASE q \in Polled
    <3>0. Has(q)' /\ cache'[q].data = d
      BY LandEffect DEF Has, Carries
    <3>1. ASSUME NEW p \in Queries, Has(p)
          PROVE  cache[p].data.ends <= d.ends /\ cache[p].data.ends \in Nat
                 /\ Age(cache[p].data) <= Age(d) /\ Age(cache[p].data) \in Nat /\ Age(d) \in Nat
      BY <2>8, <3>1, LandIsLatest DEF Told
    <3>2. told = 0 \/ Age(d) >= 2 * told - 1
      <4>1. CASE told # 0
        <5>1. PICK p \in Polled : Has(p) /\ Age(cache[p].data) >= 2 * told - 1
          BY <2>0, <4>1 DEF Heard
        <5> QED BY <1>1, <3>1, <5>1
      <4> QED BY <4>1
    <3>3. due > told => Age(d) >= 2 * due - 1
      BY <1>1, <2>0, <3>1 DEF Waits
    <3>4. CASE d.status = "processing"
      <4>1. last' = "processing" /\ told' = told /\ Age(d) = 2 * d.ends + 1
            /\ due' = IF due <= d.ends + 1 THEN d.ends + 1 ELSE due
        BY <1>1, <2>8, <3>4 DEF Age, IsTransition
      <4>2. Waits'
        BY <1>0, <1>1, <2>8, <3>0, <3>3, <4>1 DEF Waits
      <4>3. Heard'
        BY <1>0, <1>1, <2>8, <3>0, <3>2, <4>1 DEF Heard
      <4>4. Dash'
        BY <4>1 DEF Dash
      <4> QED BY <4>2, <4>3, <4>4
    <3>5. CASE d.status # "processing" /\ last # "processing"
      <4>1. due' = due /\ told' = told /\ ~(due > told) /\ ~transition /\ Age(d) = 2 * d.ends
        BY <1>0, <1>1, <2>0, <3>5 DEF Waits, IsTransition, Age
      <4>2. told = 0 \/ d.ends >= told
        BY <1>0, <1>1, <3>2, <4>1
      <4>3. Waits'
        BY <4>1 DEF Waits
      <4>4. Heard'
        BY <1>0, <1>1, <2>8, <3>0, <4>1, <4>2 DEF Heard
      <4>5. Dash'
        BY <2>0, <2>8, <3>5, <4>1, LandEffect DEF Dash, Has
      <4> QED BY <4>3, <4>4, <4>5
    <3>6. CASE d.status # "processing" /\ last = "processing"
      <4>1. transition /\ d.status \in Terminal
        BY <1>0, <2>8, <3>6 DEF IsTransition
      <4>2. due' = due /\ told' = (IF told <= d.ends THEN d.ends ELSE told) /\ Age(d) = 2 * d.ends
        BY <1>0, <1>1, <3>6, <4>1 DEF Age
      <4>3. Waits'
        BY <1>0, <1>1, <3>3, <4>2 DEF Waits
      <4>4. d.ends >= told
        BY <1>0, <1>1, <3>2, <4>2
      <4>5. Heard'
        BY <1>0, <2>8, <3>0, <4>2, <4>4 DEF Heard
      <4>6. Dash'
        BY <4>1, LandEffect DEF Dash
      <4> QED BY <4>3, <4>5, <4>6
    <3> QED BY <3>4, <3>5, <3>6
  <2> QED BY <2>7, <2>8
<1> QED BY <1>2, <1>3, <1>4, <1>5 DEF Inv

\* Every step.
LEMMA InvNext == Inv /\ [Next]_vars => Inv'
<1> SUFFICES ASSUME Inv, [Next]_vars PROVE Inv'
  OBVIOUS
<1>1. CASE UNCHANGED vars
  BY <1>1 DEF vars, counts, Inv, TypeOK, Base, Order, Own, Has, Carries, Answered, Rests, Past, Age,
              Current, Outdated, Shown, OnWay, Seen, Waits, Heard, Dash
<1> QED BY <1>1, InvNavigate, InvPoll, InvLand, InvAsk, InvOthers, InvServe, InvAnswer, InvFinish DEF Next, Rest

-----------------------------------------------------------------------------
(* The theorems.                                                            *)

\* Every variable keeps its type, and no answer tells of more than has happened.
THEOREM TypesKept == Spec => []TypeOK
<1>1. Inv => TypeOK
  BY DEF Inv
<1> QED BY <1>1, InvInit, InvNext, PTL DEF Spec

\* The detector: once all has come to rest, and unless an answer has been
\* overtaken by another, no processing the tab has known of has ended unseen.
THEOREM TransitionIsSeen == Spec => []TransitionSeen
<1>1. Inv => TransitionSeen
  BY DEF Inv, Order, Waits, TransitionSeen, Informed, TypeOK
<1> QED BY <1>1, InvInit, InvNext, PTL DEF Spec

\* The figures: they are those after the processing the tab has known of, or are
\* marked to be fetched.
THEOREM FiguresFollow == Spec => []FiguresCatchUp
<1>1. Inv => FiguresCatchUp
  <2> SUFFICES ASSUME Inv, Informed, due = doc.ends, Has("dash"), ~cache["dash"].stale,
                      last = "processing" => others = 0
               PROVE  cache["dash"].data.ends = doc.ends
    BY DEF FiguresCatchUp, Has
  <2>1. AtRest /\ Waits /\ Dash /\ Base /\ TypeOK
    BY DEF Informed, Inv, Order
  <2>2. last # "processing"
    <3> SUFFICES ASSUME others = 0 PROVE last # "processing"
      OBVIOUS
    <3>1. Shown /\ Seen
      BY DEF Informed, Inv, Own
    <3>2. PICK p \in Polled \cap Active : TRUE
      BY <2>1 DEF TypeOK, Active, Observed, Pages
    <3>3. Has(p) /\ fetch[p] = None /\ ~Polling(p) /\ ~cache[p].stale
      BY <2>1, <3>2 DEF AtRest, Has, Informed
    <3>4. Rests(p)
      BY <2>1, <3>2, <3>3 DEF Polling, Rests, Has, TypeOK, Told
    <3>5. Current(cache[p].data) /\ ~Answered
      BY <2>1, <3>1, <3>4 DEF Shown, AtRest, Answered
    <3> QED BY <3>1, <3>4, <3>5 DEF Seen, Current
  <2>3. told >= doc.ends
    BY <2>1, <2>2 DEF Waits, TypeOK
  <2>4. cache["dash"].data.ends >= told /\ cache["dash"].data \in Told(doc.ends)
    BY <2>1, <2>2 DEF Dash, Has, TypeOK
  <2> QED BY <2>1, <2>3, <2>4 DEF Told, TypeOK
<1> QED BY <1>1, InvInit, InvNext, PTL DEF Spec
=============================================================================
