--------------------------- MODULE StatusPolling ---------------------------
(***************************************************************************)
(* How a browser tab follows the background processing of a document:      *)
(* the hooks of services/queries.ts, the interval of                       *)
(* processingRefetchInterval.ts and the detector of terminalTransition.ts. *)
(*                                                                         *)
(* Three queries are cached: "list" and "detail" carry the status of the   *)
(* document and poll, "dash" carries the figures computed from its         *)
(* invoices and does not.  What the query cache does with a fetch, an      *)
(* invalidation and a seeded value is external (react-query 5), modelled   *)
(* as far as the hooks rely on it.                                         *)
(***************************************************************************)
EXTENDS Naturals

CONSTANTS
  Bounds,        \* bounds of the instances, see BoundT
  None, Sent, Refused

Queries == {"list", "detail", "dash"}
Polled == {"list", "detail"}
Terminal == {"parsed", "error"}
Pages == {"project", "review", "upload"}

\* How often the user asks to parse again, how often another user or another tab does,
\* how many fetches fail, how often the user goes to another page.
BoundT == [reparses : Nat, others : Nat, failures : Nat, moves : Nat]

ASSUME ConstantsAssumption ==
  /\ Bounds \subseteq BoundT
  /\ None # Sent /\ None # Refused /\ Sent # Refused
  /\ \A v \in {None, Sent, Refused} : v \notin [status : Terminal \cup {"processing"}, ends : Nat]

VARIABLES
  doc,       \* the document on the server: its status, and how often processing ended
  cache,     \* query cache: the last answer, and whether it is invalidated
  fetch,     \* the fetch of each query under way: None, Sent, or the answer on its way
  last,      \* lastStatus of the detector
  page,      \* the page shown
  click,     \* the mutation under way: None, Sent, or its answer
  due, told, \* history: the end of processing the detector waits for; the last it has seen
  overtaken, \* history: an answer has landed that was older than what the tab knew
  others,    \* how often another user has had the document parsed again
  asked, failed, moved  \* counters of the bounds

counts == <<others, asked, failed, moved>>
vars == <<doc, cache, fetch, last, page, click, due, told, overtaken, counts>>

\* What a page observes; "upload" is the project page with the upload sheet open.
Observed(p) ==
  CASE p = "project" -> {"list", "dash"}
    [] p = "review" -> {"detail"}
    [] p = "upload" -> {"list", "dash", "detail"}

Active == Observed(page)

\* A page is opened, or has been opened, while the document rests or is processed.
Init ==
  /\ doc \in [status : Terminal \cup {"processing"}, ends : {0}]
  /\ page \in Pages
  /\ \E loaded \in BOOLEAN :
       /\ cache = [q \in Queries |-> [data |-> IF loaded /\ q \in Active THEN doc ELSE None,
                                      stale |-> FALSE]]
       /\ fetch = [q \in Queries |-> IF ~loaded /\ q \in Active THEN Sent ELSE None]
       /\ last = IF loaded /\ Polled \cap Active # {} THEN doc.status ELSE "unseen"
       /\ due = IF loaded /\ doc.status = "processing" THEN 1 ELSE 0
  /\ click = None
  /\ told = 0 /\ overtaken = FALSE
  /\ others = 0 /\ asked = 0 /\ failed = 0 /\ moved = 0

\* So much happens in one of the instances.
Within(r, o, f, m) ==
  \E b \in Bounds : r <= b.reparses /\ o <= b.others /\ f <= b.failures /\ m <= b.moves

Later(a, b) == IF a > b THEN a ELSE b

-----------------------------------------------------------------------------
(* The query cache.                                                         *)

\* Bug: the detector listens to every update, not only to those of type
\* "success"; the start of a fetch carries the data of before.
AfterStart_All(map, c, Q) ==
  IF "list" \in Q /\ c["list"].data # None THEN c["list"].data.status ELSE map

\* lastStatus after the fetches of Q have started: the detector skips the event.
AfterStart(map, c, Q) == map

\* A fetch that has nothing to show yet is not cancelled.
Started(f, c, Q) ==
  [q \in Queries |-> IF q \in Q /\ (f[q] = None \/ c[q].data # None) THEN Sent ELSE f[q]]

Stale(c, Q) == [q \in Queries |-> [c[q] EXCEPT !.stale = @ \/ q \in Q]]

\* invalidateQueries for Q: what is observed is fetched anew, a fetch under way
\* is cancelled; what is not observed is only marked.
Invalidated(map, c, f, Q) ==
  /\ cache' = Stale(c, Q)
  /\ fetch' = Started(f, c, Q \cap Active)
  /\ last' = AfterStart(map, c, Q \cap Active)

-----------------------------------------------------------------------------
(* The detector.                                                            *)

\* Bug: a failed processing is not taken for an end.
IsTransition_Parsed(before, status) == before = "processing" /\ status = "parsed"

\* The first observation is not a transition.
IsTransition(before, status) == before = "processing" /\ status \in Terminal

\* Bug: the figures are left out.
OnTransition_NoDash == {"list", "detail"}

\* What a transition invalidates.
OnTransition == Queries

\* A success event of q with the answer d, c and f being the cache after it.
Observe(q, d, c, f) ==
  /\ due' = IF q \in Polled /\ d.status = "processing" THEN Later(due, d.ends + 1) ELSE due
  /\ IF q \in Polled /\ IsTransition(last, d.status)
     THEN told' = Later(told, d.ends) /\ Invalidated(d.status, c, f, OnTransition)
     ELSE /\ last' = IF q \in Polled THEN d.status ELSE last
          /\ cache' = c /\ fetch' = f
          /\ UNCHANGED told

-----------------------------------------------------------------------------
(* Fetches.                                                                 *)

\* useQuery on a page that opens; staleTime may have passed for some of Old.
Navigate(p, Old) ==
  LET new == Observed(p) \ Active
      due_ == {q \in new : fetch[q] = None /\ (cache[q].data = None \/ cache[q].stale \/ q \in Old)}
  IN /\ p # page
     /\ Old \subseteq new
     /\ page' = p
     /\ fetch' = Started(fetch, cache, due_)
     /\ last' = AfterStart(last, cache, due_)
     /\ Within(asked, others, failed, moved + 1) /\ moved' = moved + 1
     /\ UNCHANGED <<doc, cache, click, due, told, overtaken, others, asked, failed>>

\* processingRefetchInterval
Polling(q) ==
  q \in Polled \cap Active /\ cache[q].data # None /\ cache[q].data.status = "processing"

Poll(q) ==
  /\ Polling(q)
  /\ fetch[q] = None
  /\ fetch' = Started(fetch, cache, {q})
  /\ last' = AfterStart(last, cache, {q})
  /\ UNCHANGED <<doc, cache, page, click, due, told, overtaken, counts>>

Read(q) ==
  /\ fetch[q] = Sent
  /\ fetch' = [fetch EXCEPT ![q] = doc]
  /\ UNCHANGED <<doc, cache, last, page, click, due, told, overtaken, counts>>

\* How far the document had come in an answer: at rest, processed, at rest again.
Age(d) == 2 * d.ends + IF d.status = "processing" THEN 1 ELSE 0

\* The tab holds an answer that tells of a later state of the document; of the
\* figures only the end of a processing matters.
Overtaken(q, d) ==
  \E p \in Queries :
    /\ cache[p].data # None
    /\ IF q = "dash" THEN d.ends < cache[p].data.ends ELSE Age(d) < Age(cache[p].data)

Land(q) ==
  /\ fetch[q] \notin {None, Sent}
  /\ Observe(q, fetch[q], [cache EXCEPT ![q] = [data |-> fetch[q], stale |-> FALSE]],
             [fetch EXCEPT ![q] = None])
  /\ overtaken' = (overtaken \/ Overtaken(q, fetch[q]))
  /\ UNCHANGED <<doc, page, click, counts>>

\* A fetch fails for good, retries included: what it had to show stays, which may be
\* nothing.
Fail(q) ==
  /\ fetch[q] # None
  /\ Within(asked, others, failed + 1, moved)
  /\ failed' = failed + 1
  /\ fetch' = [fetch EXCEPT ![q] = None]
  /\ UNCHANGED <<doc, cache, last, page, click, due, told, overtaken, others, asked, moved>>

-----------------------------------------------------------------------------
(* Parsing again.                                                           *)

\* The buttons: of the review for a document at rest, of the errors tab for a
\* failed one; disabled while the mutation is pending.
MayReparse ==
  \/ page = "review" /\ cache["detail"].data # None /\ cache["detail"].data.status \in Terminal
  \/ page # "review" /\ cache["list"].data # None /\ cache["list"].data.status = "error"

Reparse ==
  /\ click = None /\ Within(asked + 1, others, failed, moved)
  /\ MayReparse
  /\ asked' = asked + 1
  /\ click' = Sent
  /\ UNCHANGED <<doc, cache, fetch, last, page, due, told, overtaken, others, failed, moved>>

\* The guard of the server (DocumentProcessing): 409 when busy, else 202.
ServeReparse ==
  /\ click = Sent
  /\ IF doc.status = "processing"
     THEN click' = Refused /\ UNCHANGED doc
     ELSE doc' = [doc EXCEPT !.status = "processing"] /\ click' = doc'
  /\ UNCHANGED <<cache, fetch, last, page, due, told, overtaken, counts>>

\* Bug: the answer of the mutation is not used.
Seeded_Not(c, d) == c

\* setQueryData with the answer of the mutation.
Seeded(c, d) == [c EXCEPT !["detail"] = [data |-> d, stale |-> FALSE]]

\* onSuccess: the seed is a success event of "detail", then comes the invalidation.
\* It may be overtaken as well: the tab knows of a processing after its own.
AnswerReparse ==
  /\ click \notin {None, Sent}
  /\ click' = None
  /\ IF click = Refused
     THEN UNCHANGED <<cache, fetch, last, due, told, overtaken>>
     ELSE /\ due' = Later(due, click.ends + 1)
          /\ overtaken' = (overtaken \/ due > click.ends + 1 \/ told > click.ends + 1)
          /\ Invalidated(click.status, Seeded(cache, click), fetch, Queries)
          /\ UNCHANGED told
  /\ UNCHANGED <<doc, page, counts>>

\* Another user, or the same one in another tab, has the document parsed again: this
\* tab is not told.
OthersReparse ==
  /\ doc.status \in Terminal
  /\ Within(asked, others + 1, failed, moved) /\ others' = others + 1
  /\ doc' = [doc EXCEPT !.status = "processing"]
  /\ UNCHANGED <<cache, fetch, last, page, click, due, told, overtaken, asked, failed, moved>>

\* The background task ends.
Finish(status) ==
  /\ doc.status = "processing"
  /\ doc' = [status |-> status, ends |-> doc.ends + 1]
  /\ UNCHANGED <<cache, fetch, last, page, click, due, told, overtaken, counts>>

-----------------------------------------------------------------------------

\* Nothing is under way and nothing polls.
AtRest ==
  /\ doc.status \in Terminal
  /\ click = None
  /\ \A q \in Queries : fetch[q] = None /\ ~Polling(q)

Rest == AtRest /\ UNCHANGED vars

Next ==
  \/ \E p \in Pages, Old \in SUBSET Queries : Navigate(p, Old)
  \/ \E q \in Queries : Poll(q) \/ Read(q) \/ Land(q) \/ Fail(q)
  \/ Reparse \/ ServeReparse \/ AnswerReparse \/ OthersReparse
  \/ \E status \in Terminal : Finish(status)
  \/ Rest

\* Timers fire, requests are answered, processing ends (DocumentProcessing).
Fairness ==
  /\ \A q \in Queries : WF_vars(Poll(q)) /\ WF_vars(Read(q)) /\ WF_vars(Land(q))
  /\ WF_vars(ServeReparse) /\ WF_vars(AnswerReparse)
  /\ WF_vars(\E status \in Terminal : Finish(status))

Spec == Init /\ [][Next]_vars /\ Fairness

-----------------------------------------------------------------------------
(* Properties.                                                              *)

\* The tab has heard everything in order: no answer has been overtaken by another
\* and, now that all has come to rest, the status it shows is there and is not one it
\* failed to fetch anew.
Informed ==
  AtRest /\ ~overtaken /\ \A q \in Polled \cap Active : cache[q].data # None /\ ~cache[q].stale

\* A processing the tab has known of, whoever began it, does not end unnoticed: the
\* detector has seen every transition.
TransitionSeen == Informed /\ last \in Terminal => told >= due

\* The figures the tab holds in the end are those after the processing it has known
\* of, or are marked to be fetched.  Only another user's processing may still be
\* waited for: the page that saw it begin was left, and the page shown now rests on
\* what it had of before.
FiguresCatchUp ==
  Informed /\ due = doc.ends /\ cache["dash"].data # None /\ (last = "processing" => others = 0) =>
    cache["dash"].stale \/ cache["dash"].data.ends = doc.ends

\* The fetches come to an end: no invalidation causes itself again.
PollingStops == <>[](\A q \in Queries : fetch[q] = None)

=============================================================================
