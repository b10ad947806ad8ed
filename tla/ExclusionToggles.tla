-------------------------- MODULE ExclusionToggles --------------------------
(***************************************************************************)
(* The checkboxes of a project's suppliers (the tab of ProjectPage): who   *)
(* is left out of the calculations.  A box asks at once, or opens a form   *)
(* for the reason, and several requests can be on their way.               *)
(***************************************************************************)
EXTENDS Naturals, Sequences, SequencesExt

CONSTANTS
  MaxClicks,   \* bound: steps of the user
  MaxForeign,  \* bound: changes by other users
  None, Sent

VARIABLE toggles
\* .excluded  the suppliers excluded on the server
\* .data, .fetch  the cached answer and the fetch under way
\* .asks      the requests in the order they were made: supplier, wish, outcome
\* .form      exclusionPopover: the supplier whose form is open
\* .clicks, .foreign  counters of the bounds

Closed == [excluded |-> "elsewhere"]
Suppliers == {"s", "t"}

Open ==
  \E who \in SUBSET Suppliers :
    toggles' = [excluded |-> who, data |-> who, fetch |-> None, asks |-> <<>>,
                form |-> None, clicks |-> 0, foreign |-> 0]

\* useMutation knows of the last request only.
Pending == toggles.asks # <<>> /\ Last(toggles.asks).outcome # "answered"

\* While a request is on its way every box is disabled.
Enabled(s) == ~Pending

Click(state) == toggles.clicks < MaxClicks /\ toggles' = [state EXCEPT !.clicks = @ + 1]
Ask(s, wish) == [toggles EXCEPT !.asks = Append(@, [who |-> s, wish |-> wish, outcome |-> Sent])]

CheckBox(s) ==
  /\ Enabled(s)
  /\ \/ s \in toggles.data /\ Click(Ask(s, "in"))
     \/ s \notin toggles.data /\ Click([toggles EXCEPT !.form = s])

\* «Исключить» or Enter in the form, which nothing disables but its own closing.
Confirm == toggles.form # None /\ Click([Ask(toggles.form, "out") EXCEPT !.form = None])
CancelForm == toggles.form # None /\ Click([toggles EXCEPT !.form = None])

-----------------------------------------------------------------------------
(* The server, which carries out what it is asked in any order.             *)

Excluded(a) == IF a.wish = "out" THEN toggles.excluded \cup {a.who} ELSE toggles.excluded \ {a.who}

Serve(i) ==
  /\ toggles.asks[i].outcome = Sent
  /\ \/ toggles' = [toggles EXCEPT !.asks[i].outcome = "ok", !.excluded = Excluded(toggles.asks[i])]
     \/ toggles' = [toggles EXCEPT !.asks[i].outcome = "refused"]

Foreign ==
  /\ toggles.foreign < MaxForeign
  /\ \E who \in SUBSET Suppliers : toggles' = [toggles EXCEPT !.excluded = who, !.foreign = @ + 1]

\* Bug: a success leaves the cache alone.
Answered_Silent(i) == [toggles EXCEPT !.asks[i].outcome = "answered"]
\* A success has the exclusions fetched anew.
Answered(i) == [toggles EXCEPT !.asks[i].outcome = "answered", !.fetch = IF toggles.asks[i].outcome = "ok" THEN Sent ELSE @]
Answer(i) == toggles.asks[i].outcome \in {"ok", "refused"} /\ toggles' = Answered(i)
Read == toggles.fetch = Sent /\ toggles' = [toggles EXCEPT !.fetch = toggles.excluded]
Land == toggles.fetch \notin {None, Sent} /\ toggles' = [toggles EXCEPT !.data = toggles.fetch, !.fetch = None]

Step ==
  /\ toggles # Closed
  /\ \/ \E s \in Suppliers : CheckBox(s)
     \/ Confirm \/ CancelForm
     \/ \E i \in DOMAIN toggles.asks : Serve(i) \/ Answer(i)
     \/ Foreign \/ Read \/ Land

-----------------------------------------------------------------------------
(* Properties.                                                              *)

\* When every request is answered and nothing is being fetched, the boxes show who is
\* excluded, in whatever order the server carried the requests out, as long as the
\* other users leave the exclusions alone.
Settled ==
  (toggles # Closed /\ toggles.foreign = 0 /\ toggles.fetch = None
     /\ \A i \in DOMAIN toggles.asks : toggles.asks[i].outcome = "answered")
  => toggles.data = toggles.excluded
=============================================================================
