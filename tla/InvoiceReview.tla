--------------------------- MODULE InvoiceReview ---------------------------
(***************************************************************************)
(* The review of an invoice (pages/Review.tsx): the form shows the cached  *)
(* document under the local edits of the user ("overrides") and sends six  *)
(* kinds of mutations, which overlap as far as the buttons allow.  Other   *)
(* users and the end of processing change the document meanwhile.          *)
(*                                                                         *)
(* The text of an invoice has a header and one row of the table; a value   *)
(* is the number of the edit that typed it, 0 what the parser read.        *)
(***************************************************************************)
EXTENDS Naturals

CONSTANTS
  MaxTyped,    \* bound: edits typed
  MaxAsks,     \* bound: mutations sent
  MaxForeign,  \* bound: changes by other users
  None, Sent,
  Other        \* the edit of another user

VARIABLE review
\* .server  the document: its first invoice (id 0: none), whether that and another one are
\*          confirmed, whether it is processed (pending or processing)
\* .drawn   the ids the sequence of invoices has handed out to it
\* .data, .fetch  what the query cache knows of it, and the fetch under way
\* .over    the overrides: a copy of the whole invoice with the edits, or None
\* .ask     per kind of mutation: None, or the invoice it was sent for and its outcome
\* .dialog  whether the dialog of deletion is open
\* .saved, .during  history: typed values the server took, and those typed while an answer was due
\* .typed, .asked, .foreign  counters of the bounds

Fields == {"header", "row"}
Kinds == {"save", "verify", "unverify", "reparse", "deskew", "remove"}
Gone == [page |-> "other"]

Invoice(d) == [id |-> d.id, text |-> d.text, verified |-> d.verified]
Serverinv == Invoice(review.data)
Edited == review.over # None /\ review.over.id = review.data.id
Draft == IF Edited THEN review.over ELSE Serverinv
Dirty == review.data.id # 0 /\ Edited /\ review.over # Serverinv
Slim == review.data.id = 0
Busy == review.data.busy
Locked == Draft.verified \/ Busy
DocumentLocked == review.data.verified \/ review.data.other
IsPending(k) == review.ask[k] # None

\* A document as the parser left it.
Parsed(id, verified, other, busy) ==
  [id |-> id, text |-> [f \in Fields |-> 0], verified |-> verified, other |-> other, busy |-> busy]

Showing(doc, known, fetch, foreign) ==
  [page |-> "review", server |-> doc, drawn |-> 2, data |-> known, fetch |-> fetch,
   over |-> None, ask |-> [k \in Kinds |-> None], dialog |-> FALSE,
   saved |-> {}, during |-> {}, typed |-> 0, asked |-> 0, foreign |-> foreign]
\* The page opens on the document as it is, or on what the cache holds of it, perhaps with
\* the invoice of an earlier parse; that is fetched anew behind the page ("staleTime").
\* What made the copy stale counts as a change by another user.
Open ==
  \E id \in {0, 2}, v, other, busy \in BOOLEAN :
    /\ v \/ other => id = 2 /\ ~busy
    /\ \/ review' = Showing(Parsed(id, v, other, busy), Parsed(id, v, other, busy), None, 0)
       \/ \E old \in {0, 1, id} :
            review' = Showing(Parsed(id, v, other, busy), Parsed(old, FALSE, other, FALSE), Sent, 1)

-----------------------------------------------------------------------------
(* The form.                                                                *)

\* What a keystroke leaves in a field: something new, or the value of the server again.
Override(f, v) ==
  /\ review' = [review EXCEPT
       !.over = [Draft EXCEPT !.text[f] = v],
       !.typed = @ + 1,
       !.during = IF \E k \in {"save", "verify", "unverify"} : IsPending(k) THEN @ \cup {v} ELSE @]

EditHeader ==
  /\ ~Slim /\ ~Locked /\ review.typed < MaxTyped
  /\ \E v \in {review.typed + 1, review.data.text["header"]} : Override("header", v)

EditRow ==
  /\ ~Slim /\ ~Locked /\ review.typed < MaxTyped /\ Draft.text["row"] # None
  /\ \E v \in {review.typed + 1, review.data.text["row"]} : Override("row", v)

RemoveRow ==
  /\ ~Slim /\ ~Locked /\ review.typed < MaxTyped /\ Draft.text["row"] # None
  /\ Override("row", None)

-----------------------------------------------------------------------------
(* The buttons.                                                             *)

Ask(k) ==
  /\ review.asked < MaxAsks
  /\ review' = [review EXCEPT !.asked = @ + 1,
                  !.ask[k] = [id |-> Draft.id, text |-> Draft.text, outcome |-> Sent]]

MaySave == Dirty /\ ~IsPending("save") /\ ~Busy
Save == MaySave /\ Ask("save")

\* Bug: an edited invoice can be confirmed.
MayVerify_Dirty == ~Slim /\ ~review.data.verified /\ ~IsPending("verify") /\ ~Busy
MayVerify == ~Slim /\ ~review.data.verified /\ ~IsPending("verify") /\ ~Dirty /\ ~Busy
Verify == MayVerify /\ Ask("verify")

MayUnverify == ~Slim /\ review.data.verified /\ ~IsPending("unverify") /\ ~Dirty /\ ~Busy
Unverify == MayUnverify /\ Ask("unverify")

\* The view of a document without invoices asks less of its buttons.
MayReparse ==
  /\ ~IsPending("reparse") /\ ~Busy
  /\ Slim \/ (~IsPending("verify") /\ ~IsPending("unverify") /\ ~DocumentLocked)
Reparse == MayReparse /\ Ask("reparse")
Deskew == MayReparse /\ ~IsPending("deskew") /\ Ask("deskew")

OpenDialog ==
  /\ ~review.dialog /\ ~Busy
  /\ IF Slim THEN ~IsPending("remove")
     ELSE ~IsPending("verify") /\ ~IsPending("unverify") /\ ~DocumentLocked
  /\ review' = [review EXCEPT !.dialog = TRUE]
CloseDialog == review.dialog /\ review' = [review EXCEPT !.dialog = FALSE]
Remove == review.dialog /\ ~IsPending("remove") /\ Ask("remove")

-----------------------------------------------------------------------------
(* The server.                                                              *)

Outcome(k, o) == [review EXCEPT !.ask[k].outcome = o]
Present(k) == review.server.id = review.ask[k].id /\ review.server.id # 0 /\ ~review.server.busy
Free == review.server.id # None /\ ~review.server.busy /\ ~review.server.verified /\ ~review.server.other
ServedWith(k, doc) == review' = [Outcome(k, "ok") EXCEPT !.server = doc]

ServeSave ==
  /\ Present("save") /\ ~review.server.verified
  /\ review' = [Outcome("save", "ok") EXCEPT
       !.server.text = review.ask["save"].text,
       !.saved = @ \cup {review.ask["save"].text[f] : f \in Fields}]
ServeVerify == Present("verify") /\ ServedWith("verify", [review.server EXCEPT !.verified = TRUE])
ServeUnverify == Present("unverify") /\ ServedWith("unverify", [review.server EXCEPT !.verified = FALSE])
ServeReparse(k) ==
  /\ Free
  /\ ServedWith(k, [review.server EXCEPT !.busy = TRUE])
ServeRemove ==
  /\ Free
  /\ ServedWith("remove", [review.server EXCEPT !.id = None])

Serve(k) ==
  /\ IsPending(k) /\ review.ask[k].outcome = Sent
  /\ \/ k = "save" /\ ServeSave
     \/ k = "verify" /\ ServeVerify
     \/ k = "unverify" /\ ServeUnverify
     \/ k \in {"reparse", "deskew"} /\ ServeReparse(k)
     \/ k = "remove" /\ ServeRemove
     \/ review' = Outcome(k, "refused")

\* Processing ends: the invoices are replaced by new ones, or kept when it has failed.
Finish ==
  /\ review.server.busy
  /\ \/ review' = [review EXCEPT !.server.busy = FALSE]
     \/ \E id \in {0, review.drawn + 1} : review' = [review EXCEPT
          !.drawn = @ + 1,
          !.server = Parsed(id, FALSE, FALSE, FALSE)]

\* Another user confirms, takes back, edits or has the document parsed again.
ForeignChanges(doc) ==
  {[doc EXCEPT !.verified = ~@]} \cup
  (IF doc.verified THEN {} ELSE {[doc EXCEPT !.text["header"] = Other]}) \cup
  (IF doc.verified \/ doc.other THEN {} ELSE {[doc EXCEPT !.busy = TRUE]})
Foreign ==
  /\ review.foreign < MaxForeign /\ ~review.server.busy /\ review.server.id \notin {0, None}
  /\ \E doc \in ForeignChanges(review.server) :
       review' = [review EXCEPT !.server = doc, !.foreign = @ + 1]

-----------------------------------------------------------------------------
(* Answers.                                                                 *)

\* Bug: a refused save clears the form as well.
AnswerEdit_Always(k) ==
  /\ k \in {"save", "verify", "unverify"} /\ IsPending(k) /\ review.ask[k].outcome # Sent
  /\ review' = [review EXCEPT !.ask[k] = None, !.fetch = Sent, !.over = None, !.during = {}]

\* The hook has the document fetched anew, then the page drops the edits.
AnswerEdit(k) ==
  /\ k \in {"save", "verify", "unverify"} /\ IsPending(k)
  /\ \/ /\ review.ask[k].outcome = "ok"
        /\ review' = [review EXCEPT !.ask[k] = None, !.fetch = Sent, !.over = None, !.during = {}]
     \/ /\ review.ask[k].outcome = "refused"
        /\ review' = [review EXCEPT !.ask[k] = None]

\* The answer of a reparse holds the document, busy, with the invoices it had.
AnswerReparse(k) ==
  /\ k \in {"reparse", "deskew"} /\ IsPending(k)
  /\ \/ /\ review.ask[k].outcome = "ok"
        /\ review' = [review EXCEPT !.ask[k] = None, !.fetch = Sent, !.data.busy = TRUE]
     \/ /\ review.ask[k].outcome = "refused"
        /\ review' = [review EXCEPT !.ask[k] = None]

\* A success leads to the dashboard.
AnswerRemove ==
  /\ IsPending("remove")
  /\ \/ review.ask["remove"].outcome = "ok" /\ review' = Gone
     \/ review.ask["remove"].outcome = "refused" /\ review' = [review EXCEPT !.ask["remove"] = None]

Poll == Busy /\ review.fetch = None /\ review' = [review EXCEPT !.fetch = Sent]
Read ==
  /\ review.fetch = Sent
  /\ review' = [review EXCEPT !.fetch = IF review.server.id = None THEN None ELSE review.server]
Land ==
  /\ review.fetch \notin {None, Sent}
  /\ review' = [review EXCEPT !.data = review.fetch, !.fetch = None]

Step ==
  /\ review # Gone
  /\ \/ EditHeader \/ EditRow \/ RemoveRow
     \/ Save \/ Verify \/ Unverify \/ Reparse \/ Deskew
     \/ OpenDialog \/ CloseDialog \/ Remove
     \/ \E k \in Kinds : Serve(k) \/ AnswerEdit(k) \/ AnswerReparse(k)
     \/ AnswerRemove \/ Finish \/ Foreign \/ Poll \/ Read \/ Land

-----------------------------------------------------------------------------
(* Properties.                                                              *)

\* Nothing typed is lost: the page drops its edits only when the server has taken each of
\* them, but for those typed while an answer was due.  The edits of an invoice go when the
\* page learns that the server has replaced the invoice itself: by a reparse of another
\* user, or of this one, whose button does not wait for unsaved edits.
NoTextLost ==
  (review # Gone /\ review'.page = "review" /\ Edited /\ ~Edited')
  => \/ review'.data.id # review.data.id /\ review.server.id # review.data.id
     \/ \A f \in Fields : review.over.text[f] \in review.saved \cup review.during \cup {0, Other, None}

\* What this user confirms is what this user saw, or saved, whatever others have parsed
\* anew, confirmed or taken back meanwhile: an invoice never becomes "checked" while some
\* other text was still on the screen.  What another user has saved since the page was
\* read is exempt: no version of the invoice is compared.
ConfirmedIsOwn ==
  (review # Gone /\ review'.page = "review" /\ ~review.server.verified /\ review'.server.verified
     /\ review'.foreign = review.foreign)
  => LET shown == review.ask["verify"] IN
     /\ shown.id = review.server.id
     /\ \A f \in Fields : review.server.text[f] \in {shown.text[f], Other} \cup review.saved
=============================================================================
