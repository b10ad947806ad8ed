------------------------------ MODULE Dialogs ------------------------------
(***************************************************************************)
(* The forms and dialogs that create, edit and delete one row: a record    *)
(* per dialog says how its component treats the text of the form, its      *)
(* buttons and the answers; one machine runs whichever dialog it is.       *)
(* A text is the row it was opened or typed for and the number of the      *)
(* keystroke, 0 what the row held.                                         *)
(***************************************************************************)
EXTENDS Naturals, Sequences, SequencesExt

CONSTANTS
  MaxClicks,  \* bound: steps of the user
  None, Sent

VARIABLE form
\* .dialog   which dialog this is
\* .row      the row it is open for, None when it is closed
\* .text     the fields
\* .step     "form", or "merge" after the answer that another supplier has the INN
\* .mount    which instance of the component it is
\* .asks     the requests: kind, row, text, instance and outcome
\* .rows, .stored  the rows the server has and what each holds
\* .made     history: the texts of the rows created, in order
\* .taken, .during  history: texts the server has taken, texts typed while an answer was due
\* .lost     history: a request was carried out and its answer lost
\* .typed, .clicks  counters of the bounds

Closed == [row |-> "elsewhere"]
Rows == {1, 2}
New == 0  \* a row to be

-----------------------------------------------------------------------------
(* The dialogs.                                                             *)

\* .on       the rows it opens for        .copies    opening fills in what the row holds
\* .clears   a success empties the form   .closes    what closes it: click, success or answer
\* .guarded  the button waits for the answer    .mounts    every opening is a new component
\* .blocks   it cannot be closed while an answer is due   .does  what it asks for
\* .fresh    it opens only for rows nothing was stored in
Create == [does |-> "create", on |-> {New}, copies |-> FALSE, clears |-> TRUE, closes |-> "success",
           guarded |-> TRUE, mounts |-> FALSE, blocks |-> FALSE, fresh |-> FALSE]
Edit == [Create EXCEPT !.does = "update", !.on = Rows, !.copies = TRUE, !.clears = FALSE]
Delete == [Edit EXCEPT !.does = "delete"]

PriceAdd == Create
\* Bug: the form of a base price is opened without its values.
PriceEdit_Blank == [Edit EXCEPT !.copies = FALSE]
PriceEdit == Edit
PriceDelete == [Delete EXCEPT !.closes = "answer"]
\* Bug: the button does not wait.
ProjectCreate_Eager == [Create EXCEPT !.guarded = FALSE]
ProjectCreate == Create
ProjectEdit == [Edit EXCEPT !.on = {1}]
ProjectDelete == [Delete EXCEPT !.on = {1}]
MaterialCreate == Create
MaterialDelete == [Delete EXCEPT !.closes = "click", !.guarded = FALSE]
\* The rows of the corridors are edited in place, one at a time.
CorridorClass == [Edit EXCEPT !.closes = "click", !.guarded = FALSE]
CorridorType == [CorridorClass EXCEPT !.fresh = TRUE]
CorridorRemove == MaterialDelete
OrgEdit == [Edit EXCEPT !.on = {1}, !.mounts = TRUE]
UserCreate == [Create EXCEPT !.mounts = TRUE]
Role == CorridorClass
Deactivate == MaterialDelete
LinkProject == [Create EXCEPT !.closes = "never"]
Unlink == MaterialDelete
ErrorDelete == [Delete EXCEPT !.closes = "answer"]
\* Bug: any refusal closes the dialog.
SupplierEdit_Hasty == [Edit EXCEPT !.on = {1}, !.mounts = TRUE, !.blocks = TRUE, !.closes = "answer"]
SupplierEdit == [Edit EXCEPT !.on = {1}, !.mounts = TRUE, !.blocks = TRUE]

Behaviour ==
  [price_add |-> PriceAdd, price_edit |-> PriceEdit, price_delete |-> PriceDelete,
   project_create |-> ProjectCreate, project_edit |-> ProjectEdit, project_delete |-> ProjectDelete,
   material_create |-> MaterialCreate, material_delete |-> MaterialDelete,
   corridor_type |-> CorridorType, corridor_class |-> CorridorClass, corridor_remove |-> CorridorRemove,
   org_edit |-> OrgEdit, user_create |-> UserCreate, role |-> Role, deactivate |-> Deactivate,
   link_project |-> LinkProject, error_delete |-> ErrorDelete, unlink |-> Unlink, supplier_edit |-> SupplierEdit]

\* Dialogs that behave alike are followed by one of them.
Kinds == {CHOOSE e \in DOMAIN Behaviour : Behaviour[e] = Behaviour[d] : d \in DOMAIN Behaviour}

B == Behaviour[form.dialog]

-----------------------------------------------------------------------------
Blank(r) == [row |-> r, no |-> 0]

Open ==
  \E d \in Kinds :
    form' = [dialog |-> d, row |-> None, text |-> Blank(New), step |-> "form", mount |-> 1, asks |-> <<>>,
             rows |-> Rows, stored |-> [r \in Rows |-> Blank(r)], made |-> <<>>, taken |-> {}, during |-> {}, lost |-> FALSE,
             typed |-> 0, clicks |-> 0]

\* The hook of this instance knows whether its last request is answered.
IsPending ==
  form.asks # <<>> /\ Last(form.asks).mount = form.mount /\ Last(form.asks).outcome # "answered"

Click(state) == form.clicks < MaxClicks /\ form' = [state EXCEPT !.clicks = @ + 1]

OpenFor(r) ==
  /\ form.row = None /\ r \in B.on /\ (r \in Rows => r \in form.rows)
  /\ B.fresh => form.stored[r].no = 0
  /\ Click([form EXCEPT !.row = r, !.step = "form",
              !.mount = IF B.mounts THEN @ + 1 ELSE @,
              !.text = CASE B.copies -> form.stored[r]
                         [] ~B.copies /\ B.mounts -> Blank(r)
                         [] OTHER -> @])

\* Nothing keeps the user from typing while an answer is due.
Type ==
  /\ form.row # None /\ form.step = "form" /\ B.does # "delete"
  /\ Click([form EXCEPT !.typed = @ + 1, !.text.row = IF B.copies \/ B.mounts THEN form.row ELSE @,
              !.text.no = form.typed + 1,
              !.during = IF IsPending THEN @ \cup {form.typed + 1} ELSE @])

Close == form.row # None /\ ~(B.blocks /\ IsPending) /\ Click([form EXCEPT !.row = None, !.step = "form"])

Asked(does) ==
  [form EXCEPT !.asks = Append(@, [does |-> does, row |-> form.row, text |-> form.text,
                                   mount |-> form.mount, outcome |-> Sent]),
               !.row = IF B.closes = "click" THEN None ELSE @]
MayAsk == form.row # None /\ ~(B.guarded /\ IsPending)

Submit == MayAsk /\ form.step = "form" /\ (B.does = "create" => form.text.no # 0) /\ Click(Asked(B.does))
Merge == MayAsk /\ form.step = "merge" /\ Click(Asked("merge"))
BackToForm == form.step = "merge" /\ ~IsPending /\ Click([form EXCEPT !.step = "form"])

-----------------------------------------------------------------------------
(* The server.                                                              *)

Carried(a) ==
  CASE a.does = "create" -> [form EXCEPT !.made = Append(@, a.text), !.taken = @ \cup {a.text.no}]
    [] a.does = "update" -> [form EXCEPT !.stored[a.row] = a.text, !.taken = @ \cup {a.text.no}]
    [] a.does \in {"delete", "merge"} -> [form EXCEPT !.rows = @ \ {a.row}, !.taken = @ \cup {a.text.no}]

Serve(i) ==
  LET a == form.asks[i] IN
  /\ a.outcome = Sent
  /\ \/ /\ a.row \in Rows => a.row \in form.rows
        /\ \/ form' = [Carried(a) EXCEPT !.asks[i].outcome = "ok"]
           \/ form' = [Carried(a) EXCEPT !.asks[i].outcome = "refused", !.lost = TRUE]
     \/ form' = [form EXCEPT !.asks[i].outcome = "refused"]
     \/ form.dialog = "supplier_edit" /\ a.does = "update" /\ form' = [form EXCEPT !.asks[i].outcome = "conflict"]

\* What the component does with the answer of its last request.
Settled(i) == [form EXCEPT !.asks[i].outcome = "answered"]
Answer(i) ==
  LET a == form.asks[i]
      mine == a.mount = form.mount /\ i = Len(form.asks)
  IN /\ a.outcome \in {"ok", "refused", "conflict"}
     /\ \/ ~mine /\ form' = Settled(i)
        \/ mine /\ a.outcome = "ok" /\ form' = [Settled(i) EXCEPT
             !.row = IF B.closes \in {"success", "answer"} THEN None ELSE @,
             !.text = IF B.clears THEN Blank(New) ELSE @]
        \/ mine /\ a.outcome = "refused" /\ form' = [Settled(i) EXCEPT
             !.row = IF B.closes = "answer" THEN None ELSE @,
             !.step = "form"]
        \/ mine /\ a.outcome = "conflict" /\ form' = [Settled(i) EXCEPT !.step = "merge"]

Step ==
  /\ form # Closed
  /\ \/ \E r \in Rows \cup {New} : OpenFor(r)
     \/ Type \/ Close \/ Submit \/ Merge \/ BackToForm
     \/ \E i \in DOMAIN form.asks : Serve(i) \/ Answer(i)

-----------------------------------------------------------------------------
(* Properties.                                                              *)

\* What is typed once is created once, unless an answer was lost: neither a second
\* click, nor closing and opening the form again, sends it twice.
CreatedOnce ==
  (form # Closed /\ ~form.lost) =>
    \A i, j \in DOMAIN form.made : i # j => form.made[i] # form.made[j]

\* A row never takes what was shown or typed for another one, whichever rows were
\* opened, closed and saved before.
StoredInRow ==
  form # Closed => \A r \in form.rows : form.stored[r].row = r

\* Neither an answer nor a button that sends the form takes away a text the server has
\* not taken, but for what was typed while that answer was due.  The user may type over
\* it, and close or reopen the dialog.  The dialogs that close on the click itself (the
\* corridors, the role of a user) are exempt in that click: a request that is refused
\* afterwards has lost the text.
TextKept ==
  (form # Closed /\ B.does # "delete"
     /\ (form'.clicks = form.clicks \/ (form'.asks # form.asks /\ B.closes # "click"))
     /\ (form'.text # form.text \/ (form.row # None /\ form'.row = None)))
  => form.text.no \in form.taken \cup form.during \cup {0}
=============================================================================
