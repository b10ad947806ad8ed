---------------------------- MODULE InvoiceList ----------------------------
(***************************************************************************)
(* The table of a project's invoices (components/invoices/InvoiceTable):   *)
(* filters, sorting, pages and a selection over rows that are fetched anew *)
(* meanwhile, and the deletion of one row or of the selected ones.         *)
(* A row is an invoice with its stage; invoices 1 and 2 are of one         *)
(* document, 3 of another and of no direction, and 4 is the one a new      *)
(* parse of the first document finds.                                      *)
(***************************************************************************)
EXTENDS Naturals, FiniteSets

CONSTANTS
  MaxClicks,   \* bound: steps of the user
  MaxForeign,  \* bound: changes by others and by processing
  None, Sent

VARIABLE list
\* .server, .busy   the stage of every invoice ("none" before it is parsed, "gone" when deleted
\*                  or replaced) and the documents processed
\* .rows, .busyIds  the cached rows and the cached busy documents
\* .fetch           the fetch of the rows
\* .stages, .onlyOther, .page, .size, .dir, .ids  filters, page, page size, sorting, selectedIds
\* .pending         pendingDelete, the row the dialog of deletion names
\* .bulkOpen        bulkDeleteOpen
\* .one, .bulk      the deletions under way: invoices and outcome
\* .marked          history: the rows whose boxes the user has ticked and not emptied again
\* .agreed          history: those of them that passed the filters when the bulk deletion was confirmed
\* .clicks, .foreign  counters of the bounds

Ids == 1..4
Missing == {"none", "gone"}
Doc(id) == IF id = 3 THEN "b" ELSE "a"
Stages == {"confirmed", "review", "pending"}
Closed == [page |-> "other"]

InvoicesProp == {id \in Ids : list.rows[id] \notin Missing /\ (list.onlyOther => id = 3)}
Filtered == {id \in InvoicesProp : list.stages = {} \/ list.rows[id] \in list.stages}

\* Bug: rows the filter hides stay selected.
EffectiveSelectedIds_All == list.ids
EffectiveSelectedIds == list.ids \cap Filtered

\* How many rows come before it in the order of the table.
Sorted(id) == Cardinality({other \in Filtered : IF list.dir = "asc" THEN other < id ELSE other > id})
TotalPages ==
  LET n == (Cardinality(Filtered) + list.size - 1) \div list.size IN IF n = 0 THEN 1 ELSE n

\* Bug: the page is taken as it was left.
ClampedPage_Raw == list.page
ClampedPage == IF list.page > TotalPages THEN TotalPages ELSE list.page
Paged == {id \in Filtered : Sorted(id) \div list.size + 1 = ClampedPage}
AllSelected == Filtered # {} /\ Filtered \subseteq EffectiveSelectedIds
AnySelectedBusy == \E id \in EffectiveSelectedIds : Doc(id) \in list.busyIds

Open ==
  \E first \in Stages, second \in {"review", "pending"}, busy \in {{}, {"a"}} :
   LET server == <<first, second, "pending", "none">> IN
    /\ busy # {} => first # "confirmed"
    /\ list' = [page |-> 1, server |-> server, busy |-> busy, rows |-> server, busyIds |-> busy, fetch |-> None,
             stages |-> {}, onlyOther |-> FALSE, size |-> 2, dir |-> "desc", ids |-> {},
             pending |-> None, bulkOpen |-> FALSE, one |-> None, bulk |-> None,
             marked |-> {}, agreed |-> {},
             clicks |-> 0, foreign |-> 0]

-----------------------------------------------------------------------------
(* The user; an open dialog covers the table.                               *)

Click(state) == list.clicks < MaxClicks /\ list' = [state EXCEPT !.clicks = @ + 1]
NoDialog == list.pending = None /\ ~list.bulkOpen

ToggleStage ==
  NoDialog /\ \E s \in Stages :
    Click([list EXCEPT !.stages = IF s \in @ THEN @ \ {s} ELSE @ \cup {s}, !.page = 1])
ToggleOther == NoDialog /\ Click([list EXCEPT !.onlyOther = ~@])
SetSort == NoDialog /\ Click([list EXCEPT !.dir = IF @ = "asc" THEN "desc" ELSE "asc", !.page = 1])
SetPageSize == NoDialog /\ Click([list EXCEPT !.size = 3 - @, !.page = 1])
SetPage ==
  NoDialog /\ Filtered # {} /\ \E p \in {ClampedPage - 1, ClampedPage + 1} :
    p \in 1..TotalPages /\ Click([list EXCEPT !.page = p])

\* The boxes show EffectiveSelectedIds; the one of the head ticks the rows of all pages.
ToggleSelectAll ==
  NoDialog /\ Click([list EXCEPT
    !.ids = IF AllSelected THEN {} ELSE Filtered,
    !.marked = IF AllSelected THEN @ \ Filtered ELSE @ \cup Filtered])
ToggleRow ==
  NoDialog /\ \E id \in Paged :
    Click([list EXCEPT
      !.ids = (IF id \in @ THEN @ \ {id} ELSE @ \cup {id}) \cap Filtered,
      !.marked = IF id \in EffectiveSelectedIds THEN @ \ {id} ELSE @ \cup {id}])
ClearSelection ==
  NoDialog /\ EffectiveSelectedIds # {} /\ Click([list EXCEPT !.ids = {}, !.marked = {}])

AskDelete ==
  NoDialog /\ \E id \in Paged :
    /\ list.rows[id] # "confirmed" /\ Doc(id) \notin list.busyIds
    /\ Click([list EXCEPT !.pending = id])
ConfirmDelete ==
  /\ list.pending # None /\ list.one = None
  /\ Click([list EXCEPT !.one = [ids |-> {list.pending}, outcome |-> Sent]])

AskBulk == NoDialog /\ EffectiveSelectedIds # {} /\ ~AnySelectedBusy /\ Click([list EXCEPT !.bulkOpen = TRUE])
\* Bug: every row the filters let through is sent.
ConfirmBulk_Allowed ==
  /\ list.bulkOpen /\ list.bulk = None /\ ~AnySelectedBusy
  /\ Click([list EXCEPT !.bulk = [ids |-> Filtered, outcome |-> Sent], !.agreed = list.marked \cap Filtered])
ConfirmBulk ==
  /\ list.bulkOpen /\ list.bulk = None /\ ~AnySelectedBusy
  /\ Click([list EXCEPT !.bulk = [ids |-> EffectiveSelectedIds, outcome |-> Sent],
             !.agreed = list.marked \cap Filtered])
Cancel == ~NoDialog /\ Click([list EXCEPT !.pending = None, !.bulkOpen = FALSE])

-----------------------------------------------------------------------------
(* The server.                                                              *)

Deletable(id) == list.server[id] \in {"review", "pending"}

Without(ids, ok) == [id \in Ids |-> IF ok /\ id \in ids /\ Deletable(id) THEN "gone" ELSE list.server[id]]

ServeDelete ==
  /\ list.one # None /\ list.one.outcome = Sent
  /\ LET ok == \A id \in list.one.ids : Deletable(id) /\ Doc(id) \notin list.busy
     IN list' = [list EXCEPT
          !.server = Without(list.one.ids, ok),
          !.one.outcome = IF ok THEN "ok" ELSE "refused"]

\* All or nothing when a document is processed; confirmed ones are left out.
ServeBulk ==
  /\ list.bulk # None /\ list.bulk.outcome = Sent
  /\ LET ok == \A id \in list.bulk.ids : list.server[id] \notin Missing => Doc(id) \notin list.busy
     IN list' = [list EXCEPT
          !.server = Without(list.bulk.ids, ok),
          !.bulk.outcome = IF ok THEN "ok" ELSE "refused"]

\* The invoices after a parse of document d; ids do not come back.
Reparsed(d) ==
  [id \in Ids |-> CASE Doc(id) # d -> list.server[id]
                    [] Doc(id) = d /\ list.server[id] = "none" -> "pending"
                    [] OTHER -> "gone"]

\* Another user has a document parsed anew, deletes an invoice, confirms it or takes that
\* back; processing ends, with new invoices or with the ones there were.
ForeignChanges ==
  {[list EXCEPT !.busy = @ \cup {d}] :
     d \in {e \in {"a", "b"} \ list.busy : \A id \in Ids : Doc(id) = e => list.server[id] # "confirmed"}}
  \cup {[list EXCEPT !.busy = @ \ {d}] : d \in list.busy}
  \cup {[list EXCEPT !.busy = @ \ {d}, !.server = Reparsed(d)] : d \in list.busy}
  \cup {[list EXCEPT !.server[id] = IF @ = "confirmed" THEN "pending" ELSE "confirmed"] :
          id \in {i \in Ids : list.server[i] \notin Missing /\ Doc(i) \notin list.busy}}
  \cup {[list EXCEPT !.server[id] = "gone"] : id \in {i \in Ids : Deletable(i) /\ Doc(i) \notin list.busy}}
Foreign ==
  list.foreign < MaxForeign /\ \E after \in ForeignChanges : list' = [after EXCEPT !.foreign = @ + 1]

-----------------------------------------------------------------------------
(* Answers; the hooks have the rows and the documents fetched anew.         *)

AnswerDelete ==
  /\ list.one # None
  /\ \/ list.one.outcome = "ok" /\ list' = [list EXCEPT !.one = None, !.pending = None, !.fetch = Sent]
     \/ list.one.outcome = "refused" /\ list' = [list EXCEPT !.one = None]
AnswerBulk ==
  /\ list.bulk # None
  /\ \/ list.bulk.outcome = "ok" /\ list' = [list EXCEPT
          !.bulk = None, !.bulkOpen = FALSE, !.ids = {}, !.marked = {}, !.fetch = Sent]
     \/ list.bulk.outcome = "refused" /\ list' = [list EXCEPT !.bulk = None]

Refetch == list.fetch = None /\ list.rows # list.server /\ list' = [list EXCEPT !.fetch = Sent]
Read == list.fetch = Sent /\ list' = [list EXCEPT !.fetch = list.server]
Land == list.fetch \notin {None, Sent} /\ list' = [list EXCEPT !.rows = list.fetch, !.fetch = None]
PollDocuments == list.busyIds # list.busy /\ list' = [list EXCEPT !.busyIds = list.busy]

Step ==
  /\ list # Closed
  /\ \/ ToggleStage \/ ToggleOther \/ SetSort \/ SetPageSize \/ SetPage
     \/ ToggleSelectAll \/ ToggleRow \/ ClearSelection
     \/ AskDelete \/ ConfirmDelete \/ AskBulk \/ ConfirmBulk \/ Cancel
     \/ ServeDelete \/ ServeBulk \/ Foreign
     \/ AnswerDelete \/ AnswerBulk \/ Refetch \/ Read \/ Land \/ PollDocuments

-----------------------------------------------------------------------------
(* Properties.                                                              *)

\* A bulk deletion removes only rows whose boxes the user had ticked and that passed the
\* filters when it was confirmed, whatever was filtered, fetched anew, paged, deleted or
\* parsed anew by others in between.
DeletesOnlySeen ==
  (list # Closed /\ list.bulk # None /\ list.bulk.outcome = Sent
     /\ list'.bulk # None /\ list'.bulk.outcome # Sent)
  => {id \in Ids : list.server[id] # list'.server[id]} \subseteq list.agreed

\* Deletions and filters never leave the user on a page without rows while others have some.
NoEmptyPage == list # Closed /\ Filtered # {} => Paged # {}
=============================================================================
