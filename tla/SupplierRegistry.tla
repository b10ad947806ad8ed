-------------------------- MODULE SupplierRegistry --------------------------
(***************************************************************************)
(* Suppliers and the copies of their name and INN that every invoice       *)
(* carries: crud/suppliers.py, routers/suppliers.py and the two writers of *)
(* invoices that link them (persist_parse_result, update_invoice).         *)
(*                                                                         *)
(* Each client runs one transaction of one handler at a time, at the       *)
(* isolation PostgreSQL gives by default: a statement sees what was        *)
(* committed when it starts and what its own transaction wrote.  A write   *)
(* locks its row until the end of the transaction, a new reference locks   *)
(* the key of the supplier it names, and a statement that meets such a     *)
(* lock waits and then looks at the newest version of the row.  The object *)
(* mapper is configured without autoflush: changed attributes are written  *)
(* by the flush of the commit, and only those that changed.                *)
(*                                                                         *)
(* Variable bounds, chosen at the start, limits what a behaviour may do,   *)
(* so that one check covers several small instances.                       *)
(***************************************************************************)
EXTENDS Naturals, FiniteSets

CONSTANTS
  Clients,      \* transactions that may be open at a time
  Suppliers,    \* identities of supplier rows, never reused
  Invoices,     \* identities of invoice rows, never reused
  Names, Inns,
  Bounds,       \* bounds of the instances, see BoundT
  None,         \* NULL
  Gone,         \* no such row
  Same          \* a row this transaction has not written

AllKinds == {"create", "parse", "edit", "clear", "rename", "merge", "delete"}

\* open: transactions at a time; kinds: what they do; suppliers, invoices, inns:
\* how many rows are made and the INNs they get; innEdits: whether a rename may
\* change the INN as well.
BoundT == [open : 1..Cardinality(Clients), kinds : SUBSET AllKinds, inns : SUBSET Inns,
           suppliers : 0..Cardinality(Suppliers), invoices : 0..Cardinality(Invoices),
           innEdits : BOOLEAN]

RowT == [name : Names, inn : Inns \cup {None}]
InvoiceT == [sup : Suppliers \cup {None}, name : Names \cup {None}, inn : Inns \cup {None}]

ASSUME ConstantsAssumption ==
  /\ IsFiniteSet(Clients)
  /\ Bounds \subseteq BoundT
  /\ None \notin Suppliers \cup Names \cup Inns
  /\ Gone \notin RowT \cup InvoiceT
  /\ Same \notin RowT \cup InvoiceT \cup {Gone}

VARIABLES
  supplier,     \* table suppliers as committed
  invoice,      \* table invoices as committed: the link and the copies
  used,         \* ids the sequence of suppliers has handed out
  wSup, wInv,   \* what each open transaction has written
  tx,           \* the handler of each client
  bounds        \* of this behaviour

vars == <<supplier, invoice, used, wSup, wInv, tx, bounds>>

\* src: the supplier found, renamed or deleted; dst: the target of a merge;
\* seen: its row when it was loaded; old: the invoice when it was loaded;
\* rows: what the snapshot of the latest statement selected.
Idle == [kind |-> "none", pc |-> "idle", src |-> None, dst |-> None, inv |-> None,
         want |-> None, seen |-> None, old |-> None, rows |-> {}]
NoWrites(S) == [x \in S |-> Same]

Init ==
  /\ supplier = [s \in Suppliers |-> Gone]
  /\ invoice = [i \in Invoices |-> Gone]
  /\ used = {}
  /\ wSup = [c \in Clients |-> NoWrites(Suppliers)]
  /\ wInv = [c \in Clients |-> NoWrites(Invoices)]
  /\ tx = [c \in Clients |-> Idle]
  /\ bounds \in Bounds

-----------------------------------------------------------------------------
(* What a transaction sees, what it has locked, what it waits for.          *)

SupOf(c, s) == IF wSup[c][s] = Same THEN supplier[s] ELSE wSup[c][s]
InvOf(c, i) == IF wInv[c][i] = Same THEN invoice[i] ELSE wInv[c][i]

\* suppliers.inn is unique, suppliers.name is unique among those without INN.
Key(row) == IF row.inn = None THEN <<"name", row.name>> ELSE <<"inn", row.inn>>

\* A deletion and a change of the INN conflict with references, a change of
\* the name does not.
KeyLocked(c, s) ==
  /\ wSup[c][s] # Same
  /\ wSup[c][s] = Gone \/ supplier[s] = Gone \/ wSup[c][s].inn # supplier[s].inn

Refers(c, s) ==
  \E i \in Invoices : /\ wInv[c][i] # Same /\ wInv[c][i].sup = s
                      /\ invoice[i] = Gone \/ invoice[i].sup # s

MayRefer(c, s)    == \A o \in Clients \ {c} : ~KeyLocked(o, s)
MayWrite(c, s)    == \A o \in Clients \ {c} : wSup[o][s] = Same
MayWriteKey(c, s) == MayWrite(c, s) /\ \A o \in Clients \ {c} : ~Refers(o, s)
MayTouch(c, S)    == \A o \in Clients \ {c}, i \in S : wInv[o][i] = Same

\* The index waits for a transaction that is adding or removing this key.
KeyBusy(c, row) ==
  \E o \in Clients \ {c}, s \in Suppliers :
    /\ wSup[o][s] # Same
    /\ Key(row) \in {Key(r) : r \in {wSup[o][s], supplier[s]} \ {Gone}}

Holders(c, row) == {s \in Suppliers : SupOf(c, s) # Gone /\ Key(SupOf(c, s)) = Key(row)}

LinkedTo(c, s) == {i \in Invoices : InvOf(c, i) # Gone /\ InvOf(c, i).sup = s}

-----------------------------------------------------------------------------
(* The steps transactions have in common.                                   *)

Goto(c, pc) == tx' = [tx EXCEPT ![c].pc = pc]

\* The transaction is over and its writes are dropped: an IntegrityError, a
\* StaleDataError, a lost connection, a deadlock, an answer without a commit.
Rollback(c) ==
  /\ tx' = [tx EXCEPT ![c] = Idle]
  /\ wSup' = [wSup EXCEPT ![c] = NoWrites(Suppliers)]
  /\ wInv' = [wInv EXCEPT ![c] = NoWrites(Invoices)]
  /\ UNCHANGED <<supplier, invoice, used, bounds>>

\* The writes so far and those of the flush are committed together.
CommitWith(c, sup, inv) ==
  /\ supplier' = [s \in Suppliers |-> IF s \in DOMAIN sup THEN sup[s] ELSE SupOf(c, s)]
  /\ invoice' = [i \in Invoices |-> IF i \in DOMAIN inv THEN inv[i] ELSE InvOf(c, i)]
  /\ tx' = [tx EXCEPT ![c] = Idle]
  /\ wSup' = [wSup EXCEPT ![c] = NoWrites(Suppliers)]
  /\ wInv' = [wInv EXCEPT ![c] = NoWrites(Invoices)]
  /\ UNCHANGED <<used, bounds>>

Nothing == [x \in {} |-> Same]

Start(c, kind, r) ==
  /\ tx[c] = Idle
  /\ kind \in bounds.kinds
  /\ Cardinality({o \in Clients : tx[o] # Idle}) < bounds.open
  /\ r.want # None => r.want.inn \in bounds.inns \cup {None}
  /\ tx' = [tx EXCEPT ![c] = [r EXCEPT !.kind = kind]]
  /\ UNCHANGED <<supplier, invoice, used, wSup, wInv, bounds>>

At(c, pc, kinds) == tx[c].pc = pc /\ tx[c].kind \in kinds

Linking == {"create", "parse", "edit"}

-----------------------------------------------------------------------------
(* The handlers begin.                                                      *)

\* POST /suppliers.
StartCreate(c, want) == Start(c, "create", [Idle EXCEPT !.pc = "look", !.want = want])

\* Phase B, or create_invoice, links a new invoice.  Phase B runs on the event
\* loop: one at a time.
StartParse(c, want, i) ==
  /\ invoice[i] = Gone /\ \A o \in Clients : tx[o].kind # "parse"
  /\ Cardinality({j \in Invoices : invoice[j] # Gone}) < bounds.invoices
  /\ Start(c, "parse", [Idle EXCEPT !.pc = "look", !.want = want, !.inv = i])

\* update_invoice holds the lock of the document: nobody else edits invoice i.
Editable(i) == invoice[i] # Gone /\ \A o \in Clients : tx[o].kind \in {"edit", "clear"} => tx[o].inv # i

StartEdit(c, want, i) ==
  /\ Editable(i)
  /\ Start(c, "edit", [Idle EXCEPT !.pc = "look", !.want = want, !.inv = i, !.old = invoice[i]])

\* The supplier is taken off the invoice.
StartClear(c, i) ==
  /\ Editable(i)
  /\ Start(c, "clear", [Idle EXCEPT !.pc = "flush", !.inv = i, !.old = invoice[i]])

StartRename(c, s, want) ==
  /\ supplier[s] # Gone
  /\ bounds.innEdits \/ want.inn = supplier[s].inn
  /\ Start(c, "rename", [Idle EXCEPT !.pc = "scan", !.src = s, !.want = want, !.seen = supplier[s]])

StartMerge(c, s, d) ==
  /\ s # d /\ supplier[s] # Gone /\ supplier[d] # Gone
  /\ Start(c, "merge", [Idle EXCEPT !.pc = "scan", !.src = s, !.dst = d, !.seen = supplier[d]])

\* Bug: the route deletes without counting.
StartDelete_Uncounted(c, s) ==
  /\ supplier[s] # Gone
  /\ Start(c, "delete", [Idle EXCEPT !.pc = "children", !.src = s, !.seen = supplier[s]])

\* The route counts linked invoices and refuses when there are any.
StartDelete(c, s) ==
  /\ supplier[s] # Gone /\ LinkedTo(c, s) = {}
  /\ Start(c, "delete", [Idle EXCEPT !.pc = "children", !.src = s, !.seen = supplier[s]])

-----------------------------------------------------------------------------
(* get_or_create_supplier.                                                  *)

AfterFound(c) ==
  IF tx[c].kind = "edit" THEN "scan" ELSE IF tx[c].kind = "parse" THEN "link" ELSE "flush"

Find(c, missing) ==
  /\ IF Holders(c, tx[c].want) = {}
       THEN Goto(c, missing)
       ELSE \E s \in Holders(c, tx[c].want) :
              tx' = [tx EXCEPT ![c].pc = AfterFound(c), ![c].src = s, ![c].seen = SupOf(c, s)]
  /\ UNCHANGED <<supplier, invoice, used, wSup, wInv, bounds>>

Look(c)   == At(c, "look", Linking) /\ Find(c, "insert")
Relook(c) == At(c, "relook", Linking) /\ Find(c, "lost")

Unused == IF Cardinality(used) < bounds.suppliers THEN Suppliers \ used ELSE {}

\* Bug: the INSERT relies on the SELECT before it.
Insert_Blind(c) ==
  /\ At(c, "insert", Linking)
  /\ \E s \in Unused :
       /\ used' = used \cup {s}
       /\ wSup' = [wSup EXCEPT ![c][s] = tx[c].want]
  /\ Goto(c, "relook")
  /\ UNCHANGED <<supplier, invoice, wInv, bounds>>

\* INSERT ... ON CONFLICT DO NOTHING.
Insert(c) ==
  /\ At(c, "insert", Linking)
  /\ ~KeyBusy(c, tx[c].want)
  /\ IF Holders(c, tx[c].want) # {}
       THEN UNCHANGED <<used, wSup>>
       ELSE \E s \in Unused :
              /\ used' = used \cup {s}
              /\ wSup' = [wSup EXCEPT ![c][s] = tx[c].want]
  /\ Goto(c, "relook")
  /\ UNCHANGED <<supplier, invoice, wInv, bounds>>

\* RuntimeError: neither found nor inserted.
Lost(c) == At(c, "lost", Linking) /\ Rollback(c)

-----------------------------------------------------------------------------
(* Writers of one invoice.                                                  *)

\* Phase B inserts the invoice with the canonical name and INN.
Link(c) ==
  /\ At(c, "link", {"parse"})
  /\ MayRefer(c, tx[c].src)
  /\ IF SupOf(c, tx[c].src) = Gone
       THEN Rollback(c)
       ELSE /\ wInv' = [wInv EXCEPT ![c][tx[c].inv] =
                          [sup |-> tx[c].src, name |-> tx[c].seen.name, inn |-> tx[c].seen.inn]]
            /\ Goto(c, "flush")
            /\ UNCHANGED <<supplier, invoice, used, wSup, bounds>>

CommitLinked(c) == At(c, "flush", {"create", "parse"}) /\ CommitWith(c, Nothing, Nothing)

\* Attributes that were assigned and differ from what was loaded.
Changed(now, loaded, assigned) ==
  [f \in DOMAIN now |-> IF assigned[f] = loaded[f] THEN now[f] ELSE assigned[f]]

\* The name the edit has given to the supplier it found.
Canonical(c) == [tx[c].seen EXCEPT !.name = tx[c].want.name]

\* What update_invoice assigns to the invoice.
Linked(c) == [sup |-> tx[c].src, name |-> Canonical(c).name, inn |-> Canonical(c).inn]

\* The flush of update_invoice: first the supplier when it was renamed, then
\* the invoice.
CommitEdit(c) ==
  /\ At(c, "flush", {"edit"})
  /\ LET s == tx[c].src
         i == tx[c].inv
         renamed == Canonical(c) # tx[c].seen
         row == IF SupOf(c, s) = Gone THEN Gone ELSE Changed(SupOf(c, s), tx[c].seen, Canonical(c)) IN
     /\ MayTouch(c, {i})
     /\ renamed => MayWrite(c, s) /\ (row # Gone => ~KeyBusy(c, row))
     /\ tx[c].old.sup # s => MayRefer(c, s)
     /\ IF \/ row = Gone /\ (renamed \/ tx[c].old.sup # s)
           \/ renamed /\ row # Gone /\ Holders(c, row) \ {s} # {}
          THEN Rollback(c)
          ELSE CommitWith(c, IF renamed THEN [x \in {s} |-> row] ELSE Nothing,
                             [x \in {i} |-> Changed(InvOf(c, i), tx[c].old, Linked(c))])

CommitClear(c) ==
  /\ At(c, "flush", {"clear"})
  /\ LET i == tx[c].inv
         cleared == [sup |-> None, name |-> None, inn |-> None] IN
     /\ MayTouch(c, {i})
     /\ CommitWith(c, Nothing, [x \in {i} |-> Changed(InvOf(c, i), tx[c].old, cleared)])

-----------------------------------------------------------------------------
(* Bulk UPDATE of the invoices of a supplier: the rows its snapshot selects *)
(* are locked one by one and the predicate is evaluated again on each.      *)

\* An edit that found the supplier under its own name renames nothing.
Scan(c) ==
  /\ At(c, "scan", {"edit", "rename", "merge"})
  /\ tx' = [tx EXCEPT ![c].rows = LinkedTo(c, tx[c].src),
                      ![c].pc = IF tx[c].kind = "edit" /\ Canonical(c) = tx[c].seen
                                  THEN "flush" ELSE "cascade"]
  /\ UNCHANGED <<supplier, invoice, used, wSup, wInv, bounds>>

\* Bug: a new INN is not passed on to the invoices.
Cascaded_NameOnly(c, inv) ==
  CASE tx[c].kind \in {"edit", "rename"} -> [inv EXCEPT !.name = tx[c].want.name]
    [] tx[c].kind = "merge" -> [sup |-> tx[c].dst, name |-> tx[c].seen.name, inn |-> tx[c].seen.inn]

\* What the bulk UPDATE sets.
Cascaded(c, inv) ==
  CASE tx[c].kind = "edit"   -> [inv EXCEPT !.name = tx[c].want.name]
    [] tx[c].kind = "rename" -> [inv EXCEPT !.name = tx[c].want.name, !.inn = tx[c].want.inn]
    [] tx[c].kind = "merge"  -> [sup |-> tx[c].dst, name |-> tx[c].seen.name, inn |-> tx[c].seen.inn]

Cascade(c) ==
  /\ At(c, "cascade", {"edit", "rename", "merge"})
  /\ MayTouch(c, tx[c].rows)
  /\ LET rows == {i \in tx[c].rows : InvOf(c, i).sup = tx[c].src} IN
     IF tx[c].kind = "merge" /\ rows # {} /\ supplier[tx[c].dst] = Gone
       THEN MayRefer(c, tx[c].dst) /\ Rollback(c)
       ELSE /\ tx[c].kind = "merge" /\ rows # {} => MayRefer(c, tx[c].dst)
            /\ wInv' = [wInv EXCEPT ![c] = [i \in Invoices |-> IF i \in rows THEN Cascaded(c, InvOf(c, i)) ELSE @[i]]]
            /\ tx' = [tx EXCEPT ![c].pc = IF tx[c].kind = "merge" THEN "children" ELSE "flush",
                                ![c].rows = {}]
            /\ UNCHANGED <<supplier, invoice, used, wSup, bounds>>

\* The flush of update_supplier.
CommitRename(c) ==
  /\ At(c, "flush", {"rename"})
  /\ LET s == tx[c].src
         row == IF supplier[s] = Gone THEN Gone ELSE Changed(supplier[s], tx[c].seen, tx[c].want) IN
     IF tx[c].want = tx[c].seen THEN CommitWith(c, Nothing, Nothing)
     ELSE /\ MayWrite(c, s)
          /\ tx[c].want.inn # tx[c].seen.inn => MayWriteKey(c, s)
          /\ row # Gone => ~KeyBusy(c, row)
          /\ IF row = Gone \/ Holders(c, row) \ {s} # {}
               THEN Rollback(c)
               ELSE CommitWith(c, [x \in {s} |-> row], Nothing)

-----------------------------------------------------------------------------
(* Deletion of a supplier through the object mapper, alone or at the end of *)
(* a merge: the relationship Supplier.invoices is loaded, each invoice in   *)
(* it loses its supplier_id, then the row goes.                             *)

Children(c) ==
  /\ At(c, "children", {"merge", "delete"})
  /\ tx' = [tx EXCEPT ![c].rows = LinkedTo(c, tx[c].src), ![c].pc = "flush"]
  /\ UNCHANGED <<supplier, invoice, used, wSup, wInv, bounds>>

\* Invoices that were linked since the relationship was loaded stop it.
CommitDeletion(c) ==
  /\ At(c, "flush", {"merge", "delete"})
  /\ LET s == tx[c].src IN
     /\ MayTouch(c, tx[c].rows)
     /\ MayWriteKey(c, s)
     /\ IF LinkedTo(c, s) \subseteq tx[c].rows
          THEN CommitWith(c, [x \in {s} |-> Gone],
                             [i \in tx[c].rows |-> [InvOf(c, i) EXCEPT !.sup = None]])
          ELSE Rollback(c)

\* The connection is lost, the server breaks a deadlock, the process dies.
Abort(c) == tx[c] # Idle /\ Rollback(c)

-----------------------------------------------------------------------------
Begin(c) ==
  \/ \E want \in RowT :
       \/ StartCreate(c, want)
       \/ \E i \in Invoices : StartParse(c, want, i) \/ StartEdit(c, want, i)
       \/ \E s \in Suppliers : StartRename(c, s, want)
  \/ \E i \in Invoices : StartClear(c, i)
  \/ \E s \in Suppliers : StartDelete(c, s) \/ \E d \in Suppliers : StartMerge(c, s, d)

Step(c) ==
  \/ Look(c) \/ Insert(c) \/ Relook(c) \/ Lost(c)
  \/ Link(c) \/ CommitLinked(c) \/ CommitEdit(c) \/ CommitClear(c)
  \/ Scan(c) \/ Cascade(c) \/ CommitRename(c)
  \/ Children(c) \/ CommitDeletion(c)
  \/ Abort(c)

Next == \E c \in Clients : Begin(c) \/ Step(c)

Spec == Init /\ [][Next]_vars

-----------------------------------------------------------------------------
(* Properties.                                                              *)

\* One transaction at a time keeps the copies of name and INN in an invoice equal
\* to those of its supplier (update_supplier, the rename in update_invoice,
\* merge_suppliers), through any sequence of links, renames, merges, deletions and
\* lost connections.  Concurrent ones may leave an old name in an invoice, but unless
\* suppliers are merged or get another INN none leaves the INN of another supplier.
Coherent ==
  \A i \in Invoices : invoice[i] # Gone /\ invoice[i].sup # None =>
    LET s == supplier[invoice[i].sup] IN
    /\ bounds.open = 1 => s # Gone /\ invoice[i].name = s.name /\ invoice[i].inn = s.inn
    /\ "merge" \notin bounds.kinds /\ ~bounds.innEdits => s # Gone /\ invoice[i].inn = s.inn

\* Clients racing for one INN, or one name without INN, end up with one supplier,
\* and none of them fails unless a supplier is renamed or deleted under its hands
\* (get_or_create_supplier).
RaceSafe ==
  /\ bounds.kinds \subseteq Linking \cup {"clear"} => \A c \in Clients : tx[c].pc # "lost"
  /\ \A s, t \in Suppliers :
       s # t /\ supplier[s] # Gone /\ supplier[t] # Gone => Key(supplier[s]) # Key(supplier[t])

\* One transaction at a time takes the supplier off an invoice only when an edit
\* says so: a merge moves invoices, a deletion is refused while there are any
\* (routers/suppliers.py).
KeepsSupplier ==
  [][bounds.open = 1 =>
       \A i \in Invoices :
         invoice[i] # Gone /\ invoice[i].sup # None /\ invoice'[i].sup = None
           => \E c \in Clients : tx[c].kind = "clear" /\ tx[c].inv = i /\ tx'[c] = Idle]_vars
=============================================================================
