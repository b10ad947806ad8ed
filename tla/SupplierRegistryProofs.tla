----------------------- MODULE SupplierRegistryProofs -----------------------
(***************************************************************************)
(* Proofs about SupplierRegistry: one supplier per key (RaceSafe), true    *)
(* copies in the invoices (Coherent), and no invoice that loses its        *)
(* supplier unasked (KeepsSupplier), for any number of clients, suppliers, *)
(* invoices, names and INNs, and any bounds.                               *)
(*                                                                         *)
(* The invariant Inv has five parts.  All rest on Core, FoundAgain on      *)
(* InnsAgree as well.                                                      *)
(*   Core        what each handler has found and written at each point;    *)
(*               no two transactions have written the same row;            *)
(*   KeysApart   the unique indexes: no two rows, committed or pending,    *)
(*               have the same key;                                        *)
(*   InnsAgree   where nobody changes an INN, every link, committed or     *)
(*               pending, names a supplier that is there and has its INN;  *)
(*   FoundAgain  where suppliers are only linked, whoever inserts finds a  *)
(*               row of the key at its second look;                        *)
(*   OneAtATime  where one transaction runs at a time, its invoices        *)
(*               match the rows it is about to leave.                      *)
(***************************************************************************)
EXTENDS SupplierRegistry, TLAPS, FiniteSetTheorems

-----------------------------------------------------------------------------
(* The invariant.                                                           *)

Pcs == {"idle", "look", "insert", "relook", "lost", "link", "scan", "cascade", "children", "flush"}
TxT == [kind : AllKinds \cup {"none"}, pc : Pcs, src : Suppliers \cup {None}, dst : Suppliers \cup {None},
        inv : Invoices \cup {None}, want : RowT \cup {None}, seen : RowT \cup {None},
        old : InvoiceT \cup {None}, rows : SUBSET Invoices]

TypeOK ==
  /\ supplier \in [Suppliers -> RowT \cup {Gone}]
  /\ invoice \in [Invoices -> InvoiceT \cup {Gone}]
  /\ used \subseteq Suppliers
  /\ wSup \in [Clients -> [Suppliers -> RowT \cup {Same}]]
  /\ wInv \in [Clients -> [Invoices -> InvoiceT \cup {Same}]]
  /\ tx \in [Clients -> TxT]
  /\ bounds \in BoundT

Searching == {"look", "insert", "relook", "lost"}
PcsOf(kind) ==
  CASE kind = "none"   -> {"idle"}
    [] kind = "create" -> Searching \cup {"flush"}
    [] kind = "parse"  -> Searching \cup {"link", "flush"}
    [] kind = "edit"   -> Searching \cup {"scan", "cascade", "flush"}
    [] kind = "clear"  -> {"flush"}
    [] kind = "rename" -> {"scan", "cascade", "flush"}
    [] kind = "merge"  -> {"scan", "cascade", "children", "flush"}
    [] kind = "delete" -> {"children", "flush"}

\* What a handler has found so far.
TxOK(c) ==
  LET q == tx[c] IN
  /\ q.kind = "none" => q = Idle
  /\ q.kind \in bounds.kinds \cup {"none"}
  /\ q.pc \in PcsOf(q.kind)
  /\ \A i \in q.rows : invoice[i] # Gone
  /\ q.kind \in Linking => q.want \in RowT
  /\ q.kind \in Linking /\ q.pc \notin Searching =>
       q.src \in used /\ q.seen \in RowT /\ Key(q.seen) = Key(q.want)
  /\ q.kind = "parse" => q.inv \in Invoices /\ invoice[q.inv] = Gone
  /\ q.kind \in {"edit", "clear"} => q.inv \in Invoices /\ invoice[q.inv] # Gone /\ q.old \in InvoiceT
  /\ q.kind = "rename" => q.src \in used /\ q.want \in RowT /\ q.seen \in RowT
  /\ q.kind = "merge" => q.src \in used /\ q.dst \in used /\ q.src # q.dst /\ q.seen \in RowT
  /\ q.kind = "delete" => q.src \in used /\ q.seen \in RowT
  /\ q.src # None => q.src \in used /\ \A o \in Clients \ {c} : wSup[o][q.src] = Same

\* One transaction parses, and one edits an invoice.
Exclusive ==
  \A c, o \in Clients : c # o =>
    /\ ~ (tx[c].kind = "parse" /\ tx[o].kind = "parse")
    /\ tx[c].kind \in {"edit", "clear"} /\ tx[o].kind \in {"edit", "clear"} => tx[c].inv # tx[o].inv

\* A row that is being added is seen by nobody else; ids are not handed out twice.
Pending(c) ==
  /\ \A s \in Suppliers : wSup[c][s] # Same =>
       /\ tx[c].kind \in Linking /\ tx[c].pc \notin {"look", "insert"}
       /\ wSup[c][s] = tx[c].want /\ s \in used /\ supplier[s] = Gone
       /\ \A o \in Clients \ {c} : wSup[o][s] = Same
  /\ \A i \in Invoices : wInv[c][i] # Same =>
       /\ \/ tx[c].kind = "parse" /\ tx[c].pc = "flush" /\ tx[c].inv = i
          \/ tx[c].kind \in {"edit", "rename", "merge"} /\ tx[c].pc \in {"children", "flush"} /\ invoice[i] # Gone
       /\ \A o \in Clients \ {c} : wInv[o][i] = Same
Known == \A s \in Suppliers : supplier[s] # Gone => s \in used

\* No two suppliers, committed or being added, have the same key.
KeysApart ==
  \A s, t \in Suppliers : s # t =>
    /\ supplier[s] # Gone /\ supplier[t] # Gone => Key(supplier[s]) # Key(supplier[t])
    /\ \A c \in Clients : wSup[c][s] # Same =>
         /\ supplier[t] # Gone => Key(wSup[c][s]) # Key(supplier[t])
         /\ \A o \in Clients : wSup[o][t] # Same => Key(wSup[c][s]) # Key(wSup[o][t])

\* Nobody changes an INN.
InnsStay == "merge" \notin bounds.kinds /\ (bounds.innEdits => "rename" \notin bounds.kinds)
\* The row a handler has found still has the INN it saw, and so has the invoice
\* it edits.
SameInn(c) ==
  LET q == tx[c] IN
  /\ q.kind \in {"rename", "delete"} \/ (q.kind \in Linking /\ q.pc \notin Searching) =>
       SupOf(c, q.src) = Gone \/ SupOf(c, q.src).inn = q.seen.inn
  /\ q.kind = "rename" => q.want.inn = q.seen.inn
  /\ q.kind \in {"edit", "clear"} =>
       invoice[q.inv].inn = q.old.inn /\ invoice[q.inv].sup \in {q.old.sup, None}
\* The link of an invoice, as c sees the suppliers.
Agrees(c, inv) == inv.sup # None => SupOf(c, inv.sup) # Gone /\ inv.inn = SupOf(c, inv.sup).inn
InnsAgree ==
  InnsStay =>
    /\ \A c \in Clients : SameInn(c)
    /\ \A i \in Invoices : invoice[i] # Gone /\ invoice[i].sup # None =>
         supplier[invoice[i].sup] # Gone /\ invoice[i].inn = supplier[invoice[i].sup].inn
    /\ \A c \in Clients, i \in Invoices : wInv[c][i] # Same =>
         IF invoice[i] = Gone THEN Agrees(c, wInv[c][i])
         ELSE wInv[c][i].sup = invoice[i].sup /\ wInv[c][i].inn = invoice[i].inn

\* Whoever comes back from its INSERT finds a supplier.
OnlyLinking == bounds.kinds \subseteq Linking \cup {"clear"}
FoundAgain ==
  OnlyLinking => \A c \in Clients : /\ tx[c].pc # "lost"
                                    /\ tx[c].pc = "relook" => Holders(c, tx[c].want) # {}

\* The row of s once the transaction of c is committed.
Target(c, s) ==
  LET q == tx[c] IN
  IF s # q.src \/ q.pc \notin {"children", "flush"} THEN SupOf(c, s)
  ELSE IF q.kind = "edit" THEN Canonical(c)
  ELSE IF q.kind = "rename" THEN q.want
  ELSE IF q.kind \in {"merge", "delete"} THEN Gone
  ELSE SupOf(c, s)
\* What the handler has loaded is what is there.
Loaded(c) ==
  LET q == tx[c] IN
  /\ q.kind \in Linking /\ q.pc \notin Searching => SupOf(c, q.src) = q.seen
  /\ q.kind = "rename" => supplier[q.src] = q.seen
  /\ q.kind = "merge" => supplier[q.dst] = q.seen
  /\ q.kind \in {"edit", "clear"} => q.old = invoice[q.inv]
\* The bulk UPDATE has selected every invoice it is about, a deletion none.
Selected(c) ==
  LET q == tx[c] IN
  /\ q.pc = "cascade" => q.rows = LinkedTo(c, q.src)
  /\ q.kind \in {"merge", "delete"} /\ q.pc = "flush" => q.rows = {}
  /\ q.kind = "edit" =>
       \A i \in Invoices : wInv[c][i] # Same =>
         /\ wInv[c][i].sup = invoice[i].sup /\ wInv[c][i].inn = invoice[i].inn
         /\ wInv[c][i].name = q.want.name
Matches(inv, row) == row # Gone /\ inv.name = row.name /\ inv.inn = row.inn
\* The invoices, as the transaction sees them, match the rows it is to leave.
Views(c) ==
  \A i \in Invoices :
    /\ InvOf(c, i) # Gone /\ InvOf(c, i).sup # None => Matches(InvOf(c, i), Target(c, InvOf(c, i).sup))
    /\ invoice[i] # Gone /\ InvOf(c, i).sup = None => invoice[i].sup = None
Serial(c) == Loaded(c) /\ Selected(c) /\ Views(c)
\* The committed ones match the committed rows.
AllMatch ==
  \A i \in Invoices : invoice[i] # Gone /\ invoice[i].sup # None =>
    Matches(invoice[i], supplier[invoice[i].sup])
OneAtATime ==
  bounds.open = 1 =>
    /\ \A c, o \in Clients : tx[c] # Idle /\ tx[o] # Idle => c = o
    /\ \A c \in Clients : Serial(c)
    /\ AllMatch

Core == TypeOK /\ (\A c \in Clients : TxOK(c) /\ Pending(c)) /\ Exclusive /\ Known
Inv == Core /\ KeysApart /\ InnsAgree /\ FoundAgain /\ OneAtATime

-----------------------------------------------------------------------------
(* What the steps have in common.                                           *)

LEMMA Apart ==
  /\ None \notin Suppliers /\ None \notin Inns /\ None \notin Names
  /\ Gone \notin RowT /\ Gone \notin InvoiceT /\ Same # Gone
  /\ Same \notin RowT /\ Same \notin InvoiceT
BY ConstantsAssumption

\* The transactions of the others are left alone.
OthersStay(c) ==
  \A o \in Clients \ {c} : tx'[o] = tx[o] /\ wSup'[o] = wSup[o] /\ wInv'[o] = wInv[o]

\* A statement that only reads.
Reads(c) ==
  /\ UNCHANGED <<supplier, invoice, used, wSup, wInv, bounds>>
  /\ tx' \in [Clients -> TxT] /\ OthersStay(c)

\* The transaction is over.
Ended(c) ==
  /\ tx'[c] = Idle /\ tx' \in [Clients -> TxT]
  /\ \A s \in Suppliers : wSup'[c][s] = Same
  /\ \A i \in Invoices : wInv'[c][i] = Same
  /\ wSup' \in [Clients -> [Suppliers -> RowT \cup {Same}]]
  /\ wInv' \in [Clients -> [Invoices -> InvoiceT \cup {Same}]]
  /\ UNCHANGED <<used, bounds>> /\ OthersStay(c)

LEMMA IdleTyped == Idle \in TxT
BY DEF Idle, TxT, Pcs

LEMMA Seen ==
  ASSUME TypeOK, NEW c \in Clients
  PROVE  /\ \A s \in Suppliers : SupOf(c, s) \in RowT \cup {Gone}
         /\ \A i \in Invoices : InvOf(c, i) \in InvoiceT \cup {Gone}
BY DEF TypeOK, SupOf, InvOf

LEMMA StartReads ==
  ASSUME TypeOK, NEW c \in Clients, NEW kind \in AllKinds, NEW r \in TxT, Start(c, kind, r)
  PROVE  /\ Reads(c) /\ tx[c] = Idle /\ kind \in bounds.kinds
         /\ Cardinality({o \in Clients : tx[o] # Idle}) < bounds.open
         /\ tx'[c].kind = kind /\ tx'[c].pc = r.pc /\ tx'[c].src = r.src /\ tx'[c].dst = r.dst
         /\ tx'[c].inv = r.inv /\ tx'[c].want = r.want /\ tx'[c].seen = r.seen
         /\ tx'[c].old = r.old /\ tx'[c].rows = r.rows
<1> DEFINE q == [r EXCEPT !.kind = kind]
<1>1. q \in TxT /\ q.kind = kind /\ q.pc = r.pc /\ q.src = r.src /\ q.dst = r.dst /\ q.inv = r.inv
      /\ q.want = r.want /\ q.seen = r.seen /\ q.old = r.old /\ q.rows = r.rows
  BY DEF TxT
<1>2. tx' = [tx EXCEPT ![c] = q] /\ UNCHANGED <<supplier, invoice, used, wSup, wInv, bounds>>
  BY DEF Start
<1> HIDE DEF q
<1>3. tx' \in [Clients -> TxT] /\ tx'[c] = q /\ \A o \in Clients \ {c} : tx'[o] = tx[o]
  BY <1>1, <1>2 DEF TypeOK
<1> QED BY <1>1, <1>2, <1>3 DEF Start, Reads, OthersStay

LEMMA FindReads ==
  ASSUME TypeOK, NEW c \in Clients, NEW missing \in Pcs, Find(c, missing)
  PROVE  /\ Reads(c)
         /\ tx'[c].kind = tx[c].kind /\ tx'[c].want = tx[c].want /\ tx'[c].inv = tx[c].inv
         /\ tx'[c].old = tx[c].old /\ tx'[c].dst = tx[c].dst /\ tx'[c].rows = tx[c].rows
         /\ \/ /\ Holders(c, tx[c].want) = {} /\ tx'[c].pc = missing
               /\ tx'[c].src = tx[c].src /\ tx'[c].seen = tx[c].seen
            \/ /\ tx'[c].src \in Holders(c, tx[c].want) /\ tx'[c].pc = AfterFound(c)
               /\ tx'[c].seen = SupOf(c, tx'[c].src)
<1>1. tx[c] \in TxT /\ UNCHANGED <<supplier, invoice, used, wSup, wInv, bounds>>
  BY DEF TypeOK, Find
<1>2. CASE Holders(c, tx[c].want) = {}
  <2> DEFINE q == [tx[c] EXCEPT !.pc = missing]
  <2>1. q \in TxT /\ q.kind = tx[c].kind /\ q.pc = missing /\ q.src = tx[c].src /\ q.dst = tx[c].dst /\ q.inv = tx[c].inv
      /\ q.want = tx[c].want /\ q.seen = tx[c].seen /\ q.old = tx[c].old /\ q.rows = tx[c].rows
    BY <1>1 DEF TxT
  <2>2. tx' = [tx EXCEPT ![c] = q]
    BY <1>2 DEF Find, Goto
  <2> HIDE DEF q
  <2>3. tx' \in [Clients -> TxT] /\ tx'[c] = q /\ \A o \in Clients \ {c} : tx'[o] = tx[o]
    BY <2>1, <2>2 DEF TypeOK
  <2> QED BY <1>1, <1>2, <2>1, <2>3 DEF Reads, OthersStay
<1>3. CASE Holders(c, tx[c].want) # {}
  <2>1. PICK s \in Holders(c, tx[c].want) :
          tx' = [tx EXCEPT ![c].pc = AfterFound(c), ![c].src = s, ![c].seen = SupOf(c, s)]
    BY <1>3 DEF Find
  <2> DEFINE q == [tx[c] EXCEPT !.pc = AfterFound(c), !.src = s, !.seen = SupOf(c, s)]
  <2>2. AfterFound(c) \in Pcs /\ s \in Suppliers /\ SupOf(c, s) \in RowT
    BY Seen DEF AfterFound, Pcs, Holders
  <2>3. q \in TxT /\ q.kind = tx[c].kind /\ q.pc = AfterFound(c) /\ q.src = s /\ q.dst = tx[c].dst /\ q.inv = tx[c].inv
      /\ q.want = tx[c].want /\ q.seen = SupOf(c, s) /\ q.old = tx[c].old /\ q.rows = tx[c].rows
    BY <1>1, <2>2 DEF TxT
  <2>4. tx' = [tx EXCEPT ![c] = q]
    BY <2>1, <1>1 DEF TypeOK, TxT
  <2> HIDE DEF q
  <2>5. tx' \in [Clients -> TxT] /\ tx'[c] = q /\ \A o \in Clients \ {c} : tx'[o] = tx[o]
    BY <2>3, <2>4 DEF TypeOK
  <2> QED BY <1>1, <1>3, <2>3, <2>5 DEF Reads, OthersStay
<1> QED BY <1>2, <1>3

LEMMA ScanReads ==
  ASSUME TypeOK, NEW c \in Clients, Scan(c)
  PROVE  /\ Reads(c)
         /\ tx'[c].kind = tx[c].kind /\ tx'[c].want = tx[c].want /\ tx'[c].inv = tx[c].inv
         /\ tx'[c].old = tx[c].old /\ tx'[c].dst = tx[c].dst /\ tx'[c].src = tx[c].src
         /\ tx'[c].seen = tx[c].seen /\ tx'[c].rows = LinkedTo(c, tx[c].src)
         /\ tx'[c].pc = IF tx[c].kind = "edit" /\ Canonical(c) = tx[c].seen THEN "flush" ELSE "cascade"
<1> DEFINE pc == IF tx[c].kind = "edit" /\ Canonical(c) = tx[c].seen THEN "flush" ELSE "cascade"
           q == [tx[c] EXCEPT !.rows = LinkedTo(c, tx[c].src), !.pc = pc]
<1>1. tx[c] \in TxT /\ LinkedTo(c, tx[c].src) \in SUBSET Invoices
  BY DEF TypeOK, LinkedTo
<1>2. pc \in Pcs
  BY DEF Pcs
<1>3. tx' = [tx EXCEPT ![c].rows = LinkedTo(c, tx[c].src), ![c].pc = pc]
      /\ UNCHANGED <<supplier, invoice, used, wSup, wInv, bounds>>
  BY DEF Scan
<1> HIDE DEF pc
<1>4. q \in TxT /\ q.kind = tx[c].kind /\ q.pc = pc /\ q.src = tx[c].src /\ q.dst = tx[c].dst /\ q.inv = tx[c].inv
      /\ q.want = tx[c].want /\ q.seen = tx[c].seen /\ q.old = tx[c].old /\ q.rows = LinkedTo(c, tx[c].src)
  BY <1>1, <1>2 DEF TxT
<1>5. tx' = [tx EXCEPT ![c] = q]
  BY <1>3, <1>1 DEF TypeOK, TxT
<1> HIDE DEF q
<1>6. tx' \in [Clients -> TxT] /\ tx'[c] = q /\ \A o \in Clients \ {c} : tx'[o] = tx[o]
  BY <1>4, <1>5 DEF TypeOK
<1> QED BY <1>3, <1>4, <1>6 DEF Reads, OthersStay, pc

LEMMA ChildrenReads ==
  ASSUME TypeOK, NEW c \in Clients, Children(c)
  PROVE  /\ Reads(c)
         /\ tx'[c].kind = tx[c].kind /\ tx'[c].want = tx[c].want /\ tx'[c].inv = tx[c].inv
         /\ tx'[c].old = tx[c].old /\ tx'[c].dst = tx[c].dst /\ tx'[c].src = tx[c].src
         /\ tx'[c].seen = tx[c].seen /\ tx'[c].rows = LinkedTo(c, tx[c].src) /\ tx'[c].pc = "flush"
<1> DEFINE q == [tx[c] EXCEPT !.rows = LinkedTo(c, tx[c].src), !.pc = "flush"]
<1>1. tx[c] \in TxT /\ LinkedTo(c, tx[c].src) \in SUBSET Invoices
  BY DEF TypeOK, LinkedTo
<1>2. tx' = [tx EXCEPT ![c].rows = LinkedTo(c, tx[c].src), ![c].pc = "flush"]
      /\ UNCHANGED <<supplier, invoice, used, wSup, wInv, bounds>>
  BY DEF Children
<1>3. q \in TxT /\ q.kind = tx[c].kind /\ q.pc = "flush" /\ q.src = tx[c].src /\ q.dst = tx[c].dst /\ q.inv = tx[c].inv
      /\ q.want = tx[c].want /\ q.seen = tx[c].seen /\ q.old = tx[c].old /\ q.rows = LinkedTo(c, tx[c].src)
  BY <1>1 DEF TxT, Pcs
<1>4. tx' = [tx EXCEPT ![c] = q]
  BY <1>1, <1>2 DEF TypeOK, TxT
<1> HIDE DEF q
<1>5. tx' \in [Clients -> TxT] /\ tx'[c] = q /\ \A o \in Clients \ {c} : tx'[o] = tx[o]
  BY <1>3, <1>4 DEF TypeOK
<1> QED BY <1>2, <1>3, <1>5 DEF Reads, OthersStay

LEMMA GotoMoves ==
  ASSUME TypeOK, NEW c \in Clients, NEW pc \in Pcs, Goto(c, pc)
  PROVE  /\ tx' \in [Clients -> TxT] /\ \A o \in Clients \ {c} : tx'[o] = tx[o]
         /\ tx'[c].kind = tx[c].kind /\ tx'[c].want = tx[c].want /\ tx'[c].inv = tx[c].inv
         /\ tx'[c].old = tx[c].old /\ tx'[c].dst = tx[c].dst /\ tx'[c].src = tx[c].src
         /\ tx'[c].seen = tx[c].seen /\ tx'[c].rows = tx[c].rows /\ tx'[c].pc = pc
<1> DEFINE q == [tx[c] EXCEPT !.pc = pc]
<1>1. tx[c] \in TxT
  BY DEF TypeOK
<1>2. q \in TxT /\ q.kind = tx[c].kind /\ q.pc = pc /\ q.src = tx[c].src /\ q.dst = tx[c].dst /\ q.inv = tx[c].inv
      /\ q.want = tx[c].want /\ q.seen = tx[c].seen /\ q.old = tx[c].old /\ q.rows = tx[c].rows
  BY <1>1 DEF TxT
<1>3. tx' = [tx EXCEPT ![c] = q]
  BY DEF Goto
<1> HIDE DEF q
<1>4. tx' \in [Clients -> TxT] /\ tx'[c] = q /\ \A o \in Clients \ {c} : tx'[o] = tx[o]
  BY <1>2, <1>3 DEF TypeOK
<1> QED BY <1>2, <1>4

LEMMA InsertMoves ==
  ASSUME TypeOK, NEW c \in Clients, Insert(c), tx[c].want \in RowT
  PROVE  /\ UNCHANGED <<supplier, invoice, wInv, bounds>> /\ OthersStay(c)
         /\ tx' \in [Clients -> TxT]
         /\ tx'[c].kind = tx[c].kind /\ tx'[c].want = tx[c].want /\ tx'[c].inv = tx[c].inv
         /\ tx'[c].old = tx[c].old /\ tx'[c].dst = tx[c].dst /\ tx'[c].src = tx[c].src
         /\ tx'[c].seen = tx[c].seen /\ tx'[c].rows = tx[c].rows /\ tx'[c].pc = "relook"
         /\ ~KeyBusy(c, tx[c].want)
         /\ wSup' \in [Clients -> [Suppliers -> RowT \cup {Same}]]
         /\ \/ Holders(c, tx[c].want) # {} /\ used' = used /\ wSup' = wSup
            \/ /\ Holders(c, tx[c].want) = {}
               /\ \E s \in Suppliers \ used :
                    /\ used' = used \cup {s} /\ wSup'[c][s] = tx[c].want
                    /\ \A t \in Suppliers \ {s} : wSup'[c][t] = wSup[c][t]
<1>1. "relook" \in Pcs /\ Goto(c, "relook") /\ UNCHANGED <<supplier, invoice, wInv, bounds>>
      /\ ~KeyBusy(c, tx[c].want)
  BY DEF Pcs, Insert
<1>2. CASE Holders(c, tx[c].want) # {}
  <2>1. UNCHANGED <<used, wSup>>
    BY <1>2 DEF Insert
  <2> QED BY <1>1, <1>2, <2>1, GotoMoves DEF OthersStay, TypeOK
<1>3. CASE Holders(c, tx[c].want) = {}
  <2>1. PICK s \in Unused : used' = used \cup {s} /\ wSup' = [wSup EXCEPT ![c][s] = tx[c].want]
    BY <1>3 DEF Insert
  <2>2. s \in Suppliers \ used
    BY DEF Unused
  <2>3. /\ wSup' \in [Clients -> [Suppliers -> RowT \cup {Same}]] /\ wSup'[c][s] = tx[c].want
        /\ \A t \in Suppliers \ {s} : wSup'[c][t] = wSup[c][t]
        /\ \A o \in Clients \ {c} : wSup'[o] = wSup[o]
    BY <2>1, <2>2 DEF TypeOK
  <2> QED BY <1>1, <1>3, <2>1, <2>2, <2>3, GotoMoves DEF OthersStay
<1> QED BY <1>2, <1>3

LEMMA RollbackEnds ==
  ASSUME TypeOK, NEW c \in Clients, Rollback(c)
  PROVE  Ended(c) /\ UNCHANGED <<supplier, invoice>>
<1>1. tx' \in [Clients -> TxT] /\ tx'[c] = Idle /\ \A o \in Clients \ {c} : tx'[o] = tx[o]
  BY IdleTyped DEF Rollback, TypeOK
<1>2. /\ wSup' \in [Clients -> [Suppliers -> RowT \cup {Same}]]
      /\ \A s \in Suppliers : wSup'[c][s] = Same
      /\ \A o \in Clients \ {c} : wSup'[o] = wSup[o]
  BY DEF Rollback, TypeOK, NoWrites
<1>3. /\ wInv' \in [Clients -> [Invoices -> InvoiceT \cup {Same}]]
      /\ \A i \in Invoices : wInv'[c][i] = Same
      /\ \A o \in Clients \ {c} : wInv'[o] = wInv[o]
  BY DEF Rollback, TypeOK, NoWrites
<1> QED BY <1>1, <1>2, <1>3 DEF Rollback, Ended, OthersStay

LEMMA CommitEnds ==
  ASSUME TypeOK, NEW c \in Clients, NEW sup, NEW inv, CommitWith(c, sup, inv)
  PROVE  /\ Ended(c)
         /\ \A s \in Suppliers : supplier'[s] = IF s \in DOMAIN sup THEN sup[s] ELSE SupOf(c, s)
         /\ \A i \in Invoices : invoice'[i] = IF i \in DOMAIN inv THEN inv[i] ELSE InvOf(c, i)
         /\ (\A s \in Suppliers : s \in DOMAIN sup => sup[s] \in RowT \cup {Gone})
              => supplier' \in [Suppliers -> RowT \cup {Gone}]
         /\ (\A i \in Invoices : i \in DOMAIN inv => inv[i] \in InvoiceT \cup {Gone})
              => invoice' \in [Invoices -> InvoiceT \cup {Gone}]
<1>1. tx' \in [Clients -> TxT] /\ tx'[c] = Idle /\ \A o \in Clients \ {c} : tx'[o] = tx[o]
  BY IdleTyped DEF CommitWith, TypeOK
<1>2. /\ wSup' \in [Clients -> [Suppliers -> RowT \cup {Same}]]
      /\ \A s \in Suppliers : wSup'[c][s] = Same
      /\ \A o \in Clients \ {c} : wSup'[o] = wSup[o]
  BY DEF CommitWith, TypeOK, NoWrites
<1>3. /\ wInv' \in [Clients -> [Invoices -> InvoiceT \cup {Same}]]
      /\ \A i \in Invoices : wInv'[c][i] = Same
      /\ \A o \in Clients \ {c} : wInv'[o] = wInv[o]
  BY DEF CommitWith, TypeOK, NoWrites
<1>4. /\ supplier' = [s \in Suppliers |-> IF s \in DOMAIN sup THEN sup[s] ELSE SupOf(c, s)]
      /\ invoice' = [i \in Invoices |-> IF i \in DOMAIN inv THEN inv[i] ELSE InvOf(c, i)]
      /\ UNCHANGED <<used, bounds>>
  BY DEF CommitWith
<1>5. Ended(c)
  BY <1>1, <1>2, <1>3, <1>4 DEF Ended, OthersStay
<1>6. (\A s \in Suppliers : s \in DOMAIN sup => sup[s] \in RowT \cup {Gone})
              => supplier' \in [Suppliers -> RowT \cup {Gone}]
  BY <1>4, Seen
<1>7. (\A i \in Invoices : i \in DOMAIN inv => inv[i] \in InvoiceT \cup {Gone})
              => invoice' \in [Invoices -> InvoiceT \cup {Gone}]
  BY <1>4, Seen
<1> QED BY <1>4, <1>5, <1>6, <1>7

LEMMA Found ==
  ASSUME TypeOK, NEW c \in Clients, TxOK(c)
  PROVE  /\ tx[c] \in TxT /\ tx[c].kind \in AllKinds \cup {"none"} /\ tx[c].pc \in PcsOf(tx[c].kind)
         /\ tx[c].kind \in Linking => tx[c].want \in RowT
         /\ tx[c].kind \in Linking /\ tx[c].pc \notin Searching =>
              tx[c].src \in Suppliers /\ tx[c].src \in used /\ tx[c].seen \in RowT
         /\ tx[c].kind = "parse" => tx[c].inv \in Invoices /\ invoice[tx[c].inv] = Gone
         /\ tx[c].kind \in {"edit", "clear"} =>
              tx[c].inv \in Invoices /\ invoice[tx[c].inv] \in InvoiceT /\ tx[c].old \in InvoiceT
         /\ tx[c].kind = "rename" => tx[c].want \in RowT
         /\ tx[c].kind \in {"rename", "merge", "delete"} =>
              tx[c].src \in Suppliers /\ tx[c].src \in used /\ tx[c].seen \in RowT
         /\ tx[c].kind = "merge" => tx[c].dst \in Suppliers /\ tx[c].src # tx[c].dst
         /\ \A i \in tx[c].rows : i \in Invoices /\ invoice[i] \in InvoiceT
<1>1. tx[c] \in TxT
  BY DEF TypeOK
<1>2. tx[c].kind \in AllKinds \cup {"none"} /\ tx[c].rows \subseteq Invoices
  BY <1>1 DEF TxT
<1> QED BY <1>1, <1>2 DEF TxOK, TypeOK

LEMMA Written ==
  ASSUME TypeOK, NEW c \in Clients, NEW i \in Invoices, invoice[i] # Gone
  PROVE  InvOf(c, i) \in InvoiceT
BY Apart DEF TypeOK, InvOf

LEMMA LinkMoves ==
  ASSUME TypeOK, NEW c \in Clients, TxOK(c), Link(c)
  PROVE  \/ Rollback(c)
         \/ /\ UNCHANGED <<supplier, invoice, used, wSup, bounds>> /\ OthersStay(c)
            /\ tx' \in [Clients -> TxT]
            /\ tx'[c].kind = tx[c].kind /\ tx'[c].want = tx[c].want /\ tx'[c].inv = tx[c].inv
            /\ tx'[c].old = tx[c].old /\ tx'[c].dst = tx[c].dst /\ tx'[c].src = tx[c].src
            /\ tx'[c].seen = tx[c].seen /\ tx'[c].rows = tx[c].rows /\ tx'[c].pc = "flush"
            /\ MayRefer(c, tx[c].src) /\ SupOf(c, tx[c].src) # Gone
            /\ wInv' \in [Clients -> [Invoices -> InvoiceT \cup {Same}]]
            /\ \A i \in Invoices \ {tx[c].inv} : wInv'[c][i] = wInv[c][i]
            /\ wInv'[c][tx[c].inv] \in InvoiceT
            /\ wInv'[c][tx[c].inv].sup = tx[c].src
            /\ wInv'[c][tx[c].inv].name = tx[c].seen.name
            /\ wInv'[c][tx[c].inv].inn = tx[c].seen.inn
<1>1. CASE Rollback(c)
  BY <1>1
<1>2. CASE ~Rollback(c)
  <2> DEFINE new == [sup |-> tx[c].src, name |-> tx[c].seen.name, inn |-> tx[c].seen.inn]
             i == tx[c].inv
  <2>1. "flush" \in Pcs /\ Goto(c, "flush") /\ UNCHANGED <<supplier, invoice, used, wSup, bounds>>
        /\ MayRefer(c, tx[c].src) /\ SupOf(c, tx[c].src) # Gone /\ wInv' = [wInv EXCEPT ![c][i] = new]
    BY <1>2 DEF Pcs, Link
  <2>2. tx[c].kind = "parse" /\ tx[c].pc = "link"
    BY DEF Link, At
  <2>3. i \in Invoices /\ tx[c].src \in Suppliers /\ tx[c].seen \in RowT
    BY <2>2, Found DEF Linking, Searching
  <2>4. new \in InvoiceT /\ new.sup = tx[c].src /\ new.name = tx[c].seen.name /\ new.inn = tx[c].seen.inn
    BY <2>3 DEF InvoiceT, RowT
  <2> HIDE DEF new
  <2>5. /\ wInv' \in [Clients -> [Invoices -> InvoiceT \cup {Same}]] /\ wInv'[c][i] = new
        /\ \A j \in Invoices \ {i} : wInv'[c][j] = wInv[c][j]
        /\ \A o \in Clients \ {c} : wInv'[o] = wInv[o]
    BY <2>1, <2>3, <2>4 DEF TypeOK
  <2> QED BY <2>1, <2>4, <2>5, GotoMoves DEF OthersStay
<1> QED BY <1>1, <1>2

LEMMA CascadedRow ==
  ASSUME NEW c \in Clients, tx[c] \in TxT, NEW inv \in InvoiceT
  PROVE  /\ tx[c].kind = "edit" /\ tx[c].want \in RowT =>
              /\ Cascaded(c, inv) \in InvoiceT
              /\ Cascaded(c, inv).sup = inv.sup /\ Cascaded(c, inv).name = tx[c].want.name
              /\ Cascaded(c, inv).inn = inv.inn
         /\ tx[c].kind = "rename" /\ tx[c].want \in RowT =>
              /\ Cascaded(c, inv) \in InvoiceT
              /\ Cascaded(c, inv).sup = inv.sup /\ Cascaded(c, inv).name = tx[c].want.name
              /\ Cascaded(c, inv).inn = tx[c].want.inn
         /\ tx[c].kind = "merge" /\ tx[c].dst \in Suppliers /\ tx[c].seen \in RowT =>
              /\ Cascaded(c, inv) \in InvoiceT
              /\ Cascaded(c, inv).sup = tx[c].dst /\ Cascaded(c, inv).name = tx[c].seen.name
              /\ Cascaded(c, inv).inn = tx[c].seen.inn
<1>1. ASSUME tx[c].kind = "edit", tx[c].want \in RowT
      PROVE  Cascaded(c, inv) = [inv EXCEPT !.name = tx[c].want.name]
  BY <1>1 DEF Cascaded
<1>2. ASSUME tx[c].kind = "rename", tx[c].want \in RowT
      PROVE  Cascaded(c, inv) = [inv EXCEPT !.name = tx[c].want.name, !.inn = tx[c].want.inn]
  BY <1>2 DEF Cascaded
<1>3. ASSUME tx[c].kind = "merge", tx[c].dst \in Suppliers, tx[c].seen \in RowT
      PROVE  Cascaded(c, inv) = [sup |-> tx[c].dst, name |-> tx[c].seen.name, inn |-> tx[c].seen.inn]
  BY <1>3 DEF Cascaded
<1>4. ASSUME tx[c].want \in RowT
      PROVE  LET new == [inv EXCEPT !.name = tx[c].want.name] IN
             new \in InvoiceT /\ new.sup = inv.sup /\ new.name = tx[c].want.name /\ new.inn = inv.inn
  BY <1>4 DEF InvoiceT, RowT
<1>5. ASSUME tx[c].want \in RowT
      PROVE  LET new == [inv EXCEPT !.name = tx[c].want.name, !.inn = tx[c].want.inn] IN
             new \in InvoiceT /\ new.sup = inv.sup /\ new.name = tx[c].want.name /\ new.inn = tx[c].want.inn
  BY <1>5 DEF InvoiceT, RowT
<1>6. ASSUME tx[c].dst \in Suppliers, tx[c].seen \in RowT
      PROVE  LET new == [sup |-> tx[c].dst, name |-> tx[c].seen.name, inn |-> tx[c].seen.inn] IN
             new \in InvoiceT /\ new.sup = tx[c].dst /\ new.name = tx[c].seen.name /\ new.inn = tx[c].seen.inn
  BY <1>6 DEF InvoiceT, RowT
<1> QED BY <1>1, <1>2, <1>3, <1>4, <1>5, <1>6

\* The invoices the cascade of c reaches.
Reached(c) == {i \in tx[c].rows : InvOf(c, i).sup = tx[c].src}

LEMMA CascadeMoves ==
  ASSUME TypeOK, NEW c \in Clients, TxOK(c), Cascade(c)
  PROVE  \/ Rollback(c)
         \/ /\ UNCHANGED <<supplier, invoice, used, wSup, bounds>> /\ OthersStay(c)
            /\ tx' \in [Clients -> TxT]
            /\ tx'[c].kind = tx[c].kind /\ tx'[c].want = tx[c].want /\ tx'[c].inv = tx[c].inv
            /\ tx'[c].old = tx[c].old /\ tx'[c].dst = tx[c].dst /\ tx'[c].src = tx[c].src
            /\ tx'[c].seen = tx[c].seen /\ tx'[c].rows = {}
            /\ tx'[c].pc = IF tx[c].kind = "merge" THEN "children" ELSE "flush"
            /\ MayTouch(c, tx[c].rows)
            /\ wInv' \in [Clients -> [Invoices -> InvoiceT \cup {Same}]]
            /\ \A i \in Invoices : i \notin Reached(c) => wInv'[c][i] = wInv[c][i]
            /\ \A i \in Reached(c) : wInv'[c][i] = Cascaded(c, InvOf(c, i)) /\ wInv'[c][i] \in InvoiceT
<1>1. tx[c] \in TxT /\ tx[c].kind \in {"edit", "rename", "merge"} /\ tx[c].pc = "cascade"
  BY DEF TypeOK, Cascade, At
<1>2. \A i \in Reached(c) : i \in Invoices /\ InvOf(c, i) \in InvoiceT
  BY Found, Written, Apart DEF Reached
<1>3. \A i \in Reached(c) : Cascaded(c, InvOf(c, i)) \in InvoiceT
  BY <1>1, <1>2, CascadedRow, Found DEF Linking, Searching
<1>4. CASE Rollback(c)
  BY <1>4
<1>5. CASE ~Rollback(c)
  <2> DEFINE pc == IF tx[c].kind = "merge" THEN "children" ELSE "flush"
             q == [tx[c] EXCEPT !.pc = pc, !.rows = {}]
             w == [i \in Invoices |-> IF i \in Reached(c) THEN Cascaded(c, InvOf(c, i)) ELSE wInv[c][i]]
  <2>1. /\ UNCHANGED <<supplier, invoice, used, wSup, bounds>> /\ MayTouch(c, tx[c].rows)
        /\ wInv' = [wInv EXCEPT ![c] = w]
        /\ tx' = [tx EXCEPT ![c].pc = pc, ![c].rows = {}]
    BY <1>5 DEF Cascade, Reached
  <2>2. w \in [Invoices -> InvoiceT \cup {Same}]
    BY <1>3 DEF TypeOK
  <2>3. \A i \in Invoices : w[i] = IF i \in Reached(c) THEN Cascaded(c, InvOf(c, i)) ELSE wInv[c][i]
    OBVIOUS
  <2> HIDE DEF w
  <2>4. /\ wInv' \in [Clients -> [Invoices -> InvoiceT \cup {Same}]] /\ wInv'[c] = w
        /\ \A o \in Clients \ {c} : wInv'[o] = wInv[o]
    BY <2>1, <2>2 DEF TypeOK
  <2>5. pc \in Pcs
    BY DEF Pcs
  <2> HIDE DEF pc
  <2>6. q \in TxT /\ q.kind = tx[c].kind /\ q.pc = pc /\ q.src = tx[c].src /\ q.dst = tx[c].dst /\ q.inv = tx[c].inv
      /\ q.want = tx[c].want /\ q.seen = tx[c].seen /\ q.old = tx[c].old /\ q.rows = {}
    BY <1>1, <2>5 DEF TxT
  <2>7. tx' = [tx EXCEPT ![c] = q]
    BY <2>1, <1>1 DEF TypeOK, TxT
  <2> HIDE DEF q
  <2>8. tx' \in [Clients -> TxT] /\ tx'[c] = q /\ \A o \in Clients \ {c} : tx'[o] = tx[o]
    BY <2>6, <2>7 DEF TypeOK
  <2>9. OthersStay(c)
    BY <2>1, <2>4, <2>8 DEF OthersStay
  <2>10. \A i \in Invoices : i \notin Reached(c) => wInv'[c][i] = wInv[c][i]
    BY <2>3, <2>4
  <2>11. \A i \in Reached(c) : wInv'[c][i] = Cascaded(c, InvOf(c, i)) /\ wInv'[c][i] \in InvoiceT
    BY <1>2, <1>3, <2>3, <2>4
  <2> QED BY <2>1, <2>4, <2>6, <2>8, <2>9, <2>10, <2>11 DEF pc
<1> QED BY <1>4, <1>5

LEMMA ChangedRow ==
  ASSUME NEW now \in RowT, NEW loaded \in RowT, NEW assigned \in RowT
  PROVE  /\ Changed(now, loaded, assigned) \in RowT
         /\ Changed(now, loaded, assigned).name = IF assigned.name = loaded.name THEN now.name ELSE assigned.name
         /\ Changed(now, loaded, assigned).inn = IF assigned.inn = loaded.inn THEN now.inn ELSE assigned.inn
BY DEF Changed, RowT

LEMMA ChangedInvoice ==
  ASSUME NEW now \in InvoiceT, NEW loaded \in InvoiceT, NEW assigned \in InvoiceT
  PROVE  /\ Changed(now, loaded, assigned) \in InvoiceT
         /\ Changed(now, loaded, assigned).sup = IF assigned.sup = loaded.sup THEN now.sup ELSE assigned.sup
         /\ Changed(now, loaded, assigned).name = IF assigned.name = loaded.name THEN now.name ELSE assigned.name
         /\ Changed(now, loaded, assigned).inn = IF assigned.inn = loaded.inn THEN now.inn ELSE assigned.inn
BY DEF Changed, InvoiceT

LEMMA CanonicalRow ==
  ASSUME NEW c \in Clients, tx[c].seen \in RowT, tx[c].want \in RowT
  PROVE  /\ Canonical(c) \in RowT /\ Canonical(c).name = tx[c].want.name /\ Canonical(c).inn = tx[c].seen.inn
         /\ Canonical(c) = tx[c].seen <=> tx[c].want.name = tx[c].seen.name
BY DEF Canonical, RowT

\* The committed tables have rows of their types.
Typed == /\ supplier' \in [Suppliers -> RowT \cup {Gone}]
         /\ invoice' \in [Invoices -> InvoiceT \cup {Gone}]

\* The row of s may be replaced: nobody has its key or waits for it.
Free(c, s, row) == SupOf(c, s) # Gone /\ ~KeyBusy(c, row) /\ Holders(c, row) \subseteq {s}

LEMMA LinkedCommits ==
  ASSUME TypeOK, NEW c \in Clients, CommitLinked(c)
  PROVE  /\ Ended(c) /\ Typed
         /\ \A s \in Suppliers : supplier'[s] = SupOf(c, s)
         /\ \A i \in Invoices : invoice'[i] = InvOf(c, i)
BY CommitEnds DEF CommitLinked, Nothing, Typed

LEMMA ClearCommits ==
  ASSUME TypeOK, NEW c \in Clients, TxOK(c), CommitClear(c)
  PROVE  LET i == tx[c].inv
             now == InvOf(c, i)
             old == tx[c].old IN
         /\ Ended(c) /\ Typed /\ MayTouch(c, {i}) /\ i \in Invoices
         /\ \A s \in Suppliers : supplier'[s] = SupOf(c, s)
         /\ \A j \in Invoices \ {i} : invoice'[j] = InvOf(c, j)
         /\ invoice'[i] \in InvoiceT
         /\ invoice'[i].sup = IF old.sup = None THEN now.sup ELSE None
         /\ invoice'[i].name = IF old.name = None THEN now.name ELSE None
         /\ invoice'[i].inn = IF old.inn = None THEN now.inn ELSE None
<1> DEFINE i == tx[c].inv
           cleared == [sup |-> None, name |-> None, inn |-> None]
           new == Changed(InvOf(c, i), tx[c].old, cleared)
           inv == [x \in {i} |-> new]
<1>1. tx[c].kind = "clear" /\ MayTouch(c, {i}) /\ CommitWith(c, Nothing, inv)
  BY DEF CommitClear, At
<1>2. i \in Invoices /\ tx[c].old \in InvoiceT /\ InvOf(c, i) \in InvoiceT
  BY <1>1, Found, Written, Apart
<1>3. cleared \in InvoiceT /\ cleared.sup = None /\ cleared.name = None /\ cleared.inn = None
  BY DEF InvoiceT
<1> HIDE DEF cleared
<1>4. /\ new \in InvoiceT
      /\ new.sup = IF None = tx[c].old.sup THEN InvOf(c, i).sup ELSE None
      /\ new.name = IF None = tx[c].old.name THEN InvOf(c, i).name ELSE None
      /\ new.inn = IF None = tx[c].old.inn THEN InvOf(c, i).inn ELSE None
  BY <1>2, <1>3, ChangedInvoice
<1> HIDE DEF new
<1>5. DOMAIN inv = {i} /\ inv[i] = new /\ DOMAIN Nothing = {}
  BY DEF Nothing
<1> HIDE DEF inv
<1>6. /\ Ended(c) /\ Typed
      /\ \A s \in Suppliers : supplier'[s] = SupOf(c, s)
      /\ \A j \in Invoices : invoice'[j] = IF j \in {i} THEN inv[j] ELSE InvOf(c, j)
  BY <1>1, <1>4, <1>5, CommitEnds DEF Typed
<1> QED BY <1>1, <1>2, <1>4, <1>5, <1>6

LEMMA EditCommits ==
  ASSUME TypeOK, NEW c \in Clients, TxOK(c), CommitEdit(c)
  PROVE  LET s == tx[c].src
             i == tx[c].inv
             now == InvOf(c, i)
             old == tx[c].old
             want == tx[c].want
             seen == tx[c].seen IN
         \/ Rollback(c)
         \/ /\ Ended(c) /\ Typed /\ MayTouch(c, {i}) /\ i \in Invoices /\ s \in Suppliers
            /\ \A t \in Suppliers \ {s} : supplier'[t] = SupOf(c, t)
            /\ want.name = seen.name => supplier'[s] = SupOf(c, s)
            /\ want.name # seen.name =>
                 /\ supplier'[s] \in RowT /\ Free(c, s, supplier'[s])
                 /\ supplier'[s].name = want.name /\ supplier'[s].inn = SupOf(c, s).inn
            /\ old.sup # s => SupOf(c, s) # Gone
            /\ \A j \in Invoices \ {i} : invoice'[j] = InvOf(c, j)
            /\ invoice'[i] \in InvoiceT
            /\ invoice'[i].sup = IF s = old.sup THEN now.sup ELSE s
            /\ invoice'[i].name = IF want.name = old.name THEN now.name ELSE want.name
            /\ invoice'[i].inn = IF seen.inn = old.inn THEN now.inn ELSE seen.inn
<1> DEFINE s == tx[c].src
           i == tx[c].inv
           renamed == Canonical(c) # tx[c].seen
           row == IF SupOf(c, s) = Gone THEN Gone ELSE Changed(SupOf(c, s), tx[c].seen, Canonical(c))
           new == Changed(InvOf(c, i), tx[c].old, Linked(c))
           sup == IF renamed THEN [x \in {s} |-> row] ELSE Nothing
           inv == [x \in {i} |-> new]
<1>0. CASE Rollback(c)
  BY <1>0
<1>a. CASE ~Rollback(c)
  <2>1. /\ tx[c].kind = "edit" /\ tx[c].pc = "flush" /\ MayTouch(c, {i}) /\ CommitWith(c, sup, inv)
        /\ row = Gone => ~renamed /\ tx[c].old.sup = s
        /\ renamed => ~KeyBusy(c, row) /\ Holders(c, row) \subseteq {s}
    BY <1>a DEF CommitEdit, At
  <2>2. /\ i \in Invoices /\ tx[c].old \in InvoiceT /\ InvOf(c, i) \in InvoiceT
        /\ s \in Suppliers /\ tx[c].seen \in RowT /\ tx[c].want \in RowT
    BY <2>1, Found, Written, Apart DEF Linking, Searching
  <2>3. /\ Canonical(c) \in RowT /\ Canonical(c).name = tx[c].want.name /\ Canonical(c).inn = tx[c].seen.inn
        /\ renamed <=> tx[c].want.name # tx[c].seen.name
    BY <2>2, CanonicalRow
  <2> HIDE DEF renamed
  <2>4. Linked(c) \in InvoiceT /\ Linked(c).sup = s /\ Linked(c).name = tx[c].want.name
        /\ Linked(c).inn = tx[c].seen.inn
    BY <2>2, <2>3 DEF Linked, InvoiceT, RowT
  <2>5. /\ new \in InvoiceT
        /\ new.sup = IF s = tx[c].old.sup THEN InvOf(c, i).sup ELSE s
        /\ new.name = IF tx[c].want.name = tx[c].old.name THEN InvOf(c, i).name ELSE tx[c].want.name
        /\ new.inn = IF tx[c].seen.inn = tx[c].old.inn THEN InvOf(c, i).inn ELSE tx[c].seen.inn
    BY <2>2, <2>4, ChangedInvoice
  <2> HIDE DEF new
  <2>6. SupOf(c, s) # Gone =>
          /\ row \in RowT /\ row.inn = SupOf(c, s).inn
          /\ renamed => row.name = tx[c].want.name
    <3> SUFFICES ASSUME SupOf(c, s) # Gone
        PROVE  /\ row \in RowT /\ row.inn = SupOf(c, s).inn
               /\ renamed => row.name = tx[c].want.name
      OBVIOUS
    <3>1. SupOf(c, s) \in RowT
      BY <2>2, Seen
    <3> QED BY <3>1, <2>2, <2>3, ChangedRow
  <2>7. SupOf(c, s) = Gone <=> row = Gone
    BY <2>6, Apart
  <2> HIDE DEF row
  <2>8. /\ DOMAIN inv = {i} /\ inv[i] = new
        /\ DOMAIN sup = IF renamed THEN {s} ELSE {}
        /\ renamed => sup[s] = row
    BY DEF Nothing
  <2>9. renamed => row \in RowT
    BY <2>1, <2>6, <2>7
  <2> HIDE DEF inv, sup
  <2>10. /\ Ended(c)
         /\ \A t \in Suppliers : supplier'[t] = IF t \in DOMAIN sup THEN sup[t] ELSE SupOf(c, t)
         /\ \A j \in Invoices : invoice'[j] = IF j \in DOMAIN inv THEN inv[j] ELSE InvOf(c, j)
    BY <2>1, CommitEnds
  <2>11. Typed
    <3>1. \A t \in Suppliers : t \in DOMAIN sup => sup[t] \in RowT \cup {Gone}
      BY <2>8, <2>9
    <3>2. \A j \in Invoices : j \in DOMAIN inv => inv[j] \in InvoiceT \cup {Gone}
      BY <2>8, <2>5
    <3> QED BY <3>1, <3>2, <2>1, CommitEnds DEF Typed
  <2>12. renamed => supplier'[s] = row /\ Free(c, s, row)
    BY <2>1, <2>2, <2>7, <2>8, <2>9, <2>10, Apart DEF Free
  <2>13. ~renamed => supplier'[s] = SupOf(c, s)
    BY <2>2, <2>8, <2>10
  <2>14. invoice'[i] = new /\ (\A j \in Invoices \ {i} : invoice'[j] = InvOf(c, j))
         /\ \A t \in Suppliers \ {s} : supplier'[t] = SupOf(c, t)
    BY <2>2, <2>8, <2>10
  <2> QED BY <2>1, <2>2, <2>3, <2>5, <2>6, <2>7, <2>9, <2>10, <2>11, <2>12, <2>13, <2>14, Apart
<1> QED BY <1>0, <1>a

\* A rename or a deletion adds no suppliers.
LEMMA NothingPending ==
  ASSUME TypeOK, NEW c \in Clients, Pending(c)
  PROVE  /\ tx[c].kind \notin Linking \/ tx[c].pc \in {"look", "insert"} =>
              \A s \in Suppliers : wSup[c][s] = Same /\ SupOf(c, s) = supplier[s]
         /\ tx[c].kind \in {"none", "create", "clear", "delete"} \/ tx[c].pc \notin {"children", "flush"} =>
              \A i \in Invoices : wInv[c][i] = Same /\ InvOf(c, i) = invoice[i]
BY DEF Pending, SupOf, InvOf, Linking

LEMMA RenameCommits ==
  ASSUME TypeOK, NEW c \in Clients, TxOK(c), Pending(c), CommitRename(c)
  PROVE  LET s == tx[c].src
             now == SupOf(c, s)
             want == tx[c].want
             seen == tx[c].seen IN
         \/ Rollback(c)
         \/ /\ Ended(c) /\ Typed /\ s \in Suppliers
            /\ \A t \in Suppliers \ {s} : supplier'[t] = SupOf(c, t)
            /\ want = seen => supplier'[s] = now
            /\ want # seen =>
                 /\ supplier'[s] \in RowT /\ Free(c, s, supplier'[s])
                 /\ supplier'[s].name = IF want.name = seen.name THEN now.name ELSE want.name
                 /\ supplier'[s].inn = IF want.inn = seen.inn THEN now.inn ELSE want.inn
            /\ \A j \in Invoices : invoice'[j] = InvOf(c, j)
<1> DEFINE s == tx[c].src
           want == tx[c].want
           seen == tx[c].seen
           row == IF supplier[s] = Gone THEN Gone ELSE Changed(supplier[s], seen, want)
           sup == [x \in {s} |-> row]
<1>1. /\ tx[c].kind = "rename" /\ tx[c].pc = "flush"
      /\ want = seen => CommitWith(c, Nothing, Nothing)
      /\ want # seen => /\ row # Gone => ~KeyBusy(c, row)
                        /\ \/ Rollback(c)
                           \/ row # Gone /\ Holders(c, row) \subseteq {s} /\ CommitWith(c, sup, Nothing)
  BY DEF CommitRename, At
<1>2. s \in Suppliers /\ seen \in RowT /\ want \in RowT
  BY <1>1, Found
<1>3. SupOf(c, s) = supplier[s]
  BY <1>1, <1>2, NothingPending DEF Linking
<1>4. supplier[s] # Gone =>
        /\ row \in RowT
        /\ row.name = IF want.name = seen.name THEN SupOf(c, s).name ELSE want.name
        /\ row.inn = IF want.inn = seen.inn THEN SupOf(c, s).inn ELSE want.inn
  <2> SUFFICES ASSUME supplier[s] # Gone
      PROVE  /\ row \in RowT
             /\ row.name = IF want.name = seen.name THEN SupOf(c, s).name ELSE want.name
             /\ row.inn = IF want.inn = seen.inn THEN SupOf(c, s).inn ELSE want.inn
    OBVIOUS
  <2>1. supplier[s] \in RowT
    BY <1>2 DEF TypeOK
  <2> QED BY <2>1, <1>2, <1>3, ChangedRow
<1>5. supplier[s] = Gone <=> row = Gone
  BY <1>4, Apart
<1> HIDE DEF row
<1>6. DOMAIN sup = {s} /\ sup[s] = row /\ DOMAIN Nothing = {}
  BY DEF Nothing
<1> HIDE DEF sup
<1>7. CASE want = seen
  <2>1. /\ Ended(c) /\ Typed /\ \A t \in Suppliers : supplier'[t] = SupOf(c, t)
        /\ \A j \in Invoices : invoice'[j] = InvOf(c, j)
    BY <1>1, <1>6, <1>7, CommitEnds DEF Typed
  <2> QED BY <2>1, <1>2, <1>7
<1>8. CASE want # seen /\ ~Rollback(c)
  <2>1. /\ Ended(c) /\ \A t \in Suppliers : supplier'[t] = IF t \in DOMAIN sup THEN sup[t] ELSE SupOf(c, t)
        /\ \A j \in Invoices : invoice'[j] = InvOf(c, j)
    BY <1>1, <1>6, <1>8, CommitEnds
  <2>2. Typed
    <3>1. \A t \in Suppliers : t \in DOMAIN sup => sup[t] \in RowT \cup {Gone}
      BY <1>4, <1>5, <1>6
    <3> QED BY <3>1, <1>1, <1>6, <1>8, CommitEnds DEF Typed
  <2>3. supplier'[s] = row /\ row \in RowT /\ Free(c, s, row)
    BY <2>1, <1>1, <1>2, <1>3, <1>4, <1>5, <1>6, <1>8 DEF Free
  <2>4. \A t \in Suppliers \ {s} : supplier'[t] = SupOf(c, t)
    BY <2>1, <1>6
  <2> QED BY <2>1, <2>2, <2>3, <2>4, <1>2, <1>4, <1>5, <1>8, Apart
<1>9. CASE Rollback(c)
  BY <1>9
<1> QED BY <1>7, <1>8, <1>9

LEMMA DeletionCommits ==
  ASSUME TypeOK, NEW c \in Clients, TxOK(c), CommitDeletion(c)
  PROVE  LET s == tx[c].src
             rows == tx[c].rows IN
         \/ Rollback(c)
         \/ /\ Ended(c) /\ Typed /\ s \in Suppliers /\ MayTouch(c, rows) /\ MayWriteKey(c, s)
            /\ LinkedTo(c, s) \subseteq rows
            /\ \A t \in Suppliers \ {s} : supplier'[t] = SupOf(c, t)
            /\ supplier'[s] = Gone
            /\ \A i \in Invoices \ rows : invoice'[i] = InvOf(c, i)
            /\ \A i \in rows : /\ i \in Invoices /\ InvOf(c, i) \in InvoiceT /\ invoice'[i] \in InvoiceT
                               /\ invoice'[i].sup = None /\ invoice'[i].name = InvOf(c, i).name
                               /\ invoice'[i].inn = InvOf(c, i).inn
<1> DEFINE s == tx[c].src
           rows == tx[c].rows
           sup == [x \in {s} |-> Gone]
           inv == [i \in rows |-> [InvOf(c, i) EXCEPT !.sup = None]]
<1>0. CASE Rollback(c)
  BY <1>0
<1>1. CASE ~Rollback(c)
  <2>1. /\ tx[c].kind \in {"merge", "delete"} /\ MayTouch(c, rows) /\ MayWriteKey(c, s)
        /\ LinkedTo(c, s) \subseteq rows /\ CommitWith(c, sup, inv)
    BY <1>1 DEF CommitDeletion, At
  <2>2. s \in Suppliers /\ \A i \in rows : i \in Invoices /\ InvOf(c, i) \in InvoiceT
    BY <2>1, Found, Written, Apart
  <2>3. \A i \in rows : /\ inv[i] \in InvoiceT /\ inv[i].sup = None /\ inv[i].name = InvOf(c, i).name
                         /\ inv[i].inn = InvOf(c, i).inn
    BY <2>2 DEF InvoiceT
  <2>4. DOMAIN inv = rows /\ DOMAIN sup = {s} /\ sup[s] = Gone
    OBVIOUS
  <2> HIDE DEF inv, sup
  <2>5. /\ Ended(c) /\ Typed
        /\ \A t \in Suppliers : supplier'[t] = IF t \in DOMAIN sup THEN sup[t] ELSE SupOf(c, t)
        /\ \A j \in Invoices : invoice'[j] = IF j \in DOMAIN inv THEN inv[j] ELSE InvOf(c, j)
    <3>1. \A t \in Suppliers : t \in DOMAIN sup => sup[t] \in RowT \cup {Gone}
      BY <2>4
    <3>2. \A j \in Invoices : j \in DOMAIN inv => inv[j] \in InvoiceT \cup {Gone}
      BY <2>3, <2>4
    <3> QED BY <3>1, <3>2, <2>1, CommitEnds DEF Typed
  <2>6. /\ \A t \in Suppliers \ {s} : supplier'[t] = SupOf(c, t)
        /\ supplier'[s] = Gone
        /\ \A i \in Invoices \ rows : invoice'[i] = InvOf(c, i)
        /\ \A i \in rows : invoice'[i] = inv[i]
    BY <2>2, <2>4, <2>5
  <2> QED BY <2>1, <2>2, <2>3, <2>5, <2>6
<1> QED BY <1>0, <1>1

-----------------------------------------------------------------------------
(* Core: what the handlers have found, and what they have written.          *)

\* Nothing another transaction has found or written is disturbed by c.
Spares(c) ==
  /\ bounds' = bounds /\ used \subseteq used' /\ OthersStay(c)
  /\ \A i \in Invoices : invoice[i] # Gone => invoice'[i] # Gone
  /\ \A i \in Invoices : invoice[i] = Gone /\ invoice'[i] # Gone => tx[c].kind = "parse"
  /\ \A s \in used : wSup[c][s] = Same => wSup'[c][s] = Same
  /\ \A s \in Suppliers, o \in Clients \ {c} : wSup[o][s] # Same => supplier'[s] = Gone
  /\ \A i \in Invoices, o \in Clients \ {c} : wInv[o][i] # Same => wInv'[c][i] = Same

LEMMA SparesOthers ==
  ASSUME Core, NEW c \in Clients, Spares(c), NEW o \in Clients \ {c}
  PROVE  TxOK(o)' /\ Pending(o)'
<1>1. tx'[o] = tx[o] /\ wSup'[o] = wSup[o] /\ wInv'[o] = wInv[o] /\ tx[o] \in TxT
  BY DEF Spares, OthersStay, Core, TypeOK
<1>2. TxOK(o) /\ Pending(o)
  BY DEF Core
<1>3. tx[o].kind = "parse" => invoice'[tx[o].inv] = Gone
  BY <1>2 DEF Spares, Core, Exclusive, TxOK
<1>4. \A p \in Clients \ {o}, s \in used : wSup[p][s] = Same => wSup'[p][s] = Same
  BY DEF Spares, OthersStay
<1>5. \A i \in tx[o].rows : invoice'[i] # Gone
  <2>1. tx[o].rows \subseteq Invoices
    BY <1>1 DEF TxT
  <2> QED BY <2>1, <1>2 DEF TxOK, Spares
<1>6. TxOK(o)'
  BY <1>1, <1>2, <1>3, <1>4, <1>5 DEF Spares, TxOK
<1>7. \A s \in Suppliers : wSup[o][s] # Same =>
        /\ supplier'[s] = Gone /\ s \in used'
        /\ \A p \in Clients \ {o} : wSup'[p][s] = Same
  BY <1>2, <1>4 DEF Spares, Pending
<1>8. \A i \in Invoices : wInv[o][i] # Same =>
        /\ invoice[i] # Gone => invoice'[i] # Gone
        /\ \A p \in Clients \ {o} : wInv'[p][i] = Same
  <2> SUFFICES ASSUME NEW i \in Invoices, wInv[o][i] # Same, NEW p \in Clients \ {o}
      PROVE  (invoice[i] # Gone => invoice'[i] # Gone) /\ wInv'[p][i] = Same
    <3>1. o \in Clients
      OBVIOUS
    <3> QED BY DEF Spares
  <2>1. CASE p = c
    BY <2>1 DEF Spares
  <2>2. CASE p # c
    <3>1. wInv'[p] = wInv[p]
      BY <2>2 DEF Spares, OthersStay
    <3> QED BY <3>1, <1>2 DEF Spares, Pending
  <2> QED BY <2>1, <2>2
<1>9. Pending(o)'
  BY <1>1, <1>2, <1>7, <1>8 DEF Pending
<1> QED BY <1>6, <1>9

LEMMA ExclusiveStays ==
  ASSUME Exclusive, NEW c \in Clients, OthersStay(c),
         \/ tx'[c].kind \in {"none", "create", "rename", "merge", "delete"}
         \/ tx'[c].kind = tx[c].kind /\ tx'[c].inv = tx[c].inv
  PROVE  Exclusive'
BY DEF Exclusive, OthersStay

\* A step that keeps its own part keeps everything.
LEMMA SparesCore ==
  ASSUME Core, NEW c \in Clients, Spares(c), TypeOK', TxOK(c)', Pending(c)', Exclusive', Known'
  PROVE  Core'
<1>1. \A o \in Clients : TxOK(o)' /\ Pending(o)'
  BY SparesOthers
<1> QED BY <1>1 DEF Core

LEMMA ReadsSpare ==
  ASSUME Core, NEW c \in Clients, Reads(c)
  PROVE  Spares(c) /\ TypeOK' /\ Known'
<1>1. \A i \in Invoices, o \in Clients \ {c} : wInv[o][i] # Same => wInv[c][i] = Same
  BY DEF Core, Pending
<1>2. \A s \in Suppliers, o \in Clients \ {c} : wSup[o][s] # Same => supplier[s] = Gone
  BY DEF Core, Pending
<1> QED BY <1>1, <1>2 DEF Reads, Spares, Core, TypeOK, Known

LEMMA EndedOK ==
  ASSUME Core, NEW c \in Clients, Ended(c)
  PROVE  TxOK(c)' /\ Pending(c)' /\ Exclusive'
<1>1. Idle.kind = "none" /\ Idle.pc = "idle" /\ Idle.src = None /\ Idle.rows = {}
  BY DEF Idle
<1>2. TxOK(c)'
  BY <1>1 DEF TxOK, Ended, PcsOf, Linking
<1>3. Pending(c)'
  BY DEF Ended, Pending
<1>4. Exclusive'
  BY <1>1, ExclusiveStays DEF Core, Ended
<1> QED BY <1>2, <1>3, <1>4

LEMMA RollbackCore ==
  ASSUME Core, NEW c \in Clients, Rollback(c)
  PROVE  Core'
<1>1. Ended(c) /\ UNCHANGED <<supplier, invoice>>
  BY RollbackEnds DEF Core
<1>2. Spares(c)
  <2>1. \A s \in used : wSup'[c][s] = Same
    BY <1>1 DEF Ended, Core, TypeOK
  <2>2. \A s \in Suppliers, o \in Clients \ {c} : wSup[o][s] # Same => supplier[s] = Gone
    BY DEF Core, Pending
  <2>3. \A i \in Invoices, o \in Clients \ {c} : wInv'[c][i] = Same
    BY <1>1 DEF Ended
  <2> QED BY <1>1, <2>1, <2>2, <2>3 DEF Spares, Ended
<1>3. TypeOK' /\ Known'
  BY <1>1 DEF Core, TypeOK, Known, Ended
<1> QED BY <1>1, <1>2, <1>3, EndedOK, SparesCore

\* What every commit does to the tables.
Commits(c) ==
  /\ Ended(c) /\ Typed
  /\ \A s \in Suppliers :
       \/ supplier'[s] \in {SupOf(c, s), Gone}
       \/ /\ supplier'[s] \in RowT /\ Free(c, s, supplier'[s])
          /\ \A t \in Suppliers \ {s} : supplier'[t] = SupOf(c, t)
  /\ \A i \in Invoices : invoice'[i] # Gone <=> InvOf(c, i) # Gone
  /\ \A i \in Invoices, o \in Clients \ {c} : wInv[o][i] # Same => invoice'[i] = InvOf(c, i)

LEMMA CommitsCore ==
  ASSUME Core, NEW c \in Clients, Commits(c)
  PROVE  Core'
<1>1. TypeOK'
  BY DEF Core, TypeOK, Commits, Ended, Typed
<1>2. \A s \in Suppliers : supplier'[s] # Gone => SupOf(c, s) # Gone
  BY DEF Commits, Free
<1>3. \A s \in Suppliers : SupOf(c, s) # Gone => s \in used
  BY DEF Core, Known, Pending, SupOf
<1>4. Known'
  BY <1>2, <1>3 DEF Known, Commits, Ended
<1>5. \A i \in Invoices : wInv[c][i] # Same => wInv[c][i] # Gone
  BY Apart DEF Core, TypeOK
<1>6. Spares(c)
  <2>1. bounds' = bounds /\ used \subseteq used' /\ OthersStay(c)
    BY DEF Commits, Ended
  <2>2. \A i \in Invoices : invoice[i] # Gone => invoice'[i] # Gone
    BY <1>5 DEF Commits, InvOf
  <2>3. \A i \in Invoices : invoice[i] = Gone /\ invoice'[i] # Gone => tx[c].kind = "parse"
    BY <1>5 DEF Commits, InvOf, Core, Pending
  <2>4. \A s \in used : wSup[c][s] = Same => wSup'[c][s] = Same
    BY DEF Commits, Ended, Core, TypeOK
  <2>5. \A s \in Suppliers, o \in Clients \ {c} : wSup[o][s] # Same => supplier'[s] = Gone
    BY <1>2 DEF Core, Pending, SupOf
  <2>6. \A i \in Invoices, o \in Clients \ {c} : wInv[o][i] # Same => wInv'[c][i] = Same
    BY DEF Commits, Ended
  <2> QED BY <2>1, <2>2, <2>3, <2>4, <2>5, <2>6 DEF Spares
<1>7. Ended(c)
  BY DEF Commits
<1> QED BY <1>1, <1>4, <1>6, <1>7, EndedOK, SparesCore

LEMMA LinkedIsCommit ==
  ASSUME Core, NEW c \in Clients, CommitLinked(c)
  PROVE  Commits(c)
<1>1. TypeOK
  BY DEF Core
<1> QED BY <1>1, LinkedCommits DEF Commits

LEMMA ClearIsCommit ==
  ASSUME Core, NEW c \in Clients, CommitClear(c)
  PROVE  Commits(c)
<1>1. TypeOK /\ TxOK(c)
  BY DEF Core
<1> DEFINE i == tx[c].inv
<1>2. /\ Ended(c) /\ Typed /\ MayTouch(c, {i}) /\ i \in Invoices /\ invoice'[i] \in InvoiceT
      /\ \A s \in Suppliers : supplier'[s] = SupOf(c, s)
      /\ \A j \in Invoices \ {i} : invoice'[j] = InvOf(c, j)
  BY <1>1, ClearCommits
<1>3. tx[c].kind = "clear" /\ InvOf(c, i) \in InvoiceT
  BY <1>1, <1>2, Found, Written, Apart DEF CommitClear, At
<1>4. \A j \in Invoices : invoice'[j] # Gone <=> InvOf(c, j) # Gone
  BY <1>2, <1>3, Apart
<1>5. \A j \in Invoices, o \in Clients \ {c} : wInv[o][j] # Same => invoice'[j] = InvOf(c, j)
  BY <1>2 DEF MayTouch
<1> QED BY <1>2, <1>4, <1>5 DEF Commits

LEMMA EditIsCommit ==
  ASSUME Core, NEW c \in Clients, CommitEdit(c), ~Rollback(c)
  PROVE  Commits(c)
<1>1. TypeOK /\ TxOK(c)
  BY DEF Core
<1> DEFINE i == tx[c].inv
           s == tx[c].src
<1>2. /\ Ended(c) /\ Typed /\ MayTouch(c, {i}) /\ i \in Invoices /\ s \in Suppliers
      /\ \A t \in Suppliers \ {s} : supplier'[t] = SupOf(c, t)
      /\ \/ supplier'[s] = SupOf(c, s)
         \/ supplier'[s] \in RowT /\ Free(c, s, supplier'[s])
      /\ \A j \in Invoices \ {i} : invoice'[j] = InvOf(c, j)
      /\ invoice'[i] \in InvoiceT
  BY <1>1, EditCommits
<1>3. InvOf(c, i) \in InvoiceT
  BY <1>1, <1>2, Found, Written, Apart DEF CommitEdit, At
<1>4. \A j \in Invoices : invoice'[j] # Gone <=> InvOf(c, j) # Gone
  BY <1>2, <1>3, Apart
<1>5. \A j \in Invoices, o \in Clients \ {c} : wInv[o][j] # Same => invoice'[j] = InvOf(c, j)
  BY <1>2 DEF MayTouch
<1>6. \A t \in Suppliers :
       \/ supplier'[t] \in {SupOf(c, t), Gone}
       \/ /\ supplier'[t] \in RowT /\ Free(c, t, supplier'[t])
          /\ \A u \in Suppliers \ {t} : supplier'[u] = SupOf(c, u)
  BY <1>2
<1> QED BY <1>2, <1>4, <1>5, <1>6 DEF Commits

LEMMA RenameIsCommit ==
  ASSUME Core, NEW c \in Clients, CommitRename(c), ~Rollback(c)
  PROVE  Commits(c)
<1>1. TypeOK /\ TxOK(c) /\ Pending(c)
  BY DEF Core
<1> DEFINE s == tx[c].src
<1>2. /\ Ended(c) /\ Typed /\ s \in Suppliers
      /\ \A t \in Suppliers \ {s} : supplier'[t] = SupOf(c, t)
      /\ \/ supplier'[s] = SupOf(c, s)
         \/ supplier'[s] \in RowT /\ Free(c, s, supplier'[s])
      /\ \A j \in Invoices : invoice'[j] = InvOf(c, j)
  BY <1>1, RenameCommits
<1>3. \A t \in Suppliers :
       \/ supplier'[t] \in {SupOf(c, t), Gone}
       \/ /\ supplier'[t] \in RowT /\ Free(c, t, supplier'[t])
          /\ \A u \in Suppliers \ {t} : supplier'[u] = SupOf(c, u)
  BY <1>2
<1> QED BY <1>2, <1>3 DEF Commits

LEMMA DeletionIsCommit ==
  ASSUME Core, NEW c \in Clients, CommitDeletion(c), ~Rollback(c)
  PROVE  Commits(c)
<1>1. TypeOK /\ TxOK(c)
  BY DEF Core
<1> DEFINE s == tx[c].src
           rows == tx[c].rows
<1>2. /\ Ended(c) /\ Typed /\ s \in Suppliers /\ MayTouch(c, rows)
      /\ \A t \in Suppliers \ {s} : supplier'[t] = SupOf(c, t)
      /\ supplier'[s] = Gone
      /\ \A i \in Invoices \ rows : invoice'[i] = InvOf(c, i)
      /\ \A i \in rows : i \in Invoices /\ InvOf(c, i) \in InvoiceT /\ invoice'[i] \in InvoiceT
  BY <1>1, DeletionCommits
<1>3. \A i \in Invoices : invoice'[i] # Gone <=> InvOf(c, i) # Gone
  BY <1>2, Apart
<1>4. \A i \in Invoices, o \in Clients \ {c} : wInv[o][i] # Same => invoice'[i] = InvOf(c, i)
  BY <1>2 DEF MayTouch
<1>5. \A t \in Suppliers : supplier'[t] \in {SupOf(c, t), Gone}
  BY <1>2
<1> QED BY <1>2, <1>3, <1>4, <1>5 DEF Commits

\* The steps of a handler: commits, rollbacks and the rest.
LEMMA Endings ==
  ASSUME Core, NEW c \in Clients,
         \/ Lost(c) \/ CommitLinked(c) \/ CommitEdit(c) \/ CommitClear(c)
         \/ CommitRename(c) \/ CommitDeletion(c) \/ Abort(c)
  PROVE  Rollback(c) \/ Commits(c)
BY LinkedIsCommit, ClearIsCommit, EditIsCommit, RenameIsCommit, DeletionIsCommit DEF Lost, Abort

\* A handler as it begins.
Began(c) ==
  LET q == tx'[c] IN
  /\ Reads(c) /\ tx[c] = Idle /\ q.kind \in bounds.kinds /\ q.rows = {}
  /\ Cardinality({o \in Clients : tx[o] # Idle}) < bounds.open
  /\ \/ q.kind = "create" /\ q.pc = "look" /\ q.src = None /\ q.want \in RowT
     \/ /\ q.kind = "parse" /\ q.pc = "look" /\ q.src = None /\ q.want \in RowT
        /\ q.inv \in Invoices /\ invoice[q.inv] = Gone /\ \A o \in Clients : tx[o].kind # "parse"
     \/ /\ q.kind = "edit" /\ q.pc = "look" /\ q.src = None /\ q.want \in RowT
        /\ q.inv \in Invoices /\ Editable(q.inv) /\ q.old = invoice[q.inv]
     \/ /\ q.kind = "clear" /\ q.pc = "flush" /\ q.src = None
        /\ q.inv \in Invoices /\ Editable(q.inv) /\ q.old = invoice[q.inv]
     \/ /\ q.kind = "rename" /\ q.pc = "scan" /\ q.src \in Suppliers /\ supplier[q.src] # Gone
        /\ q.seen = supplier[q.src] /\ q.want \in RowT /\ (bounds.innEdits \/ q.want.inn = q.seen.inn)
     \/ /\ q.kind = "merge" /\ q.pc = "scan" /\ q.src \in Suppliers /\ supplier[q.src] # Gone
        /\ q.dst \in Suppliers /\ supplier[q.dst] # Gone /\ q.src # q.dst /\ q.seen = supplier[q.dst]
     \/ /\ q.kind = "delete" /\ q.pc = "children" /\ q.src \in Suppliers /\ supplier[q.src] # Gone
        /\ q.seen = supplier[q.src] /\ LinkedTo(c, q.src) = {}

LEMMA BeginIs ==
  ASSUME Core, NEW c \in Clients, Begin(c)
  PROVE  Began(c)
<1>0. TypeOK /\ AllKinds = {"create", "parse", "edit", "clear", "rename", "merge", "delete"}
  BY DEF Core, AllKinds
<1>e. Idle \in TxT /\ Idle.src = None /\ Idle.rows = {}
  BY IdleTyped DEF Idle
<1>1. ASSUME NEW want \in RowT, StartCreate(c, want)
      PROVE  Began(c)
  <2> DEFINE r == [Idle EXCEPT !.pc = "look", !.want = want]
  <2>1. Start(c, "create", r)
    BY <1>1 DEF StartCreate
  <2>2. r \in TxT /\ r.pc = "look" /\ r.want = want /\ r.src = None /\ r.rows = {}
    BY <1>e DEF TxT, Pcs
  <2> HIDE DEF r
  <2> QED BY <2>1, <2>2, <1>0, <1>1, StartReads DEF Began, StartCreate
<1>2. ASSUME NEW want \in RowT, NEW i \in Invoices, StartParse(c, want, i)
      PROVE  Began(c)
  <2> DEFINE r == [Idle EXCEPT !.pc = "look", !.want = want, !.inv = i]
  <2>1. Start(c, "parse", r)
    BY <1>2 DEF StartParse
  <2>2. r \in TxT /\ r.pc = "look" /\ r.want = want /\ r.inv = i /\ r.src = None /\ r.rows = {}
    BY <1>e DEF TxT, Pcs
  <2> HIDE DEF r
  <2> QED BY <2>1, <2>2, <1>0, <1>2, StartReads DEF Began, StartParse
<1>3. ASSUME NEW want \in RowT, NEW i \in Invoices, StartEdit(c, want, i)
      PROVE  Began(c)
  <2> DEFINE r == [Idle EXCEPT !.pc = "look", !.want = want, !.inv = i, !.old = invoice[i]]
  <2>0. invoice[i] \in InvoiceT
    BY <1>0, <1>3 DEF StartEdit, Editable, TypeOK
  <2>1. Start(c, "edit", r)
    BY <1>3 DEF StartEdit
  <2>2. r \in TxT /\ r.pc = "look" /\ r.want = want /\ r.inv = i /\ r.old = invoice[i] /\ r.src = None /\ r.rows = {}
    BY <1>e, <2>0 DEF TxT, Pcs
  <2> HIDE DEF r
  <2> QED BY <2>1, <2>2, <1>0, <1>3, StartReads DEF Began, StartEdit
<1>4. ASSUME NEW i \in Invoices, StartClear(c, i)
      PROVE  Began(c)
  <2> DEFINE r == [Idle EXCEPT !.pc = "flush", !.inv = i, !.old = invoice[i]]
  <2>0. invoice[i] \in InvoiceT
    BY <1>0, <1>4 DEF StartClear, Editable, TypeOK
  <2>1. Start(c, "clear", r)
    BY <1>4 DEF StartClear
  <2>2. r \in TxT /\ r.pc = "flush" /\ r.inv = i /\ r.old = invoice[i] /\ r.src = None /\ r.rows = {}
    BY <1>e, <2>0 DEF TxT, Pcs
  <2> HIDE DEF r
  <2> QED BY <2>1, <2>2, <1>0, <1>4, StartReads DEF Began, StartClear
<1>5. ASSUME NEW s \in Suppliers, NEW want \in RowT, StartRename(c, s, want)
      PROVE  Began(c)
  <2> DEFINE r == [Idle EXCEPT !.pc = "scan", !.src = s, !.want = want, !.seen = supplier[s]]
  <2>0. supplier[s] \in RowT
    BY <1>0, <1>5 DEF StartRename, TypeOK
  <2>1. Start(c, "rename", r)
    BY <1>5 DEF StartRename
  <2>2. r \in TxT /\ r.pc = "scan" /\ r.src = s /\ r.want = want /\ r.seen = supplier[s] /\ r.rows = {}
    BY <1>e, <2>0 DEF TxT, Pcs
  <2> HIDE DEF r
  <2> QED BY <2>1, <2>2, <1>0, <1>5, StartReads DEF Began, StartRename
<1>6. ASSUME NEW s \in Suppliers, NEW d \in Suppliers, StartMerge(c, s, d)
      PROVE  Began(c)
  <2> DEFINE r == [Idle EXCEPT !.pc = "scan", !.src = s, !.dst = d, !.seen = supplier[d]]
  <2>0. supplier[d] \in RowT
    BY <1>0, <1>6 DEF StartMerge, TypeOK
  <2>1. Start(c, "merge", r)
    BY <1>6 DEF StartMerge
  <2>2. r \in TxT /\ r.pc = "scan" /\ r.src = s /\ r.dst = d /\ r.seen = supplier[d] /\ r.rows = {}
    BY <1>e, <2>0 DEF TxT, Pcs
  <2> HIDE DEF r
  <2> QED BY <2>1, <2>2, <1>0, <1>6, StartReads DEF Began, StartMerge
<1>7. ASSUME NEW s \in Suppliers, StartDelete(c, s)
      PROVE  Began(c)
  <2> DEFINE r == [Idle EXCEPT !.pc = "children", !.src = s, !.seen = supplier[s]]
  <2>0. supplier[s] \in RowT
    BY <1>0, <1>7 DEF StartDelete, TypeOK
  <2>1. Start(c, "delete", r)
    BY <1>7 DEF StartDelete
  <2>2. r \in TxT /\ r.pc = "children" /\ r.src = s /\ r.seen = supplier[s] /\ r.rows = {}
    BY <1>e, <2>0 DEF TxT, Pcs
  <2> HIDE DEF r
  <2> QED BY <2>1, <2>2, <1>0, <1>7, StartReads DEF Began, StartDelete
<1> QED BY <1>1, <1>2, <1>3, <1>4, <1>5, <1>6, <1>7 DEF Begin

\* A supplier that is there is nobody's pending row.
LEMMA ThereIsNotPending ==
  ASSUME Core, NEW c \in Clients, NEW s \in Suppliers, SupOf(c, s) # Gone
  PROVE  s \in used /\ \A o \in Clients \ {c} : wSup[o][s] = Same
BY DEF Core, Known, Pending, SupOf

LEMMA BeginCore ==
  ASSUME Core, NEW c \in Clients, Began(c)
  PROVE  Core'
<1>0. TypeOK /\ TxOK(c) /\ Pending(c) /\ Exclusive /\ Reads(c)
  BY DEF Core, Began
<1>1. tx[c].kind = "none" /\ tx[c].pc = "idle"
  BY DEF Began, Idle
<1>2. \A s \in Suppliers : wSup[c][s] = Same /\ SupOf(c, s) = supplier[s]
  BY <1>0, <1>1, NothingPending DEF Linking
<1>3. \A i \in Invoices : wInv[c][i] = Same
  BY <1>0, <1>1, NothingPending
<1>4. Pending(c)'
  BY <1>0, <1>2, <1>3 DEF Pending, Reads
<1>5. Exclusive'
  BY <1>0 DEF Began, Exclusive, OthersStay, Reads, Editable
<1>6. TxOK(c)'
  <2>1. UNCHANGED <<supplier, invoice, used, wSup, wInv, bounds>>
    BY <1>0 DEF Reads
  <2>2. \A s \in Suppliers : supplier[s] # Gone =>
          supplier[s] \in RowT /\ s \in used /\ \A o \in Clients \ {c} : wSup[o][s] = Same
    BY <1>0, <1>2, ThereIsNotPending DEF TypeOK
  <2>3. \A i \in Invoices : Editable(i) => invoice[i] # Gone /\ invoice[i] \in InvoiceT
    BY <1>0 DEF Editable, TypeOK
  <2>4. tx'[c].kind \in bounds.kinds /\ tx'[c].rows = {}
    BY DEF Began
  <2>5. CASE tx'[c].kind = "create" /\ tx'[c].pc = "look" /\ tx'[c].src = None /\ tx'[c].want \in RowT
    BY <2>1, <2>4, <2>5 DEF TxOK, PcsOf, Linking, Searching
  <2>6. CASE /\ tx'[c].kind = "parse" /\ tx'[c].pc = "look" /\ tx'[c].src = None /\ tx'[c].want \in RowT
             /\ tx'[c].inv \in Invoices /\ invoice[tx'[c].inv] = Gone
    BY <2>1, <2>4, <2>6 DEF TxOK, PcsOf, Linking, Searching
  <2>7. CASE /\ tx'[c].kind = "edit" /\ tx'[c].pc = "look" /\ tx'[c].src = None /\ tx'[c].want \in RowT
             /\ tx'[c].inv \in Invoices /\ Editable(tx'[c].inv) /\ tx'[c].old = invoice[tx'[c].inv]
    BY <2>1, <2>3, <2>4, <2>7 DEF TxOK, PcsOf, Linking, Searching
  <2>8. CASE /\ tx'[c].kind = "clear" /\ tx'[c].pc = "flush" /\ tx'[c].src = None
             /\ tx'[c].inv \in Invoices /\ Editable(tx'[c].inv) /\ tx'[c].old = invoice[tx'[c].inv]
    BY <2>1, <2>3, <2>4, <2>8 DEF TxOK, PcsOf, Linking, Searching
  <2>9. CASE /\ tx'[c].kind = "rename" /\ tx'[c].pc = "scan" /\ tx'[c].src \in Suppliers /\ supplier[tx'[c].src] # Gone
             /\ tx'[c].seen = supplier[tx'[c].src] /\ tx'[c].want \in RowT
    BY <2>1, <2>2, <2>4, <2>9 DEF TxOK, PcsOf, Linking, Searching
  <2>10. CASE /\ tx'[c].kind = "merge" /\ tx'[c].pc = "scan" /\ tx'[c].src \in Suppliers /\ supplier[tx'[c].src] # Gone
              /\ tx'[c].dst \in Suppliers /\ supplier[tx'[c].dst] # Gone /\ tx'[c].src # tx'[c].dst
              /\ tx'[c].seen = supplier[tx'[c].dst]
    BY <2>1, <2>2, <2>4, <2>10 DEF TxOK, PcsOf, Linking, Searching
  <2>11. CASE /\ tx'[c].kind = "delete" /\ tx'[c].pc = "children" /\ tx'[c].src \in Suppliers
              /\ supplier[tx'[c].src] # Gone /\ tx'[c].seen = supplier[tx'[c].src]
    BY <2>1, <2>2, <2>4, <2>11 DEF TxOK, PcsOf, Linking, Searching
  <2> QED BY <2>5, <2>6, <2>7, <2>8, <2>9, <2>10, <2>11 DEF Began
<1> QED BY <1>0, <1>4, <1>5, <1>6, ReadsSpare, SparesCore

LEMMA FindCore ==
  ASSUME Core, NEW c \in Clients, Look(c) \/ Relook(c)
  PROVE  Core'
<1> DEFINE missing == IF tx[c].pc = "look" THEN "insert" ELSE "lost"
<1>0. TypeOK /\ TxOK(c) /\ Pending(c) /\ Exclusive
  BY DEF Core
<1>1. tx[c].kind \in Linking /\ tx[c].pc \in {"look", "relook"} /\ Find(c, missing) /\ missing \in Pcs
  BY DEF Look, Relook, At, Pcs
<1>2. /\ Reads(c)
      /\ tx'[c].kind = tx[c].kind /\ tx'[c].want = tx[c].want /\ tx'[c].inv = tx[c].inv
      /\ tx'[c].old = tx[c].old /\ tx'[c].dst = tx[c].dst /\ tx'[c].rows = tx[c].rows
      /\ \/ tx'[c].pc = missing /\ tx'[c].src = tx[c].src /\ tx'[c].seen = tx[c].seen
         \/ /\ tx'[c].src \in Holders(c, tx[c].want) /\ tx'[c].pc = AfterFound(c)
            /\ tx'[c].seen = SupOf(c, tx'[c].src)
  BY <1>0, <1>1, FindReads
<1>3. UNCHANGED <<supplier, invoice, used, wSup, wInv, bounds>>
  BY <1>2 DEF Reads
<1>4. \A s \in Holders(c, tx[c].want) :
        /\ SupOf(c, s) \in RowT /\ Key(SupOf(c, s)) = Key(tx[c].want)
        /\ s \in Suppliers /\ s \in used /\ \A o \in Clients \ {c} : wSup[o][s] = Same
  BY <1>0, Seen, ThereIsNotPending DEF Holders
<1>5. tx[c].kind \in {"create", "parse", "edit"}
  BY <1>1 DEF Linking
<1>6. CASE tx'[c].pc = missing /\ tx'[c].src = tx[c].src /\ tx'[c].seen = tx[c].seen
  <2>1. tx'[c].pc \in {"insert", "lost"} /\ (tx[c].pc = "look" => tx'[c].pc = "insert")
        /\ (tx[c].pc = "relook" => tx'[c].pc = "lost")
    BY <1>1, <1>6
  <2>2. TxOK(c)'
    BY <1>0, <1>2, <1>3, <1>5, <1>6, <2>1 DEF TxOK, PcsOf, Linking, Searching
  <2>3. Pending(c)'
    BY <1>0, <1>1, <1>2, <1>3, <1>5, <2>1 DEF Pending
  <2> QED BY <1>0, <1>2, <2>2, <2>3, ReadsSpare, SparesCore, ExclusiveStays DEF Reads
<1>7. CASE tx'[c].src \in Holders(c, tx[c].want) /\ tx'[c].pc = AfterFound(c) /\ tx'[c].seen = SupOf(c, tx'[c].src)
  <2>1. /\ tx[c].kind = "create" => tx'[c].pc = "flush"
        /\ tx[c].kind = "parse" => tx'[c].pc = "link"
        /\ tx[c].kind = "edit" => tx'[c].pc = "scan"
    BY <1>7 DEF AfterFound
  <2>2. /\ tx'[c].seen \in RowT /\ Key(tx'[c].seen) = Key(tx[c].want)
        /\ tx'[c].src \in Suppliers /\ tx'[c].src \in used /\ \A o \in Clients \ {c} : wSup[o][tx'[c].src] = Same
    BY <1>4, <1>7
  <2>3. TxOK(c)'
    BY <1>0, <1>2, <1>3, <1>5, <2>1, <2>2 DEF TxOK, PcsOf, Linking, Searching
  <2>4. Pending(c)'
    BY <1>0, <1>1, <1>2, <1>3, <1>5, <2>1 DEF Pending
  <2> QED BY <1>0, <1>2, <2>3, <2>4, ReadsSpare, SparesCore, ExclusiveStays DEF Reads
<1> QED BY <1>2, <1>6, <1>7

LEMMA ScanCore ==
  ASSUME Core, NEW c \in Clients, Scan(c)
  PROVE  Core'
<1>0. TypeOK /\ TxOK(c) /\ Pending(c) /\ Exclusive
  BY DEF Core
<1>1. tx[c].kind \in {"edit", "rename", "merge"} /\ tx[c].pc = "scan"
  BY DEF Scan, At
<1>2. /\ Reads(c)
      /\ tx'[c].kind = tx[c].kind /\ tx'[c].want = tx[c].want /\ tx'[c].inv = tx[c].inv
      /\ tx'[c].old = tx[c].old /\ tx'[c].dst = tx[c].dst /\ tx'[c].src = tx[c].src
      /\ tx'[c].seen = tx[c].seen /\ tx'[c].rows = LinkedTo(c, tx[c].src)
      /\ (tx'[c].pc = "flush" /\ tx[c].kind = "edit") \/ tx'[c].pc = "cascade"
  BY <1>0, ScanReads
<1>3. UNCHANGED <<supplier, invoice, used, wSup, wInv, bounds>>
  BY <1>2 DEF Reads
<1>4. \A i \in Invoices : wInv[c][i] = Same /\ InvOf(c, i) = invoice[i]
  BY <1>0, <1>1, NothingPending
<1>5. \A i \in LinkedTo(c, tx[c].src) : i \in Invoices /\ invoice[i] # Gone
  BY <1>4 DEF LinkedTo
<1>6. TxOK(c)'
  BY <1>0, <1>1, <1>2, <1>3, <1>5 DEF TxOK, PcsOf, Linking, Searching
<1>7. Pending(c)'
  BY <1>0, <1>1, <1>2, <1>3, <1>4 DEF Pending
<1> QED BY <1>0, <1>2, <1>6, <1>7, ReadsSpare, SparesCore, ExclusiveStays DEF Reads

LEMMA ChildrenCore ==
  ASSUME Core, NEW c \in Clients, Children(c)
  PROVE  Core'
<1>0. TypeOK /\ TxOK(c) /\ Pending(c) /\ Exclusive
  BY DEF Core
<1>1. tx[c].kind \in {"merge", "delete"} /\ tx[c].pc = "children"
  BY DEF Children, At
<1>2. /\ Reads(c)
      /\ tx'[c].kind = tx[c].kind /\ tx'[c].want = tx[c].want /\ tx'[c].inv = tx[c].inv
      /\ tx'[c].old = tx[c].old /\ tx'[c].dst = tx[c].dst /\ tx'[c].src = tx[c].src
      /\ tx'[c].seen = tx[c].seen /\ tx'[c].rows = LinkedTo(c, tx[c].src) /\ tx'[c].pc = "flush"
  BY <1>0, ChildrenReads
<1>3. UNCHANGED <<supplier, invoice, used, wSup, wInv, bounds>>
  BY <1>2 DEF Reads
<1>4. \A i \in LinkedTo(c, tx[c].src) : i \in Invoices /\ invoice[i] # Gone
  BY <1>0, <1>1 DEF LinkedTo, InvOf, Pending
<1>5. TxOK(c)'
  BY <1>0, <1>1, <1>2, <1>3, <1>4 DEF TxOK, PcsOf, Linking, Searching
<1>6. Pending(c)'
  BY <1>0, <1>1, <1>2, <1>3 DEF Pending
<1> QED BY <1>0, <1>2, <1>5, <1>6, ReadsSpare, SparesCore, ExclusiveStays DEF Reads

LEMMA InsertCore ==
  ASSUME Core, NEW c \in Clients, Insert(c)
  PROVE  Core'
<1>0. TypeOK /\ TxOK(c) /\ Pending(c) /\ Exclusive /\ Known
  BY DEF Core
<1>1. tx[c].kind \in {"create", "parse", "edit"} /\ tx[c].pc = "insert" /\ tx[c].kind \in Linking
  BY DEF Insert, At, Linking
<1>2. tx[c].want \in RowT
  BY <1>0, <1>1, Found
<1>3. /\ UNCHANGED <<supplier, invoice, wInv, bounds>> /\ OthersStay(c)
      /\ tx' \in [Clients -> TxT]
      /\ tx'[c].kind = tx[c].kind /\ tx'[c].want = tx[c].want /\ tx'[c].inv = tx[c].inv
      /\ tx'[c].old = tx[c].old /\ tx'[c].dst = tx[c].dst /\ tx'[c].src = tx[c].src
      /\ tx'[c].seen = tx[c].seen /\ tx'[c].rows = tx[c].rows /\ tx'[c].pc = "relook"
      /\ wSup' \in [Clients -> [Suppliers -> RowT \cup {Same}]]
      /\ \/ used' = used /\ wSup' = wSup
         \/ \E s \in Suppliers \ used :
              /\ used' = used \cup {s} /\ wSup'[c][s] = tx[c].want
              /\ \A t \in Suppliers \ {s} : wSup'[c][t] = wSup[c][t]
  BY <1>0, <1>2, InsertMoves
<1>4. \A s \in Suppliers : wSup[c][s] = Same
  BY <1>0, <1>1, NothingPending
<1>5. used \subseteq used' /\ used' \subseteq Suppliers /\ \A s \in used : wSup'[c][s] = wSup[c][s]
  BY <1>0, <1>3 DEF TypeOK
<1>6. \A s \in Suppliers : wSup'[c][s] # Same =>
        wSup'[c][s] = tx[c].want /\ s \in used' /\ s \notin used
  BY <1>3, <1>4
<1>7. Spares(c)
  <2>1. \A i \in Invoices, o \in Clients \ {c} : wInv[o][i] # Same => wInv'[c][i] = Same
    BY <1>3 DEF Core, Pending
  <2>2. \A s \in Suppliers, o \in Clients \ {c} : wSup[o][s] # Same => supplier'[s] = Gone
    BY <1>3 DEF Core, Pending
  <2> QED BY <1>3, <1>5, <2>1, <2>2 DEF Spares
<1>8. TypeOK'
  BY <1>0, <1>3, <1>5 DEF TypeOK
<1>9. Known'
  BY <1>0, <1>3, <1>5 DEF Known
<1>10. TxOK(c)'
  BY <1>0, <1>1, <1>3, <1>5 DEF TxOK, PcsOf, Linking, Searching, OthersStay
<1>11. Pending(c)'
  <2>1. \A s \in Suppliers : s \notin used => supplier'[s] = Gone /\ \A o \in Clients \ {c} : wSup'[o][s] = Same
    BY <1>0, <1>3 DEF Known, Core, Pending, OthersStay
  <2> QED BY <1>0, <1>1, <1>3, <1>6, <2>1 DEF Pending, OthersStay
<1> QED BY <1>3, <1>0, <1>7, <1>8, <1>9, <1>10, <1>11, ExclusiveStays, SparesCore

LEMMA LinkCore ==
  ASSUME Core, NEW c \in Clients, Link(c)
  PROVE  Core'
<1>0. TypeOK /\ TxOK(c) /\ Pending(c) /\ Exclusive /\ Known
  BY DEF Core
<1> DEFINE i == tx[c].inv
<1>1. tx[c].kind = "parse" /\ tx[c].pc = "link"
  BY DEF Link, At
<1>2. i \in Invoices /\ invoice[i] = Gone
  BY <1>0, <1>1, Found
<1>3. CASE Rollback(c)
  BY <1>3, RollbackCore
<1>4. CASE ~Rollback(c)
  <2>1. /\ UNCHANGED <<supplier, invoice, used, wSup, bounds>> /\ OthersStay(c)
        /\ tx' \in [Clients -> TxT]
        /\ tx'[c].kind = tx[c].kind /\ tx'[c].want = tx[c].want /\ tx'[c].inv = tx[c].inv
        /\ tx'[c].old = tx[c].old /\ tx'[c].dst = tx[c].dst /\ tx'[c].src = tx[c].src
        /\ tx'[c].seen = tx[c].seen /\ tx'[c].rows = tx[c].rows /\ tx'[c].pc = "flush"
        /\ wInv' \in [Clients -> [Invoices -> InvoiceT \cup {Same}]]
        /\ \A j \in Invoices \ {i} : wInv'[c][j] = wInv[c][j]
    BY <1>0, <1>4, LinkMoves
  <2>2. \A j \in Invoices : wInv[c][j] = Same
    BY <1>0, <1>1, NothingPending
  <2>3. \A o \in Clients \ {c} : wInv[o][i] = Same
    BY <1>1, <1>2, <1>0 DEF Core, Pending, Exclusive
  <2>4. Spares(c)
    <3>1. \A s \in Suppliers, o \in Clients \ {c} : wSup[o][s] # Same => supplier'[s] = Gone
      BY <2>1 DEF Core, Pending
    <3>2. \A j \in Invoices, o \in Clients \ {c} : wInv[o][j] # Same => wInv'[c][j] = Same
      BY <2>1, <2>2, <2>3
    <3> QED BY <2>1, <3>1, <3>2 DEF Spares
  <2>5. TypeOK' /\ Known'
    BY <1>0, <2>1 DEF TypeOK, Known
  <2>6. TxOK(c)'
    BY <1>0, <1>1, <2>1 DEF TxOK, PcsOf, Linking, Searching
  <2>7. Pending(c)'
    <3>1. \A j \in Invoices : wInv'[c][j] # Same => j = i
      BY <2>1, <2>2
    <3>2. \A o \in Clients \ {c} : wInv'[o][i] = Same
      BY <2>1, <2>3 DEF OthersStay
    <3> QED BY <1>0, <1>1, <1>2, <2>1, <3>1, <3>2 DEF Pending, OthersStay, Linking
  <2> QED BY <1>0, <2>1, <2>4, <2>5, <2>6, <2>7, ExclusiveStays, SparesCore
<1> QED BY <1>3, <1>4

LEMMA CascadeCore ==
  ASSUME Core, NEW c \in Clients, Cascade(c)
  PROVE  Core'
<1>0. TypeOK /\ TxOK(c) /\ Pending(c) /\ Exclusive /\ Known
  BY DEF Core
<1>1. tx[c].kind \in {"edit", "rename", "merge"} /\ tx[c].pc = "cascade"
  BY DEF Cascade, At
<1>2. CASE Rollback(c)
  BY <1>2, RollbackCore
<1>3. CASE ~Rollback(c)
  <2>1. /\ UNCHANGED <<supplier, invoice, used, wSup, bounds>> /\ OthersStay(c)
        /\ tx' \in [Clients -> TxT]
        /\ tx'[c].kind = tx[c].kind /\ tx'[c].want = tx[c].want /\ tx'[c].inv = tx[c].inv
        /\ tx'[c].old = tx[c].old /\ tx'[c].dst = tx[c].dst /\ tx'[c].src = tx[c].src
        /\ tx'[c].seen = tx[c].seen /\ tx'[c].rows = {}
        /\ tx'[c].pc = IF tx[c].kind = "merge" THEN "children" ELSE "flush"
        /\ MayTouch(c, tx[c].rows)
        /\ wInv' \in [Clients -> [Invoices -> InvoiceT \cup {Same}]]
        /\ \A i \in Invoices : i \notin Reached(c) => wInv'[c][i] = wInv[c][i]
    BY <1>0, <1>3, CascadeMoves
  <2>2. \A i \in Invoices : wInv[c][i] = Same
    BY <1>0, <1>1, NothingPending
  <2>3. \A i \in Invoices : wInv'[c][i] # Same =>
          /\ i \in tx[c].rows /\ invoice[i] # Gone
          /\ \A o \in Clients \ {c} : wInv[o][i] = Same
    BY <1>0, <2>1, <2>2 DEF Reached, MayTouch, TxOK
  <2>4. Spares(c)
    <3>1. \A s \in Suppliers, o \in Clients \ {c} : wSup[o][s] # Same => supplier'[s] = Gone
      BY <2>1 DEF Core, Pending
    <3> QED BY <2>1, <2>3, <3>1 DEF Spares
  <2>5. TypeOK' /\ Known'
    BY <1>0, <2>1 DEF TypeOK, Known
  <2>6. TxOK(c)'
    BY <1>0, <1>1, <2>1 DEF TxOK, PcsOf, Linking, Searching
  <2>7. Pending(c)'
    <3>1. \A i \in Invoices : wInv'[c][i] # Same => \A o \in Clients \ {c} : wInv'[o][i] = Same
      BY <2>1, <2>3 DEF OthersStay
    <3> QED BY <1>0, <1>1, <2>1, <2>3, <3>1 DEF Pending, OthersStay
  <2> QED BY <1>0, <2>1, <2>4, <2>5, <2>6, <2>7, ExclusiveStays, SparesCore
<1> QED BY <1>2, <1>3

LEMMA StepCore ==
  ASSUME Core, [Next]_vars
  PROVE  Core'
<1>1. CASE UNCHANGED vars
  BY <1>1 DEF vars, Core, TypeOK, TxOK, Pending, Exclusive, Known
<1>2. ASSUME NEW c \in Clients, Begin(c) \/ Step(c)
      PROVE  Core'
  BY <1>2, BeginIs, BeginCore, FindCore, InsertCore, LinkCore, ScanCore, CascadeCore, ChildrenCore,
     Endings, RollbackCore, CommitsCore DEF Step
<1> QED BY <1>1, <1>2 DEF Next

LEMMA InitCore ==
  ASSUME Init
  PROVE  Core
<1>1. Idle.kind = "none" /\ Idle.pc = "idle" /\ Idle.src = None /\ Idle.rows = {}
  BY DEF Idle
<1>2. \A c \in Clients : tx[c] = Idle /\ (\A s \in Suppliers : wSup[c][s] = Same)
        /\ \A i \in Invoices : wInv[c][i] = Same
  BY DEF Init, NoWrites
<1>3. TypeOK
  BY IdleTyped, ConstantsAssumption DEF Init, NoWrites, TypeOK
<1>4. \A c \in Clients : TxOK(c) /\ Pending(c)
  BY <1>1, <1>2 DEF TxOK, Pending, PcsOf, Linking
<1>5. Exclusive /\ Known
  BY <1>1, <1>2 DEF Init, Exclusive, Known
<1> QED BY <1>3, <1>4, <1>5 DEF Core

\* In every reachable state each handler of crud/suppliers.py and routers/invoices.py
\* knows what it has found, and no row has been written by two open transactions.
THEOREM CoreHolds == Spec => []Core
BY InitCore, StepCore, PTL DEF Spec

-----------------------------------------------------------------------------
(* No two suppliers have the same key.                                      *)

\* A key nobody holds and nobody waits for is apart from all others.
LEMMA FreeKey ==
  ASSUME Core, NEW c \in Clients, NEW s \in Suppliers, NEW row \in RowT,
         ~KeyBusy(c, row), Holders(c, row) \subseteq {s}
  PROVE  /\ \A t \in Suppliers \ {s} : SupOf(c, t) # Gone => Key(SupOf(c, t)) # Key(row)
         /\ \A o \in Clients \ {c}, t \in Suppliers : wSup[o][t] # Same => Key(wSup[o][t]) # Key(row)
<1>1. \A t \in Suppliers \ {s} : SupOf(c, t) # Gone => Key(SupOf(c, t)) # Key(row)
  BY DEF Holders
<1>2. \A o \in Clients \ {c}, t \in Suppliers : wSup[o][t] # Same => Key(wSup[o][t]) # Key(row)
  <2> SUFFICES ASSUME NEW o \in Clients \ {c}, NEW t \in Suppliers, wSup[o][t] # Same
      PROVE  Key(wSup[o][t]) # Key(row)
    OBVIOUS
  <2>1. wSup[o][t] # Gone
    BY Apart DEF Core, TypeOK
  <2> QED BY <2>1 DEF KeyBusy
<1> QED BY <1>1, <1>2

LEMMA InsertKeys ==
  ASSUME Core, KeysApart, NEW c \in Clients, Insert(c)
  PROVE  KeysApart'
<1>0. TypeOK /\ TxOK(c) /\ Pending(c)
  BY DEF Core
<1>1. tx[c].kind \in Linking /\ tx[c].pc = "insert"
  BY DEF Insert, At
<1>2. tx[c].want \in RowT
  BY <1>0, <1>1, Found
<1>3. /\ UNCHANGED <<supplier, invoice, wInv, bounds>> /\ OthersStay(c)
      /\ ~KeyBusy(c, tx[c].want)
      /\ \/ wSup' = wSup
         \/ /\ Holders(c, tx[c].want) = {}
            /\ \E s \in Suppliers \ used :
              /\ used' = used \cup {s} /\ wSup'[c][s] = tx[c].want
              /\ \A t \in Suppliers \ {s} : wSup'[c][t] = wSup[c][t]
  BY <1>0, <1>2, InsertMoves
<1>4. \A s \in Suppliers : wSup[c][s] = Same /\ SupOf(c, s) = supplier[s]
  BY <1>0, <1>1, NothingPending
<1>5. CASE wSup' = wSup
  BY <1>3, <1>5 DEF KeysApart
<1>6. CASE Holders(c, tx[c].want) = {} /\ wSup' # wSup
  <2>1. PICK s \in Suppliers \ used :
              /\ used' = used \cup {s} /\ wSup'[c][s] = tx[c].want
              /\ \A t \in Suppliers \ {s} : wSup'[c][t] = wSup[c][t]
    BY <1>3, <1>6
  <2>2. /\ \A t \in Suppliers \ {s} : supplier[t] # Gone => Key(supplier[t]) # Key(tx[c].want)
        /\ \A o \in Clients \ {c}, t \in Suppliers : wSup[o][t] # Same => Key(wSup[o][t]) # Key(tx[c].want)
    BY <1>2, <1>3, <1>4, <1>6, FreeKey
  <2>3. \A o \in Clients, t \in Suppliers : wSup'[o][t] # Same =>
           \/ wSup'[o][t] = wSup[o][t] /\ o # c
           \/ o = c /\ t = s /\ wSup'[o][t] = tx[c].want
    BY <1>3, <1>4, <2>1 DEF OthersStay
  <2>4. supplier' = supplier
    BY <1>3
  <2> QED BY <2>2, <2>3, <2>4 DEF KeysApart
<1> QED BY <1>3, <1>5, <1>6

LEMMA EndedKeys ==
  ASSUME Core, KeysApart, NEW c \in Clients, Rollback(c) \/ Commits(c)
  PROVE  KeysApart'
<1>1. CASE Rollback(c)
  <2>1. Ended(c) /\ supplier' = supplier
    BY <1>1, RollbackEnds DEF Core
  <2>2. \A o \in Clients, t \in Suppliers : wSup'[o][t] # Same => o # c /\ wSup'[o][t] = wSup[o][t]
    BY <2>1 DEF Ended, OthersStay
  <2> QED BY <2>1, <2>2 DEF KeysApart
<1>2. CASE Commits(c)
  <2>1. \A o \in Clients, t \in Suppliers : wSup'[o][t] # Same => o # c /\ wSup'[o][t] = wSup[o][t]
    BY <1>2 DEF Commits, Ended, OthersStay
  <2>2. \A s, t \in Suppliers : s # t =>
          /\ SupOf(c, s) # Gone /\ SupOf(c, t) # Gone => Key(SupOf(c, s)) # Key(SupOf(c, t))
          /\ \A o \in Clients \ {c} : wSup[o][s] # Same /\ SupOf(c, t) # Gone => Key(wSup[o][s]) # Key(SupOf(c, t))
    BY DEF KeysApart, SupOf
  <2>3. \A s, t \in Suppliers : s # t /\ supplier'[s] # Gone =>
          /\ SupOf(c, t) # Gone /\ supplier'[t] = SupOf(c, t) => Key(supplier'[s]) # Key(SupOf(c, t))
          /\ \A o \in Clients \ {c} : wSup[o][t] # Same => Key(wSup[o][t]) # Key(supplier'[s])
    <3> SUFFICES ASSUME NEW s \in Suppliers, NEW t \in Suppliers, s # t, supplier'[s] # Gone
        PROVE  /\ SupOf(c, t) # Gone /\ supplier'[t] = SupOf(c, t) => Key(supplier'[s]) # Key(SupOf(c, t))
               /\ \A o \in Clients \ {c} : wSup[o][t] # Same => Key(wSup[o][t]) # Key(supplier'[s])
      OBVIOUS
    <3>1. CASE supplier'[s] = SupOf(c, s)
      BY <3>1, <2>2
    <3>2. CASE supplier'[s] \in RowT /\ Free(c, s, supplier'[s])
      <4>1. ~KeyBusy(c, supplier'[s]) /\ Holders(c, supplier'[s]) \subseteq {s}
        BY <3>2 DEF Free
      <4> QED BY <3>2, <4>1, FreeKey
    <3> QED BY <3>1, <3>2, <1>2 DEF Commits
  <2>4. \A s, t \in Suppliers : s # t /\ supplier'[s] # Gone /\ supplier'[t] # Gone =>
          Key(supplier'[s]) # Key(supplier'[t])
    <3> SUFFICES ASSUME NEW s \in Suppliers, NEW t \in Suppliers, s # t, supplier'[s] # Gone, supplier'[t] # Gone
        PROVE  Key(supplier'[s]) # Key(supplier'[t])
      OBVIOUS
    <3>1. CASE supplier'[t] = SupOf(c, t)
      BY <3>1, <2>3
    <3>2. CASE supplier'[t] # SupOf(c, t)
      <4>1. supplier'[s] = SupOf(c, s)
        BY <3>2, <1>2 DEF Commits
      <4> QED BY <4>1, <2>3
    <3> QED BY <3>1, <3>2
  <2> QED BY <2>1, <2>3, <2>4 DEF KeysApart
<1> QED BY <1>1, <1>2

LEMMA StepKeys ==
  ASSUME Core, KeysApart, [Next]_vars
  PROVE  KeysApart'
<1>1. ASSUME supplier' = supplier, wSup' = wSup
      PROVE  KeysApart'
  BY <1>1 DEF KeysApart
<1>2. CASE UNCHANGED vars
  BY <1>1, <1>2 DEF vars
<1>3. ASSUME NEW c \in Clients, Begin(c) \/ Step(c)
      PROVE  KeysApart'
  <2>0. TypeOK /\ TxOK(c)
    BY DEF Core
  <2>1. CASE Begin(c)
    BY <2>1, <1>1, BeginIs DEF Began, Reads
  <2>2. CASE Look(c) \/ Relook(c) \/ Scan(c) \/ Children(c)
    BY <2>2, <1>1 DEF Look, Relook, Find, Scan, Children
  <2>3. CASE Insert(c)
    BY <2>3, InsertKeys
  <2>4. CASE Link(c) \/ Cascade(c)
    BY <2>4, <2>0, <1>1, EndedKeys, LinkMoves, CascadeMoves
  <2>5. CASE \/ Lost(c) \/ CommitLinked(c) \/ CommitEdit(c) \/ CommitClear(c)
             \/ CommitRename(c) \/ CommitDeletion(c) \/ Abort(c)
    BY <2>5, Endings, EndedKeys
  <2> QED BY <1>3, <2>1, <2>2, <2>3, <2>4, <2>5 DEF Step
<1> QED BY <1>2, <1>3 DEF Next

LEMMA InitKeys ==
  ASSUME Init
  PROVE  KeysApart
BY DEF Init, KeysApart, NoWrites

-----------------------------------------------------------------------------
(* Where nobody changes an INN, the invoices have those of their suppliers. *)

\* The invoices as a transaction sees them.
LEMMA InnsSeen ==
  ASSUME Core, InnsAgree, InnsStay, NEW c \in Clients
  PROVE  /\ \A i \in Invoices : InvOf(c, i) # Gone => Agrees(c, InvOf(c, i))
         /\ \A i \in Invoices : invoice[i] # Gone =>
              InvOf(c, i).sup = invoice[i].sup /\ InvOf(c, i).inn = invoice[i].inn
<1>1. \A i \in Invoices : invoice[i] # Gone =>
              InvOf(c, i).sup = invoice[i].sup /\ InvOf(c, i).inn = invoice[i].inn
  BY DEF InnsAgree, InvOf
<1>2. \A i \in Invoices : invoice[i] # Gone => invoice[i] \in InvoiceT
  BY DEF Core, TypeOK
<1>3. \A i \in Invoices : invoice[i] # Gone => Agrees(c, invoice[i])
  <2> SUFFICES ASSUME NEW i \in Invoices, invoice[i] # Gone, invoice[i].sup # None
      PROVE  SupOf(c, invoice[i].sup) # Gone /\ invoice[i].inn = SupOf(c, invoice[i].sup).inn
    BY DEF Agrees
  <2>1. invoice[i].sup \in Suppliers
    BY <1>2 DEF InvoiceT
  <2>2. supplier[invoice[i].sup] # Gone /\ invoice[i].inn = supplier[invoice[i].sup].inn
    BY DEF InnsAgree
  <2>3. wSup[c][invoice[i].sup] = Same
    BY <2>1, <2>2 DEF Core, Pending
  <2> QED BY <2>2, <2>3 DEF SupOf
<1>4. \A i \in Invoices : InvOf(c, i) # Gone => Agrees(c, InvOf(c, i))
  <2> SUFFICES ASSUME NEW i \in Invoices, InvOf(c, i) # Gone
      PROVE  Agrees(c, InvOf(c, i))
    OBVIOUS
  <2>1. CASE invoice[i] = Gone
    BY <2>1 DEF InnsAgree, InvOf
  <2>2. CASE invoice[i] # Gone
    BY <2>2, <1>1, <1>3 DEF Agrees
  <2> QED BY <2>1, <2>2
<1> QED BY <1>1, <1>4

\* Statements that only read, about the transaction that makes them.
LEMMA ReadsInns ==
  ASSUME Core, InnsAgree, NEW c \in Clients, Reads(c), InnsStay => SameInn(c)'
  PROVE  InnsAgree'
<1>1. UNCHANGED <<supplier, invoice, wSup, wInv, bounds>> /\ \A o \in Clients \ {c} : tx'[o] = tx[o]
  BY DEF Reads, OthersStay
<1>2. ASSUME InnsStay PROVE \A o \in Clients : SameInn(o)'
  <2> SUFFICES ASSUME NEW o \in Clients \ {c} PROVE SameInn(o)'
    BY <1>2
  <2>1. SameInn(o)
    BY <1>2 DEF InnsAgree
  <2> QED BY <1>1, <2>1 DEF SameInn, SupOf
<1> QED BY <1>1, <1>2 DEF InnsAgree, InnsStay, Agrees, SupOf

LEMMA BeginInns ==
  ASSUME Core, InnsAgree, NEW c \in Clients, Began(c)
  PROVE  InnsAgree'
<1>0. TypeOK /\ TxOK(c) /\ Pending(c) /\ Reads(c)
  BY DEF Core, Began
<1>1. UNCHANGED <<supplier, invoice, used, wSup, wInv, bounds>>
  BY <1>0 DEF Reads
<1>2. tx[c].kind = "none"
  BY DEF Began, Idle
<1>3. \A s \in Suppliers : SupOf(c, s)' = supplier[s]
  BY <1>0, <1>1, <1>2, NothingPending DEF Linking, SupOf
<1>4. ASSUME InnsStay PROVE SameInn(c)'
  BY <1>1, <1>3, <1>4 DEF Began, SameInn, InnsStay, Linking, Searching
<1> QED BY <1>0, <1>4, ReadsInns

LEMMA FindInns ==
  ASSUME Core, InnsAgree, NEW c \in Clients, Look(c) \/ Relook(c)
  PROVE  InnsAgree'
<1> DEFINE missing == IF tx[c].pc = "look" THEN "insert" ELSE "lost"
<1>0. TypeOK
  BY DEF Core
<1>1. tx[c].kind \in Linking /\ tx[c].pc \in {"look", "relook"} /\ Find(c, missing) /\ missing \in Pcs
  BY DEF Look, Relook, At, Pcs
<1>2. /\ Reads(c)
      /\ tx'[c].kind = tx[c].kind /\ tx'[c].inv = tx[c].inv /\ tx'[c].old = tx[c].old
      /\ \/ tx'[c].pc = missing
         \/ tx'[c].seen = SupOf(c, tx'[c].src)
  BY <1>0, <1>1, FindReads
<1>3. UNCHANGED <<supplier, invoice, used, wSup, wInv, bounds>>
  BY <1>2 DEF Reads
<1>4. missing \in Searching
  BY DEF Searching
<1>5. ASSUME InnsStay PROVE SameInn(c)'
  <2>1. SameInn(c)
    BY <1>5 DEF InnsAgree
  <2> QED BY <1>1, <1>2, <1>3, <1>4, <2>1 DEF SameInn, SupOf, Linking
<1> QED BY <1>2, <1>5, ReadsInns

LEMMA ScanInns ==
  ASSUME Core, InnsAgree, NEW c \in Clients, Scan(c) \/ Children(c)
  PROVE  InnsAgree'
<1>0. TypeOK /\ TxOK(c)
  BY DEF Core
<1>1. /\ Reads(c)
      /\ tx'[c].kind = tx[c].kind /\ tx'[c].want = tx[c].want /\ tx'[c].inv = tx[c].inv
      /\ tx'[c].old = tx[c].old /\ tx'[c].src = tx[c].src /\ tx'[c].seen = tx[c].seen
  BY <1>0, ScanReads, ChildrenReads
<1>2. UNCHANGED <<supplier, invoice, used, wSup, wInv, bounds>>
  BY <1>1 DEF Reads
<1>3. tx[c].pc \in {"scan", "children"}
  BY DEF Scan, Children, At
<1>4. ASSUME InnsStay PROVE SameInn(c)'
  <2>1. SameInn(c)
    BY <1>4 DEF InnsAgree
  <2> QED BY <1>1, <1>2, <1>3, <2>1 DEF SameInn, SupOf, Searching
<1> QED BY <1>1, <1>4, ReadsInns

LEMMA InsertInns ==
  ASSUME Core, InnsAgree, NEW c \in Clients, Insert(c)
  PROVE  InnsAgree'
<1>0. TypeOK /\ TxOK(c) /\ Pending(c)
  BY DEF Core
<1>1. tx[c].kind \in Linking /\ tx[c].pc = "insert"
  BY DEF Insert, At
<1>2. tx[c].want \in RowT
  BY <1>0, <1>1, Found
<1>3. /\ UNCHANGED <<supplier, invoice, wInv, bounds>> /\ OthersStay(c)
      /\ tx'[c].kind = tx[c].kind /\ tx'[c].inv = tx[c].inv /\ tx'[c].old = tx[c].old
      /\ tx'[c].pc = "relook"
  BY <1>0, <1>2, InsertMoves
<1>4. \A i \in Invoices : wInv[c][i] = Same
  BY <1>0, <1>1, NothingPending
<1>5. ASSUME InnsStay PROVE \A o \in Clients : SameInn(o)'
  <2>1. \A o \in Clients : SameInn(o)
    BY <1>5 DEF InnsAgree
  <2>2. SameInn(c)'
    BY <1>1, <1>3, <2>1 DEF SameInn, Linking, Searching
  <2>3. ASSUME NEW o \in Clients \ {c} PROVE SameInn(o)'
    BY <1>3, <2>1 DEF SameInn, SupOf, OthersStay
  <2> QED BY <2>2, <2>3
<1>6. ASSUME InnsStay, NEW o \in Clients, NEW i \in Invoices, wInv'[o][i] # Same
      PROVE  IF invoice'[i] = Gone THEN Agrees(o, wInv[o][i])' ELSE wInv'[o][i].sup = invoice'[i].sup /\ wInv'[o][i].inn = invoice'[i].inn
  <2>1. o # c /\ wInv'[o][i] = wInv[o][i] /\ wSup'[o] = wSup[o]
    BY <1>3, <1>4, <1>6 DEF OthersStay
  <2> QED BY <1>3, <1>6, <2>1 DEF InnsAgree, Agrees, SupOf
<1> QED BY <1>3, <1>5, <1>6 DEF InnsAgree, InnsStay

LEMMA RollbackInns ==
  ASSUME Core, InnsAgree, NEW c \in Clients, Rollback(c)
  PROVE  InnsAgree'
<1>1. Ended(c) /\ UNCHANGED <<supplier, invoice, bounds>> /\ OthersStay(c)
  BY RollbackEnds DEF Core, Ended
<1>2. ASSUME InnsStay PROVE \A o \in Clients : SameInn(o)'
  <2>1. SameInn(c)'
    BY <1>1 DEF Ended, SameInn, Idle, Linking
  <2>2. ASSUME NEW o \in Clients \ {c} PROVE SameInn(o)'
    <3>1. SameInn(o)
      BY <1>2 DEF InnsAgree
    <3> QED BY <3>1, <1>1 DEF SameInn, SupOf, OthersStay
  <2> QED BY <2>1, <2>2
<1>3. ASSUME InnsStay, NEW o \in Clients, NEW i \in Invoices, wInv'[o][i] # Same
      PROVE  IF invoice'[i] = Gone THEN Agrees(o, wInv[o][i])' ELSE wInv'[o][i].sup = invoice'[i].sup /\ wInv'[o][i].inn = invoice'[i].inn
  <2>1. o # c /\ wInv'[o][i] = wInv[o][i] /\ wSup'[o] = wSup[o]
    BY <1>1, <1>3 DEF OthersStay, Ended
  <2> QED BY <1>1, <1>3, <2>1 DEF InnsAgree, Agrees, SupOf
<1> QED BY <1>1, <1>2, <1>3 DEF InnsAgree, InnsStay

LEMMA LinkInns ==
  ASSUME Core, InnsAgree, NEW c \in Clients, Link(c)
  PROVE  InnsAgree'
<1>0. TypeOK /\ TxOK(c) /\ Pending(c)
  BY DEF Core
<1> DEFINE i == tx[c].inv
<1>1. tx[c].kind = "parse" /\ tx[c].pc = "link"
  BY DEF Link, At
<1>2. i \in Invoices /\ invoice[i] = Gone /\ tx[c].src \in Suppliers
  BY <1>0, <1>1, Found DEF Linking, Searching
<1>3. CASE Rollback(c)
  BY <1>3, RollbackInns
<1>4. CASE ~Rollback(c)
  <2>1. /\ UNCHANGED <<supplier, invoice, used, wSup, bounds>> /\ OthersStay(c)
        /\ tx'[c].kind = tx[c].kind /\ tx'[c].want = tx[c].want
        /\ tx'[c].src = tx[c].src /\ tx'[c].seen = tx[c].seen
        /\ SupOf(c, tx[c].src) # Gone
        /\ \A j \in Invoices \ {i} : wInv'[c][j] = wInv[c][j]
        /\ wInv'[c][i].sup = tx[c].src /\ wInv'[c][i].inn = tx[c].seen.inn
    BY <1>0, <1>4, LinkMoves
  <2>2. ASSUME InnsStay PROVE \A o \in Clients : SameInn(o)'
    <3>1. \A o \in Clients : SameInn(o)
      BY <2>2 DEF InnsAgree
    <3>2. SameInn(c)'
      BY <1>1, <2>1, <3>1 DEF SameInn, SupOf, Linking, Searching
    <3>3. ASSUME NEW o \in Clients \ {c} PROVE SameInn(o)'
      BY <2>1, <3>1 DEF SameInn, SupOf, OthersStay
    <3> QED BY <3>2, <3>3
  <2>3. ASSUME InnsStay, NEW o \in Clients, NEW j \in Invoices, wInv'[o][j] # Same
        PROVE  IF invoice'[j] = Gone THEN Agrees(o, wInv[o][j])' ELSE wInv'[o][j].sup = invoice'[j].sup /\ wInv'[o][j].inn = invoice'[j].inn
    <3>1. CASE o = c /\ j = i
      <4>1. SupOf(c, tx[c].src).inn = tx[c].seen.inn
        BY <1>1, <2>1, <2>3 DEF InnsAgree, SameInn, Linking, Searching
      <4> QED BY <1>2, <2>1, <3>1, <4>1 DEF Agrees, SupOf
    <3>2. CASE ~(o = c /\ j = i)
      <4>1. wInv'[o][j] = wInv[o][j]
        BY <2>1, <3>2 DEF OthersStay
      <4> QED BY <2>1, <2>3, <4>1 DEF InnsAgree, Agrees, SupOf
    <3> QED BY <3>1, <3>2
  <2> QED BY <2>1, <2>2, <2>3 DEF InnsAgree, InnsStay
<1> QED BY <1>3, <1>4

LEMMA CascadeInns ==
  ASSUME Core, InnsAgree, NEW c \in Clients, Cascade(c)
  PROVE  InnsAgree'
<1>0. TypeOK /\ TxOK(c) /\ Pending(c)
  BY DEF Core
<1>1. tx[c].kind \in {"edit", "rename", "merge"} /\ tx[c].pc = "cascade"
  BY DEF Cascade, At
<1>2. CASE Rollback(c)
  BY <1>2, RollbackInns
<1>3. CASE ~Rollback(c)
  <2>1. /\ UNCHANGED <<supplier, invoice, used, wSup, bounds>> /\ OthersStay(c)
        /\ tx'[c].kind = tx[c].kind /\ tx'[c].want = tx[c].want /\ tx'[c].inv = tx[c].inv
        /\ tx'[c].old = tx[c].old /\ tx'[c].src = tx[c].src /\ tx'[c].seen = tx[c].seen
        /\ \A i \in Invoices : i \notin Reached(c) => wInv'[c][i] = wInv[c][i]
        /\ \A i \in Reached(c) : wInv'[c][i] = Cascaded(c, InvOf(c, i)) /\ wInv'[c][i] \in InvoiceT
    BY <1>0, <1>3, CascadeMoves
  <2>2. \A i \in Invoices : wInv[c][i] = Same /\ InvOf(c, i) = invoice[i]
    BY <1>0, <1>1, NothingPending
  <2>3. ASSUME InnsStay PROVE \A o \in Clients : SameInn(o)'
    <3>1. \A o \in Clients : SameInn(o)
      BY <2>3 DEF InnsAgree
    <3>2. SameInn(c)'
      BY <1>1, <2>1, <3>1 DEF SameInn, SupOf, Linking, Searching
    <3>3. ASSUME NEW o \in Clients \ {c} PROVE SameInn(o)'
      BY <2>1, <3>1 DEF SameInn, SupOf, OthersStay
    <3> QED BY <3>2, <3>3
  <2>4. ASSUME InnsStay, NEW i \in Reached(c)
        PROVE  invoice[i] # Gone /\ wInv'[c][i].sup = invoice[i].sup /\ wInv'[c][i].inn = invoice[i].inn
    <3>1. i \in Invoices /\ invoice[i] \in InvoiceT /\ invoice[i] # Gone /\ invoice[i].sup = tx[c].src
      BY <1>0, <2>2, Found, Apart DEF Reached
    <3>2. tx[c].kind # "merge"
      BY <1>0, <1>1, <2>4 DEF TxOK, InnsStay
    <3>3. CASE tx[c].kind = "edit"
      BY <1>0, <2>1, <2>2, <3>1, <3>3, Found, CascadedRow DEF Linking
    <3>4. CASE tx[c].kind = "rename"
      <4>1. tx[c].want \in RowT /\ tx[c].src \in Suppliers
        BY <1>0, <3>4, Found
      <4>2. wInv'[c][i].sup = invoice[i].sup /\ wInv'[c][i].inn = tx[c].want.inn
        BY <1>0, <2>1, <2>2, <3>1, <3>4, <4>1, Found, CascadedRow
      <4>3. tx[c].src # None
        BY <4>1, Apart
      <4>4. supplier[tx[c].src] # Gone /\ invoice[i].inn = supplier[tx[c].src].inn
        BY <2>4, <3>1, <4>3 DEF InnsAgree
      <4>5. SupOf(c, tx[c].src) = supplier[tx[c].src]
        BY <1>0, <3>4, <4>1, NothingPending DEF Linking
      <4>6. SupOf(c, tx[c].src).inn = tx[c].want.inn
        BY <2>4, <3>4, <4>4, <4>5 DEF InnsAgree, SameInn
      <4> QED BY <3>1, <4>2, <4>4, <4>5, <4>6
    <3> QED BY <1>1, <3>2, <3>3, <3>4
  <2>5. ASSUME InnsStay, NEW o \in Clients, NEW j \in Invoices, wInv'[o][j] # Same
        PROVE  IF invoice'[j] = Gone THEN Agrees(o, wInv[o][j])' ELSE wInv'[o][j].sup = invoice'[j].sup /\ wInv'[o][j].inn = invoice'[j].inn
    <3>1. CASE o = c
      <4>1. j \in Reached(c)
        BY <2>1, <2>2, <2>5, <3>1
      <4> QED BY <2>1, <2>4, <2>5, <3>1, <4>1
    <3>2. CASE o # c
      <4>1. wInv'[o][j] = wInv[o][j]
        BY <2>1, <3>2 DEF OthersStay
      <4> QED BY <2>1, <2>5, <4>1 DEF InnsAgree, Agrees, SupOf
    <3> QED BY <3>1, <3>2
  <2> QED BY <2>1, <2>3, <2>5 DEF InnsAgree, InnsStay
<1> QED BY <1>2, <1>3

\* A commit that changes no INN, and deletes no supplier with invoices.
KeepsInns(c) ==
  /\ \A s \in Suppliers : SupOf(c, s) # Gone =>
       IF supplier'[s] = Gone
         THEN /\ \A i \in Invoices : invoice'[i] # Gone => invoice'[i].sup # s
              /\ \A o \in Clients \ {c} : ~Refers(o, s)
         ELSE supplier'[s].inn = SupOf(c, s).inn
  /\ \A i \in Invoices : invoice'[i] # Gone => Agrees(c, invoice'[i])
  /\ \A o \in Clients \ {c} : tx[o].kind \in {"edit", "clear"} =>
       LET i == tx[o].inv IN
       invoice'[i].inn = invoice[i].inn /\ invoice'[i].sup \in {invoice[i].sup, None}

LEMMA CommitsInns ==
  ASSUME Core, InnsAgree, NEW c \in Clients, Commits(c), InnsStay => KeepsInns(c)
  PROVE  InnsAgree'
<1>1. Ended(c) /\ OthersStay(c) /\ bounds' = bounds /\ Typed
  BY DEF Commits, Ended
<1>2. \A s \in Suppliers : supplier'[s] # Gone => SupOf(c, s) # Gone
  BY DEF Commits, Free
<1>3. ASSUME InnsStay, NEW o \in Clients \ {c}, NEW s \in Suppliers, SupOf(o, s) # Gone, supplier'[s] # Gone \/ wSup[o][s] # Same
      PROVE  SupOf(o, s)' # Gone /\ SupOf(o, s)'.inn = SupOf(o, s).inn
  <2>1. CASE wSup[o][s] # Same
    BY <1>1, <1>3, <2>1 DEF SupOf, OthersStay
  <2>2. CASE wSup[o][s] = Same
    <3>1. supplier[s] # Gone /\ SupOf(o, s) = supplier[s] /\ supplier'[s] # Gone
      BY <1>3, <2>2 DEF SupOf
    <3>2. SupOf(c, s) = supplier[s]
      BY <3>1 DEF Core, Pending, SupOf
    <3> QED BY <1>1, <1>3, <2>2, <3>1, <3>2 DEF SupOf, OthersStay, KeepsInns
  <2> QED BY <2>1, <2>2
<1>4. ASSUME InnsStay PROVE \A o \in Clients : SameInn(o)'
  <2>1. SameInn(c)'
    BY <1>1 DEF Ended, SameInn, Idle, Linking
  <2>2. ASSUME NEW o \in Clients \ {c} PROVE SameInn(o)'
    <3>1. SameInn(o) /\ TxOK(o) /\ tx'[o] = tx[o]
      BY <1>4, <1>1 DEF InnsAgree, Core, OthersStay
    <3>2. ASSUME tx[o].kind \in {"rename", "delete"} \/ (tx[o].kind \in Linking /\ tx[o].pc \notin Searching)
          PROVE  SupOf(o, tx[o].src)' = Gone \/ SupOf(o, tx[o].src)'.inn = tx[o].seen.inn
      <4>1. tx[o].src \in Suppliers /\ tx[o].src # None
        BY <3>1, <3>2, Found, Apart DEF Core
      <4>2. wSup[c][tx[o].src] = Same
        BY <3>1, <4>1 DEF TxOK
      <4>3. CASE SupOf(o, tx[o].src) = Gone
        <5>1. wSup[o][tx[o].src] = Same
          BY <4>1, <4>3, Apart DEF SupOf, Core, TypeOK
        <5>2. SupOf(c, tx[o].src) = Gone
          BY <4>2, <4>3, <5>1 DEF SupOf
        <5> QED BY <1>1, <1>2, <3>1, <4>1, <5>1, <5>2 DEF SupOf, OthersStay
      <4>4. CASE SupOf(o, tx[o].src) # Gone
        <5>1. SupOf(o, tx[o].src).inn = tx[o].seen.inn
          BY <3>1, <3>2, <4>4 DEF SameInn
        <5>2. CASE supplier'[tx[o].src] # Gone \/ wSup[o][tx[o].src] # Same
          <6>1. SupOf(o, tx[o].src)' = IF wSup'[o][tx[o].src] = Same THEN supplier'[tx[o].src] ELSE wSup'[o][tx[o].src]
            BY <3>1 DEF SupOf
          <6>2. \A s \in Suppliers : SupOf(o, s)' = IF wSup'[o][s] = Same THEN supplier'[s] ELSE wSup'[o][s]
            BY DEF SupOf
          <6> QED BY <1>3, <1>4, <4>1, <4>4, <5>1, <5>2, <6>1, <6>2
        <5>3. CASE supplier'[tx[o].src] = Gone /\ wSup[o][tx[o].src] = Same
          BY <1>1, <3>1, <5>3 DEF SupOf, OthersStay
        <5> QED BY <5>2, <5>3
      <4> QED BY <4>3, <4>4
    <3>3. tx[o].kind \in {"edit", "clear"} =>
            invoice'[tx[o].inv].inn = tx[o].old.inn /\ invoice'[tx[o].inv].sup \in {tx[o].old.sup, None}
      BY <1>4, <3>1 DEF SameInn, KeepsInns
    <3> QED BY <3>1, <3>2, <3>3 DEF SameInn
  <2> QED BY <2>1, <2>2
<1>5. ASSUME InnsStay, NEW i \in Invoices, invoice'[i] # Gone, invoice'[i].sup # None
      PROVE  supplier'[invoice'[i].sup] # Gone /\ invoice'[i].inn = supplier'[invoice'[i].sup].inn
  <2>1. invoice'[i].sup \in Suppliers
    BY <1>1, <1>5 DEF Typed, InvoiceT
  <2>2. SupOf(c, invoice'[i].sup) # Gone /\ invoice'[i].inn = SupOf(c, invoice'[i].sup).inn
    BY <1>5 DEF KeepsInns, Agrees
  <2> QED BY <1>5, <2>1, <2>2 DEF KeepsInns
<1>6. ASSUME InnsStay, NEW o \in Clients, NEW i \in Invoices, wInv'[o][i] # Same
      PROVE  IF invoice'[i] = Gone THEN Agrees(o, wInv[o][i])' ELSE wInv'[o][i].sup = invoice'[i].sup /\ wInv'[o][i].inn = invoice'[i].inn
  <2>1. o # c /\ wInv'[o][i] = wInv[o][i]
    BY <1>1, <1>6 DEF Ended, OthersStay
  <2>2. wInv[c][i] = Same
    BY <1>6, <2>1 DEF Core, Pending
  <2>3. invoice'[i] = invoice[i]
    BY <1>6, <2>1, <2>2 DEF Commits, InvOf
  <2>4. CASE invoice[i] = Gone /\ wInv[o][i].sup # None
    <3> DEFINE s == wInv[o][i].sup
    <3>1. s \in Suppliers
      BY <1>6, <2>1, <2>4 DEF Core, TypeOK, InvoiceT
    <3>2. SupOf(o, s) # Gone /\ wInv[o][i].inn = SupOf(o, s).inn
      BY <1>6, <2>1, <2>4 DEF InnsAgree, Agrees
    <3>3. Refers(o, s)
      BY <1>6, <2>1, <2>4 DEF Refers
    <3>4. supplier'[s] # Gone \/ wSup[o][s] # Same
      <4> SUFFICES ASSUME supplier'[s] = Gone, wSup[o][s] = Same PROVE FALSE
        OBVIOUS
      <4>1. supplier[s] # Gone
        BY <3>2 DEF SupOf
      <4>2. SupOf(c, s) # Gone
        BY <3>1, <4>1 DEF Core, Pending, SupOf
      <4> QED BY <1>6, <2>1, <3>1, <3>3, <4>2 DEF KeepsInns
    <3>5. \A t \in Suppliers : SupOf(o, t)' = IF wSup'[o][t] = Same THEN supplier'[t] ELSE wSup'[o][t]
      BY DEF SupOf
    <3>6. (IF wSup'[o][s] = Same THEN supplier'[s] ELSE wSup'[o][s]) # Gone
          /\ wInv[o][i].inn = (IF wSup'[o][s] = Same THEN supplier'[s] ELSE wSup'[o][s]).inn
      BY <1>3, <1>6, <2>1, <3>1, <3>2, <3>4, <3>5
    <3>7. wInv'[o][i] = wInv[o][i]
      BY <2>1
    <3> QED BY <2>3, <2>4, <3>6, <3>7 DEF Agrees, SupOf
  <2>5. CASE invoice[i] = Gone /\ wInv[o][i].sup = None
    BY <2>1, <2>3, <2>5 DEF Agrees
  <2>6. CASE invoice[i] # Gone
    BY <1>6, <2>1, <2>3, <2>6 DEF InnsAgree
  <2> QED BY <2>4, <2>5, <2>6
<1> QED BY <1>1, <1>4, <1>5, <1>6 DEF InnsAgree, InnsStay

\* The invoice another transaction edits.
LEMMA EditedByOthers ==
  ASSUME Core, InnsAgree, InnsStay, NEW c \in Clients, NEW o \in Clients \ {c}, tx[o].kind \in {"edit", "clear"}
  PROVE  LET i == tx[o].inv IN
         /\ i \in Invoices /\ InvOf(c, i).sup = invoice[i].sup /\ InvOf(c, i).inn = invoice[i].inn
         /\ tx[c].kind \in {"edit", "clear"} => i # tx[c].inv
<1>1. TypeOK /\ TxOK(o) /\ Exclusive
  BY DEF Core
<1>2. tx[o].inv \in Invoices /\ invoice[tx[o].inv] # Gone
  BY <1>1, Found, Apart
<1> QED BY <1>1, <1>2, InnsSeen DEF Exclusive

LEMMA LinkedInns ==
  ASSUME Core, InnsAgree, InnsStay, NEW c \in Clients, CommitLinked(c)
  PROVE  KeepsInns(c)
<1>1. /\ \A s \in Suppliers : supplier'[s] = SupOf(c, s)
      /\ \A i \in Invoices : invoice'[i] = InvOf(c, i)
  BY LinkedCommits DEF Core
<1>2. \A o \in Clients \ {c} : tx[o].kind \in {"edit", "clear"} =>
        LET i == tx[o].inv IN i \in Invoices /\ InvOf(c, i).sup = invoice[i].sup /\ InvOf(c, i).inn = invoice[i].inn
  BY EditedByOthers
<1>3. \A i \in Invoices : InvOf(c, i) # Gone => Agrees(c, InvOf(c, i))
  BY InnsSeen
<1> QED BY <1>1, <1>2, <1>3 DEF KeepsInns

LEMMA ClearInns ==
  ASSUME Core, InnsAgree, InnsStay, NEW c \in Clients, CommitClear(c)
  PROVE  KeepsInns(c)
<1> DEFINE i == tx[c].inv
<1>0. TypeOK /\ TxOK(c) /\ SameInn(c) /\ tx[c].kind = "clear"
  BY DEF Core, InnsAgree, CommitClear, At
<1>1. /\ i \in Invoices /\ \A s \in Suppliers : supplier'[s] = SupOf(c, s)
      /\ \A j \in Invoices \ {i} : invoice'[j] = InvOf(c, j)
      /\ invoice'[i].sup = IF tx[c].old.sup = None THEN InvOf(c, i).sup ELSE None
  BY <1>0, ClearCommits
<1>2. \A o \in Clients \ {c} : tx[o].kind \in {"edit", "clear"} =>
        LET j == tx[o].inv IN j \in Invoices /\ j # i /\ InvOf(c, j).sup = invoice[j].sup /\ InvOf(c, j).inn = invoice[j].inn
  BY <1>0, EditedByOthers
<1>3. \A j \in Invoices : InvOf(c, j) # Gone => Agrees(c, InvOf(c, j))
  BY InnsSeen
<1>4. invoice'[i].sup = None
  <2>1. invoice[i] # Gone /\ InvOf(c, i).sup = invoice[i].sup
    BY <1>0, <1>1, Found, Apart, InnsSeen
  <2> QED BY <1>0, <1>1, <2>1 DEF SameInn
<1>5. \A j \in Invoices : invoice'[j] # Gone => Agrees(c, invoice'[j])
  BY <1>1, <1>3, <1>4 DEF Agrees
<1> QED BY <1>1, <1>2, <1>5 DEF KeepsInns

LEMMA EditInns ==
  ASSUME Core, InnsAgree, InnsStay, NEW c \in Clients, CommitEdit(c), ~Rollback(c)
  PROVE  KeepsInns(c)
<1> DEFINE i == tx[c].inv
           s == tx[c].src
           old == tx[c].old
<1>0. TypeOK /\ TxOK(c) /\ SameInn(c) /\ tx[c].kind = "edit" /\ tx[c].pc = "flush"
  BY DEF Core, InnsAgree, CommitEdit, At
<1>1. /\ i \in Invoices /\ s \in Suppliers
      /\ \A t \in Suppliers \ {s} : supplier'[t] = SupOf(c, t)
      /\ \/ supplier'[s] = SupOf(c, s)
         \/ supplier'[s] \in RowT /\ supplier'[s].inn = SupOf(c, s).inn
      /\ old.sup # s => SupOf(c, s) # Gone
      /\ \A j \in Invoices \ {i} : invoice'[j] = InvOf(c, j)
      /\ invoice'[i] \in InvoiceT
      /\ invoice'[i].sup = IF s = old.sup THEN InvOf(c, i).sup ELSE s
      /\ invoice'[i].inn = IF tx[c].seen.inn = old.inn THEN InvOf(c, i).inn ELSE tx[c].seen.inn
  BY <1>0, EditCommits
<1>2. \A o \in Clients \ {c} : tx[o].kind \in {"edit", "clear"} =>
        LET j == tx[o].inv IN j \in Invoices /\ j # i /\ InvOf(c, j).sup = invoice[j].sup /\ InvOf(c, j).inn = invoice[j].inn
  BY <1>0, EditedByOthers
<1>3. \A j \in Invoices : InvOf(c, j) # Gone => Agrees(c, InvOf(c, j))
  BY InnsSeen
<1>4. \A t \in Suppliers : SupOf(c, t) # Gone => supplier'[t] # Gone /\ supplier'[t].inn = SupOf(c, t).inn
  BY <1>1, Apart
<1>5. Agrees(c, invoice'[i])
  <2> SUFFICES ASSUME invoice'[i].sup # None
      PROVE  SupOf(c, invoice'[i].sup) # Gone /\ invoice'[i].inn = SupOf(c, invoice'[i].sup).inn
    BY DEF Agrees
  <2>1. /\ invoice[i] # Gone /\ InvOf(c, i).sup = invoice[i].sup /\ InvOf(c, i).inn = invoice[i].inn
        /\ InvOf(c, i) # Gone
    BY <1>0, <1>1, Found, Written, Apart, InnsSeen
  <2>2. InvOf(c, i).inn = old.inn /\ InvOf(c, i).sup \in {old.sup, None}
    BY <1>0, <2>1 DEF SameInn
  <2>3. SupOf(c, s) = Gone \/ SupOf(c, s).inn = tx[c].seen.inn
    BY <1>0 DEF SameInn, Linking, Searching
  <2>4. invoice'[i].inn = tx[c].seen.inn
    BY <1>1, <2>2
  <2>5. CASE s = old.sup
    <3>1. invoice'[i].sup = s /\ InvOf(c, i).sup = s
      BY <1>1, <2>2, <2>5
    <3>2. SupOf(c, s) # Gone
      BY <1>1, <1>3, <2>1, <3>1, Apart DEF Agrees
    <3> QED BY <2>3, <2>4, <3>1, <3>2
  <2>6. CASE s # old.sup
    BY <1>1, <2>3, <2>4, <2>6
  <2> QED BY <2>5, <2>6
<1>6. \A j \in Invoices : invoice'[j] # Gone => Agrees(c, invoice'[j])
  BY <1>1, <1>3, <1>5
<1> QED BY <1>1, <1>2, <1>4, <1>6 DEF KeepsInns

LEMMA RenameInns ==
  ASSUME Core, InnsAgree, InnsStay, NEW c \in Clients, CommitRename(c), ~Rollback(c)
  PROVE  KeepsInns(c)
<1> DEFINE s == tx[c].src
<1>0. TypeOK /\ TxOK(c) /\ Pending(c) /\ SameInn(c) /\ tx[c].kind = "rename"
  BY DEF Core, InnsAgree, CommitRename, At
<1>1. /\ s \in Suppliers
      /\ \A t \in Suppliers \ {s} : supplier'[t] = SupOf(c, t)
      /\ \/ supplier'[s] = SupOf(c, s)
         \/ /\ supplier'[s] \in RowT
            /\ supplier'[s].inn = IF tx[c].want.inn = tx[c].seen.inn THEN SupOf(c, s).inn ELSE tx[c].want.inn
      /\ \A j \in Invoices : invoice'[j] = InvOf(c, j)
  BY <1>0, RenameCommits
<1>2. tx[c].want.inn = tx[c].seen.inn
  BY <1>0 DEF SameInn
<1>3. \A t \in Suppliers : SupOf(c, t) # Gone => supplier'[t] # Gone /\ supplier'[t].inn = SupOf(c, t).inn
  BY <1>1, <1>2, Apart
<1>4. \A o \in Clients \ {c} : tx[o].kind \in {"edit", "clear"} =>
        LET i == tx[o].inv IN i \in Invoices /\ InvOf(c, i).sup = invoice[i].sup /\ InvOf(c, i).inn = invoice[i].inn
  BY EditedByOthers
<1>5. \A i \in Invoices : InvOf(c, i) # Gone => Agrees(c, InvOf(c, i))
  BY InnsSeen
<1> QED BY <1>1, <1>3, <1>4, <1>5 DEF KeepsInns

LEMMA DeletionInns ==
  ASSUME Core, InnsAgree, InnsStay, NEW c \in Clients, CommitDeletion(c), ~Rollback(c)
  PROVE  KeepsInns(c)
<1> DEFINE s == tx[c].src
           rows == tx[c].rows
<1>0. TypeOK /\ TxOK(c) /\ tx[c].kind \in {"merge", "delete"}
  BY DEF Core, CommitDeletion, At
<1>1. /\ s \in Suppliers /\ MayWriteKey(c, s) /\ LinkedTo(c, s) \subseteq rows
      /\ \A t \in Suppliers \ {s} : supplier'[t] = SupOf(c, t)
      /\ supplier'[s] = Gone
      /\ \A i \in Invoices \ rows : invoice'[i] = InvOf(c, i)
      /\ \A i \in rows : invoice'[i].sup = None /\ invoice'[i].inn = InvOf(c, i).inn
  BY <1>0, DeletionCommits
<1>2. \A o \in Clients \ {c} : ~Refers(o, s)
  BY <1>1 DEF MayWriteKey
<1>3. \A i \in Invoices : invoice'[i] # Gone => invoice'[i].sup # s
  BY <1>1, Apart DEF LinkedTo
<1>4. \A o \in Clients \ {c} : tx[o].kind \in {"edit", "clear"} =>
        LET i == tx[o].inv IN i \in Invoices /\ InvOf(c, i).sup = invoice[i].sup /\ InvOf(c, i).inn = invoice[i].inn
  BY EditedByOthers
<1>5. \A i \in Invoices : InvOf(c, i) # Gone => Agrees(c, InvOf(c, i))
  BY InnsSeen
<1>6. \A i \in Invoices : invoice'[i] # Gone => Agrees(c, invoice'[i])
  BY <1>1, <1>5 DEF Agrees
<1>7. \A o \in Clients \ {c} : tx[o].kind \in {"edit", "clear"} =>
        LET i == tx[o].inv IN invoice'[i].inn = invoice[i].inn /\ invoice'[i].sup \in {invoice[i].sup, None}
  BY <1>1, <1>4
<1>8. \A t \in Suppliers : SupOf(c, t) # Gone => t = s \/ supplier'[t] = SupOf(c, t)
  BY <1>1
<1> QED BY <1>1, <1>2, <1>3, <1>6, <1>7, <1>8 DEF KeepsInns

LEMMA StepInns ==
  ASSUME Core, InnsAgree, [Next]_vars
  PROVE  InnsAgree'
<1>1. CASE UNCHANGED vars
  BY <1>1 DEF vars, InnsAgree, InnsStay, SameInn, Agrees, SupOf
<1>2. ASSUME NEW c \in Clients, Begin(c) \/ Step(c)
      PROVE  InnsAgree'
  <2>1. CASE Begin(c)
    BY <2>1, BeginIs, BeginInns
  <2>2. CASE Look(c) \/ Relook(c)
    BY <2>2, FindInns
  <2>3. CASE Scan(c) \/ Children(c)
    BY <2>3, ScanInns
  <2>4. CASE Insert(c)
    BY <2>4, InsertInns
  <2>5. CASE Link(c)
    BY <2>5, LinkInns
  <2>6. CASE Cascade(c)
    BY <2>6, CascadeInns
  <2>7. CASE Lost(c) \/ Abort(c) \/ Rollback(c)
    BY <2>7, RollbackInns DEF Lost, Abort
  <2>8. CASE CommitLinked(c)
    BY <2>8, LinkedIsCommit, LinkedInns, CommitsInns
  <2>9. CASE CommitEdit(c) /\ ~Rollback(c)
    BY <2>9, EditIsCommit, EditInns, CommitsInns
  <2>10. CASE CommitClear(c)
    BY <2>10, ClearIsCommit, ClearInns, CommitsInns
  <2>11. CASE CommitRename(c) /\ ~Rollback(c)
    BY <2>11, RenameIsCommit, RenameInns, CommitsInns
  <2>12. CASE CommitDeletion(c) /\ ~Rollback(c)
    BY <2>12, DeletionIsCommit, DeletionInns, CommitsInns
  <2> QED BY <1>2, <2>1, <2>2, <2>3, <2>4, <2>5, <2>6, <2>7, <2>8, <2>9, <2>10, <2>11, <2>12 DEF Step
<1> QED BY <1>1, <1>2 DEF Next

LEMMA InitInns ==
  ASSUME Init
  PROVE  InnsAgree
<1>1. \A c \in Clients : SameInn(c)
  BY DEF Init, SameInn, Idle, Linking
<1>2. \A c \in Clients, i \in Invoices : wInv[c][i] = Same /\ invoice[i] = Gone
  BY DEF Init, NoWrites
<1> QED BY <1>1, <1>2 DEF InnsAgree, Init

-----------------------------------------------------------------------------
(* Whoever only links suppliers finds the one it looked for.                *)

\* The holders of a key, as another transaction sees them, stay when the rows do.
LEMMA HoldersStay ==
  ASSUME Core, FoundAgain, NEW c \in Clients, OthersStay(c), bounds' = bounds,
         OnlyLinking => \A s \in Suppliers : supplier[s] # Gone =>
                          supplier'[s] # Gone /\ Key(supplier'[s]) = Key(supplier[s]),
         OnlyLinking => /\ tx'[c].pc # "lost"
                        /\ tx'[c].pc = "relook" => Holders(c, tx[c].want)' # {}
  PROVE  FoundAgain'
<1> SUFFICES ASSUME OnlyLinking, NEW o \in Clients \ {c}
    PROVE  tx'[o].pc # "lost" /\ (tx'[o].pc = "relook" => Holders(o, tx[o].want)' # {})
  BY DEF FoundAgain, OnlyLinking
<1>1. tx'[o] = tx[o] /\ wSup'[o] = wSup[o]
  BY DEF OthersStay
<1>2. tx[o].pc # "lost" /\ (tx[o].pc = "relook" => Holders(o, tx[o].want) # {})
  BY DEF FoundAgain
<1>3. ASSUME NEW s \in Holders(o, tx[o].want) PROVE s \in Holders(o, tx[o].want)'
  <2>1. s \in Suppliers /\ SupOf(o, s) # Gone /\ Key(SupOf(o, s)) = Key(tx[o].want)
    BY DEF Holders
  <2>2. CASE wSup[o][s] = Same
    BY <1>1, <2>1, <2>2 DEF Holders, SupOf, Key
  <2>3. CASE wSup[o][s] # Same
    BY <1>1, <2>1, <2>3 DEF Holders, SupOf, Key
  <2> QED BY <2>2, <2>3
<1> QED BY <1>1, <1>2, <1>3

LEMMA EditKeepsKeys ==
  ASSUME Core, InnsAgree, OnlyLinking, NEW c \in Clients, CommitEdit(c), ~Rollback(c)
  PROVE  \A s \in Suppliers : supplier[s] # Gone => supplier'[s] # Gone /\ Key(supplier'[s]) = Key(supplier[s])
<1> DEFINE s == tx[c].src
           row == supplier'[s]
<1>0. TypeOK /\ TxOK(c) /\ Pending(c) /\ tx[c].kind = "edit" /\ tx[c].pc = "flush"
  BY DEF Core, CommitEdit, At
<1>1. SameInn(c)
  BY DEF InnsAgree, InnsStay, OnlyLinking, Linking
<1>2. /\ s \in Suppliers /\ \A t \in Suppliers \ {s} : supplier'[t] = SupOf(c, t)
      /\ tx[c].want.name = tx[c].seen.name => row = SupOf(c, s)
      /\ tx[c].want.name # tx[c].seen.name =>
           /\ row \in RowT /\ SupOf(c, s) # Gone /\ row.name = tx[c].want.name /\ row.inn = SupOf(c, s).inn
  BY <1>0, EditCommits DEF Free
<1>3. \A t \in Suppliers : supplier[t] # Gone => SupOf(c, t) = supplier[t]
  BY <1>0 DEF Pending, SupOf
<1>4. Key(tx[c].seen) = Key(tx[c].want)
  BY <1>0 DEF TxOK, Linking, Searching
<1>5. SupOf(c, s) = Gone \/ SupOf(c, s).inn = tx[c].seen.inn
  BY <1>0, <1>1 DEF SameInn, Linking, Searching
<1>6. ASSUME tx[c].want.name # tx[c].seen.name
      PROVE  row # Gone /\ Key(row) = Key(SupOf(c, s))
  <2>1. tx[c].seen.inn # None
    BY <1>4, <1>6 DEF Key
  <2> QED BY <1>2, <1>5, <1>6, <2>1, Apart DEF Key
<1> QED BY <1>2, <1>3, <1>6

LEMMA StepFound ==
  ASSUME Core, InnsAgree, FoundAgain, [Next]_vars
  PROVE  FoundAgain'
<1>1. CASE UNCHANGED vars
  BY <1>1 DEF vars, FoundAgain, OnlyLinking, Holders, SupOf, Key
<1>2. ASSUME NEW c \in Clients, Begin(c) \/ Step(c)
      PROVE  FoundAgain'
  <2>0. TypeOK /\ TxOK(c) /\ Pending(c)
    BY DEF Core
  <2>1. CASE Begin(c)
    <3>1. Reads(c) /\ tx'[c].pc \notin {"lost", "relook"}
      BY <2>1, BeginIs DEF Began
    <3> QED BY <3>1, HoldersStay DEF Reads
  <2>2. CASE Look(c)
    <3>1. Find(c, "insert") /\ "insert" \in Pcs
      BY <2>2 DEF Look, Pcs
    <3>2. Reads(c) /\ tx'[c].pc \in {"insert", AfterFound(c)}
      BY <2>0, <3>1, FindReads
    <3>3. tx'[c].pc \notin {"lost", "relook"}
      BY <3>2 DEF AfterFound
    <3> QED BY <3>2, <3>3, HoldersStay DEF Reads
  <2>3. CASE Relook(c)
    <3>1. Find(c, "lost") /\ "lost" \in Pcs /\ tx[c].pc = "relook"
      BY <2>3 DEF Relook, Pcs, At
    <3>2. Reads(c) /\ (Holders(c, tx[c].want) = {} \/ tx'[c].pc = AfterFound(c))
      BY <2>0, <3>1, FindReads
    <3>3. OnlyLinking => tx'[c].pc \notin {"lost", "relook"}
      BY <3>1, <3>2 DEF AfterFound, FoundAgain
    <3> QED BY <3>2, <3>3, HoldersStay DEF Reads
  <2>4. CASE Scan(c) \/ Children(c)
    <3>1. Reads(c) /\ tx'[c].pc \in {"cascade", "flush"}
      BY <2>0, <2>4, ScanReads, ChildrenReads
    <3> QED BY <3>1, HoldersStay DEF Reads
  <2>5. CASE Insert(c)
    <3>0. tx[c].want \in RowT
      BY <2>0, <2>5, Found DEF Insert, At
    <3>1. /\ UNCHANGED <<supplier, invoice, wInv, bounds>> /\ OthersStay(c)
          /\ tx'[c].want = tx[c].want /\ tx'[c].pc = "relook"
          /\ \/ Holders(c, tx[c].want) # {} /\ wSup' = wSup
             \/ \E s \in Suppliers \ used : wSup'[c][s] = tx[c].want
      BY <2>0, <2>5, <3>0, InsertMoves
    <3>2. Holders(c, tx[c].want)' # {}
      <4>1. CASE Holders(c, tx[c].want) # {} /\ wSup' = wSup
        BY <3>1, <4>1 DEF Holders, SupOf, Key
      <4>2. CASE \E s \in Suppliers \ used : wSup'[c][s] = tx[c].want
        BY <3>0, <3>1, <4>2, Apart DEF Holders, SupOf, Key
      <4> QED BY <3>1, <4>1, <4>2
    <3> QED BY <3>1, <3>2, HoldersStay
  <2>6. CASE Rollback(c)
    <3>1. Ended(c) /\ supplier' = supplier
      BY <2>0, <2>6, RollbackEnds
    <3>2. OthersStay(c) /\ bounds' = bounds /\ tx'[c].pc = "idle"
      BY <3>1 DEF Ended, Idle
    <3> QED BY <3>1, <3>2, HoldersStay
  <2>7. CASE (Link(c) \/ Cascade(c)) /\ ~Rollback(c)
    <3>1. /\ UNCHANGED <<supplier, bounds>> /\ OthersStay(c) /\ tx'[c].pc \in {"flush", "children"}
      BY <2>0, <2>7, LinkMoves, CascadeMoves
    <3> QED BY <3>1, HoldersStay
  <2>8. ASSUME Commits(c), OnlyLinking => \A s \in Suppliers : supplier[s] # Gone => supplier'[s] # Gone /\ Key(supplier'[s]) = Key(supplier[s])
        PROVE  FoundAgain'
    <3>1. OthersStay(c) /\ bounds' = bounds /\ tx'[c].pc = "idle"
      BY <2>8 DEF Commits, Ended, Idle
    <3> QED BY <2>8, <3>1, HoldersStay
  <2>9. CASE CommitLinked(c) \/ CommitClear(c)
    <3>1. Commits(c) /\ \A s \in Suppliers : supplier'[s] = SupOf(c, s)
      BY <2>0, <2>9, LinkedIsCommit, ClearIsCommit, LinkedCommits, ClearCommits
    <3>2. \A s \in Suppliers : supplier[s] # Gone => supplier'[s] = supplier[s]
      BY <2>0, <3>1 DEF Pending, SupOf
    <3> QED BY <3>1, <3>2, <2>8
  <2>10. CASE CommitEdit(c) /\ ~Rollback(c)
    BY <2>10, <2>8, EditIsCommit, EditKeepsKeys
  <2>11. CASE (CommitRename(c) \/ CommitDeletion(c)) /\ ~Rollback(c)
    <3>1. tx[c].kind \in {"rename", "merge", "delete"}
      BY <2>11 DEF CommitRename, CommitDeletion, At
    <3>2. ~OnlyLinking
      BY <2>0, <3>1 DEF TxOK, OnlyLinking, Linking
    <3> QED BY <2>8, <2>11, <3>2, RenameIsCommit, DeletionIsCommit
  <2> QED BY <1>2, <2>1, <2>2, <2>3, <2>4, <2>5, <2>6, <2>7, <2>9, <2>10, <2>11 DEF Step, Lost, Abort
<1> QED BY <1>1, <1>2 DEF Next

LEMMA InitFound ==
  ASSUME Init
  PROVE  FoundAgain
BY DEF Init, FoundAgain, Idle

-----------------------------------------------------------------------------
(* One transaction at a time keeps the copies in the invoices true.         *)

Alone(c) == \A o \in Clients \ {c} : tx[o] = Idle

\* Those that have not begun see what is committed.
LEMMA IdleSerial ==
  ASSUME Core', AllMatch', NEW o \in Clients, tx'[o] = Idle
  PROVE  Serial(o)'
<1>1. tx'[o].kind = "none" /\ tx'[o].pc = "idle"
  BY DEF Idle
<1>2. /\ \A t \in Suppliers : wSup'[o][t] = Same
      /\ \A i \in Invoices : wInv'[o][i] = Same
  BY <1>1 DEF Core, Pending, Linking
<1>3. \A i \in Invoices : invoice'[i] # Gone => invoice'[i] \in InvoiceT
  BY DEF Core, TypeOK
<1>4. Loaded(o)' /\ Selected(o)'
  BY <1>1, <1>2 DEF Loaded, Selected, Linking
<1>5. ASSUME NEW i \in Invoices
      PROVE  /\ InvOf(o, i)' # Gone /\ InvOf(o, i)'.sup # None => Matches(InvOf(o, i), Target(o, InvOf(o, i).sup))'
             /\ invoice'[i] # Gone /\ InvOf(o, i)'.sup = None => invoice'[i].sup = None
  <2>1. InvOf(o, i)' = invoice'[i]
    BY <1>2 DEF InvOf
  <2>2. ASSUME invoice'[i] # Gone, invoice'[i].sup # None
        PROVE  Matches(InvOf(o, i), Target(o, InvOf(o, i).sup))'
    <3>1. invoice'[i].sup \in Suppliers /\ wSup'[o][invoice'[i].sup] = Same
      BY <1>2, <1>3, <2>2 DEF InvoiceT
    <3>2. Target(o, InvOf(o, i).sup)' = supplier'[invoice'[i].sup]
      BY <1>1, <2>1, <3>1 DEF Target, SupOf
    <3> QED BY <2>1, <2>2, <3>2 DEF Matches, AllMatch
  <2> QED BY <2>1, <2>2
<1> QED BY <1>4, <1>5 DEF Serial, Views

\* A step of the only transaction that is open.
LEMMA AloneSuffices ==
  ASSUME Core', bounds' = bounds, NEW c \in Clients, Alone(c), OthersStay(c), AllMatch', Serial(c)' \/ tx'[c] = Idle
  PROVE  OneAtATime'
<1>1. \A o \in Clients \ {c} : tx'[o] = Idle
  BY DEF Alone, OthersStay
<1>2. \A o \in Clients : Serial(o)'
  BY <1>1, IdleSerial
<1> QED BY <1>1, <1>2 DEF OneAtATime

\* A transaction that begins while one at a time may be open is alone.
LEMMA BeginsAlone ==
  ASSUME Core, NEW c \in Clients, bounds.open = 1, Began(c)
  PROVE  Alone(c)
<1> DEFINE busy == {o \in Clients : tx[o] # Idle}
<1>1. IsFiniteSet(busy)
  BY ConstantsAssumption, FS_Subset
<1>2. Cardinality(busy) < 1 /\ Cardinality(busy) \in Nat
  BY <1>1, FS_CardinalityType DEF Began
<1>3. busy = {}
  BY <1>1, <1>2, FS_EmptySet
<1> QED BY <1>3 DEF Alone

LEMMA AloneOf ==
  ASSUME OneAtATime, bounds.open = 1, NEW c \in Clients, tx[c] # Idle
  PROVE  Alone(c)
BY DEF OneAtATime, Alone

\* What a statement that only reads leaves of the views.
LEMMA ViewsStay ==
  ASSUME Core, NEW c \in Clients, Reads(c), Views(c),
         \A s \in Suppliers : Target(c, s)' = Target(c, s)
  PROVE  Views(c)'
<1>1. \A i \in Invoices : InvOf(c, i)' = InvOf(c, i) /\ InvOf(c, i) \in InvoiceT \cup {Gone}
  BY Seen DEF Reads, InvOf, Core
<1>2. invoice' = invoice
  BY DEF Reads
<1>3. ASSUME NEW i \in Invoices, InvOf(c, i) # Gone, InvOf(c, i).sup # None
      PROVE  Matches(InvOf(c, i), Target(c, InvOf(c, i).sup))'
  <2>1. InvOf(c, i).sup \in Suppliers
    BY <1>1, <1>3 DEF InvoiceT
  <2>2. Matches(InvOf(c, i), Target(c, InvOf(c, i).sup))
    BY <1>3 DEF Views
  <2>3. Target(c, InvOf(c, i).sup)' = Target(c, InvOf(c, i).sup)
    BY <1>1, <2>1
  <2> QED BY <1>1, <2>2, <2>3 DEF Matches
<1> QED BY <1>1, <1>2, <1>3 DEF Views

\* The row a transaction leaves, as its kind says.
LEMMA TargetIs ==
  ASSUME NEW c \in Clients
  PROVE  /\ tx[c].pc \notin {"children", "flush"} \/ tx[c].kind \in {"none", "create", "parse", "clear"} =>
              \A s \in Suppliers : Target(c, s) = SupOf(c, s)
         /\ \A s \in Suppliers \ {tx[c].src} : Target(c, s) = SupOf(c, s)
         /\ tx[c].pc \in {"children", "flush"} =>
              /\ tx[c].kind = "edit" => Target(c, tx[c].src) = Canonical(c)
              /\ tx[c].kind = "rename" => Target(c, tx[c].src) = tx[c].want
              /\ tx[c].kind \in {"merge", "delete"} => Target(c, tx[c].src) = Gone
BY DEF Target

LEMMA BeginSerial ==
  ASSUME Core, NEW c \in Clients, Began(c), AllMatch
  PROVE  Serial(c)'
<1>0. TypeOK /\ Pending(c) /\ Reads(c) /\ tx[c].kind = "none"
  BY DEF Core, Began, Idle
<1>1. UNCHANGED <<supplier, invoice, used, wSup, wInv, bounds>>
  BY <1>0 DEF Reads
<1>2. /\ \A s \in Suppliers : wSup[c][s] = Same /\ SupOf(c, s) = supplier[s]
      /\ \A i \in Invoices : wInv[c][i] = Same /\ InvOf(c, i) = invoice[i]
  BY <1>0, NothingPending DEF Linking
<1>3. \A i \in Invoices : invoice[i] # Gone => invoice[i] \in InvoiceT
  BY <1>0 DEF TypeOK
<1>4. Loaded(c)'
  BY <1>1, <1>2 DEF Began, Loaded, Linking, Searching, SupOf
<1>5. Selected(c)'
  BY <1>1, <1>2 DEF Began, Selected
<1>6. ASSUME NEW i \in Invoices, invoice[i] # Gone, invoice[i].sup # None
      PROVE  Target(c, invoice[i].sup)' = supplier[invoice[i].sup]
  <2>1. invoice[i].sup \in Suppliers
    BY <1>3, <1>6 DEF InvoiceT
  <2>2. tx'[c].pc \in {"children", "flush"} => invoice[i].sup # tx'[c].src
    <3>1. CASE tx'[c].kind = "delete"
      BY <1>2, <1>6, <3>1 DEF Began, LinkedTo
    <3>2. CASE tx'[c].kind # "delete"
      BY <1>6, <3>2 DEF Began
    <3> QED BY <3>1, <3>2
  <2> QED BY <1>1, <1>2, <2>1, <2>2 DEF Target, SupOf
<1>7. ASSUME NEW i \in Invoices
      PROVE  /\ InvOf(c, i)' # Gone /\ InvOf(c, i)'.sup # None => Matches(InvOf(c, i), Target(c, InvOf(c, i).sup))'
             /\ invoice'[i] # Gone /\ InvOf(c, i)'.sup = None => invoice'[i].sup = None
  <2>1. InvOf(c, i)' = invoice[i]
    BY <1>1, <1>2 DEF InvOf
  <2> QED BY <1>1, <1>6, <2>1 DEF Matches, AllMatch
<1> QED BY <1>4, <1>5, <1>7 DEF Serial, Views

LEMMA FindSerial ==
  ASSUME Core, NEW c \in Clients, Look(c) \/ Relook(c), Serial(c)
  PROVE  Serial(c)'
<1> DEFINE missing == IF tx[c].pc = "look" THEN "insert" ELSE "lost"
<1>0. TypeOK /\ Pending(c)
  BY DEF Core
<1>1. tx[c].kind \in {"create", "parse", "edit"} /\ tx[c].pc \in {"look", "relook"} /\ Find(c, missing) /\ missing \in Pcs
  BY DEF Look, Relook, At, Pcs, Linking
<1>2. /\ Reads(c)
      /\ tx'[c].kind = tx[c].kind /\ tx'[c].inv = tx[c].inv /\ tx'[c].old = tx[c].old
      /\ \/ tx'[c].pc = missing
         \/ tx'[c].pc = AfterFound(c) /\ tx'[c].seen = SupOf(c, tx'[c].src)
  BY <1>0, <1>1, FindReads
<1>3. UNCHANGED <<supplier, invoice, used, wSup, wInv, bounds>>
  BY <1>2 DEF Reads
<1>4. /\ missing \in {"insert", "lost"}
      /\ tx[c].kind = "create" => AfterFound(c) = "flush"
      /\ tx[c].kind = "parse" => AfterFound(c) = "link"
      /\ tx[c].kind = "edit" => AfterFound(c) = "scan"
  BY DEF AfterFound
<1> HIDE DEF missing
<1>5. \A i \in Invoices : wInv[c][i] = Same
  BY <1>0, <1>1, NothingPending
<1>6. Loaded(c)'
  BY <1>1, <1>2, <1>3, <1>4 DEF Serial, Loaded, Linking, Searching, SupOf
<1>7. Selected(c)'
  BY <1>1, <1>2, <1>3, <1>4, <1>5 DEF Selected
<1>8. \A s \in Suppliers : Target(c, s)' = Target(c, s)
  <2>1. \A s \in Suppliers : Target(c, s) = SupOf(c, s)
    BY <1>1, TargetIs
  <2>2. \A s \in Suppliers : Target(c, s)' = SupOf(c, s)
    BY <1>1, <1>2, <1>3, <1>4 DEF Target, SupOf
  <2> QED BY <2>1, <2>2
<1> QED BY <1>2, <1>6, <1>7, <1>8, ViewsStay DEF Serial

LEMMA ScanSerial ==
  ASSUME Core, NEW c \in Clients, Scan(c), Serial(c)
  PROVE  Serial(c)'
<1>0. TypeOK /\ TxOK(c) /\ Pending(c)
  BY DEF Core
<1>1. tx[c].kind \in {"edit", "rename", "merge"} /\ tx[c].pc = "scan"
  BY DEF Scan, At
<1>2. /\ Reads(c)
      /\ tx'[c].kind = tx[c].kind /\ tx'[c].want = tx[c].want /\ tx'[c].inv = tx[c].inv
      /\ tx'[c].old = tx[c].old /\ tx'[c].dst = tx[c].dst /\ tx'[c].src = tx[c].src
      /\ tx'[c].seen = tx[c].seen /\ tx'[c].rows = LinkedTo(c, tx[c].src)
      /\ tx'[c].pc = IF tx[c].kind = "edit" /\ Canonical(c) = tx[c].seen THEN "flush" ELSE "cascade"
  BY <1>0, ScanReads
<1>3. UNCHANGED <<supplier, invoice, used, wSup, wInv, bounds>>
  BY <1>2 DEF Reads
<1>4. \A i \in Invoices : wInv[c][i] = Same
  BY <1>0, <1>1, NothingPending
<1>5. Loaded(c)'
  BY <1>1, <1>2, <1>3 DEF Serial, Loaded, Linking, Searching, SupOf
<1>6. Selected(c)'
  BY <1>1, <1>2, <1>3, <1>4 DEF Selected, LinkedTo, InvOf
<1>7. \A s \in Suppliers : Target(c, s)' = Target(c, s)
  <2>1. \A s \in Suppliers : Target(c, s) = SupOf(c, s)
    BY <1>1, TargetIs
  <2>2. Canonical(c)' = Canonical(c)
    BY <1>2 DEF Canonical
  <2>3. tx[c].kind = "edit" => SupOf(c, tx[c].src) = tx[c].seen
    BY <1>1 DEF Serial, Loaded, Linking, Searching
  <2>4. \A s \in Suppliers : SupOf(c, s)' = SupOf(c, s)
    BY <1>3 DEF SupOf
  <2>5. CASE tx'[c].pc = "cascade"
    BY <2>1, <2>4, <2>5 DEF Target, SupOf
  <2>6. CASE tx'[c].pc = "flush" /\ tx[c].kind = "edit" /\ Canonical(c) = tx[c].seen
    BY <1>2, <1>3, <2>1, <2>2, <2>3, <2>6 DEF Target, SupOf
  <2> QED BY <1>2, <2>5, <2>6
<1> QED BY <1>2, <1>5, <1>6, <1>7, ViewsStay DEF Serial

LEMMA ChildrenSerial ==
  ASSUME Core, NEW c \in Clients, Children(c), Serial(c)
  PROVE  Serial(c)'
<1>0. TypeOK /\ TxOK(c) /\ Pending(c)
  BY DEF Core
<1>1. tx[c].kind \in {"merge", "delete"} /\ tx[c].pc = "children"
  BY DEF Children, At
<1>2. /\ Reads(c)
      /\ tx'[c].kind = tx[c].kind /\ tx'[c].want = tx[c].want /\ tx'[c].inv = tx[c].inv
      /\ tx'[c].old = tx[c].old /\ tx'[c].dst = tx[c].dst /\ tx'[c].src = tx[c].src
      /\ tx'[c].seen = tx[c].seen /\ tx'[c].rows = LinkedTo(c, tx[c].src) /\ tx'[c].pc = "flush"
  BY <1>0, ChildrenReads
<1>3. UNCHANGED <<supplier, invoice, used, wSup, wInv, bounds>>
  BY <1>2 DEF Reads
<1>4. tx[c].src \in Suppliers /\ tx[c].src # None
  BY <1>0, <1>1, Found, Apart
<1>5. LinkedTo(c, tx[c].src) = {}
  <2>1. Target(c, tx[c].src) = Gone
    BY <1>1, TargetIs
  <2> QED BY <1>4, <2>1 DEF LinkedTo, Serial, Views, Matches
<1>6. Loaded(c)'
  BY <1>1, <1>2, <1>3 DEF Serial, Loaded, Linking
<1>7. Selected(c)'
  BY <1>1, <1>2, <1>5 DEF Selected
<1>8. \A s \in Suppliers : Target(c, s)' = Target(c, s)
  BY <1>1, <1>2, <1>3 DEF Target, SupOf
<1> QED BY <1>2, <1>6, <1>7, <1>8, ViewsStay DEF Serial

LEMMA InsertSerial ==
  ASSUME Core, NEW c \in Clients, Insert(c), Serial(c)
  PROVE  Serial(c)'
<1>0. TypeOK /\ TxOK(c) /\ Pending(c)
  BY DEF Core
<1>1. tx[c].kind \in {"create", "parse", "edit"} /\ tx[c].pc = "insert" /\ tx[c].kind \in Linking
  BY DEF Insert, At, Linking
<1>2. tx[c].want \in RowT
  BY <1>0, <1>1, Found
<1>3. /\ UNCHANGED <<supplier, invoice, wInv, bounds>>
      /\ tx'[c].kind = tx[c].kind /\ tx'[c].inv = tx[c].inv
      /\ tx'[c].old = tx[c].old /\ tx'[c].pc = "relook"
      /\ \/ wSup' = wSup
         \/ \E s \in Suppliers \ used : \A t \in Suppliers \ {s} : wSup'[c][t] = wSup[c][t]
  BY <1>0, <1>2, InsertMoves
<1>4. \A i \in Invoices : wInv[c][i] = Same /\ InvOf(c, i) = invoice[i]
  BY <1>0, <1>1, NothingPending
<1>5. \A s \in used : wSup'[c][s] = wSup[c][s]
  BY <1>0, <1>3 DEF TypeOK
<1>6. Loaded(c)'
  BY <1>1, <1>3 DEF Serial, Loaded, Linking, Searching
<1>7. Selected(c)'
  BY <1>1, <1>3, <1>4 DEF Selected
<1>8. \A i \in Invoices : InvOf(c, i)' = InvOf(c, i) /\ InvOf(c, i) \in InvoiceT \cup {Gone}
  BY <1>0, <1>3, Seen DEF InvOf
<1>9. \A s \in Suppliers : Target(c, s) = SupOf(c, s)
  BY <1>1, TargetIs
<1>10. ASSUME NEW i \in Invoices, InvOf(c, i) # Gone, InvOf(c, i).sup # None
       PROVE  Matches(InvOf(c, i), Target(c, InvOf(c, i).sup))'
  <2>1. InvOf(c, i).sup \in Suppliers
    BY <1>8, <1>10 DEF InvoiceT
  <2>2. Matches(InvOf(c, i), SupOf(c, InvOf(c, i).sup))
    BY <1>9, <1>10, <2>1 DEF Serial, Views
  <2>3. InvOf(c, i).sup \in used
    BY <2>1, <2>2, ThereIsNotPending DEF Matches
  <2>4. \A s \in used : Target(c, s)' = SupOf(c, s)
    BY <1>3, <1>5 DEF Target, SupOf
  <2>5. Target(c, InvOf(c, i).sup)' = SupOf(c, InvOf(c, i).sup)
    BY <1>8, <2>3, <2>4
  <2> QED BY <1>8, <2>2, <2>5 DEF Matches
<1> QED BY <1>3, <1>6, <1>7, <1>8, <1>10 DEF Serial, Views

LEMMA LinkSerial ==
  ASSUME Core, NEW c \in Clients, Link(c), ~Rollback(c), Serial(c)
  PROVE  Serial(c)'
<1>0. TypeOK /\ TxOK(c) /\ Pending(c)
  BY DEF Core
<1> DEFINE i == tx[c].inv
           s == tx[c].src
<1>1. tx[c].kind = "parse" /\ tx[c].pc = "link"
  BY DEF Link, At
<1>2. i \in Invoices /\ invoice[i] = Gone /\ s \in Suppliers
  BY <1>0, <1>1, Found DEF Linking, Searching
<1>3. /\ UNCHANGED <<supplier, invoice, wSup>>
      /\ tx'[c].kind = tx[c].kind /\ tx'[c].src = s /\ tx'[c].seen = tx[c].seen /\ tx'[c].pc = "flush"
      /\ SupOf(c, s) # Gone
      /\ wInv' \in [Clients -> [Invoices -> InvoiceT \cup {Same}]]
      /\ \A j \in Invoices \ {i} : wInv'[c][j] = wInv[c][j]
      /\ wInv'[c][i] \in InvoiceT /\ wInv'[c][i].sup = s
      /\ wInv'[c][i].name = tx[c].seen.name /\ wInv'[c][i].inn = tx[c].seen.inn
  BY <1>0, LinkMoves
<1>4. SupOf(c, s) = tx[c].seen
  BY <1>1 DEF Serial, Loaded, Linking, Searching
<1>5. Loaded(c)'
  BY <1>1, <1>3, <1>4 DEF Loaded, SupOf
<1>6. Selected(c)'
  BY <1>1, <1>3 DEF Selected
<1>7. \A t \in Suppliers : Target(c, t) = SupOf(c, t) /\ Target(c, t)' = SupOf(c, t)
  BY <1>1, <1>3, TargetIs DEF Target, SupOf
<1>8. ASSUME NEW j \in Invoices
      PROVE  /\ InvOf(c, j)' # Gone /\ InvOf(c, j)'.sup # None => Matches(InvOf(c, j), Target(c, InvOf(c, j).sup))'
             /\ invoice'[j] # Gone /\ InvOf(c, j)'.sup = None => invoice'[j].sup = None
  <2>1. CASE j = i
    <3>1. InvOf(c, j)' = wInv'[c][i] /\ InvOf(c, j)'.sup = s
      BY <1>3, <2>1, Apart DEF InvOf
    <3>2. Target(c, InvOf(c, j).sup)' = SupOf(c, s)
      BY <1>2, <1>7, <3>1
    <3> QED BY <1>2, <1>3, <1>4, <2>1, <3>1, <3>2 DEF Matches
  <2>2. CASE j # i
    <3>1. InvOf(c, j)' = InvOf(c, j)
      BY <1>3, <2>2 DEF InvOf
    <3>2. ASSUME InvOf(c, j) # Gone, InvOf(c, j).sup # None
          PROVE  Matches(InvOf(c, j), Target(c, InvOf(c, j).sup))'
      <4>1. InvOf(c, j).sup \in Suppliers
        BY <1>0, <3>2, Seen DEF InvoiceT
      <4>2. Target(c, InvOf(c, j).sup)' = Target(c, InvOf(c, j).sup)
        BY <1>7, <3>1, <4>1
      <4> QED BY <3>1, <3>2, <4>2 DEF Matches, Serial, Views
    <3> QED BY <1>3, <3>1, <3>2 DEF Serial, Views
  <2> QED BY <2>1, <2>2
<1> QED BY <1>5, <1>6, <1>8 DEF Serial, Views

LEMMA CascadeSerial ==
  ASSUME Core, NEW c \in Clients, Cascade(c), ~Rollback(c), Serial(c)
  PROVE  Serial(c)'
<1>0. TypeOK /\ TxOK(c) /\ Pending(c)
  BY DEF Core
<1> DEFINE s == tx[c].src
<1>1. tx[c].kind \in {"edit", "rename", "merge"} /\ tx[c].pc = "cascade"
  BY DEF Cascade, At
<1>2. /\ UNCHANGED <<supplier, invoice, used, wSup, bounds>>
      /\ tx'[c].kind = tx[c].kind /\ tx'[c].want = tx[c].want /\ tx'[c].inv = tx[c].inv
      /\ tx'[c].old = tx[c].old /\ tx'[c].dst = tx[c].dst /\ tx'[c].src = s
      /\ tx'[c].seen = tx[c].seen /\ tx'[c].rows = {}
      /\ tx'[c].pc = IF tx[c].kind = "merge" THEN "children" ELSE "flush"
      /\ \A i \in Invoices : i \notin Reached(c) => wInv'[c][i] = wInv[c][i]
      /\ \A i \in Reached(c) : wInv'[c][i] = Cascaded(c, InvOf(c, i)) /\ wInv'[c][i] \in InvoiceT
  BY <1>0, CascadeMoves
<1>3. \A i \in Invoices : wInv[c][i] = Same /\ InvOf(c, i) = invoice[i]
  BY <1>0, <1>1, NothingPending
<1>4. /\ s \in Suppliers /\ s # None
      /\ tx[c].kind # "merge" => tx[c].want \in RowT
      /\ tx[c].seen \in RowT
      /\ tx[c].kind = "merge" => tx[c].dst \in Suppliers /\ tx[c].dst # s /\ tx[c].dst # None
  BY <1>0, <1>1, Found, Apart DEF Linking, Searching
<1>5. /\ tx[c].kind = "edit" => SupOf(c, s) = tx[c].seen
      /\ tx[c].kind = "merge" => SupOf(c, tx[c].dst) = tx[c].seen
  <2>1. tx[c].kind = "merge" => SupOf(c, tx[c].dst) = supplier[tx[c].dst]
    BY <1>0, <1>4, NothingPending DEF Linking
  <2> QED BY <1>1, <2>1 DEF Serial, Loaded, Linking, Searching
<1>6. /\ tx[c].rows = LinkedTo(c, s)
      /\ \A i \in Invoices : i \in Reached(c) <=> invoice[i] # Gone /\ invoice[i].sup = s
      /\ Reached(c) \subseteq Invoices
  BY <1>1, <1>3 DEF Serial, Selected, LinkedTo, Reached
<1>7. \A i \in Invoices : invoice[i] # Gone => invoice[i] \in InvoiceT
  BY <1>0 DEF TypeOK
\* What the cascade has left in an invoice it reached.
<1>8. ASSUME NEW i \in Reached(c)
      PROVE  /\ InvOf(c, i)' = wInv'[c][i] /\ wInv'[c][i] # Gone
             /\ wInv'[c][i].sup = IF tx[c].kind = "merge" THEN tx[c].dst ELSE s
             /\ wInv'[c][i].name = IF tx[c].kind = "merge" THEN tx[c].seen.name ELSE tx[c].want.name
             /\ wInv'[c][i].inn = IF tx[c].kind = "merge" THEN tx[c].seen.inn
                                  ELSE IF tx[c].kind = "rename" THEN tx[c].want.inn ELSE invoice[i].inn
  <2>1. i \in Invoices /\ invoice[i] \in InvoiceT /\ InvOf(c, i) = invoice[i] /\ invoice[i].sup = s
    BY <1>3, <1>6, <1>7
  <2>2. tx[c] \in TxT
    BY <1>0 DEF TypeOK
  <2>3. InvOf(c, i)' = wInv'[c][i] /\ wInv'[c][i] # Gone
    BY <1>2, Apart DEF InvOf
  <2>4. wInv'[c][i] = Cascaded(c, invoice[i])
    BY <1>2, <2>1
  <2> QED BY <1>1, <1>4, <2>1, <2>2, <2>3, <2>4, CascadedRow
<1>9. \A i \in Invoices : i \notin Reached(c) => wInv'[c][i] = Same /\ InvOf(c, i)' = invoice[i]
  BY <1>2, <1>3 DEF InvOf
<1>10. Loaded(c)'
  BY <1>1, <1>2 DEF Serial, Loaded, Linking, Searching, SupOf
<1>11. Selected(c)'
  <2>1. \A i \in Invoices : tx[c].kind = "edit" /\ wInv'[c][i] # Same =>
          /\ wInv'[c][i].sup = invoice[i].sup /\ wInv'[c][i].inn = invoice[i].inn
          /\ wInv'[c][i].name = tx[c].want.name
    BY <1>6, <1>8, <1>9
  <2> QED BY <1>1, <1>2, <2>1 DEF Selected
<1>12. /\ \A t \in Suppliers \ {s} : Target(c, t)' = SupOf(c, t)
       /\ tx[c].kind = "edit" => Target(c, s)' = Canonical(c)
       /\ tx[c].kind = "rename" => Target(c, s)' = tx[c].want
  BY <1>1, <1>2 DEF Target, SupOf, Canonical
<1>13. \A i \in Invoices : invoice[i] # Gone /\ invoice[i].sup # None =>
         Matches(invoice[i], SupOf(c, invoice[i].sup))
  <2> SUFFICES ASSUME NEW i \in Invoices, invoice[i] # Gone, invoice[i].sup # None
      PROVE  Matches(invoice[i], SupOf(c, invoice[i].sup))
    OBVIOUS
  <2>1. invoice[i].sup \in Suppliers
    BY <1>7 DEF InvoiceT
  <2>2. Target(c, invoice[i].sup) = SupOf(c, invoice[i].sup)
    BY <1>1, <2>1, TargetIs
  <2> QED BY <1>3, <2>2 DEF Serial, Views
<1>14. ASSUME NEW i \in Invoices
       PROVE  /\ InvOf(c, i)' # Gone /\ InvOf(c, i)'.sup # None => Matches(InvOf(c, i), Target(c, InvOf(c, i).sup))'
              /\ invoice'[i] # Gone /\ InvOf(c, i)'.sup = None => invoice'[i].sup = None
  <2>1. CASE i \notin Reached(c) /\ invoice[i] # Gone /\ invoice[i].sup # None
    <3>1. InvOf(c, i)' = invoice[i] /\ invoice[i].sup \in Suppliers \ {s}
      BY <1>6, <1>7, <1>9, <2>1 DEF InvoiceT
    <3>2. Target(c, InvOf(c, i).sup)' = SupOf(c, invoice[i].sup)
      BY <1>12, <3>1
    <3> QED BY <1>2, <1>13, <2>1, <3>1, <3>2 DEF Matches
  <2>2. CASE i \notin Reached(c) /\ ~(invoice[i] # Gone /\ invoice[i].sup # None)
    BY <1>2, <1>9, <2>2
  <2>3. CASE i \in Reached(c)
    <3>1. invoice[i] # Gone /\ invoice[i].sup = s /\ Matches(invoice[i], SupOf(c, s))
      BY <1>4, <1>6, <1>13, <2>3
    <3>2. CASE tx[c].kind = "merge"
      <4>1. InvOf(c, i)'.sup = tx[c].dst
        BY <1>8, <2>3, <3>2
      <4>2. Target(c, InvOf(c, i).sup)' = SupOf(c, tx[c].dst)
        BY <1>4, <1>12, <3>2, <4>1
      <4>3. tx[c].seen # Gone
        BY <1>4, Apart
      <4> QED BY <1>4, <1>5, <1>8, <2>3, <3>2, <4>1, <4>2, <4>3 DEF Matches
    <3>3. CASE tx[c].kind = "edit"
      <4>1. InvOf(c, i)'.sup = s
        BY <1>8, <2>3, <3>3
      <4>2. Target(c, InvOf(c, i).sup)' = Canonical(c)
        BY <1>2, <1>12, <3>3, <4>1
      <4>3. Canonical(c) # Gone /\ Canonical(c).name = tx[c].want.name /\ Canonical(c).inn = tx[c].seen.inn
        BY <1>4, <3>3, CanonicalRow, Apart
      <4> QED BY <1>4, <1>5, <1>8, <2>3, <3>1, <3>3, <4>1, <4>2, <4>3 DEF Matches
    <3>4. CASE tx[c].kind = "rename"
      <4>1. InvOf(c, i)'.sup = s
        BY <1>8, <2>3, <3>4
      <4>2. Target(c, InvOf(c, i).sup)' = tx[c].want
        BY <1>2, <1>12, <3>4, <4>1
      <4>3. tx[c].want # Gone
        BY <1>4, <3>4, Apart
      <4> QED BY <1>4, <1>8, <2>3, <3>4, <4>1, <4>2, <4>3 DEF Matches
    <3> QED BY <1>1, <3>2, <3>3, <3>4
  <2> QED BY <2>1, <2>2, <2>3
<1> QED BY <1>10, <1>11, <1>14 DEF Serial, Views

\* A commit leaves every row as the transaction has seen it, or is to leave it.
LEMMA LinkedSerial ==
  ASSUME Core, NEW c \in Clients, CommitLinked(c), Serial(c)
  PROVE  AllMatch'
<1>0. TypeOK /\ tx[c].kind \in {"create", "parse"}
  BY DEF Core, CommitLinked, At
<1>1. /\ \A t \in Suppliers : supplier'[t] = Target(c, t)
      /\ \A i \in Invoices : invoice'[i] = InvOf(c, i) /\ InvOf(c, i) \in InvoiceT \cup {Gone}
  BY <1>0, LinkedCommits, TargetIs, Seen
<1> QED BY <1>1 DEF AllMatch, Serial, Views, InvoiceT

LEMMA ClearSerial ==
  ASSUME Core, NEW c \in Clients, CommitClear(c), Serial(c)
  PROVE  AllMatch' /\ invoice'[tx[c].inv].sup = None
<1> DEFINE i == tx[c].inv
<1>0. TypeOK /\ TxOK(c) /\ Pending(c) /\ tx[c].kind = "clear"
  BY DEF Core, CommitClear, At
<1>1. /\ i \in Invoices /\ \A t \in Suppliers : supplier'[t] = SupOf(c, t)
      /\ \A j \in Invoices \ {i} : invoice'[j] = InvOf(c, j)
      /\ invoice'[i].sup = IF tx[c].old.sup = None THEN InvOf(c, i).sup ELSE None
  BY <1>0, ClearCommits
<1>2. tx[c].old = invoice[i] /\ InvOf(c, i) = invoice[i]
  BY <1>0, <1>1, NothingPending DEF Serial, Loaded
<1>3. invoice'[i].sup = None
  BY <1>1, <1>2
<1>4. \A j \in Invoices : InvOf(c, j) \in InvoiceT \cup {Gone}
  BY <1>0, Seen
<1>5. \A t \in Suppliers : supplier'[t] = Target(c, t)
  BY <1>0, <1>1, TargetIs
<1> QED BY <1>1, <1>3, <1>4, <1>5 DEF AllMatch, Serial, Views, InvoiceT

LEMMA EditSerial ==
  ASSUME Core, NEW c \in Clients, CommitEdit(c), ~Rollback(c), Serial(c)
  PROVE  AllMatch' /\ invoice'[tx[c].inv].sup = tx[c].src /\ tx[c].src # None
<1> DEFINE i == tx[c].inv
           s == tx[c].src
           old == tx[c].old
           want == tx[c].want
           seen == tx[c].seen
<1>0. TypeOK /\ TxOK(c) /\ tx[c].kind = "edit" /\ tx[c].pc = "flush"
  BY DEF Core, CommitEdit, At
<1>1. /\ i \in Invoices /\ s \in Suppliers
      /\ \A t \in Suppliers \ {s} : supplier'[t] = SupOf(c, t)
      /\ want.name = seen.name => supplier'[s] = SupOf(c, s)
      /\ want.name # seen.name =>
           supplier'[s] \in RowT /\ supplier'[s].name = want.name /\ supplier'[s].inn = SupOf(c, s).inn
      /\ \A j \in Invoices \ {i} : invoice'[j] = InvOf(c, j)
      /\ invoice'[i] \in InvoiceT
      /\ invoice'[i].sup = IF s = old.sup THEN InvOf(c, i).sup ELSE s
      /\ invoice'[i].name = IF want.name = old.name THEN InvOf(c, i).name ELSE want.name
      /\ invoice'[i].inn = IF seen.inn = old.inn THEN InvOf(c, i).inn ELSE seen.inn
  BY <1>0, EditCommits
<1>2. /\ SupOf(c, s) = seen /\ old = invoice[i] /\ seen \in RowT /\ want \in RowT /\ s # None
      /\ invoice[i] # Gone
  BY <1>0, <1>1, Found, Apart DEF Serial, Loaded, Linking, Searching
<1>3. /\ InvOf(c, i).sup = old.sup /\ InvOf(c, i).inn = old.inn
      /\ InvOf(c, i).name \in {old.name, want.name}
  BY <1>0, <1>1, <1>2 DEF InvOf, Serial, Selected
<1>4. invoice'[i].sup = s /\ invoice'[i].name = want.name /\ invoice'[i].inn = seen.inn
  BY <1>1, <1>3
<1>5. supplier'[s] # Gone /\ supplier'[s].name = want.name /\ supplier'[s].inn = seen.inn
  BY <1>1, <1>2, Apart
<1>6. \A t \in Suppliers : supplier'[t] # Gone \/ Target(c, t) # Gone =>
        /\ supplier'[t] # Gone /\ Target(c, t) # Gone
        /\ supplier'[t].name = Target(c, t).name /\ supplier'[t].inn = Target(c, t).inn
  <2>1. Target(c, s) = Canonical(c) /\ \A t \in Suppliers \ {s} : Target(c, t) = SupOf(c, t)
    BY <1>0, TargetIs
  <2>2. Canonical(c) # Gone /\ Canonical(c).name = want.name /\ Canonical(c).inn = seen.inn
    BY <1>2, CanonicalRow, Apart
  <2> QED BY <1>1, <1>5, <2>1, <2>2
<1>7. \A j \in Invoices : InvOf(c, j) \in InvoiceT \cup {Gone}
  BY <1>0, Seen
<1>8. ASSUME NEW j \in Invoices, invoice'[j] # Gone, invoice'[j].sup # None
      PROVE  Matches(invoice'[j], supplier'[invoice'[j].sup])
  <2>1. CASE j = i
    BY <1>4, <1>5, <2>1 DEF Matches
  <2>2. CASE j # i
    <3>1. invoice'[j] = InvOf(c, j) /\ InvOf(c, j).sup \in Suppliers
      BY <1>1, <1>7, <1>8, <2>2 DEF InvoiceT
    <3>2. Matches(InvOf(c, j), Target(c, InvOf(c, j).sup))
      BY <1>8, <3>1 DEF Serial, Views
    <3> QED BY <1>6, <3>1, <3>2 DEF Matches
  <2> QED BY <2>1, <2>2
<1> QED BY <1>2, <1>4, <1>8 DEF AllMatch, Matches

LEMMA RenameSerial ==
  ASSUME Core, NEW c \in Clients, CommitRename(c), ~Rollback(c), Serial(c)
  PROVE  AllMatch' /\ \A i \in Invoices : invoice'[i] = InvOf(c, i)
<1> DEFINE s == tx[c].src
           want == tx[c].want
           seen == tx[c].seen
<1>0. TypeOK /\ TxOK(c) /\ Pending(c) /\ tx[c].kind = "rename" /\ tx[c].pc = "flush"
  BY DEF Core, CommitRename, At
<1>1. /\ s \in Suppliers
      /\ \A t \in Suppliers \ {s} : supplier'[t] = SupOf(c, t)
      /\ want = seen => supplier'[s] = SupOf(c, s)
      /\ want # seen =>
           /\ supplier'[s] \in RowT
           /\ supplier'[s].name = IF want.name = seen.name THEN SupOf(c, s).name ELSE want.name
           /\ supplier'[s].inn = IF want.inn = seen.inn THEN SupOf(c, s).inn ELSE want.inn
      /\ \A j \in Invoices : invoice'[j] = InvOf(c, j)
  BY <1>0, RenameCommits
<1>2. SupOf(c, s) = seen /\ seen \in RowT /\ want \in RowT
  BY <1>0, <1>1, Found, NothingPending DEF Serial, Loaded, Linking
<1>3. supplier'[s] # Gone /\ supplier'[s].name = want.name /\ supplier'[s].inn = want.inn
  BY <1>1, <1>2, Apart
<1>4. Target(c, s) = want /\ \A t \in Suppliers \ {s} : Target(c, t) = SupOf(c, t)
  BY <1>0, TargetIs
<1>5. \A j \in Invoices : InvOf(c, j) \in InvoiceT \cup {Gone}
  BY <1>0, Seen
<1>6. ASSUME NEW j \in Invoices, invoice'[j] # Gone, invoice'[j].sup # None
      PROVE  Matches(invoice'[j], supplier'[invoice'[j].sup])
  <2>1. invoice'[j] = InvOf(c, j) /\ InvOf(c, j).sup \in Suppliers
    BY <1>1, <1>5, <1>6 DEF InvoiceT
  <2>2. Matches(InvOf(c, j), Target(c, InvOf(c, j).sup))
    BY <1>6, <2>1 DEF Serial, Views
  <2> QED BY <1>1, <1>3, <1>4, <2>1, <2>2 DEF Matches
<1> QED BY <1>1, <1>6 DEF AllMatch, Matches

LEMMA DeletionSerial ==
  ASSUME Core, NEW c \in Clients, CommitDeletion(c), ~Rollback(c), Serial(c)
  PROVE  AllMatch' /\ \A i \in Invoices : invoice'[i] = InvOf(c, i)
<1> DEFINE s == tx[c].src
<1>0. TypeOK /\ TxOK(c) /\ tx[c].kind \in {"merge", "delete"} /\ tx[c].pc = "flush"
  BY DEF Core, CommitDeletion, At
<1>1. tx[c].rows = {}
  BY <1>0 DEF Serial, Selected
<1>2. /\ s \in Suppliers
      /\ \A t \in Suppliers \ {s} : supplier'[t] = SupOf(c, t)
      /\ supplier'[s] = Gone
      /\ \A j \in Invoices : invoice'[j] = InvOf(c, j)
  BY <1>0, <1>1, DeletionCommits
<1>3. \A t \in Suppliers : supplier'[t] = Target(c, t)
  BY <1>0, <1>2, TargetIs
<1>4. \A j \in Invoices : InvOf(c, j) \in InvoiceT \cup {Gone}
  BY <1>0, Seen
<1> QED BY <1>2, <1>3, <1>4 DEF AllMatch, Serial, Views, InvoiceT

LEMMA StepOne ==
  ASSUME Core, OneAtATime, [Next]_vars
  PROVE  OneAtATime'
<1>1. CASE UNCHANGED vars
  BY <1>1 DEF vars, OneAtATime, Serial, Loaded, Selected, Views, AllMatch, Matches, Target, Canonical,
              LinkedTo, SupOf, InvOf
<1>2. ASSUME bounds.open = 1, NEW c \in Clients, Begin(c) \/ Step(c)
      PROVE  OneAtATime'
  <2>0. TypeOK /\ TxOK(c) /\ Core' /\ Serial(c) /\ AllMatch
    BY <1>2, StepCore DEF Core, OneAtATime, Next
  <2>a. ASSUME supplier' = supplier, invoice' = invoice PROVE AllMatch'
    BY <2>0, <2>a DEF AllMatch, Matches
  <2>b. ASSUME tx[c].pc # "idle" PROVE Alone(c)
    BY <1>2, <2>b, AloneOf DEF Idle
  <2>1. CASE Begin(c)
    <3>1. Began(c) /\ Alone(c) /\ Reads(c)
      BY <1>2, <2>1, BeginIs, BeginsAlone DEF Began
    <3> QED BY <2>0, <2>a, <3>1, BeginSerial, AloneSuffices DEF Reads
  <2>2. CASE Look(c) \/ Relook(c) \/ Scan(c) \/ Children(c)
    <3>1. Alone(c) /\ UNCHANGED <<supplier, invoice, bounds>>
      BY <2>2, <2>b DEF Look, Relook, Find, Scan, Children, At
    <3>2. OthersStay(c)
      <4>1. ASSUME Look(c) PROVE Find(c, "insert") /\ "insert" \in Pcs
        BY <4>1 DEF Look, Pcs
      <4>2. ASSUME Relook(c) PROVE Find(c, "lost") /\ "lost" \in Pcs
        BY <4>2 DEF Relook, Pcs
      <4> QED BY <2>0, <2>2, <4>1, <4>2, FindReads, ScanReads, ChildrenReads DEF Reads
    <3>3. Serial(c)'
      BY <2>0, <2>2, FindSerial, ScanSerial, ChildrenSerial
    <3> QED BY <2>0, <2>a, <3>1, <3>2, <3>3, AloneSuffices
  <2>3. CASE Insert(c)
    <3>1. Alone(c) /\ tx[c].want \in RowT
      BY <2>0, <2>3, <2>b, Found DEF Insert, At
    <3>2. UNCHANGED <<supplier, invoice, bounds>> /\ OthersStay(c)
      BY <2>0, <2>3, <3>1, InsertMoves
    <3> QED BY <2>0, <2>3, <2>a, <3>1, <3>2, InsertSerial, AloneSuffices
  <2>4. CASE (Link(c) \/ Cascade(c)) /\ ~Rollback(c)
    <3>1. Alone(c)
      BY <2>4, <2>b DEF Link, Cascade, At
    <3>2. UNCHANGED <<supplier, invoice, bounds>> /\ OthersStay(c)
      BY <2>0, <2>4, LinkMoves, CascadeMoves
    <3> QED BY <2>0, <2>4, <2>a, <3>1, <3>2, LinkSerial, CascadeSerial, AloneSuffices
  <2>5. CASE Rollback(c)
    <3>1. Ended(c) /\ supplier' = supplier /\ invoice' = invoice
      BY <2>0, <2>5, RollbackEnds
    <3>2. tx[c] # Idle => Alone(c)
      BY <1>2, AloneOf
    <3>3. CASE tx[c] # Idle
      BY <2>0, <2>a, <3>1, <3>2, <3>3, AloneSuffices DEF Ended
    <3>4. CASE tx[c] = Idle
      <4>1. tx' = tx
        BY <2>0, <3>1, <3>4 DEF Ended, OthersStay, TypeOK
      <4>2. \A o \in Clients : wSup'[o] = wSup[o] /\ wInv'[o] = wInv[o]
        <5>1. Pending(c) /\ tx[c].kind = "none"
          BY <3>4 DEF Core, Idle
        <5>2. \A s \in Suppliers : wSup'[c][s] = wSup[c][s]
          BY <2>0, <3>1, <5>1, NothingPending DEF Ended, Linking
        <5>3. \A i \in Invoices : wInv'[c][i] = wInv[c][i]
          BY <2>0, <3>1, <5>1, NothingPending DEF Ended
        <5>4. wSup[c] \in [Suppliers -> RowT \cup {Same}] /\ wSup'[c] \in [Suppliers -> RowT \cup {Same}]
              /\ wInv[c] \in [Invoices -> InvoiceT \cup {Same}] /\ wInv'[c] \in [Invoices -> InvoiceT \cup {Same}]
          BY <2>0, <3>1 DEF Ended, TypeOK
        <5>5. wSup'[c] = wSup[c] /\ wInv'[c] = wInv[c]
          BY <5>2, <5>3, <5>4
        <5> QED BY <5>5, <3>1 DEF Ended, OthersStay
      <4>3. \A o \in Clients : Serial(o)
        BY <1>2 DEF OneAtATime
      <4>4. \A o \in Clients : Serial(o)'
        BY <3>1, <4>1, <4>2, <4>3 DEF Serial, Loaded, Selected, Views, Matches, Target, Canonical,
                                       LinkedTo, SupOf, InvOf
      <4> QED BY <1>2, <2>a, <3>1, <4>1, <4>4 DEF OneAtATime
    <3> QED BY <3>3, <3>4
  <2>6. ASSUME Commits(c), AllMatch', Alone(c) PROVE OneAtATime'
    BY <2>0, <2>6, AloneSuffices DEF Commits, Ended
  <2>7. CASE (CommitLinked(c) \/ CommitEdit(c) \/ CommitClear(c) \/ CommitRename(c) \/ CommitDeletion(c)) /\ ~Rollback(c)
    <3>1. Alone(c)
      BY <2>7, <2>b DEF CommitLinked, CommitEdit, CommitClear, CommitRename, CommitDeletion, At
    <3>2. Commits(c)
      BY <2>7, LinkedIsCommit, ClearIsCommit, EditIsCommit, RenameIsCommit, DeletionIsCommit
    <3>3. AllMatch'
      BY <2>0, <2>7, LinkedSerial, ClearSerial, EditSerial, RenameSerial, DeletionSerial
    <3> QED BY <2>6, <3>1, <3>2, <3>3
  <2> QED BY <1>2, <2>1, <2>2, <2>3, <2>4, <2>5, <2>7 DEF Step, Lost, Abort
<1>3. ASSUME bounds.open # 1, NEW c \in Clients, Begin(c) \/ Step(c)
      PROVE  OneAtATime'
  <2>1. bounds' = bounds
    <3>1. Begin(c) => bounds' = bounds
      BY BeginIs DEF Began, Reads
    <3>2. Step(c) => bounds' = bounds
      BY DEF Step, Look, Relook, Find, Insert, Lost, Abort, Link, CommitLinked, CommitEdit, CommitClear,
             Scan, Cascade, CommitRename, Children, CommitDeletion, Rollback, CommitWith
    <3> QED BY <1>3, <3>1, <3>2
  <2> QED BY <1>3, <2>1 DEF OneAtATime
<1> QED BY <1>1, <1>2, <1>3 DEF Next

LEMMA InitOne ==
  ASSUME Init
  PROVE  OneAtATime
<1>1. \A c \in Clients : /\ tx[c] = Idle /\ tx[c].kind = "none" /\ tx[c].pc = "idle"
                         /\ \A i \in Invoices : wInv[c][i] = Same /\ InvOf(c, i) = Gone
  BY DEF Init, Idle, NoWrites, InvOf
<1>2. \A c \in Clients : Loaded(c) /\ Selected(c)
  BY <1>1 DEF Loaded, Selected, Linking
<1>3. \A c \in Clients : Views(c)
  BY <1>1 DEF Init, Views
<1>4. AllMatch
  BY DEF Init, AllMatch
<1> QED BY <1>1, <1>2, <1>3, <1>4 DEF OneAtATime, Serial

-----------------------------------------------------------------------------
(* The theorems.                                                            *)

\* The five parts hold in every reachable state of the transactions that find,
\* create, rename, merge, delete and link suppliers (crud/suppliers.py).
THEOREM InvHolds == Spec => []Inv
<1>1. Init => Inv
  BY InitCore, InitKeys, InitInns, InitFound, InitOne DEF Inv
<1>2. Inv /\ [Next]_vars => Inv'
  BY StepCore, StepKeys, StepInns, StepFound, StepOne DEF Inv
<1> QED BY <1>1, <1>2, PTL DEF Spec

\* Clients racing for one INN, or one name without INN, end up with one supplier,
\* and none of them fails unless a supplier is renamed or deleted under its hands
\* (get_or_create_supplier).
THEOREM OneSupplierPerKey == Spec => []RaceSafe
<1>1. Inv => RaceSafe
  BY DEF Inv, KeysApart, FoundAgain, OnlyLinking, RaceSafe
<1> QED BY <1>1, InvHolds, PTL

\* One transaction at a time keeps the copies of name and INN in an invoice equal
\* to those of its supplier (update_supplier, the rename in update_invoice,
\* merge_suppliers), through any sequence of links, renames, merges, deletions and
\* lost connections.  Concurrent ones may leave an old name in an invoice, but unless
\* suppliers are merged or get another INN none leaves the INN of another supplier.
THEOREM CopiesStayTrue == Spec => []Coherent
<1>1. Inv => Coherent
  BY DEF Inv, OneAtATime, AllMatch, Matches, InnsAgree, InnsStay, Coherent
<1> QED BY <1>1, InvHolds, PTL

LEMMA StepKeeps ==
  ASSUME Core, OneAtATime, bounds.open = 1, [Next]_vars,
         NEW i \in Invoices, invoice[i] # Gone, invoice[i].sup # None, invoice'[i].sup = None
  PROVE  \E c \in Clients : tx[c].kind = "clear" /\ tx[c].inv = i /\ tx'[c] = Idle
<1>0. TypeOK
  BY DEF Core
<1>1. invoice' # invoice
  OBVIOUS
<1>2. PICK c \in Clients : Begin(c) \/ Step(c)
  BY <1>1 DEF Next, vars
<1>3. Serial(c) /\ TxOK(c)
  BY DEF OneAtATime, Core
<1>4. (CommitLinked(c) \/ CommitEdit(c) \/ CommitClear(c) \/ CommitRename(c) \/ CommitDeletion(c)) /\ ~Rollback(c)
  <2>1. ~Begin(c)
    BY <1>1, BeginIs DEF Began, Reads
  <2>2. ~Rollback(c)
    BY <1>1 DEF Rollback
  <2>3. ~(Look(c) \/ Relook(c) \/ Insert(c) \/ Scan(c) \/ Children(c))
    BY <1>1 DEF Look, Relook, Find, Insert, Scan, Children
  <2>4. ~(Link(c) \/ Cascade(c))
    BY <1>0, <1>1, <1>3, <2>2, LinkMoves, CascadeMoves
  <2> QED BY <1>2, <2>1, <2>2, <2>3, <2>4 DEF Step, Lost, Abort
<1>5. InvOf(c, i).sup # None
  BY <1>3 DEF Serial, Views
<1>6. CASE CommitLinked(c) \/ CommitRename(c) \/ CommitDeletion(c)
  BY <1>0, <1>3, <1>4, <1>5, <1>6, LinkedCommits, RenameSerial, DeletionSerial
<1>7. CASE CommitEdit(c)
  BY <1>0, <1>3, <1>4, <1>5, <1>7, EditCommits, EditSerial
<1>8. CASE CommitClear(c)
  <2>1. tx[c].kind = "clear" /\ tx'[c] = Idle /\ (i # tx[c].inv => invoice'[i] = InvOf(c, i))
    BY <1>0, <1>3, <1>8, ClearCommits DEF CommitClear, At, Ended
  <2> QED BY <1>5, <2>1
<1> QED BY <1>4, <1>6, <1>7, <1>8

\* One transaction at a time takes the supplier off an invoice only when an edit
\* says so: a merge moves invoices, a deletion is refused while there are any
\* (routers/suppliers.py).
THEOREM SuppliersStay == Spec => KeepsSupplier
<1> DEFINE OnlyCleared ==
      bounds.open = 1 =>
        \A i \in Invoices :
          invoice[i] # Gone /\ invoice[i].sup # None /\ invoice'[i].sup = None
            => \E c \in Clients : tx[c].kind = "clear" /\ tx[c].inv = i /\ tx'[c] = Idle
<1>1. Inv /\ [Next]_vars => [OnlyCleared]_vars
  BY StepKeeps DEF Inv
<1> QED BY <1>1, InvHolds, PTL DEF Spec, KeepsSupplier

=============================================================================
