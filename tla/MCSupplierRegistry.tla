------------------------- MODULE MCSupplierRegistry -------------------------
(* SupplierRegistry for TLC: one transaction at a time with every handler; two   *)
(* that find, create, link and rename from an invoice; two with every handler    *)
(* but merge.  Clients, invoices and suppliers are interchangeable.              *)
EXTENDS SupplierRegistry, TLC

CONSTANTS x, y

Alone == [open |-> 1, kinds |-> AllKinds, suppliers |-> 3, invoices |-> 2, inns |-> {x, y},
          innEdits |-> TRUE]
Racing == [open |-> 2, kinds |-> {"create", "parse", "edit", "clear"}, suppliers |-> 2,
           invoices |-> 2, inns |-> {x}, innEdits |-> FALSE]
Mixed == [open |-> 2, kinds |-> AllKinds \ {"merge"}, suppliers |-> 3, invoices |-> 1,
          inns |-> {x}, innEdits |-> FALSE]
MCBounds == {Alone, Racing, Mixed}

Symmetry == Permutations(Clients) \cup Permutations(Invoices) \cup Permutations(Suppliers)
=============================================================================
