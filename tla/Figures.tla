------------------------------- MODULE Figures -------------------------------
(***************************************************************************)
(* What the money report of a project is computed from invoice lines:      *)
(* crud/calculations.py, the supplier card (crud/suppliers.py) and the     *)
(* sums of routers/dashboard.py.  Operators only, no state.                *)
(*                                                                         *)
(* Money is counted in kopecks, a quantity in 1/QtyScale of its unit, a    *)
(* reference price in 1/PriceScale of a kopeck per unit.  An average price *)
(* is kept as the pair total, quantity (the code carries 28 digits);       *)
(* whatever the code rounds to kopecks is rounded here.  Two equal lines   *)
(* of one invoice are not told apart.                                      *)
(***************************************************************************)
EXTENDS Integers, FiniteSets, FiniteSetsExt

CONSTANTS
  None,
  Off,                        \* a corridor rule that switches compensation off
  Classes, TypeOf, RoleOf,    \* material classes, their types and roles
  Directions, Dims, DimOf,    \* types but "other", dimensions, of the default unit
  Invoices, DateOf, SupplierOf, RateOf,
  MonthDays,                  \* length of a month in days
  QtyScale, PriceScale        \* fractions of quantities and of prices

Kinds == {"material", "delivery", "other"}
Types == Directions \cup {"other"}

LineT == [inv : Invoices, kind : Kinds, class : Classes \cup {None}, dim : Dims \cup {None},
          qty : Int, amount : Int, vat : Int \cup {None}]

ASSUME FiguresAssumption ==
  /\ "other" \notin Directions /\ IsFiniteSet(Directions) /\ IsFiniteSet(Invoices)
  /\ None \notin Classes \cup Dims \cup Invoices \cup Int
  /\ TypeOf \in [Classes -> Types] /\ DimOf \in [Types -> Dims \cup {None}]
  /\ RoleOf \in [Classes -> {"base", "additive", "exclude"}]
  /\ DateOf \in [Invoices -> Nat] /\ RateOf \in [Invoices -> Nat \cup {None}]
  /\ DOMAIN SupplierOf = Invoices
  /\ {MonthDays, QtyScale, PriceScale} \subseteq Nat \ {0}

-----------------------------------------------------------------------------
(* Rows.                                                                    *)

\* amount + COALESCE(vat_amount, amount * COALESCE(vat_rate, 20) / 100)
Gross(l) ==
  l.amount + IF l.vat # None THEN l.vat
             ELSE (l.amount * (IF RateOf[l.inv] = None THEN 20 ELSE RateOf[l.inv])) \div 100

GrossOf(ls) == MapThenSumSet(Gross, ls)
QtyOf(ls) == MapThenSumSet(LAMBDA l : l.qty, ls)
AmountOf(ls) == MapThenSumSet(LAMBDA l : l.amount, ls)

\* An invoice without a supplier is never excluded.
Counted(ls, excluded) == {l \in ls : SupplierOf[l.inv] \notin excluded}

Material(ls) == {l \in ls : l.kind = "material"}
Delivery(ls) == {l \in ls : l.kind = "delivery"}
Base(ls) == {l \in Material(ls) : l.class # None /\ l.dim # None /\ RoleOf[l.class] = "base"}
Additive(ls) == {l \in Material(ls) : l.class # None /\ RoleOf[l.class] = "additive"}

In(ls, i) == {l \in ls : l.inv = i}
Of(ls, c) == {l \in ls : l.class = c}
OfType(ls, t) == {l \in ls : l.class # None /\ TypeOf[l.class] = t}
InvoicesOf(ls) == {l.inv : l \in ls}
ClassesOf(ls) == {l.class : l \in ls}
DimsOf(ls) == {l.dim : l \in ls}

-----------------------------------------------------------------------------
(* Allocation of shared cost.                                               *)

\* Rows of one dimension are split by quantity, mixed ones by amount.
Basis(rows, part) == IF Cardinality(DimsOf(rows)) <= 1 THEN QtyOf(part) ELSE AmountOf(part)

\* compute_shared_shares, times the pool
Portion(pool, rows, c) ==
  LET whole == Basis(rows, rows) IN
  IF whole <= 0 THEN 0 ELSE (pool * Basis(rows, Of(rows, c))) \div whole

\* No portion of what the lines ls can make up is ever rounded.
Exact(ls) ==
  \A i \in Invoices :
    LET base == In(Base(ls), i)
        pools == {Gross(l) : l \in In(Delivery(ls) \cup Additive(ls), i)}
    IN \A rows \in SUBSET base : \A c \in ClassesOf(rows), p \in pools :
         LET whole == Basis(rows, rows)
         IN whole > 0 => (p * Basis(rows, Of(rows, c))) % whole = 0

\* Delivery goes to all base classes of the invoice.
DeliveryShare(base, delivery, i, c) ==
  Portion(GrossOf(In(delivery, i)), In(base, i), c)

\* Bug: an additive is spread like delivery, over all base classes.
AdditiveShare_AllTypes(base, additive, i, c) ==
  Portion(GrossOf(OfType(In(additive, i), TypeOf[c])), In(base, i), c)

\* An additive goes to the base classes of its own type.
AdditiveShare(base, additive, i, c) ==
  Portion(GrossOf(OfType(In(additive, i), TypeOf[c])), OfType(In(base, i), TypeOf[c]), c)

\* _aggregate_by_class: d holds the rows its three queries returned.
Shared(d, c) ==
  MapThenSumSet(LAMBDA i : DeliveryShare(d.base, d.delivery, i, c)
                           + AdditiveShare(d.base, d.additive, i, c),
                InvoicesOf(Of(d.base, c)))

-----------------------------------------------------------------------------
(* Prices and compensation.                                                 *)

Abs(n) == IF n < 0 THEN -n ELSE n

\* money_round of n / m: half away from zero
RoundDiv(n, m) == LET r == (2 * Abs(n) + m) \div (2 * m) IN IF n < 0 THEN -r ELSE r

\* The latest row wins: by start, then end, then id.
Latest(refs) ==
  CHOOSE r \in refs :
    \A s \in refs \ {r} : \/ r.from > s.from
                          \/ r.from = s.from /\ r.to > s.to
                          \/ r.from = s.from /\ r.to = s.to /\ r.id > s.id

LatestOrNone(refs) == IF refs = {} THEN None ELSE Latest(refs)

RefIn(refs, c, from, to) ==
  LatestOrNone({r \in refs : r.class = c /\ r.from <= to /\ r.to >= from})

\* resolve_corridor: None or a percentage; None also when switched off
Corridor(byClass, byType, c) ==
  LET row == IF byClass[c] # None THEN byClass[c] ELSE byType[TypeOf[c]] IN
  IF row = Off THEN None ELSE row

Scale == QtyScale * PriceScale

\* (avg_price - ref_price) * qty before it is rounded, in 1/Scale of a kopeck
Excess(total, qty, price) == total * Scale - price * qty

\* Bug: below the corridor the upper bound is subtracted.
PerUnit_UpperBound(total, qty, price, pct) ==
  LET upper == 100 * total * Scale - price * (100 + pct) * qty
      lower == 100 * total * Scale - price * (100 - pct) * qty
  IN IF upper > 0 \/ lower < 0 THEN RoundDiv(upper, 100 * PriceScale * qty) ELSE 0

\* compute_compensation_per_unit, for an average price of total / qty
PerUnit(total, qty, price, pct) ==
  LET upper == 100 * total * Scale - price * (100 + pct) * qty
      lower == 100 * total * Scale - price * (100 - pct) * qty
  IN IF upper > 0 THEN RoundDiv(upper, 100 * PriceScale * qty)
     ELSE IF lower < 0 THEN RoundDiv(lower, 100 * PriceScale * qty) ELSE 0

\* One row of compute_calculations; d also holds refs, byClass and byType.
CalcRow(d, from, to, c) ==
  LET rows     == Of(d.base, c)
      mat      == GrossOf(rows)
      qty      == QtyOf(rows)
      total    == mat + Shared(d, c)
      ref      == RefIn(d.refs, c, from, to)
      mismatch == \/ Cardinality(DimsOf(rows)) > 1
                  \/ ref # None /\ ref.dim \notin DimsOf(rows)
      usable   == ref # None /\ ~mismatch
      pct      == Corridor(d.byClass, d.byType, c)
  IN [class |-> c, dir |-> TypeOf[c], from |-> from, mat |-> mat, shared |-> total - mat,
      qty |-> qty, mismatch |-> mismatch, price |-> IF ref = None THEN None ELSE ref.price,
      deviation |-> IF usable /\ ref.price > 0 THEN RoundDiv(Excess(total, qty, ref.price), Scale) ELSE None,
      compensation |-> IF pct # None /\ usable /\ ref.price > 0
                         THEN RoundDiv(PerUnit(total, qty, ref.price, pct) * qty, QtyScale) ELSE None]

\* _months_in_range
Months(from, to) ==
  {[from |-> Max({from, m * MonthDays}), to |-> Min({to, m * MonthDays + MonthDays - 1})] :
     m \in (from \div MonthDays) .. (to \div MonthDays)}

Within(ls, m) == {l \in ls : DateOf[l.inv] \in m.from .. m.to}

\* The rows of one month, from what its queries returned.
MonthRows(d, m) ==
  {CalcRow(d, m.from, m.to, c) : c \in {x \in ClassesOf(d.base) : QtyOf(Of(d.base, x)) > 0}}

\* What the queries of a month return when nothing changes between them.
MonthData(db, m, excluded) ==
  LET ls == Within(Counted(db.lines, excluded), m)
  IN [base |-> Base(ls), delivery |-> Delivery(ls), additive |-> Additive(ls),
      refs |-> db.refs, byClass |-> db.byClass, byType |-> db.byType]

\* Bug: the filter applies to the lines that are read.
CalcRows_FilterFirst(db, from, to, excluded, dirs) ==
  LET of == {l \in db.lines : l.class = None \/ TypeOf[l.class] \in dirs} IN
  UNION {MonthRows(MonthData([db EXCEPT !.lines = of], m, excluded), m) : m \in Months(from, to)}

\* compute_calculations; the filter by direction applies to its output.
CalcRows(db, from, to, excluded, dirs) ==
  {r \in UNION {MonthRows(MonthData(db, m, excluded), m) : m \in Months(from, to)} : r.dir \in dirs}

\* full_deviation_from_rows, full_compensation_from_rows
SumOrNone(values) ==
  LET known == {v \in values : v.value # None} IN
  IF known = {} THEN None ELSE MapThenSumSet(LAMBDA v : v.value, known)

FullDeviation(rows) ==
  SumOrNone({[class |-> r.class, from |-> r.from, value |-> r.deviation] : r \in rows})

FullCompensation(rows) ==
  SumOrNone({[class |-> r.class, from |-> r.from, value |-> r.compensation] : r \in rows})

-----------------------------------------------------------------------------
(* The Excel report and the supplier card.                                  *)

\* Bug: the additives of other types are added as well.
ExportRow_AllAdditives(base, delivery, additive, i, c, dim) ==
  LET rows == {l \in Of(In(base, i), c) : l.dim = dim} IN
  [inv |-> i, class |-> c, dim |-> dim, qty |-> QtyOf(rows),
   alloc |-> DeliveryShare(base, delivery, i, c)
             + Portion(GrossOf(In(additive, i)), OfType(In(base, i), TypeOf[c]), c),
   mat |-> GrossOf(rows)]

\* A row of compute_export_rows is an invoice, a class and a dimension; the
\* shares are looked up by invoice and class.
ExportRow(base, delivery, additive, i, c, dim) ==
  LET rows == {l \in Of(In(base, i), c) : l.dim = dim} IN
  [inv |-> i, class |-> c, dim |-> dim, qty |-> QtyOf(rows),
   alloc |-> DeliveryShare(base, delivery, i, c) + AdditiveShare(base, additive, i, c),
   mat |-> GrossOf(rows)]

ExportRows(ls) ==
  {r \in {ExportRow(Base(ls), Delivery(ls), Additive(ls), l.inv, l.class, l.dim) : l \in Base(ls)} :
     r.qty > 0}

\* Bug: shared cost is left out.
SupplierDeviation_Materials(db, s) ==
  LET base == Base({l \in db.lines : SupplierOf[l.inv] = s})
      ref(c) == LatestOrNone({r \in db.refs : r.class = c})
      qty(c) == QtyOf(Of(base, c))
      priced == {c \in ClassesOf(base) : qty(c) > 0 /\ ref(c) # None /\ ref(c).price > 0}
  IN IF priced = {} THEN None
     ELSE RoundDiv(MapThenSumSet(LAMBDA c : Excess(GrossOf(Of(base, c)), qty(c), ref(c).price), priced), Scale)

\* _compute_supplier_project_deviation: the rows of the supplier's invoices,
\* the latest reference price of all, no comparison of dimensions, and the sum
\* of the classes is rounded, not each of them.
SupplierDeviation(db, s) ==
  LET ls == {l \in db.lines : SupplierOf[l.inv] = s}
      d == [base |-> Base(ls), delivery |-> Delivery(ls), additive |-> Additive(ls)]
      ref(c) == LatestOrNone({r \in db.refs : r.class = c})
      qty(c) == QtyOf(Of(d.base, c))
      priced == {c \in ClassesOf(d.base) : qty(c) > 0 /\ ref(c) # None /\ ref(c).price > 0}
  IN IF priced = {} THEN None
     ELSE RoundDiv(MapThenSumSet(LAMBDA c : Excess(GrossOf(Of(d.base, c)) + Shared(d, c), qty(c), ref(c).price),
                                 priced), Scale)

-----------------------------------------------------------------------------
(* The dashboard.                                                           *)

\* Turnover of a type; positions without a class have none.
Turnover(ls, t) == GrossOf(OfType(Material(ls), t))

\* Bug: positions without a class are forgotten.
OtherMaterial_Classed(ls) == GrossOf(OfType(Material(ls), "other"))

\* material positions that belong to no direction
OtherMaterial(ls) ==
  GrossOf({l \in Material(ls) : l.class = None \/ TypeOf[l.class] = "other"})

\* lines of kind other: discounts, corrections
OtherKind(ls) == GrossOf({l \in ls : l.kind = "other"})

\* overpayment of a direction in _direction_summaries
Overpayment(rows, t) == FullCompensation({r \in rows : r.dir = t})

=============================================================================
