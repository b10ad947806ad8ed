---------------------------- MODULE ProjectFigures ----------------------------
(***************************************************************************)
(* The data behind the figures of one project, the requests that change    *)
(* it, and the request for the summary of routers/dashboard.py, which      *)
(* reads it with a series of queries.  Under READ COMMITTED each query     *)
(* sees what is committed when it runs, so the request is a step per query.*)
(***************************************************************************)
EXTENDS Charts

CONSTANTS
  Inputs,    \* what the users of an instance may enter, see InputT
  MaxMoved   \* bound: changes while a summary is computed

Suppliers == {SupplierOf[i] : i \in Invoices} \ {None}

PriceT == [class : Classes, dim : Dims, price : Nat, from : Nat, to : Nat, id : Nat]

\* lines: what an invoice may get; prices: reference prices; ruled, pcts: the types
\* and classes that get corridor rules, and their widths; reporting: whether
\* summaries are requested.
InputT == [lines : SUBSET LineT, prices : SUBSET PriceT, ruled : SUBSET (Types \cup Classes),
           pcts : SUBSET (0..100), reporting : BOOLEAN]

ASSUME InputsAssumption ==
  /\ MaxMoved \in Nat
  /\ Inputs \subseteq InputT
  /\ \A inp \in Inputs :
       /\ IsFiniteSet(inp.lines) /\ Exact(inp.lines)
       /\ \A p, q \in inp.prices : p.id = q.id => p.class = q.class /\ p.dim = q.dim

VARIABLES
  lines,             \* invoice_items of the project
  refs,              \* reference_prices
  byClass, byType,   \* compensation_corridors: overrides and defaults
  excluded,          \* project_supplier_exclusions
  summary,           \* a summary request
  input              \* what may be entered in this behaviour

data == <<lines, refs, byClass, byType, excluded>>
vars == <<lines, refs, byClass, byType, excluded, summary, input>>

Rules == input.pcts \cup {Off, None}

\* What a summary request has got from its queries so far; moved: the changes
\* committed since its first one.
NoSummary == [pc |-> "idle", moved |-> 0, excluded |-> {}, total |-> 0, delivery |-> 0, other |-> 0,
              byClass |-> None, byType |-> None, months |-> {}, ids |-> {},
              base |-> {}, freight |-> {}, additive |-> {}, rows |-> {}, turnover |-> None]

\* Bug: reference prices may be entered for the type "other", too.
MayPrice_Any(r) == DimOf[TypeOf[r.class]] \in {None, r.dim}

\* _validate_ref_unit
MayPrice(r) ==
  /\ TypeOf[r.class] # "other"
  /\ DimOf[TypeOf[r.class]] \in {None, r.dim}

Init ==
  /\ lines = {} /\ refs = {}
  /\ byClass = [c \in Classes |-> None] /\ byType = [t \in Types |-> None]
  /\ excluded = {}
  /\ summary = NoSummary
  /\ input \in Inputs

-----------------------------------------------------------------------------
(* Requests that change the data.                                           *)

\* A change is committed between two queries of a summary, if one is computed.
Write ==
  /\ IF summary.pc = "idle" THEN UNCHANGED summary
     ELSE summary.moved < MaxMoved /\ summary' = [summary EXCEPT !.moved = @ + 1]
  /\ UNCHANGED input

\* PUT /api/invoices/{id} writes all items of the invoice; so does a manual or
\* parsed invoice that is created.
SaveInvoice(i, items) ==
  /\ Write
  /\ lines' = (lines \ In(lines, i)) \cup items
  /\ UNCHANGED <<refs, byClass, byType, excluded>>

\* Phase B deletes the invoices of the document and inserts others.
Reparse(i, j, items) ==
  /\ Write
  /\ In(lines, i) # {} /\ In(lines, j) = {}
  /\ lines' = (lines \ In(lines, i)) \cup items
  /\ UNCHANGED <<refs, byClass, byType, excluded>>

\* POST /api/reference-prices; periods of a class may overlap
CreatePrice(r) ==
  /\ Write
  /\ (\A s \in refs : s.id # r.id) /\ MayPrice(r)
  /\ refs' = refs \cup {r}
  /\ UNCHANGED <<lines, byClass, byType, excluded>>

\* PATCH /api/reference-prices/{id}: price and period, not class and unit
UpdatePrice(r, new) ==
  /\ Write
  /\ r \in refs /\ new.id = r.id /\ TypeOf[r.class] # "other"
  /\ refs' = (refs \ {r}) \cup {new}
  /\ UNCHANGED <<lines, byClass, byType, excluded>>

DeletePrice(r) ==
  /\ Write
  /\ refs' = refs \ {r}
  /\ UNCHANGED <<lines, byClass, byType, excluded>>

\* PUT and DELETE of a default (None deletes)
SetTypeCorridor(t, rule) ==
  /\ Write
  /\ byType' = [byType EXCEPT ![t] = rule]
  /\ UNCHANGED <<lines, refs, byClass, excluded>>

SetClassCorridor(c, rule) ==
  /\ Write
  /\ byClass' = [byClass EXCEPT ![c] = rule]
  /\ UNCHANGED <<lines, refs, byType, excluded>>

\* delete_material_class: its lines stay, its prices and its override go
DeleteClass(c) ==
  /\ Write
  /\ lines' = {IF l.class = c THEN [l EXCEPT !.class = None] ELSE l : l \in lines}
  /\ refs' = {r \in refs : r.class # c}
  /\ byClass' = [byClass EXCEPT ![c] = None]
  /\ UNCHANGED <<byType, excluded>>

\* set_supplier_excluded
Exclude(s) ==
  /\ Write
  /\ excluded' = excluded \cup {s}
  /\ UNCHANGED <<lines, refs, byClass, byType>>

Include(s) ==
  /\ Write
  /\ excluded' = excluded \ {s}
  /\ UNCHANGED <<lines, refs, byClass, byType>>

Change ==
  \/ \E i \in Invoices : \E items \in SUBSET In(input.lines, i) :
       \/ SaveInvoice(i, items)
       \/ \E j \in Invoices \ {i} : Reparse(j, i, items)
  \/ \E r \in input.prices : CreatePrice(r) \/ DeletePrice(r) \/ \E new \in input.prices : UpdatePrice(r, new)
  \/ \E rule \in Rules : \/ \E t \in Types \cap input.ruled : SetTypeCorridor(t, rule)
                         \/ \E c \in Classes \cap input.ruled : SetClassCorridor(c, rule)
  \/ \E c \in Classes : DeleteClass(c)
  \/ \E s \in Suppliers : Exclude(s) \/ Include(s)

-----------------------------------------------------------------------------
(* get_project_summary, one step for each query.                            *)

Query(at, new) == summary.pc = at /\ summary' = new /\ UNCHANGED <<data, input>>

QueryExcluded ==
  /\ input.reporting
  /\ Query("idle", [NoSummary EXCEPT !.pc = "totals", !.excluded = excluded])

\* totals_by_type
QueryTotals ==
  LET ls == Counted(lines, summary.excluded) IN
  Query("totals", [summary EXCEPT !.pc = "dates", !.total = GrossOf(ls),
                                  !.delivery = GrossOf(Delivery(ls)), !.other = OtherKind(ls)])

\* date_bounds: whole months, the invoices of excluded suppliers included
QueryDates ==
  LET dates == {DateOf[i] : i \in InvoicesOf(lines)} IN
  Query("dates", IF dates = {} THEN [summary EXCEPT !.pc = "turnover"]
                 ELSE [summary EXCEPT !.pc = "corridors",
                         !.months = Months((Min(dates) \div MonthDays) * MonthDays,
                                           (Max(dates) \div MonthDays) * MonthDays + MonthDays - 1)])

QueryCorridors ==
  Query("corridors", [summary EXCEPT !.pc = "month", !.byClass = byClass, !.byType = byType])

\* The month the loop of compute_calculations is at.
Month == CHOOSE m \in summary.months : \A n \in summary.months : m.from <= n.from

NextMonth(rows) ==
  [summary EXCEPT !.pc = IF summary.months = {Month} THEN "turnover" ELSE "month",
                  !.months = @ \ {Month}, !.rows = @ \cup rows,
                  !.ids = {}, !.base = {}, !.freight = {}, !.additive = {}]

\* invoice_ids_month
QueryIds ==
  LET ids == InvoicesOf(Within(Counted(lines, summary.excluded), Month)) IN
  Query("month", IF ids = {} THEN NextMonth({}) ELSE [summary EXCEPT !.pc = "base", !.ids = ids])

Chosen == {l \in lines : l.inv \in summary.ids}

QueryBase ==
  Query("base", IF Base(Chosen) = {} THEN NextMonth({})
                ELSE [summary EXCEPT !.pc = "delivery", !.base = Base(Chosen)])

QueryDelivery ==
  Query("delivery", [summary EXCEPT !.pc = "additive", !.freight = Delivery(Chosen)])

QueryAdditive ==
  Query("additive", [summary EXCEPT !.pc = "prices", !.additive = Additive(Chosen)])

QueryPrices ==
  Query("prices",
        NextMonth(MonthRows([base |-> summary.base, delivery |-> summary.freight,
                             additive |-> summary.additive, refs |-> refs,
                             byClass |-> summary.byClass, byType |-> summary.byType], Month)))

\* turnover_rows of _direction_summaries: by direction, and the rest
QueryTurnover ==
  LET ls == Counted(lines, summary.excluded) IN
  Query("turnover", [summary EXCEPT !.pc = "done",
           !.turnover = [t \in Directions |-> Turnover(ls, t)],
           !.other = @ + OtherMaterial(ls)])

Answer == Query("done", NoSummary)

Summarise ==
  \/ QueryExcluded \/ QueryTotals \/ QueryDates \/ QueryCorridors \/ QueryIds \/ QueryBase
  \/ QueryDelivery \/ QueryAdditive \/ QueryPrices \/ QueryTurnover \/ Answer

Next == Change \/ Summarise

Spec == Init /\ [][Next]_vars

-----------------------------------------------------------------------------
(* Properties.                                                              *)

Db == [lines |-> lines, refs |-> refs, byClass |-> byClass, byType |-> byType]

AllMonths == Months(0, Max({0} \cup {DateOf[i] : i \in Invoices}))

LastDay == Max({0} \cup {DateOf[i] : i \in Invoices})

SumDirections(f) == MapThenSumSet(LAMBDA t : f[t], Directions)

\* What is charged for a pool is given to the rows, if there is something to divide by.
Given(pool, rows) == IF Basis(rows, rows) > 0 THEN GrossOf(pool) ELSE 0

Charged(d, i) ==
  Given(In(d.delivery, i), In(d.base, i))
  + MapThenSumSet(LAMBDA t : Given(OfType(In(d.additive, i), t), OfType(In(d.base, i), t)), Types)

AllShared(d) == MapThenSumSet(LAMBDA c : Shared(d, c), ClassesOf(d.base))
AllCharged(d) == MapThenSumSet(LAMBDA i : Charged(d, i), InvoicesOf(d.base))

\* Allocation neither loses nor invents shared cost (_aggregate_by_class): the
\* classes of a month get what its invoices were charged for delivery, and for
\* additives of a type the invoice has base rows of, whenever there is
\* something to divide by.
AllocationConserves ==
  \A m \in AllMonths : LET d == MonthData(Db, m, excluded) IN AllShared(d) = AllCharged(d)

ExportAgrees ==
  LET rows == ExportRows(Counted(lines, excluded)) IN
  \A r \in CalcRows(Db, 0, LastDay, excluded, Types) :
    LET month == [from |-> r.from, to |-> r.from + MonthDays - 1]
        mine == Of(Within(Base(Counted(lines, excluded)), month), r.class)
        of == {x \in rows : x.class = r.class /\ DateOf[x.inv] \in month.from .. month.to}
    IN Cardinality(DimsOf(mine)) = 1 /\ (\A i \in InvoicesOf(mine) : QtyOf(In(mine, i)) > 0)
         => MapThenSumSet(LAMBDA x : x.mat + x.alloc, of) = r.mat + r.shared

\* The reports of the single types, each asked for by itself, together share out
\* what the invoices of a month were charged: a filter by direction
\* (compute_calculations) moves no shared cost from one report to another, and
\* counts none twice.  A class without a quantity has no row.
DirectionReportsConserve ==
  \A m \in AllMonths :
    LET d == MonthData(Db, m, excluded)
        report(t) == CalcRows(Db, m.from, m.to, excluded, {t})
    IN (\A c \in ClassesOf(d.base) : QtyOf(Of(d.base, c)) > 0) =>
         MapThenSumSet(LAMBDA t : MapThenSumSet(LAMBDA r : r.shared, report(t)), Types) = AllCharged(d)

\* A compensation exists only where a deviation is reported and never goes
\* against it; it exceeds it by half a kopeck for every unit of the quantity and
\* a kopeck at most, which is what rounding the price per unit and then both
\* amounts can add (compute_compensation_per_unit, compute_calculations).
CompensationWithinDeviation ==
  \A r \in CalcRows(Db, 0, LastDay, excluded, Types) :
    r.compensation # None =>
      /\ r.deviation # None
      /\ r.compensation > 0 => r.deviation >= 0
      /\ r.compensation < 0 => r.deviation <= 0
      /\ 2 * QtyScale * Abs(r.compensation) <= 2 * QtyScale * Abs(r.deviation) + r.qty + 2 * QtyScale

\* All figures come from one month and one supplier, so the supplier card and
\* the project look at the same invoices and, the periods of the prices
\* permitting, at the same prices.
SameScope ==
  /\ \A l \in lines : SupplierOf[l.inv] # None
  /\ Cardinality({SupplierOf[i] : i \in InvoicesOf(lines)}) = 1
  /\ Cardinality({DateOf[i] \div MonthDays : i \in InvoicesOf(lines)}) = 1
  /\ excluded = {}
  /\ \A r \in refs : \A i \in InvoicesOf(lines) : DateOf[i] \in r.from .. r.to

SupplierCardAgreesOnDims ==
  LET rows == CalcRows(Db, 0, LastDay, {}, Types)
      full == FullDeviation(rows)
      summands == Cardinality({r \in rows : r.deviation # None})
  IN SameScope /\ (\A r \in rows : ~r.mismatch) =>
       \A s \in {SupplierOf[i] : i \in InvoicesOf(lines)} :
         LET card == SupplierDeviation(Db, s) IN
         /\ card = None <=> full = None
         /\ full # None => 2 * Abs(card - full) <= summands + 1

\* The banner and the subtotals are the compensation of the summary; where every class
\* is measured in the unit of its price, the bars make up its deviation and the classes
\* without a bar are those without a price.
ChartAgrees ==
  LET rows == CalcRows(Db, 0, LastDay, excluded, Types)
      unpriced == {c \in ClassesOf(rows) : \A r \in Of(rows, c) : r.deviation = None}
  IN /\ TotalBannerComp(rows) = FullCompensation(rows)
     /\ \A t \in Directions : Subtotal(rows, t) = Overpayment(rows, t)
     /\ (\A r \in rows : ~r.mismatch) =>
          /\ SumOrNone({[class |-> a.class, value |-> a.deviation] : a \in Bars(rows)}) = FullDeviation(rows)
          /\ ClassesOf(WithoutPrice(rows)) = unpriced

MonthsAgree ==
  LET ls == Counted(lines, excluded) IN
  \A t \in Directions : LET raw == MonthlySummary(ls, t) IN
    raw # {} => LET totals == MonthTotals(BuildFullSequence(raw))
                IN totals.amount = Turnover(ls, t) /\ totals.qty = MonthlyVolume(ls, t)

HandbookAgrees ==
  \A i \in InvoicesOf(lines) :
    LET ls == In(lines, i)
        types == {TypeOf[c] : c \in ClassesOf(Base(ls) \cup Additive(ls))}
    IN Cardinality(types) = 1 /\ Cardinality(DimsOf(Base(ls))) = 1 =>
         \A c \in ClassesOf(Base(ls)) :
           Allocate(ls, c) = GrossOf(Of(Base(ls), c)) + DeliveryShare(Base(ls), Delivery(ls), i, c)
                             + AdditiveShare(Base(ls), Additive(ls), i, c)

\* The implementations of the same figures agree.  The Excel report and the calculation
\* give the same cost of a class in a month when every row of the class has one
\* dimension and a quantity; over the same invoices and prices the supplier card shows
\* the deviation of the project, where every class is measured in the unit of its
\* price, up to half a kopeck for each amount that is rounded.  What the pages compute
\* once more is what the server answers: the chart of deviations, the tab of months, and
\* the example of the handbook for an invoice of one type and one dimension.
CopiesAgree ==
  ExportAgrees /\ SupplierCardAgreesOnDims /\ ChartAgrees /\ MonthsAgree /\ HandbookAgrees

\* A summary is put together query by query while others write.  The compensation of
\* the project is what the directions show, whatever was committed in between; the
\* total is what its parts are, unless a change fell between the queries.
SummaryAddsUp ==
  summary.pc = "done" =>
    LET shown == {t \in Directions : Overpayment(summary.rows, t) # None}
        full == FullCompensation(summary.rows)
    IN /\ summary.moved = 0 =>
            summary.total = SumDirections(summary.turnover) + summary.delivery + summary.other
       /\ IF full = None THEN shown = {}
          ELSE full = MapThenSumSet(LAMBDA t : Overpayment(summary.rows, t), shown)
=============================================================================
