-------------------------------- MODULE Charts --------------------------------
(***************************************************************************)
(* What the pages compute once more from the figures the server answers:   *)
(* the chart of deviations (DeviationChart), the tab of months             *)
(* (MonthlyTab, over GET /dashboard/monthly-summary) and the worked        *)
(* example of the handbook (ConcreteAvgBreakdown).  Operators only.        *)
(***************************************************************************)
EXTENDS Figures

-----------------------------------------------------------------------------
(* The chart of deviations, over rows of compute_calculations; the pages    *)
(* always pass an active filter of the period.                              *)

OrZero(v) == IF v = None THEN 0 ELSE v

\* Whether the price is of the dimension of the row is not asked.
CoveredRows(rows) == {r \in rows : r.price # None /\ r.price > 0}

\* All months of a class as one bar.
Aggregated(rows, c) ==
  LET mine == Of(rows, c)
      covered == CoveredRows(mine)
  IN [class |-> c, dir |-> TypeOf[c], qty |-> QtyOf(mine), covered |-> QtyOf(covered),
      reference |-> MapThenSumSet(LAMBDA r : r.price * r.qty, covered),
      deviation |-> IF covered = {} THEN None ELSE MapThenSumSet(LAMBDA r : OrZero(r.deviation), covered),
      compensation |-> FullCompensation(mine)]

\* Bug: only the latest month, as without a filter of the period.
AggregateCalcs_Latest(rows) ==
  LET latest == {r \in rows : \A s \in rows : s.from <= r.from} IN
  {Aggregated(latest, c) : c \in ClassesOf(latest)}
AggregateCalcs(rows) == {Aggregated(rows, c) : c \in ClassesOf(rows)}

\* deviation_pct # null
HasBar(a) == a.deviation # None /\ a.reference > 0
Bars(rows) == {a \in AggregateCalcs(rows) : HasBar(a)}
WithoutPrice(rows) == {a \in AggregateCalcs(rows) : ~HasBar(a)}

\* The banner of a page, and the subtotal of a section of the summary.
TotalBannerComp(rows) ==
  SumOrNone({[class |-> a.class, value |-> a.compensation] : a \in AggregateCalcs(rows)})
Section(rows, t) == {r \in rows : r.dir = t}
Subtotal(rows, t) == TotalBannerComp(Section(rows, t))

-----------------------------------------------------------------------------
(* The tab of months.                                                       *)

MonthOf(i) == DateOf[i] \div MonthDays

\* The queries of get_monthly_summary, with a direction.
MonthlyVolume(ls, t) == QtyOf({l \in Base(ls) : TypeOf[l.class] = t /\ l.dim = DimOf[t]})
MonthlySummary(ls, t) ==
  LET mine == OfType(Material(ls), t)
      of(m) == {l \in mine : MonthOf(l.inv) = m}
  IN {[month |-> m, amount |-> GrossOf(of(m)), qty |-> MonthlyVolume(of(m), t),
       invoices |-> Cardinality(InvoicesOf(of(m)))] : m \in {MonthOf(l.inv) : l \in mine}}

\* Bug: the last month is left out.
BuildFullSequence_Short(raw) ==
  LET months == {b.month : b \in raw} IN
  [m \in Min(months) .. (Max(months) - 1) |-> {b \in raw : b.month = m}]

\* Every month from the first to the last one with an invoice, the others empty.
BuildFullSequence(raw) ==
  LET months == {b.month : b \in raw} IN
  [m \in Min(months) .. Max(months) |-> {b \in raw : b.month = m}]

\* A row of the table, and its last line; the file of the export holds the same.
MonthRow(bucket) ==
  IF bucket = {} THEN [amount |-> 0, qty |-> 0, invoices |-> 0, opens |-> FALSE]
  ELSE LET b == CHOOSE b \in bucket : TRUE
       IN [amount |-> b.amount, qty |-> b.qty, invoices |-> b.invoices, opens |-> TRUE]
MonthTotals(buckets) ==
  LET sum(value(_)) == MapThenSumSet(LAMBDA m : value(MonthRow(buckets[m])), DOMAIN buckets)
  IN [amount |-> sum(LAMBDA r : r.amount), qty |-> sum(LAMBDA r : r.qty),
      invoices |-> sum(LAMBDA r : r.invoices)]

-----------------------------------------------------------------------------
(* The example of the handbook: "allocate() duplicates the logic of         *)
(* crud/calculations.py".                                                   *)

\* Bug: the share is taken of the amounts.
Allocate_Amount(ls, c) ==
  LET base == Base(ls)
      whole == AmountOf(base)
      cost == GrossOf(Delivery(ls)) + GrossOf(Additive(ls))
  IN GrossOf(Of(base, c)) + IF whole > 0 THEN (cost * AmountOf(Of(base, c))) \div whole ELSE 0

\* totalWithVat of a class, for the lines of one invoice.
Allocate(ls, c) ==
  LET base == Base(ls)
      whole == QtyOf(base)
      cost == GrossOf(Delivery(ls)) + GrossOf(Additive(ls))
  IN GrossOf(Of(base, c)) + IF whole > 0 THEN (cost * QtyOf(Of(base, c))) \div whole ELSE 0
=============================================================================
