--------------------------- MODULE MCProjectFigures ---------------------------
(* ProjectFigures for TLC: two classes of concrete, a steel, an additive of    *)
(* concrete and a class of type "other"; months of ten days; quantities in     *)
(* halves of a unit and prices in fifths of a kopeck.                          *)
EXTENDS ProjectFigures

CONSTANTS b25, b30, steel, plast, sand, volume, mass, s1, i1, i2, i3

MCClasses == {b25, b30, steel, plast, sand}
MCTypeOf == [c \in MCClasses |-> CASE c = steel -> "rebar" [] c = sand -> "other" [] OTHER -> "concrete"]
MCRoleOf == [c \in MCClasses |-> IF c = plast THEN "additive" ELSE "base"]
MCDimOf == [t \in {"concrete", "rebar", "other"} |->
              CASE t = "concrete" -> volume [] t = "rebar" -> mass [] OTHER -> None]

\* i1 and i3 are of one month, i2 of the next; i1 and i2 are of one supplier.
MCDateOf == [i \in {i1, i2, i3} |-> IF i = i2 THEN 12 ELSE IF i = i1 THEN 3 ELSE 8]
MCSupplierOf == [i \in {i1, i2, i3} |-> IF i = i3 THEN None ELSE s1]
MCRateOf == [i \in {i1, i2, i3} |-> IF i = i2 THEN 10 ELSE None]

Mat(i, c, dim, qty, amount, vat) ==
  [inv |-> i, kind |-> "material", class |-> c, dim |-> dim, qty |-> qty, amount |-> amount, vat |-> vat]
Charge(i, kind, amount, vat) ==
  [inv |-> i, kind |-> kind, class |-> None, dim |-> None, qty |-> 1, amount |-> amount, vat |-> vat]

\* All the ways an invoice can be mixed: two dimensions, a class in two
\* dimensions, a row without quantity, an unknown unit, an additive.
MixedLines ==
  {Mat(i1, b25, volume, 2, 200, None), Mat(i1, b25, mass, 1, 100, 0), Mat(i1, b30, volume, 1, 300, 60),
   Mat(i1, steel, mass, 3, 100, None), Mat(i1, plast, mass, 1, 700, None), Mat(i1, b30, None, 5, 500, 0),
   Charge(i1, "delivery", 350, None),
   Mat(i3, b25, volume, 1, 200, None), Mat(i3, b30, volume, 0, 100, None), Charge(i3, "delivery", 420, 0)}

\* Prices per unit above, inside and below a corridor, over two months.
PricedLines ==
  {Mat(i1, b25, volume, 2, 200, None), Mat(i1, b25, mass, 3, 100, None), Mat(i1, steel, mass, 1, 100, 0),
   Charge(i1, "delivery", 350, None), Mat(i2, b25, volume, 3, 200, None), Charge(i2, "delivery", 420, 0)}

MCPrices ==
  {[class |-> b25, dim |-> volume, price |-> 601, from |-> 0, to |-> 14, id |-> 1],
   [class |-> b25, dim |-> volume, price |-> 1803, from |-> 8, to |-> 19, id |-> 1],
   [class |-> b25, dim |-> volume, price |-> 1371, from |-> 0, to |-> 19, id |-> 2],
   [class |-> steel, dim |-> mass, price |-> 1102, from |-> 0, to |-> 9, id |-> 3],
   [class |-> steel, dim |-> volume, price |-> 400, from |-> 0, to |-> 19, id |-> 4]}

\* Half a unit for 50.00, beside 99.994 and 100.006 per unit: less than half a
\* kopeck each.
RoundedLines ==
  {Mat(i1, b25, volume, 1, 5000, 0), Mat(i1, b30, volume, 1, 5000, 0), Mat(i1, steel, mass, 1, 5000, 0)}

RoundedPrices ==
  {[class |-> b25, dim |-> volume, price |-> 49997, from |-> 0, to |-> 19, id |-> 1],
   [class |-> b30, dim |-> volume, price |-> 49997, from |-> 0, to |-> 19, id |-> 2],
   [class |-> steel, dim |-> mass, price |-> 50003, from |-> 0, to |-> 19, id |-> 3]}

\* One line of every kind, over two invoices of a month.
ReportLines ==
  {Mat(i1, b25, volume, 2, 200, None), Mat(i1, sand, mass, 1, 100, 0), Mat(i1, steel, mass, 1, 100, None),
   Charge(i1, "delivery", 350, None),
   Mat(i2, b25, volume, 1, 100, None), Mat(i2, None, volume, 1, 300, None), Charge(i2, "other", 50, 10)}

\* A direction in each of two months, and a class of type "other".
PaidLines ==
  {Mat(i1, b25, volume, 2, 200, None), Mat(i1, sand, mass, 1, 100, 0), Mat(i2, steel, mass, 1, 200, 0)}

PaidPrices ==
  {[class |-> b25, dim |-> volume, price |-> 900, from |-> 0, to |-> 19, id |-> 1],
   [class |-> sand, dim |-> mass, price |-> 500, from |-> 0, to |-> 19, id |-> 2],
   [class |-> steel, dim |-> mass, price |-> 1201, from |-> 0, to |-> 19, id |-> 3]}

Quiet == [lines |-> {}, prices |-> {}, ruled |-> {}, pcts |-> {}, reporting |-> FALSE]

\* Every mixture of lines; reference prices whose periods overlap and corridors of
\* both levels; amounts that are rounded; and, for summaries, every kind of line and
\* compensation in two directions.
MCInputs ==
  {[Quiet EXCEPT !.lines = MixedLines],
   [Quiet EXCEPT !.lines = PricedLines, !.prices = MCPrices, !.ruled = {b25, "concrete"}, !.pcts = {0, 10}],
   [Quiet EXCEPT !.lines = RoundedLines, !.prices = RoundedPrices, !.ruled = {"concrete", "rebar"}, !.pcts = {0}],
   [Quiet EXCEPT !.lines = ReportLines, !.reporting = TRUE],
   [Quiet EXCEPT !.lines = PaidLines, !.prices = PaidPrices, !.ruled = {"concrete", "rebar", "other"},
                 !.pcts = {10}, !.reporting = TRUE]}
=============================================================================
