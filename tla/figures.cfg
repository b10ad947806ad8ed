SPECIFICATION Spec
CONSTANTS
  None = None
  Off = Off
  b25 = b25
  b30 = b30
  steel = steel
  plast = plast
  sand = sand
  volume = volume
  mass = mass
  s1 = s1
  i1 = i1
  i2 = i2
  i3 = i3
  Classes <- MCClasses
  TypeOf <- MCTypeOf
  RoleOf <- MCRoleOf
  Directions = {"concrete", "rebar"}
  Dims = {volume, mass}
  DimOf <- MCDimOf
  Invoices = {i1, i2, i3}
  DateOf <- MCDateOf
  SupplierOf <- MCSupplierOf
  RateOf <- MCRateOf
  MonthDays = 10
  QtyScale = 2
  PriceScale = 5
  Inputs <- MCInputs
  MaxMoved = 1
INVARIANTS AllocationConserves CopiesAgree DirectionReportsConserve CompensationWithinDeviation SummaryAddsUp
