\* Belgian invoices of up to two lines, by /create and by clients.
CONSTANTS
  None = None
  Items <- BelgianItems
  ProfileRates <- BelgianRates
  Slips <- ClientSlips
  MaxLines = 2
SPECIFICATION Spec
INVARIANTS
  CreatedIsCompliant
  DeclaredLinesAddUp
  BreakdownAddsUp
  GroupTaxNearRate
\* An invoice ends with its totals.
CHECK_DEADLOCK FALSE
