\* Spanish invoices with the rates of the Spanish profile.
CONSTANTS
  None = None
  Items <- SpanishItems
  ProfileRates <- SpanishRates
  Slips <- ClientSlips
  MaxLines = 2
SPECIFICATION Spec
INVARIANTS
  RatesAsProfiled
\* An invoice ends with its totals.
CHECK_DEADLOCK FALSE
