\* Identifiers of every country, Romanian ones of every length.
CONSTANT Lengths = {1, 2, 3, 4, 5, 6, 7, 8, 9}
SPECIFICATION Spec
INVARIANTS
  SlipsAreNoticed
  SwapsAreNoticed
CHECK_DEADLOCK FALSE
