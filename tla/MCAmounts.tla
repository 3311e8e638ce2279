------------------------------- MODULE MCAmounts -------------------------------
(***************************************************************************)
(* Small instances of Amounts.  The items are chosen for the edges of the  *)
(* rounding: half cents of extension and of tax, less than half a cent, a  *)
(* quantity and a price out of range, and rates a profile does not have.   *)
(***************************************************************************)
EXTENDS Amounts

Line3(quantity, price, rate) ==
  [quantity |-> quantity, price |-> price, rate |-> rate]

BelgianItems ==
  {Line3(10, 125, 60),      \* 0.125: half a cent
   Line3(10, 500, 210),     \* tax 0.105: half a cent
   Line3(10, 4, 0),         \* 0.004
   Line3(-10, 1005, 210),   \* negative, half a cent of tax
   Line3(10, 1000, 55)}     \* 5.5 per cent

BelgianRates == {0, 60, 120, 210}

ClientSlips == {None, 14, -15, 16}

SpanishItems ==
  {Line3(10, 1000, rate) : rate \in {0, 40, 100, 210}}
  \cup {Line3(n, 1000, 210) : n \in {10, 20, 30}}

SpanishRates == {0, 40, 100, 210}
=============================================================================
