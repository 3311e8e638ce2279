-------------------------- MODULE SpanishRefinement --------------------------
(***************************************************************************)
(* SpanishRecords implements RecordChain: the audit trails of a till's     *)
(* rows, in the order of their numbers.                                    *)
(***************************************************************************)
EXTENDS SpanishRecords

NumbersOf(s) == {rows[i].number : i \in RowsOf(s)}

LinkTo(trail) == [record |-> trail.record, event |-> trail.event]

ChainOf(s) ==
  [n \in NumbersOf(s) |->
     LinkTo(rows[CHOOSE i \in RowsOf(s) : rows[i].number = n].trail)]

Chains == INSTANCE RecordChain WITH
  Sellers <- Tills,
  records <- recordInputs,
  events  <- eventInputs,
  chain   <- [s \in Tills |-> ChainOf(s)]

(* Whatever is lost, fails, overlaps, restarts or is archived, the audit   *)
(* trails of a till only ever gain the next link of one chain              *)
(* (invoices.py:97-111, 201-230, 490-520).                                 *)
ImplementsChain == Chains!Spec
=============================================================================
