-------------------------- MODULE InvoiceRefinement --------------------------
(***************************************************************************)
(* InvoiceService implements InvoiceLedger: the tables, read as a ledger.  *)
(***************************************************************************)
EXTENDS InvoiceProperties

(* What the validation result and the payload of a row say to the ledger. *)
Registration(validation) ==
  CASE validation = "none"   -> "no"
    [] validation = "failed" -> "invalid"
    [] validation = "passed" -> "valid"

Content(payload) ==
  CASE payload = "none"     -> "none"
    [] payload = "original" -> "stored"
    [] payload = "redacted" -> "erased"

LedgerRegistered == [i \in InvoiceIds |-> Registration(invoices[i].validation)]

LedgerContent == [i \in InvoiceIds |-> Content(invoices[i].payload)]

LedgerKeys == [i \in InvoiceIds |-> invoices[i].key]

LedgerAttested == {i \in InvoiceIds : HasEvidence(i, invoices[i])}

LedgerEntry(s) == [invoice |-> s.invoice, key |-> s.key, verdict |-> s.delivery]

LedgerSent == [n \in DOMAIN submissions |-> LedgerEntry(submissions[n])]

Ledger == INSTANCE InvoiceLedger WITH
  Ids        <- InvoiceIds,
  Verdicts   <- Deliveries,
  registered <- LedgerRegistered,
  keyOf      <- LedgerKeys,
  content    <- LedgerContent,
  attested   <- LedgerAttested,
  sent       <- LedgerSent

(* Whatever the interleaving of handlers, crashes and lost races, the      *)
(* committed tables only ever move as the ledger moves (the commits of     *)
(* transform, send and archive in invoices.py).                            *)
ImplementsLedger == Ledger!Spec
=============================================================================
