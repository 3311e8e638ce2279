----------------------------- MODULE InvoiceLedger -----------------------------
(***************************************************************************)
(* What the invoice workflow promises to its clients and to an auditor,    *)
(* with no threads, sessions or regions in it:                             *)
(*                                                                         *)
(*   - a key registers one invoice and one submission at most;             *)
(*   - only a valid invoice is submitted;                                  *)
(*   - contents are erased only once they are attested, for ever.          *)
(***************************************************************************)
EXTENDS Naturals, Sequences

CONSTANTS
  None,       (* no key *)
  Ids,        (* invoices *)
  Keys,       (* idempotency keys *)
  Verdicts    (* what a provider answers *)

VARIABLES
  registered, (* each invoice: "no", "invalid" or "valid"                   *)
  keyOf,      (* the key each was registered under, None if there is none   *)
  content,    (* each invoice: "none", "stored" or "erased"                 *)
  attested,   (* the invoices whose content an archive event has hashed     *)
  sent        (* the submissions so far                                     *)

ledger == <<registered, keyOf, content, attested, sent>>

Init ==
  /\ registered = [i \in Ids |-> "no"]
  /\ keyOf = [i \in Ids |-> None]
  /\ content = [i \in Ids |-> "none"]
  /\ attested = {}
  /\ sent = << >>

Register(i, k, verdict) ==
  /\ registered[i] = "no"
  /\ k # None => \A j \in Ids : keyOf[j] # k
  /\ registered' = [registered EXCEPT ![i] = verdict]
  /\ keyOf' = [keyOf EXCEPT ![i] = k]
  /\ content' = [content EXCEPT ![i] = "stored"]
  /\ UNCHANGED <<attested, sent>>

Submit(i, k, verdict) ==
  /\ registered[i] = "valid"
  /\ k # None => \A n \in DOMAIN sent : sent[n].key # k
  /\ sent' = Append(sent, [invoice |-> i, key |-> k, verdict |-> verdict])
  /\ UNCHANGED <<registered, keyOf, content, attested>>

(* An archive attests the content, and erases it if it is asked to. *)
Attest(i, redact) ==
  /\ content[i] # "none"
  /\ i \in attested \/ content[i] = "stored"
  /\ attested' = attested \cup {i}
  /\ content' = IF redact THEN [content EXCEPT ![i] = "erased"] ELSE content
  /\ UNCHANGED <<registered, keyOf, sent>>

Next ==
  \E i \in Ids :
    \/ \E k \in Keys \cup {None}, v \in {"valid", "invalid"} : Register(i, k, v)
    \/ \E k \in Keys \cup {None}, v \in Verdicts : Submit(i, k, v)
    \/ \E redact \in BOOLEAN : Attest(i, redact)

Spec == Init /\ [][Next]_ledger
=============================================================================
