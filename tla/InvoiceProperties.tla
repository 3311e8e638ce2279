-------------------------- MODULE InvoiceProperties --------------------------
(***************************************************************************)
(* What the invoice workflow must and must not do, as properties of        *)
(* InvoiceService.  The runs of MCInvoiceService check them; the proof     *)
(* modules prove most of them for all constants.                           *)
(***************************************************************************)
EXTENDS InvoiceService

-----------------------------------------------------------------------------
(* Idempotency keys.                                                       *)

TransformAnswers == {a \in answers : a.outcome \in {"transformed", "invalid"}}

(* Two answers to transforms that carried one key are about one invoice    *)
(* and one request content, however the requests were interleaved, lost or *)
(* retried: transform's lookup by key and its hash check (invoices.py:103) *)
(* with the unique index that ends a race of two inserts.                  *)
KeyBindsOneTransform ==
  \A a, b \in TransformAnswers :
    /\ TransformKey(a.req) # None
    /\ TransformKey(a.req) = TransformKey(b.req)
    => /\ a.invoice = b.invoice
       /\ TransformHash(a.req) = TransformHash(b.req)

(* No two committed rows hold one key, though every handler checks for the *)
(* key in one statement and inserts it in a later one.                     *)
KeysAreUnique ==
  /\ \A i, j \in InvoiceIds :
       invoices[i].key # None /\ invoices[i].key = invoices[j].key => i = j
  /\ \A n, m \in DOMAIN submissions :
       submissions[n].key # None /\ submissions[n].key = submissions[m].key
         => n = m

(* api/routes/regions.py:48: keys protect retried sends.  The provider     *)
(* gets an invoice at most once under one key.                             *)
KeyedSendSubmitsOnce ==
  \A i \in InvoiceIds, k \in Keys : calls[i][k] <= 1

(* What is true of it: the provider gets an invoice again under its key    *)
(* only if a process died since, in all at most once for each that did     *)
(* (the call of line 298 is not undone by what is rolled back at 335).  As *)
(* long as no two sends under the key overlap, no handler calls it twice.  *)
RepeatsComeFromCrashes ==
  \A i \in InvoiceIds, k \in Keys : calls[i][k] <= 1 + restarts

(* A client that repeats a keyed send is told of the same submission each  *)
(* time, whichever of the two ways send finds it (lines 259 and 275).      *)
SendRetriesAgree ==
  \A a, b \in {x \in answers : x.outcome = "sent"} :
    a.req = b.req /\ SendKey(a.req) # None => a.submission = b.submission

-----------------------------------------------------------------------------
(* Delivery.                                                               *)

(* Only an invoice that passed validation is ever submitted, whether it    *)
(* was named by id, created by the same send or found by its key           *)
(* (_ensure_sendable and the nested transform).                            *)
OnlyValidatedIsSubmitted ==
  \A n \in DOMAIN submissions :
    invoices[submissions[n].invoice].validation = "passed"

(* The audit trail and the submissions tell one story: every submission    *)
(* has its "submitted" event and its outcome event, and no event is left   *)
(* of a send that crashed, lost its key or was rolled back.                *)
TrailMatchesSubmissions ==
  \A i \in InvoiceIds :
    /\ Cardinality(EventsOf(i, "submitted")) = Cardinality(SubmissionsOf(i))
    /\ \A d \in Deliveries :
         Cardinality(EventsOf(i, d)) =
           Cardinality({n \in SubmissionsOf(i) : submissions[n].delivery = d})

(* tests/test_invoice_send.py:27: an accepted invoice is not submitted     *)
(* again.                                                                  *)
AtMostOneAcceptedSubmission ==
  \A i \in InvoiceIds :
    Cardinality({n \in SubmissionsOf(i) : submissions[n].delivery = "accepted"}) <= 1

(* The columns that status() reports (invoices.py:350) agree with the      *)
(* latest submission and with one another.                                 *)
StatusMatchesLatestSubmission ==
  \A i \in InvoiceIds :
    IF SubmissionsOf(i) = {}
    THEN invoices[i].delivery = "not_submitted"
    ELSE /\ \A n \in LatestSubmission(i) :
              invoices[i].delivery = submissions[n].delivery
         /\ invoices[i].error = "rejection" <=> invoices[i].delivery = "rejected"

(* Every submission but an invoice's first is announced as a retry of an   *)
(* earlier one (the "retried" event of invoices.py:279).                   *)
RetriesAreDeclared ==
  \A i \in InvoiceIds :
    SubmissionsOf(i) # {} =>
      Cardinality(EventsOf(i, "retried")) = Cardinality(SubmissionsOf(i)) - 1

-----------------------------------------------------------------------------
(* Archiving.                                                              *)

Redacted(i) == invoices[i].payload = "redacted"

HasEvidence(i, row) ==
  \E n \in EventsOf(i, "archived") :
    /\ trail[i][n].payload = "original"
    /\ row.validation = "passed" => trail[i][n].document = "xml"

(* api/routes/invoices.py:153: redaction preserves hashes of what it       *)
(* removes.  Some "archived" event hashes the original payload and, if     *)
(* there was one, the document, however archives and sends interleave.     *)
EvidenceKept ==
  \A i \in InvoiceIds : Redacted(i) => HasEvidence(i, invoices[i])

(* No handler brings back what a redaction removed, not even one that      *)
(* loaded the row before: a commit writes only columns it changed.         *)
RedactionIsFinal ==
  [][\A i \in InvoiceIds :
       Redacted(i) => /\ invoices'[i].payload = "redacted"
                      /\ invoices'[i].document = "none"]_invoices

(* README.md:474: the archive endpoint marks an invoice archived and       *)
(* redacts its payload.                                                    *)
RedactedImpliesArchived ==
  \A i \in InvoiceIds : Redacted(i) => invoices[i].status = "archived"

OfficialVerdicts == {"official_validation_passed", "official_validation_failed",
                     "official_validation_not_configured"}

(* Every result of an official validation (invoices.py:399) is of a        *)
(* document that can be named: it is still stored, or an "archived" event  *)
(* hashes it, also when the archive redacts it while the validator runs.   *)
OfficialResultsAreTraceable ==
  \A i \in InvoiceIds :
    (\E type \in OfficialVerdicts : EventsOf(i, type) # {}) =>
      \/ invoices[i].document = "xml"
      \/ \E n \in EventsOf(i, "archived") : trail[i][n].document = "xml"

-----------------------------------------------------------------------------
(* Tenants and regions.                                                    *)

(* A tenant is only ever told about, and only ever acts on, its own        *)
(* invoices, through ids, through keys and through the stored row of a     *)
(* key another tenant took.                                                *)
TenantsSeeTheirOwn ==
  \A a \in answers :
    /\ a.outcome # "refused"
    /\ a.req.caller # Admin
    /\ a.req.op # "webhook"
    => invoices[a.invoice].tenant = a.req.caller

(* docs/multi_region.md:51: the invoices and submissions of a tenant are   *)
(* written in its home or failover region only.                            *)
WrittenInAllowedRegion ==
  /\ \A i \in InvoiceIds :
       Exists(i) => invoices[i].region \in AllowedRegions(invoices[i].tenant)
  /\ \A n \in DOMAIN submissions :
       submissions[n].region \in
         AllowedRegions(invoices[submissions[n].invoice].tenant)

(* The events of transform, send and archive.  Official validation and the *)
(* webhook route write theirs whatever the role of the region.             *)
MutationEvents == {"invoice_received", "submitted", "archived"}

(* README.md:104: a region that is not in a write role rejects invoice     *)
(* mutations, also those that a process of the region began before it was  *)
(* demoted.  No step leaves a mutation of such a region.                   *)
StandbyNeverWrites ==
  [][\A i \in InvoiceIds : \A n \in (DOMAIN trail'[i]) \ (DOMAIN trail[i]) :
       trail'[i][n].type \in MutationEvents =>
         role[trail'[i][n].region] \in WriteRoles]_vars

-----------------------------------------------------------------------------
(* Liveness.  A thread that serves a request keeps running (uvicorn's      *)
(* thread pool; the subprocess and database calls it waits on end), and a  *)
(* client that got no definite answer makes its request again.             *)
Answered(r) == \E a \in answers : a.req = r

RetryUnanswered(r) == ~Answered(r) /\ \E w \in Workers : Receive(w, r)

FairSpec ==
  /\ Spec
  /\ \A w \in Workers : WF_vars(Step(w))
  /\ \A r \in Requests : WF_vars(RetryUnanswered(r))

(* No handler is stuck: a thread that took a request becomes free again.   *)
ThreadsAreReleased == \A w \in Workers : job[w] # Idle ~> job[w] = Idle

(* The point of the keys: a client that repeats a keyed request after      *)
(* crashes and lost races ends up with an answer, and not with the error   *)
(* of a key that is taken for ever.                                        *)
RetriesConverge ==
  \A r \in Requests : attempts[r] > 0 ~> Answered(r)

=============================================================================
