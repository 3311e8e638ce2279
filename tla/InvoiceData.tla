----------------------------- MODULE InvoiceData -----------------------------
(***************************************************************************)
(* The data of the invoice workflow: what a request carries, what a row of *)
(* each table holds, and the pure rules that the handlers of               *)
(* app/services/invoices.py apply to them.  Nothing here changes state.    *)
(*                                                                         *)
(* Hashes are modelled by what they are taken of: two hashes are equal iff *)
(* their arguments are (SHA-256 over canonical JSON).  None is Python's    *)
(* None.                                                                   *)
(*                                                                         *)
(* A definition marked "Fault:" is what the one after it would be with a   *)
(* plausible bug.  Nothing uses it; putting it in place of the definition  *)
(* shows that a property would notice the bug.                             *)
(***************************************************************************)
EXTENDS Naturals, Sequences, FiniteSets

CONSTANTS
  None,             (* the absent key, tenant, invoice or payload           *)
  Admin,            (* the caller that holds the admin API key              *)
  Regions,          (* deployment regions, one API process in each          *)
  Tenants,          (* tenant ids that requests mention                     *)
  ActiveTenants,    (* those that have a row with active = true             *)
  HomeRegion,       (* home_region of each tenant                           *)
  FailoverRegion,   (* failover_region of each tenant, None if it has none  *)
  Keys,             (* idempotency keys                                     *)
  Bodies,           (* invoice contents, without tenant and key             *)
  Requests,         (* the requests that clients make                       *)
  MaxInvoices,      (* bound: rows of the invoices table                    *)
  SigningConfigured (* SPANISH_SIF_SIGNING_COMMAND is set                   *)

InvoiceIds == 1..MaxInvoices

OrNone(S) == S \cup {None}

(***************************************************************************)
(* Requests.  An invoice payload is a body, the tenant_id it names and its *)
(* own idempotency_key.  A body keeps only what the handlers tell apart:   *)
(* whether its country validator accepts it, whether it is a Spanish SIF   *)
(* record, whether its total exceeds the mock rejection threshold, whether *)
(* its number ends in "-PENDING", and its own simulate_ flags.             *)
(***************************************************************************)
Simulations == {"reject", "pending"}

Body == [name : STRING, compliant : BOOLEAN, spanish : BOOLEAN,
         large : BOOLEAN, pending : BOOLEAN, sim : SUBSET Simulations]

Payload == [body : Bodies, tenant : OrNone(Tenants), key : OrNone(Keys)]

Operations == {"transform", "send", "archive", "official", "webhook"}

Request ==
  [op      : Operations,
   caller  : Tenants \cup {Admin},
   header  : OrNone(Keys),           \* the Idempotency-Key header
   key     : OrNone(Keys),           \* idempotency_key of a send body
   target  : OrNone(InvoiceIds),     \* invoice_id
   payload : OrNone(Payload),        \* the invoice of a transform or a send
   sim     : SUBSET Simulations,     \* simulate_ flags of a send body
   redact  : BOOLEAN]                \* redact_payload of an archive

ASSUME RegionsAssumption ==
  /\ HomeRegion \in [Tenants -> Regions]
  /\ FailoverRegion \in [Tenants -> OrNone(Regions)]
  /\ ActiveTenants \subseteq Tenants

ASSUME NoneAssumption ==
  /\ None \notin Regions /\ None \notin Tenants /\ None \notin Keys
  /\ None \notin Bodies /\ None \notin InvoiceIds
  /\ None \notin Payload /\ None \notin Requests
  /\ Admin \notin Tenants

ASSUME RequestsAssumption ==
  /\ Bodies \subseteq Body
  /\ Requests \subseteq Request
  /\ \A r \in Requests : r.op = "transform" => r.payload # None
  /\ \A r \in Requests : r.op \notin {"transform", "send"} => r.target # None

ASSUME ConfigurationAssumption ==
  MaxInvoices \in Nat /\ SigningConfigured \in BOOLEAN

(* idempotency_value: the header and the body key must agree when both are *)
(* given; otherwise whichever is given.                                    *)
KeyConflict(header, body) == header # None /\ body # None /\ header # body

IdempotencyValue(header, body) == IF header # None THEN header ELSE body

(* The key of the submission that a send makes. *)
SendKey(r) == IdempotencyValue(r.header, r.key)

(* The key under which a request transforms its payload: a send hands its  *)
(* own key to the nested transform, as if it were the header.              *)
TransformHeader(r) == IF r.op = "send" THEN SendKey(r) ELSE r.header

TransformKey(r) == IdempotencyValue(TransformHeader(r), r.payload.key)

(* _tenant_scoped_invoice: a tenant's request is its own, whatever tenant  *)
(* the payload leaves out; naming another tenant is refused.               *)
TenantDenied(r) ==
  r.caller # Admin /\ r.payload.tenant \notin {None, r.caller}

TenantOf(r) == IF r.caller = Admin THEN r.payload.tenant ELSE r.caller

(* The request hashes.  A transform hashes the scoped payload without its  *)
(* key; a send hashes the request as it came, without either key.          *)
TransformHash(r) == [body |-> r.payload.body, tenant |-> TenantOf(r)]

TransformHashes == [body : Bodies, tenant : OrNone(Tenants)]

SendHash(r) ==
  [target |-> r.target, sim |-> r.sim,
   body   |-> IF r.payload = None THEN None ELSE r.payload.body,
   tenant |-> IF r.payload = None THEN None ELSE r.payload.tenant]

SendHashes ==
  [target : OrNone(InvoiceIds), sim : SUBSET Simulations,
   body : OrNone(Bodies), tenant : OrNone(Tenants)]

ASSUME HashesAssumption == None \notin TransformHashes /\ None \notin SendHashes

(* Fault: the hash is not compared. *)
HashIgnored(existing, given) == TRUE

(* _ensure_idempotency_hash_matches: a row without a hash matches all. *)
HashMatches(existing, given) == existing = None \/ existing = given

-----------------------------------------------------------------------------
(***************************************************************************)
(* Rows.  The invoices table always has a row per id here; a row whose     *)
(* status is "absent" has not been inserted.                               *)
(***************************************************************************)
Deliveries == {"accepted", "pending", "rejected"}

InvoiceStatuses ==
  {"transformed", "validation_failed", "archived"} \cup Deliveries

Invoice ==
  [status     : InvoiceStatuses \cup {"absent"},
   validation : {"none", "passed", "failed"},
   delivery   : Deliveries \cup {"not_submitted"},
   error      : {"none", "validation", "rejection"},      \* last_error
   body       : OrNone(Bodies),
   tenant     : OrNone(Tenants),
   key        : OrNone(Keys),
   hash       : OrNone(TransformHashes),
   region     : OrNone(Regions),
   payload    : {"none", "original", "redacted"},         \* original_payload
   document   : {"none", "xml"}]                          \* transformed_xml

NoInvoice ==
  [status |-> "absent", validation |-> "none", delivery |-> "not_submitted",
   error |-> "none", body |-> None, tenant |-> None, key |-> None,
   hash |-> None, region |-> None, payload |-> "none", document |-> "none"]

(* The row that a transform inserts, for a body that passes validation and *)
(* for one that does not.                                                  *)
NewInvoice(r, region) ==
  LET passed == r.payload.body.compliant
      key    == TransformKey(r)
  IN  [status     |-> IF passed THEN "transformed" ELSE "validation_failed",
       validation |-> IF passed THEN "passed" ELSE "failed",
       delivery   |-> "not_submitted",
       error      |-> IF passed THEN "none" ELSE "validation",
       body       |-> r.payload.body,
       tenant     |-> TenantOf(r),
       key        |-> key,
       hash       |-> IF key = None THEN None ELSE TransformHash(r),
       region     |-> region,
       payload    |-> "original",
       document   |-> IF passed THEN "xml" ELSE "none"]

Submission ==
  [invoice : InvoiceIds, delivery : Deliveries, region : Regions,
   key : OrNone(Keys), hash : OrNone(SendHashes)]

(* An audit event.  Only "archived" events carry evidence: what the hashes *)
(* of the payload and of the document in their metadata were taken of.     *)
EventTypes ==
  {"invoice_received", "validation_passed", "validation_failed",
   "transformed", "sif_record_generated", "sif_record_signed", "retried",
   "submitted", "archived", "official_validation_passed",
   "official_validation_failed", "official_validation_not_configured",
   "webhook_test_delivered"} \cup Deliveries

AuditEvent ==
  [type : EventTypes, region : Regions,
   payload : {"none", "original", "redacted"}, document : {"none", "xml"}]

Event(type, region) ==
  [type |-> type, region |-> region, payload |-> "none", document |-> "none"]

(* Fault: the evidence is taken after the columns are overwritten. *)
ArchivedEventLate(row, region) ==
  [type |-> "archived", region |-> region,
   payload |-> "redacted", document |-> "none"]

ArchivedEvent(row, region) ==
  [type |-> "archived", region |-> region,
   payload |-> row.payload, document |-> row.document]

(* The events of a transform's transaction, in the order of their flushes. *)
TransformEvents(body, region) ==
  IF ~body.compliant
  THEN <<Event("invoice_received", region), Event("validation_failed", region)>>
  ELSE <<Event("invoice_received", region), Event("validation_passed", region),
         Event("transformed", region)>>
       \o (IF body.spanish THEN <<Event("sif_record_generated", region)>>
                           ELSE << >>)
       \o (IF body.spanish /\ SigningConfigured
           THEN <<Event("sif_record_signed", region)>> ELSE << >>)

(* Fault: a repeated submission is not announced. *)
SendEventsUnannounced(prior, delivery, region) ==
  <<Event("submitted", region), Event(delivery, region)>>

(* The events of a send's transaction; prior says whether one preceded it. *)
SendEvents(prior, delivery, region) ==
  (IF prior THEN <<Event("retried", region)>> ELSE << >>)
  \o <<Event("submitted", region), Event(delivery, region)>>

(***************************************************************************)
(* What an UPDATE of a row loaded as snap and assigned the values of new   *)
(* writes: only the columns whose value the session saw change.            *)
(***************************************************************************)
Changed(stored, snap, new) == IF new = snap THEN stored ELSE new

(* Fault: the whole row is written back. *)
FlushWholeRow(stored, snap, new) == new

Flush(stored, snap, new) ==
  [stored EXCEPT
     !.status   = Changed(@, snap.status, new.status),
     !.delivery = Changed(@, snap.delivery, new.delivery),
     !.error    = Changed(@, snap.error, new.error),
     !.payload  = Changed(@, snap.payload, new.payload),
     !.document = Changed(@, snap.document, new.document)]

(* Fault: the reason of an earlier rejection is not cleared. *)
DeliveredKeepsError(row, delivery) ==
  [row EXCEPT !.status = delivery, !.delivery = delivery,
              !.error = IF delivery = "rejected" THEN "rejection" ELSE @]

(* Fault: a stub is stored in place of the document. *)
ArchivedWithStub(row, redact) ==
  [row EXCEPT !.status   = "archived",
              !.payload  = IF redact THEN "redacted" ELSE @,
              !.document = IF redact THEN "redacted" ELSE @]

(* The assignments of a send with a provider result, and of an archive. *)
Delivered(row, delivery) ==
  [row EXCEPT !.status = delivery, !.delivery = delivery,
              !.error = IF delivery = "rejected" THEN "rejection" ELSE "none"]

Archived(row, redact) ==
  [row EXCEPT !.status   = "archived",
              !.payload  = IF redact THEN "redacted" ELSE @,
              !.document = IF redact THEN "none" ELSE @]

-----------------------------------------------------------------------------
(* Faults: no access check; no check, or only half of it, before a send;   *)
(* no region check.                                                        *)
AccessUnchecked(caller, row) == TRUE

SendableUnchecked(row) == TRUE

SendableWithoutDocument(row) == row.validation = "passed"

TenantAdmittedAnywhere(tenant, region) == tenant = None \/ tenant \in ActiveTenants

(* _ensure_invoice_access. *)
HasAccess(caller, row) == caller = Admin \/ row.tenant = caller

(* _ensure_sendable. *)
Sendable(row) == row.validation = "passed" /\ row.document # "none"

(* accepts_regional_writes: the roles of a region that takes writes. *)
Roles == {"local", "primary", "active", "standby"}
WriteRoles == {"local", "primary", "active"}

(* tenant_region_decision: where the invoices of a tenant may be written. *)
AllowedRegions(tenant) ==
  IF tenant = None THEN Regions
  ELSE {HomeRegion[tenant], FailoverRegion[tenant]} \ {None}

(* _resolve_tenant followed by _ensure_tenant_region. *)
TenantAdmitted(tenant, region) ==
  /\ tenant = None \/ tenant \in ActiveTenants
  /\ region \in AllowedRegions(tenant)

(* The simulate_ flags of a send: those of the request and of its invoice. *)
Simulated(r) ==
  r.sim \cup (IF r.payload = None THEN {} ELSE r.payload.body.sim)

(* What the mock providers answer: a deterministic verdict. *)
ProviderVerdict(body, sim) ==
  IF "reject" \in sim /\ body.large THEN "rejected"
  ELSE IF "pending" \in sim \/ body.pending THEN "pending"
  ELSE "accepted"
=============================================================================
