------------------------ MODULE InvoiceServiceProofs ------------------------
(***************************************************************************)
(* What InvoiceService guarantees for all constants: any number of         *)
(* threads, regions, requests, retries and restarts. First the types; then *)
(* what it never does to a row, whatever the interleaving: redact without  *)
(* evidence, restore what was redacted, or submit what did not pass        *)
(* validation; then what a request may count on: its idempotency key, its  *)
(* tenant, its region.                                                     *)
(*                                                                         *)
(* The second argument is about stale snapshots. A handler writes back     *)
(* what it computed from a row it loaded earlier, so the invariant says,   *)
(* of every handler that still holds a snapshot, what of it is still true  *)
(* of the stored row: that the row exists, its validation result, and that *)
(* it is redacted if the snapshot is.                                      *)
(***************************************************************************)
EXTENDS InvoiceProperties, SequenceTheorems, TLAPS

(* What the steps of a handler rely on about the job they work on. *)
JobOK(w) ==
  /\ job[w].at = "send" => job[w].invoice = job[w].req.target
  /\ job[w].at \in {"transform", "insert"} => job[w].req.payload # None
  /\ job[w].at \in {"load", "prior", "submit", "commit", "archive", "official"}
       => job[w].invoice # None

JobsOK == \A w \in Workers : JobOK(w)

TypeInv == TypeOK /\ JobsOK

-----------------------------------------------------------------------------
(* The data. *)

(* A request that carries an invoice has hashes and keys of their types. *)
LEMMA RequestData ==
  ASSUME NEW r \in Requests
  PROVE  /\ r \in Request
         /\ r.payload # None => /\ r.payload \in Payload
                                /\ r.payload.body \in Body
                                /\ TransformHash(r) \in TransformHashes
                                /\ TransformKey(r) \in OrNone(Keys)
         /\ SendHash(r) \in SendHashes
         /\ SendKey(r) \in OrNone(Keys)
<1>1. r \in Request
  BY RequestsAssumption
<1>2. r.payload # None => r.payload \in Payload
  BY <1>1 DEF Request, OrNone
<1>3. r.payload # None => r.payload.body \in Bodies /\ r.payload.body \in Body
  BY <1>2, RequestsAssumption DEF Payload
<1>4. SendKey(r) \in OrNone(Keys)
  BY <1>1 DEF Request, SendKey, IdempotencyValue, OrNone
<1>5. r.payload # None => TransformKey(r) \in OrNone(Keys)
  BY <1>1, <1>2, <1>4
  DEF Request, Payload, TransformKey, TransformHeader, IdempotencyValue, OrNone
<1>6. r.payload # None => TenantOf(r) \in OrNone(Tenants)
  BY <1>1, <1>2 DEF Request, Payload, TenantOf, OrNone
<1>7. r.payload # None => TransformHash(r) \in TransformHashes
  BY <1>3, <1>6 DEF TransformHash, TransformHashes
<1>8. SendHash(r) \in SendHashes
  BY <1>1, <1>2, <1>3 DEF Request, Payload, SendHash, SendHashes, OrNone
<1> QED
  BY <1>1, <1>2, <1>3, <1>4, <1>5, <1>7, <1>8

(* The rows that transform inserts have the types of their columns.        *)
LEMMA NewInvoiceType ==
  ASSUME NEW r \in Requests, r.payload # None, NEW region \in Regions
  PROVE  /\ NewInvoice(r, region) \in Invoice
         /\ NewInvoice(r, region).status # "absent"
<1>1. r.payload.body \in Bodies /\ TenantOf(r) \in OrNone(Tenants)
  BY RequestData
  DEF Request, Payload, TransformHashes, TransformHash, TenantOf, OrNone
<1>2. /\ TransformHash(r) \in TransformHashes
      /\ TransformKey(r) \in OrNone(Keys)
  BY RequestData
<1> QED
  BY <1>1, <1>2 DEF NewInvoice, Invoice, OrNone, InvoiceStatuses

(* So has the row that stands for none.                                    *)
LEMMA NoInvoiceType == NoInvoice \in Invoice
  BY DEF NoInvoice, Invoice, OrNone

(* The events that handlers make are audit events.                         *)
LEMMA EventType ==
  ASSUME NEW type \in EventTypes, NEW region \in Regions
  PROVE  Event(type, region) \in AuditEvent
  BY DEF Event, AuditEvent

(* Those of a transform, whatever the body.                                *)
LEMMA TransformEventsType ==
  ASSUME NEW body \in Body, NEW region \in Regions
  PROVE  TransformEvents(body, region) \in Seq(AuditEvent)
<1>1. \A type \in {"invoice_received", "validation_failed", "validation_passed",
                   "transformed", "sif_record_generated", "sif_record_signed"} :
        Event(type, region) \in AuditEvent
  BY EventType DEF EventTypes
<1> QED
  BY <1>1 DEF TransformEvents

(* Those of a send, whatever the verdict.                                  *)
LEMMA SendEventsType ==
  ASSUME NEW prior \in BOOLEAN, NEW delivery \in Deliveries, NEW region \in Regions
  PROVE  SendEvents(prior, delivery, region) \in Seq(AuditEvent)
<1>1. \A type \in {"retried", "submitted", delivery} :
        Event(type, region) \in AuditEvent
  BY EventType DEF EventTypes, Deliveries
<1> QED
  BY <1>1 DEF SendEvents

(* Whatever a handler loaded and assigned, what it writes back is a row. *)
LEMMA FlushType ==
  ASSUME NEW stored \in Invoice, NEW snap \in Invoice, NEW new \in Invoice
  PROVE  Flush(stored, snap, new) \in Invoice
<1> DEFINE S == InvoiceStatuses \cup {"absent"}
           V == {"none", "passed", "failed"}
           D == Deliveries \cup {"not_submitted"}
           E == {"none", "validation", "rejection"}
           P == {"none", "original", "redacted"}
           X == {"none", "xml"}
<1>1. Invoice =
        [status : S, validation : V, delivery : D, error : E, body : OrNone(Bodies),
         tenant : OrNone(Tenants), key : OrNone(Keys), hash : OrNone(TransformHashes),
         region : OrNone(Regions), payload : P, document : X]
  BY Zenon DEF Invoice
<1> HIDE DEF S, V, D, E, P, X
<1>2. /\ Changed(stored.status, snap.status, new.status) \in S
      /\ Changed(stored.delivery, snap.delivery, new.delivery) \in D
      /\ Changed(stored.error, snap.error, new.error) \in E
      /\ Changed(stored.payload, snap.payload, new.payload) \in P
      /\ Changed(stored.document, snap.document, new.document) \in X
  BY <1>1 DEF Changed
<1> QED
  BY <1>1, <1>2 DEF Flush

(* What a send and an archive assign is a row. *)
LEMMA AssignmentsType ==
  ASSUME NEW row \in Invoice, NEW delivery \in Deliveries, NEW redact \in BOOLEAN
  PROVE  /\ Delivered(row, delivery) \in Invoice
         /\ Archived(row, redact) \in Invoice
<1> DEFINE S == InvoiceStatuses \cup {"absent"}
           V == {"none", "passed", "failed"}
           D == Deliveries \cup {"not_submitted"}
           E == {"none", "validation", "rejection"}
           P == {"none", "original", "redacted"}
           X == {"none", "xml"}
<1>1. Invoice =
        [status : S, validation : V, delivery : D, error : E, body : OrNone(Bodies),
         tenant : OrNone(Tenants), key : OrNone(Keys), hash : OrNone(TransformHashes),
         region : OrNone(Regions), payload : P, document : X]
  BY Zenon DEF Invoice
<1>2. /\ delivery \in S /\ delivery \in D /\ "archived" \in S
      /\ "none" \in E /\ "rejection" \in E
      /\ "redacted" \in P /\ "none" \in X
  BY DEF InvoiceStatuses, Deliveries
<1> HIDE DEF S, V, D, E, P, X
<1>3. (IF delivery = "rejected" THEN "rejection" ELSE "none") \in E
  BY <1>2
<1>4. Delivered(row, delivery) \in Invoice
  BY <1>1, <1>2, <1>3 DEF Delivered
<1>5. /\ (IF redact THEN "redacted" ELSE row.payload) \in P
      /\ (IF redact THEN "none" ELSE row.document) \in X
  BY <1>1, <1>2
<1>6. Archived(row, redact) \in Invoice
  BY <1>1, <1>2, <1>5 DEF Archived
<1> QED
  BY <1>4, <1>6

(* A provider answers with one of the three deliveries.                    *)
LEMMA VerdictType ==
  ASSUME NEW w
  PROVE  Verdict(w) \in Deliveries
  BY DEF Verdict, ProviderVerdict, Deliveries

-----------------------------------------------------------------------------
(* How handlers end, and go on. *)

(* A thread that is somewhere in a handler holds a job. *)
LEMMA BusyJob ==
  ASSUME TypeOK, NEW w \in Workers, job[w].at \in Steps
  PROVE  /\ job[w] \in Job
         /\ job[w].req \in Requests
         /\ job[w].invoice \in OrNone(InvoiceIds)
         /\ job[w].snap \in Invoice
         /\ job[w].retry \in BOOLEAN
         /\ job[w].outcome \in Outcomes
         /\ job[w].submission \in Nat
<1>1. job[w] \in Job \cup {Idle}
  BY DEF TypeOK
<1>2. job[w] # Idle
  BY DEF Idle, Steps
<1>3. job[w] \in Job
  BY <1>1, <1>2
<1> QED
  BY <1>3 DEF Job

(* Answering a client keeps the types.                                     *)
LEMMA ReplyType ==
  ASSUME TypeInv, NEW w \in Workers, job[w].at \in Steps,
         NEW outcome \in Outcomes, NEW i \in OrNone(InvoiceIds), NEW n \in Nat,
         Reply(w, outcome, i, n), UNCHANGED database
  PROVE  TypeInv'
<1>1. job[w].req \in Requests
  BY BusyJob DEF TypeInv
<1>2. answers' \subseteq Answer
  BY <1>1 DEF Reply, Answer, TypeInv, TypeOK
<1>3. job' \in [Workers -> Job \cup {Idle}]
  BY DEF Reply, TypeInv, TypeOK
<1>4. TypeOK'
  BY <1>2, <1>3 DEF Reply, database, TypeInv, TypeOK
<1>5. ASSUME NEW v \in Workers PROVE JobOK(v)'
  <2>1. CASE v = w
    BY <2>1 DEF Reply, JobOK, Idle, TypeInv, TypeOK
  <2>2. CASE v # w
    BY <2>2 DEF Reply, JobOK, TypeInv, TypeOK, JobsOK
  <2> QED
    BY <2>1, <2>2
<1> QED
  BY <1>4, <1>5 DEF TypeInv, JobsOK

(* So does refusing it,                                                    *)
LEMMA RefuseType ==
  ASSUME TypeInv, NEW w \in Workers, job[w].at \in Steps, Refuse(w)
  PROVE  TypeInv'
  BY ReplyType DEF Refuse, Outcomes, OrNone

(* A step that only changes one thread's job, to one that is in order. *)
LEMMA NextJobType ==
  ASSUME TypeInv, NEW w \in Workers, NEW next \in Job \cup {Idle},
         job' = [job EXCEPT ![w] = next],
         UNCHANGED <<role, invoices, submissions, trail, history>>,
         JobOK(w)'
  PROVE  TypeInv'
<1>1. TypeOK'
  BY DEF TypeInv, TypeOK, history
<1>2. ASSUME NEW v \in Workers, v # w PROVE JobOK(v)'
  BY <1>2 DEF TypeInv, TypeOK, JobsOK, JobOK
<1> QED
  BY <1>1, <1>2 DEF TypeInv, JobsOK

(* failing,                                                                *)
LEMMA FailType ==
  ASSUME TypeInv, NEW w \in Workers, Fail(w)
  PROVE  TypeInv'
<1>1. JobOK(w)'
  BY DEF Fail, JobOK, Idle, TypeInv, TypeOK
<1> QED
  BY <1>1, NextJobType DEF Fail, database

(* and going on inside the handler with a job of the right type.           *)
LEMMA ContinueType ==
  ASSUME TypeInv, NEW w \in Workers, NEW next \in Job, Continue(w, next),
         next.at # "send",
         next.at \in {"transform", "insert"} => next.req.payload # None,
         next.at \in {"load", "prior", "submit", "commit", "archive", "official"}
           => next.invoice # None
  PROVE  TypeInv'
<1>1. job'[w] = next
  BY DEF Continue, TypeInv, TypeOK
<1>2. JobOK(w)'
  BY <1>1 DEF JobOK
<1> QED
  BY <1>2, NextJobType DEF Continue, database

(* A commit whose rows are in order. *)
LEMMA CommittedType ==
  ASSUME TypeInv, NEW w \in Workers, job[w].at \in Steps,
         NEW outcome \in Outcomes, NEW i \in InvoiceIds, NEW n \in Nat,
         Committed(w, outcome, i, n),
         invoices' \in [InvoiceIds -> Invoice],
         submissions' \in Seq(Submission),
         trail' \in [InvoiceIds -> Seq(AuditEvent)]
  PROVE  TypeInv'
<1>1. job[w].req \in Requests
  BY BusyJob DEF TypeInv
<1> DEFINE next == [Idle EXCEPT !.at = "reply", !.req = job[w].req, !.invoice = i,
                                !.outcome = outcome, !.submission = n]
<1>2. next \in Job /\ next.at = "reply"
  BY <1>1, NoInvoiceType DEF Idle, Job, Steps, OrNone
<1>3. job' = [job EXCEPT ![w] = next]
  BY DEF Committed
<1> HIDE DEF next
<1>4. TypeOK'
  BY <1>2, <1>3 DEF Committed, history, TypeInv, TypeOK
<1>5. ASSUME NEW v \in Workers PROVE JobOK(v)'
  <2>1. CASE v = w
    BY <1>2, <1>3, <2>1 DEF JobOK, TypeInv, TypeOK
  <2>2. CASE v # w
    BY <1>3, <2>2 DEF JobOK, TypeInv, TypeOK, JobsOK
  <2> QED
    BY <2>1, <2>2
<1> QED
  BY <1>4, <1>5 DEF TypeInv, JobsOK

-----------------------------------------------------------------------------
(* Type correctness, one lemma per group of actions. *)

(* The initial state is well typed.                                        *)
LEMMA InitType == Init => TypeInv
<1> SUFFICES ASSUME Init PROVE TypeInv
  OBVIOUS
<1>1. job \in [Workers -> Job \cup {Idle}] /\ \A w \in Workers : job[w] = Idle
  BY DEF Init
<1>2. TypeOK
  BY <1>1, NoInvoiceType, WorkersAssumption DEF Init, TypeOK
<1>3. JobsOK
  BY <1>1 DEF JobsOK, JobOK, Idle
<1> QED
  BY <1>2, <1>3 DEF TypeInv

(* One lemma per group of actions: taking up a request,                    *)
LEMMA ReceiveType ==
  ASSUME TypeInv, NEW w \in Workers, NEW r \in Requests, Receive(w, r)
  PROVE  TypeInv'
<1> DEFINE next == [Idle EXCEPT !.req = r, !.invoice = r.target,
                      !.at = IF r.op \in {"transform", "send"} THEN r.op ELSE "load"]
<1>1. r.op \in Operations /\ r.target \in OrNone(InvoiceIds)
  BY RequestData DEF Request
<1>2. /\ next \in Job
      /\ next.at \in {"transform", "send", "load"}
      /\ next.req = r /\ next.invoice = r.target
      /\ next.at = "transform" => r.op = "transform"
      /\ next.at = "load" => r.op \notin {"transform", "send"}
  BY <1>1, NoInvoiceType DEF Idle, Job, Steps, Outcomes, Operations
<1>3. job' = [job EXCEPT ![w] = next]
  BY DEF Receive
<1> HIDE DEF next
<1>4. TypeOK'
  BY <1>2, <1>3 DEF Receive, database, TypeInv, TypeOK
<1>5. ASSUME NEW v \in Workers PROVE JobOK(v)'
  <2>1. CASE v = w
    BY <1>2, <1>3, <2>1, RequestsAssumption DEF JobOK, TypeInv, TypeOK
  <2>2. CASE v # w
    BY <1>3, <2>2 DEF JobOK, TypeInv, TypeOK, JobsOK
  <2> QED
    BY <2>1, <2>2
<1> QED
  BY <1>4, <1>5 DEF TypeInv, JobsOK

(* the steps of a transform,                                               *)
LEMMA TransformStepType ==
  ASSUME TypeInv, NEW w \in Workers, TransformStep(w)
  PROVE  TypeInv'
<1> DEFINE r == job[w].req
           region == WorkerRegion[w]
<1>1. CASE TransformReplay(w)
  <2>1. job[w].at \in Steps /\ job[w].at = "transform"
    BY <1>1 DEF TransformReplay, Steps
  <2>2. job[w] \in Job /\ r \in Requests
    BY <2>1, BusyJob DEF TypeInv
  <2>3. PICK i \in PriorInvoices(r) :
           \/ Refuse(w)
           \/ Reply(w, "invalid", i, 0) /\ UNCHANGED database
           \/ Reply(w, "transformed", i, 0) /\ UNCHANGED database
           \/ Continue(w, [job[w] EXCEPT !.at = "prior", !.invoice = i,
                                         !.snap = invoices[i]])
    BY <1>1 DEF TransformReplay
  <2>4. i \in InvoiceIds /\ invoices[i] \in Invoice /\ i # None
    BY NoneAssumption DEF PriorInvoices, InvoicesWithKey, TypeInv, TypeOK
  <2>5. CASE Refuse(w)
    BY <2>1, <2>5, RefuseType
  <2>6. CASE Reply(w, "invalid", i, 0) /\ UNCHANGED database
    BY <2>1, <2>4, <2>6, ReplyType DEF Outcomes, OrNone
  <2>7. CASE Reply(w, "transformed", i, 0) /\ UNCHANGED database
    BY <2>1, <2>4, <2>7, ReplyType DEF Outcomes, OrNone
  <2>8. CASE Continue(w, [job[w] EXCEPT !.at = "prior", !.invoice = i,
                                        !.snap = invoices[i]])
    <3> DEFINE next == [job[w] EXCEPT !.at = "prior", !.invoice = i,
                                      !.snap = invoices[i]]
    <3>1. next \in Job /\ next.at = "prior" /\ next.invoice = i
      BY <2>2, <2>4 DEF Job, Steps, OrNone
    <3> QED
      BY <2>4, <2>8, <3>1, ContinueType
  <2> QED
    BY <2>3, <2>5, <2>6, <2>7, <2>8
<1>2. CASE TransformRefuse(w)
  BY <1>2, RefuseType DEF TransformRefuse, Steps
<1>3. CASE TransformAdmit(w)
  <2>1. job[w] \in Job /\ job[w].at = "transform"
    BY <1>3, BusyJob DEF TransformAdmit, Steps, TypeInv
  <2>2. CASE Fail(w)
    BY <2>2, FailType
  <2>3. CASE Continue(w, [job[w] EXCEPT !.at = "insert"])
    <3> DEFINE next == [job[w] EXCEPT !.at = "insert"]
    <3>1. next \in Job /\ next.at = "insert" /\ next.req = r
      BY <2>1 DEF Job, Steps
    <3>2. r.payload # None
      BY <2>1 DEF TypeInv, JobsOK, JobOK
    <3> QED
      BY <2>3, <3>1, <3>2, ContinueType
  <2> QED
    BY <1>3, <2>2, <2>3 DEF TransformAdmit
<1>4. CASE SigningFails(w)
  BY <1>4, FailType DEF SigningFails
<1>5. CASE TransformInsert(w)
  <2>1. job[w].at \in Steps /\ job[w].at = "insert"
    BY <1>5 DEF TransformInsert, Steps
  <2>2. job[w] \in Job /\ r \in Requests /\ r.payload # None
    BY <2>1, BusyJob DEF TypeInv, JobsOK, JobOK
  <2>3. region \in Regions
    BY WorkersAssumption
  <2>4. PICK i \in InvoiceIds :
          /\ invoices' = [invoices EXCEPT ![i] = NewInvoice(r, region)]
          /\ trail' = [trail EXCEPT ![i] = TransformEvents(r.payload.body, region)]
          /\ UNCHANGED submissions
          /\ \/ Committed(w, "invalid", i, 0)
             \/ Committed(w, "transformed", i, 0)
             \/ /\ job' = [job EXCEPT ![w].at = "load", ![w].invoice = i]
                /\ UNCHANGED <<role, history>>
    BY <1>5 DEF TransformInsert
  <2>5. invoices' \in [InvoiceIds -> Invoice]
    BY <2>2, <2>3, <2>4, NewInvoiceType DEF TypeInv, TypeOK
  <2>6. trail' \in [InvoiceIds -> Seq(AuditEvent)]
    BY <2>2, <2>3, <2>4, RequestData, TransformEventsType DEF TypeInv, TypeOK
  <2>7. submissions' \in Seq(Submission)
    BY <2>4 DEF TypeInv, TypeOK
  <2>8. CASE Committed(w, "invalid", i, 0) \/ Committed(w, "transformed", i, 0)
    BY <2>1, <2>5, <2>6, <2>7, <2>8, CommittedType DEF Outcomes
  <2>9. CASE /\ job' = [job EXCEPT ![w].at = "load", ![w].invoice = i]
             /\ UNCHANGED <<role, history>>
    <3> DEFINE next == [job[w] EXCEPT !.at = "load", !.invoice = i]
    <3>1. next \in Job /\ next.at = "load" /\ next.invoice = i
      BY <2>2 DEF Job, Steps, OrNone
    <3>2. job' = [job EXCEPT ![w] = next]
      BY <2>9 DEF TypeInv, TypeOK
    <3> HIDE DEF next
    <3>3. TypeOK'
      BY <2>5, <2>6, <2>7, <2>9, <3>1, <3>2 DEF history, TypeInv, TypeOK
    <3>4. ASSUME NEW v \in Workers PROVE JobOK(v)'
      <4>1. CASE v = w
        BY <3>1, <3>2, <4>1, NoneAssumption DEF JobOK, TypeInv, TypeOK
      <4>2. CASE v # w
        BY <3>2, <4>2 DEF JobOK, TypeInv, TypeOK, JobsOK
      <4> QED
        BY <4>1, <4>2
    <3> QED
      BY <3>3, <3>4 DEF TypeInv, JobsOK
  <2> QED
    BY <2>4, <2>8, <2>9
<1>6. CASE TransformConflict(w)
  BY <1>6, FailType DEF TransformConflict
<1> QED
  BY <1>1, <1>2, <1>3, <1>4, <1>5, <1>6 DEF TransformStep

(* those of a send,                                                        *)
LEMMA SendStepType ==
  ASSUME TypeInv, NEW w \in Workers, SendStep(w)
  PROVE  TypeInv'
<1> DEFINE r == job[w].req
           region == WorkerRegion[w]
<1>1. CASE SendRefuse(w)
  BY <1>1, RefuseType DEF SendRefuse, Steps
<1>2. CASE SendReplay(w)
  <2>1. job[w].at \in Steps
    BY <1>2 DEF SendReplay, Steps
  <2>2. PICK n \in DOMAIN submissions :
          \/ Reply(w, "sent", submissions[n].invoice, n) /\ UNCHANGED database
          \/ Refuse(w)
    BY <1>2 DEF SendReplay, PriorSubmissions, SubmissionsWithKey
  <2>3. n \in Nat /\ submissions[n] \in Submission
    BY DEF TypeInv, TypeOK
  <2>4. submissions[n].invoice \in OrNone(InvoiceIds)
    BY <2>3 DEF Submission, OrNone
  <2> QED
    BY <2>1, <2>2, <2>3, <2>4, RefuseType, ReplyType DEF Outcomes
<1>3. CASE SendProceed(w)
  <2> DEFINE next == [job[w] EXCEPT !.at = IF r.target # None THEN "load"
                                                              ELSE "transform"]
  <2>1. job[w] \in Job /\ job[w].invoice = r.target
    BY <1>3, BusyJob DEF SendProceed, Steps, TypeInv, JobsOK, JobOK
  <2>2. next \in Job /\ next.req = r /\ next.invoice = r.target
    BY <2>1 DEF Job, Steps
  <2>3. \/ next.at = "load" /\ r.target # None
        \/ next.at = "transform" /\ r.payload # None
    BY <1>3, <2>1 DEF SendProceed, Job
  <2>4. Continue(w, next)
    BY <1>3 DEF SendProceed
  <2> HIDE DEF next
  <2> QED
    BY <2>2, <2>3, <2>4, ContinueType
<1>4. CASE SendLoad(w)
  <2>1. job[w].at \in Steps
    BY <1>4 DEF SendLoad, Steps
  <2>2. CASE Refuse(w)
    BY <2>1, <2>2, RefuseType
  <2>3. CASE Continue(w, [job[w] EXCEPT !.at = "prior",
                                        !.snap = invoices[job[w].invoice]])
    <3> DEFINE next == [job[w] EXCEPT !.at = "prior",
                                      !.snap = invoices[job[w].invoice]]
    <3>1. job[w] \in Job /\ job[w].invoice # None /\ job[w].invoice \in InvoiceIds
      BY <1>4, <2>1, BusyJob DEF SendLoad, TypeInv, JobsOK, JobOK, OrNone
    <3>2. next \in Job /\ next.at = "prior" /\ next.invoice # None
      BY <3>1 DEF Job, Steps, TypeInv, TypeOK
    <3> QED
      BY <2>3, <3>2, ContinueType
  <2> QED
    BY <1>4, <2>2, <2>3 DEF SendLoad
<1>5. CASE SendReplayPrior(w)
  <2>1. job[w].at \in Steps
    BY <1>5 DEF SendReplayPrior, Steps
  <2>2. PICK n \in LatestSubmission(job[w].invoice) :
          Reply(w, "sent", job[w].invoice, n) /\ UNCHANGED database
    BY <1>5 DEF SendReplayPrior
  <2>3. n \in Nat
    BY DEF LatestSubmission, SubmissionsOf, TypeInv, TypeOK
  <2>4. job[w].invoice \in OrNone(InvoiceIds)
    BY <2>1, BusyJob DEF TypeInv
  <2> QED
    BY <2>1, <2>2, <2>3, <2>4, ReplyType DEF Outcomes
<1>6. CASE SendAdmit(w)
  <2>1. job[w].at \in Steps /\ job[w].at = "prior"
    BY <1>6 DEF SendAdmit, Steps
  <2>2. CASE Refuse(w)
    BY <2>1, <2>2, RefuseType
  <2>3. CASE Fail(w)
    BY <2>3, FailType
  <2>4. CASE Continue(w, [job[w] EXCEPT !.at = "submit",
                            !.retry = SubmissionsOf(job[w].invoice) # {}])
    <3> DEFINE seen == SubmissionsOf(job[w].invoice) # {}
               next == [job[w] EXCEPT !.at = "submit", !.retry = seen]
    <3>1. job[w] \in Job /\ job[w].invoice # None
      BY <2>1, BusyJob DEF TypeInv, JobsOK, JobOK
    <3>2. seen \in BOOLEAN
      OBVIOUS
    <3> HIDE DEF seen
    <3>3. next \in Job /\ next.at = "submit" /\ next.invoice # None
      BY <3>1, <3>2 DEF Job, Steps
    <3>4. Continue(w, next)
      BY <2>4 DEF seen
    <3> QED
      BY <3>3, <3>4, ContinueType
  <2> QED
    BY <1>6, <2>2, <2>3, <2>4 DEF SendAdmit
<1>7. CASE ProviderSubmit(w)
  <2> DEFINE next == [job[w] EXCEPT !.at = "commit"]
  <2>1. job[w] \in Job /\ job[w].invoice # None /\ job[w].invoice \in InvoiceIds
    BY <1>7, BusyJob DEF ProviderSubmit, Steps, TypeInv, JobsOK, JobOK, OrNone
  <2>2. next \in Job /\ next.at = "commit" /\ next.invoice # None
    BY <2>1 DEF Job, Steps
  <2>3. SendKey(r) \in OrNone(Keys)
    BY <2>1, RequestData DEF Job
  <2>4. calls' \in [InvoiceIds -> [OrNone(Keys) -> Nat]]
    BY <1>7, <2>1, <2>3 DEF ProviderSubmit, TypeInv, TypeOK
  <2>5. job' = [job EXCEPT ![w] = next]
    BY <1>7 DEF ProviderSubmit
  <2> HIDE DEF next
  <2>6. TypeOK'
    BY <1>7, <2>2, <2>4, <2>5 DEF ProviderSubmit, database, TypeInv, TypeOK
  <2>7. ASSUME NEW v \in Workers PROVE JobOK(v)'
    BY <2>2, <2>5 DEF JobOK, TypeInv, TypeOK, JobsOK
  <2> QED
    BY <2>6, <2>7 DEF TypeInv, JobsOK
<1>8. CASE SendCommit(w)
  <2> DEFINE i == job[w].invoice
  <2>1. job[w].at \in Steps
    BY <1>8 DEF SendCommit, Steps
  <2>2. job[w] \in Job /\ i \in InvoiceIds /\ r \in Requests
    BY <1>8, <2>1, BusyJob DEF SendCommit, TypeInv, JobsOK, JobOK, OrNone
  <2>3. Verdict(w) \in Deliveries /\ region \in Regions
    BY VerdictType, WorkersAssumption
  <2>4. [invoice |-> i, delivery |-> Verdict(w), region |-> region, key |-> SendKey(r),
         hash |-> IF SendKey(r) = None THEN None ELSE SendHash(r)] \in Submission
    BY <2>2, <2>3, RequestData DEF Submission, OrNone
  <2>5. submissions' \in Seq(Submission) /\ Len(submissions) + 1 \in Nat
    BY <1>8, <2>4 DEF SendCommit, TypeInv, TypeOK
  <2>6. Flush(invoices[i], job[w].snap, Delivered(job[w].snap, Verdict(w))) \in Invoice
    BY <2>2, <2>3, AssignmentsType, FlushType DEF Job, TypeInv, TypeOK
  <2>7. invoices' \in [InvoiceIds -> Invoice]
    BY <1>8, <2>6 DEF SendCommit, TypeInv, TypeOK
  <2>8. SendEvents(job[w].retry, Verdict(w), region) \in Seq(AuditEvent)
    BY <2>2, <2>3, SendEventsType DEF Job
  <2>9. trail' \in [InvoiceIds -> Seq(AuditEvent)]
    BY <1>8, <2>2, <2>8 DEF SendCommit, TypeInv, TypeOK
  <2>10. Committed(w, "sent", i, Len(submissions) + 1)
    BY <1>8 DEF SendCommit
  <2> QED
    BY <2>1, <2>2, <2>5, <2>7, <2>9, <2>10, CommittedType DEF Outcomes
<1>9. CASE SendConflict(w)
  BY <1>9, FailType DEF SendConflict
<1> QED
  BY <1>1, <1>2, <1>3, <1>4, <1>5, <1>6, <1>7, <1>8, <1>9 DEF SendStep

(* those of archive, official validation and the webhook,                  *)
LEMMA RecordStepType ==
  ASSUME TypeInv, NEW w \in Workers, RecordStep(w)
  PROVE  TypeInv'
<1> DEFINE i == job[w].invoice
           region == WorkerRegion[w]
<1>0. region \in Regions
  BY WorkersAssumption
<1>1. job[w].at \in {"load", "archive", "official"} /\ job[w].at \in Steps
  BY DEF RecordStep, ArchiveLoad, ArchiveCommit, OfficialLoad, OfficialCommit,
         WebhookTest, Steps
<1>2. job[w] \in Job /\ i \in InvoiceIds /\ i # None /\ job[w].req \in Requests
  BY <1>1, BusyJob DEF TypeInv, JobsOK, JobOK, OrNone
<1>3. ASSUME NEW event \in AuditEvent, trail' = [trail EXCEPT ![i] = Append(@, event)]
      PROVE  trail' \in [InvoiceIds -> Seq(AuditEvent)]
  BY <1>2, <1>3 DEF TypeInv, TypeOK
<1>4. ASSUME NEW at \in {"archive", "official"},
             Continue(w, [job[w] EXCEPT !.at = at, !.snap = invoices[i]])
      PROVE  TypeInv'
  <2> DEFINE next == [job[w] EXCEPT !.at = at, !.snap = invoices[i]]
  <2>1. next \in Job /\ next.at = at /\ next.invoice # None
    BY <1>2 DEF Job, Steps, TypeInv, TypeOK
  <2> QED
    BY <1>4, <2>1, ContinueType
<1>5. CASE ArchiveLoad(w)
  <2>1. CASE Refuse(w)
    BY <1>1, <2>1, RefuseType
  <2>2. CASE Fail(w)
    BY <2>2, FailType
  <2>3. CASE Reply(w, "archived", i, 0) /\ UNCHANGED database
    BY <1>1, <1>2, <2>3, ReplyType DEF Outcomes, OrNone
  <2>4. CASE Continue(w, [job[w] EXCEPT !.at = "archive", !.snap = invoices[i]])
    BY <1>4, <2>4
  <2> QED
    BY <1>5, <2>1, <2>2, <2>3, <2>4 DEF ArchiveLoad
<1>6. CASE ArchiveCommit(w)
  <2>1. ArchivedEvent(job[w].snap, region) \in AuditEvent
    BY <1>0, <1>2 DEF ArchivedEvent, AuditEvent, EventTypes, Job, Invoice
  <2>2. job[w].req.redact \in BOOLEAN
    BY <1>2, RequestData DEF Request
  <2>3. Flush(invoices[i], job[w].snap, Archived(job[w].snap, job[w].req.redact))
          \in Invoice
    BY <1>2, <2>2, AssignmentsType, FlushType DEF Job, TypeInv, TypeOK, Deliveries
  <2>4. invoices' \in [InvoiceIds -> Invoice]
    BY <1>6, <2>3 DEF ArchiveCommit, TypeInv, TypeOK
  <2>5. trail' \in [InvoiceIds -> Seq(AuditEvent)]
    BY <1>3, <1>6, <2>1 DEF ArchiveCommit
  <2> QED
    BY <1>1, <1>2, <1>6, <2>4, <2>5, CommittedType
    DEF ArchiveCommit, Outcomes, TypeInv, TypeOK
<1>7. CASE OfficialLoad(w)
  <2>1. CASE Refuse(w)
    BY <1>1, <2>1, RefuseType
  <2>2. CASE Continue(w, [job[w] EXCEPT !.at = "official", !.snap = invoices[i]])
    BY <1>4, <2>2
  <2> QED
    BY <1>7, <2>1, <2>2 DEF OfficialLoad
<1>8. CASE OfficialCommit(w)
  <2>1. CASE Fail(w)
    BY <2>1, FailType
  <2>2. CASE /\ \E verdict \in EventTypes :
                  trail' = [trail EXCEPT ![i] = Append(@, Event(verdict, region))]
             /\ UNCHANGED <<invoices, submissions>>
             /\ Committed(w, "checked", i, 0)
    <3>1. trail' \in [InvoiceIds -> Seq(AuditEvent)]
      BY <1>0, <1>3, <2>2, EventType
    <3> QED
      BY <1>1, <1>2, <2>2, <3>1, CommittedType DEF Outcomes, TypeInv, TypeOK
  <2> QED
    BY <1>8, <2>1, <2>2 DEF OfficialCommit, EventTypes
<1>9. CASE WebhookTest(w)
  <2>1. CASE Refuse(w)
    BY <1>1, <2>1, RefuseType
  <2>2. CASE /\ trail' = [trail EXCEPT ![i] =
                  Append(@, Event("webhook_test_delivered", region))]
             /\ UNCHANGED <<invoices, submissions>>
             /\ Committed(w, "recorded", i, 0)
    <3>1. trail' \in [InvoiceIds -> Seq(AuditEvent)]
      BY <1>0, <1>3, <2>2, EventType DEF EventTypes
    <3> QED
      BY <1>1, <1>2, <2>2, <3>1, CommittedType DEF Outcomes, TypeInv, TypeOK
  <2> QED
    BY <1>9, <2>1, <2>2 DEF WebhookTest
<1> QED
  BY <1>5, <1>6, <1>7, <1>8, <1>9, Zenon DEF RecordStep

(* the delivery of an answer,                                              *)
LEMMA DeliverType ==
  ASSUME TypeInv, NEW w \in Workers, Deliver(w)
  PROVE  TypeInv'
<1>1. job[w].at \in Steps
  BY DEF Deliver, Steps
<1>2. /\ job[w].outcome \in Outcomes
      /\ job[w].invoice \in OrNone(InvoiceIds)
      /\ job[w].submission \in Nat
  BY <1>1, BusyJob DEF TypeInv
<1>3. /\ Reply(w, job[w].outcome, job[w].invoice, job[w].submission)
      /\ UNCHANGED database
  BY DEF Deliver
<1> QED
  BY <1>1, <1>2, <1>3, ReplyType

(* and a restart, each keep the types.                                     *)
LEMMA RestartType ==
  ASSUME TypeInv, NEW region \in Regions, NEW newRole \in RestartRoles,
         Restart(region, newRole)
  PROVE  TypeInv'
<1>1. newRole \in Roles
  BY WorkersAssumption
<1>2. TypeOK'
  BY <1>1 DEF Restart, database, TypeInv, TypeOK
<1>3. \A v \in Workers : JobOK(v)'
  BY DEF Restart, JobOK, Idle, TypeInv, JobsOK
<1> QED
  BY <1>2, <1>3 DEF TypeInv, JobsOK

(* Every step keeps the types.                                             *)
LEMMA NextType == TypeInv /\ [Next]_vars => TypeInv'
<1> SUFFICES ASSUME TypeInv, [Next]_vars PROVE TypeInv'
  OBVIOUS
<1>1. CASE \E w \in Workers, r \in Requests : Receive(w, r)
  BY <1>1, ReceiveType
<1>2. CASE \E w \in Workers : Step(w)
  BY <1>2, TransformStepType, SendStepType, RecordStepType, DeliverType DEF Step
<1>3. CASE \E region \in Regions, newRole \in RestartRoles : Restart(region, newRole)
  BY <1>3, RestartType
<1>4. CASE UNCHANGED vars
  BY <1>4 DEF vars, TypeInv, TypeOK, JobsOK, JobOK
<1> QED
  BY <1>1, <1>2, <1>3, <1>4 DEF Next

(* The type invariant holds in every reachable state.                      *)
LEMMA TypeInvariant == Spec => []TypeInv
<1>1. TypeInv /\ [Next]_vars => TypeInv'
  BY NextType
<1> QED
  BY <1>1, InitType, PTL DEF Spec

(* Every variable keeps its type, in every interleaving of requests,       *)
(* commits, lost races and restarts of app/services/invoices.py: a row     *)
(* that two sessions write column by column is still a row.                *)
THEOREM TypeCorrect == Spec => []TypeOK
<1>1. TypeInv => TypeOK
  BY DEF TypeInv
<1> QED
  BY <1>1, TypeInvariant, PTL

-----------------------------------------------------------------------------
(* What the columns of a row say of one another. *)
RowOK(row) ==
  /\ row.status = "absent" => /\ row.validation = "none"
                              /\ row.payload = "none"
                              /\ row.key = None
  /\ row.status # "absent" => row.validation # "none" /\ row.payload # "none"
  /\ row.payload = "original" =>
       (row.document = "xml" <=> row.validation = "passed")
  /\ row.payload = "redacted" => row.document = "none"

RowsOK == \A i \in InvoiceIds : RowOK(invoices[i])

(* What of a snapshot is still true of the stored row. *)
StillTrue(snap, row) ==
  /\ snap.status # "absent" /\ row.status # "absent"
  /\ row.validation = snap.validation
  /\ snap.payload = "redacted" => row.payload = "redacted"

Sending == {"prior", "submit", "commit"}

SnapOK(w) ==
  /\ job[w].at \in Sending \cup {"archive"} =>
       RowOK(job[w].snap) /\ StillTrue(job[w].snap, invoices[job[w].invoice])
  /\ job[w].at \in Sending => Sendable(job[w].snap)

SnapsOK == \A w \in Workers : SnapOK(w)

SafetyInv ==
  TypeInv /\ RowsOK /\ SnapsOK /\ EvidenceKept /\ OnlyValidatedIsSubmitted

-----------------------------------------------------------------------------
(* The events of an invoice stay where they are; others may follow. *)
Grows(i) ==
  /\ DOMAIN trail[i] \subseteq DOMAIN trail'[i]
  /\ \A n \in DOMAIN trail[i] : trail'[i][n] = trail[i][n]

(* Steps that leave rows and submissions alone, and at most append events. *)
Quiet == UNCHANGED <<invoices, submissions>> /\ \A i \in InvoiceIds : Grows(i)

(* Appending an event keeps those that are there and adds one at the end.  *)
LEMMA AppendGrows ==
  ASSUME TypeInv, NEW i \in InvoiceIds, NEW event \in AuditEvent,
         trail' = [trail EXCEPT ![i] = Append(@, event)]
  PROVE  /\ \A j \in InvoiceIds : Grows(j)
         /\ Len(trail[i]) + 1 \in DOMAIN trail'[i]
         /\ trail'[i][Len(trail[i]) + 1] = event
<1>1. trail[i] \in Seq(AuditEvent) /\ trail'[i] = Append(trail[i], event)
  BY DEF TypeInv, TypeOK
<1>2. /\ Grows(i)
      /\ Len(trail[i]) + 1 \in DOMAIN trail'[i]
      /\ trail'[i][Len(trail[i]) + 1] = event
  BY <1>1 DEF Grows
<1>3. \A j \in InvoiceIds : j # i => Grows(j)
  BY DEF Grows, TypeInv, TypeOK
<1> QED
  BY <1>2, <1>3

(* So does appending a sequence of events.                                 *)
LEMMA ConcatGrows ==
  ASSUME TypeInv, NEW i \in InvoiceIds, NEW events \in Seq(AuditEvent),
         trail' = [trail EXCEPT ![i] = @ \o events]
  PROVE  \A j \in InvoiceIds : Grows(j)
<1>1. trail[i] \in Seq(AuditEvent) /\ trail'[i] = trail[i] \o events
  BY DEF TypeInv, TypeOK
<1>2. Grows(i)
  BY <1>1, ConcatProperties, LenProperties DEF Grows
<1>3. \A j \in InvoiceIds : j # i => Grows(j)
  BY DEF Grows, TypeInv, TypeOK
<1> QED
  BY <1>2, <1>3

(* Only three actions write rows or submissions. *)
LEMMA Writers ==
  ASSUME TypeInv, [Next]_vars
  PROVE  \/ Quiet
         \/ \E w \in Workers : TransformInsert(w) \/ SendCommit(w) \/ ArchiveCommit(w)
<1>1. ASSUME UNCHANGED database PROVE Quiet
  BY <1>1 DEF database, Quiet, Grows
<1>2. ASSUME NEW i \in InvoiceIds, NEW event \in AuditEvent,
             trail' = [trail EXCEPT ![i] = Append(@, event)],
             UNCHANGED <<invoices, submissions>>
      PROVE  Quiet
  BY <1>2, AppendGrows DEF Quiet
<1>3. ASSUME NEW w \in Workers, Step(w),
             ~TransformInsert(w), ~SendCommit(w), ~ArchiveCommit(w)
      PROVE  Quiet
  <2>1. CASE TransformStep(w)
    BY <1>1, <1>3, <2>1
    DEF TransformStep, TransformReplay, TransformRefuse, TransformAdmit,
        SigningFails, TransformConflict, Refuse, Continue, Fail
  <2>2. CASE SendStep(w)
    BY <1>1, <1>3, <2>2
    DEF SendStep, SendRefuse, SendReplay, SendProceed, SendLoad, SendReplayPrior,
        SendAdmit, ProviderSubmit, SendConflict, Refuse, Continue, Fail
  <2>3. CASE ArchiveLoad(w) \/ OfficialLoad(w) \/ Deliver(w)
    <3>1. ArchiveLoad(w) => UNCHANGED database
      BY DEF ArchiveLoad, Refuse, Continue, Fail
    <3>2. OfficialLoad(w) \/ Deliver(w) => UNCHANGED database
      BY DEF OfficialLoad, Deliver, Refuse, Continue
    <3> QED
      BY <1>1, <2>3, <3>1, <3>2
  <2>4. CASE OfficialCommit(w) \/ WebhookTest(w)
    <3>1. job[w].at \in {"official", "load"}
      BY <2>4 DEF OfficialCommit, WebhookTest
    <3>2. job[w].invoice \in InvoiceIds
      BY <3>1, BusyJob DEF Steps, TypeInv, JobsOK, JobOK, OrNone
    <3>3. \A type \in EventTypes : Event(type, WorkerRegion[w]) \in AuditEvent
      BY EventType, WorkersAssumption
    <3>4. CASE UNCHANGED database
      BY <1>1, <3>4
    <3>5. CASE \E type \in EventTypes :
                 /\ trail' = [trail EXCEPT ![job[w].invoice] =
                      Append(@, Event(type, WorkerRegion[w]))]
                 /\ UNCHANGED <<invoices, submissions>>
      BY <1>2, <3>2, <3>3, <3>5
    <3> QED
      BY <2>4, <3>4, <3>5
      DEF OfficialCommit, WebhookTest, EventTypes, Refuse, Fail
  <2> QED
    BY <1>3, <2>1, <2>2, <2>3, <2>4 DEF Step, RecordStep
<1>4. CASE \E w \in Workers : Step(w)
  BY <1>3, <1>4
<1>5. CASE \E w \in Workers, r \in Requests : Receive(w, r)
  BY <1>1, <1>5 DEF Receive
<1>6. CASE \E region \in Regions, newRole \in RestartRoles : Restart(region, newRole)
  BY <1>1, <1>6 DEF Restart
<1>7. CASE UNCHANGED vars
  BY <1>1, <1>7 DEF vars, database
<1> QED
  BY <1>4, <1>5, <1>6, <1>7 DEF Next

-----------------------------------------------------------------------------
(* What becomes of a stored row when a handler writes back its changes.    *)
Kept(row, later) ==
  /\ later.status # "absent"
  /\ later.validation = row.validation
  /\ later.key = row.key /\ later.hash = row.hash
  /\ row.payload = "redacted" => later.payload = "redacted"

(* A flush writes exactly the columns in which new differs from snap.      *)
LEMMA FlushColumns ==
  ASSUME NEW stored \in Invoice, NEW snap \in Invoice, NEW new \in Invoice
  PROVE  LET row == Flush(stored, snap, new)
         IN  /\ row.status = IF new.status = snap.status THEN stored.status
                                                         ELSE new.status
             /\ row.payload = IF new.payload = snap.payload THEN stored.payload
                                                            ELSE new.payload
             /\ row.document = IF new.document = snap.document THEN stored.document
                                                               ELSE new.document
             /\ row.validation = stored.validation
             /\ row.key = stored.key /\ row.hash = stored.hash
  BY DEF Flush, Changed, Invoice

(* What a send flushes leaves the row well formed, with the payload, the   *)
(* validation result and the identity it had.                              *)
LEMMA SendKeeps ==
  ASSUME NEW stored \in Invoice, NEW snap \in Invoice, NEW delivery \in Deliveries,
         RowOK(stored), StillTrue(snap, stored)
  PROVE  LET row == Flush(stored, snap, Delivered(snap, delivery))
         IN  RowOK(row) /\ Kept(stored, row) /\ row.payload = stored.payload
<1> DEFINE new == Delivered(snap, delivery)
           row == Flush(stored, snap, new)
<1>1. /\ new \in Invoice /\ new.status = delivery
      /\ new.payload = snap.payload /\ new.document = snap.document
  <2>1. new \in Invoice
    BY AssignmentsType
  <2>2. new.status = delivery
    BY DEF Delivered, Invoice
  <2>3. new.payload = snap.payload /\ new.document = snap.document
    BY DEF Delivered, Invoice
  <2> QED
    BY <2>1, <2>2, <2>3
<1> HIDE DEF new
<1>2. /\ row.status = IF new.status = snap.status THEN stored.status ELSE new.status
      /\ row.payload = stored.payload /\ row.document = stored.document
      /\ row.validation = stored.validation
      /\ row.key = stored.key /\ row.hash = stored.hash
  BY <1>1, FlushColumns
<1> HIDE DEF row
<1>3. row.status # "absent"
  BY <1>1, <1>2 DEF StillTrue, Deliveries
<1>4. RowOK(row) /\ Kept(stored, row) /\ row.payload = stored.payload
  BY <1>2, <1>3 DEF RowOK, Kept, StillTrue
<1> QED
  BY <1>4 DEF row, new

(* So does what an archive flushes, and it erases a payload only when the  *)
(* snapshot its evidence was taken of still had one.                       *)
LEMMA ArchiveKeeps ==
  ASSUME NEW stored \in Invoice, NEW snap \in Invoice, NEW redact \in BOOLEAN,
         RowOK(stored), RowOK(snap), StillTrue(snap, stored)
  PROVE  LET row == Flush(stored, snap, Archived(snap, redact))
         IN  /\ RowOK(row) /\ Kept(stored, row)
             /\ row.payload = "redacted" =>
                  stored.payload = "redacted" \/ snap.payload = "original"
<1> DEFINE new == Archived(snap, redact)
           row == Flush(stored, snap, new)
<1>1. /\ new \in Invoice /\ new.status = "archived"
      /\ new.payload = IF redact THEN "redacted" ELSE snap.payload
      /\ new.document = IF redact THEN "none" ELSE snap.document
  <2>1. new \in Invoice
    BY AssignmentsType DEF Deliveries
  <2>2. /\ new.status = "archived"
        /\ new.payload = IF redact THEN "redacted" ELSE snap.payload
        /\ new.document = IF redact THEN "none" ELSE snap.document
    BY DEF Archived, Invoice
  <2> QED
    BY <2>1, <2>2
<1> HIDE DEF new
<1>2. /\ row.status = IF new.status = snap.status THEN stored.status ELSE new.status
      /\ row.payload = IF new.payload = snap.payload THEN stored.payload
                                                     ELSE new.payload
      /\ row.document = IF new.document = snap.document THEN stored.document
                                                        ELSE new.document
      /\ row.validation = stored.validation
      /\ row.key = stored.key /\ row.hash = stored.hash
  BY <1>1, FlushColumns
<1> HIDE DEF row
<1>3. /\ stored.payload \in {"none", "original", "redacted"}
      /\ snap.payload \in {"none", "original", "redacted"}
      /\ stored.document \in {"none", "xml"} /\ snap.document \in {"none", "xml"}
  BY DEF Invoice
<1>4. row.status # "absent"
  BY <1>1, <1>2 DEF StillTrue
<1>5. row.payload = "redacted" =>
        stored.payload = "redacted" \/ snap.payload = "original"
  BY <1>1, <1>2, <1>3 DEF RowOK, StillTrue
<1>6. stored.payload = "redacted" => row.payload = "redacted"
  BY <1>1, <1>2
<1>7. row.payload # "none"
  BY <1>1, <1>2, <1>3 DEF RowOK, StillTrue
<1>8. row.payload = "original" => (row.document = "xml" <=> row.validation = "passed")
  BY <1>1, <1>2, <1>3 DEF RowOK, StillTrue
<1>9. row.payload = "redacted" => row.document = "none"
  BY <1>1, <1>2, <1>3 DEF RowOK, StillTrue
<1>10. RowOK(row) /\ Kept(stored, row)
  BY <1>2, <1>4, <1>6, <1>7, <1>8, <1>9 DEF RowOK, Kept, StillTrue
<1> QED
  BY <1>5, <1>10 DEF row, new

(* The row a transform inserts is well formed.                             *)
LEMMA NewRowOK ==
  ASSUME NEW r \in Requests, r.payload # None, NEW region \in Regions
  PROVE  /\ RowOK(NewInvoice(r, region))
         /\ NewInvoice(r, region).payload = "original"
  BY DEF NewInvoice, RowOK

(* The thread that commits a send or an archive, and the row it commits to. *)
LEMMA Committing ==
  ASSUME SafetyInv, NEW w \in Workers, SendCommit(w) \/ ArchiveCommit(w)
  PROVE  /\ job[w].invoice \in InvoiceIds /\ job[w].req \in Requests
         /\ job[w].snap \in Invoice /\ invoices[job[w].invoice] \in Invoice
         /\ RowOK(invoices[job[w].invoice]) /\ RowOK(job[w].snap)
         /\ StillTrue(job[w].snap, invoices[job[w].invoice])
<1>1. job[w].at \in {"commit", "archive"}
  BY DEF SendCommit, ArchiveCommit
<1>2. job[w].invoice \in InvoiceIds /\ job[w].req \in Requests /\ job[w].snap \in Invoice
  BY <1>1, BusyJob DEF SafetyInv, TypeInv, JobsOK, JobOK, Steps, OrNone
<1> QED
  BY <1>1, <1>2
  DEF SafetyInv, TypeInv, TypeOK, RowsOK, SnapsOK, SnapOK, Sending

(* What one step does to one row. *)
LEMMA RowStep ==
  ASSUME SafetyInv, [Next]_vars, NEW i \in InvoiceIds
  PROVE  /\ RowOK(invoices'[i])
         /\ Exists(i) => Kept(invoices[i], invoices'[i])
<1>0. TypeInv /\ RowOK(invoices[i])
  BY DEF SafetyInv, RowsOK
<1>1. CASE Quiet
  BY <1>0, <1>1 DEF Quiet, Kept, Exists
<1>2. CASE \E w \in Workers : TransformInsert(w)
  <2>1. PICK w \in Workers : TransformInsert(w)
    BY <1>2
  <2>2. PICK j \in InvoiceIds :
          NextId(j) /\ invoices' = [invoices EXCEPT ![j] =
                                      NewInvoice(job[w].req, WorkerRegion[w])]
    BY <2>1 DEF TransformInsert
  <2>3. job[w].req \in Requests /\ job[w].req.payload # None
    BY <1>0, <2>1, BusyJob DEF TransformInsert, Steps, TypeInv, JobsOK, JobOK
  <2>4. CASE i = j
    BY <1>0, <2>2, <2>3, <2>4, NewRowOK, WorkersAssumption
    DEF NextId, TypeInv, TypeOK
  <2>5. CASE i # j
    BY <1>0, <2>2, <2>5 DEF Kept, Exists, TypeInv, TypeOK
  <2> QED
    BY <2>4, <2>5
<1>3. CASE \E w \in Workers : SendCommit(w)
  <2>1. PICK w \in Workers : SendCommit(w)
    BY <1>3
  <2>2. CASE i = job[w].invoice
    <3>1. invoices'[i] = Flush(invoices[i], job[w].snap,
                               Delivered(job[w].snap, Verdict(w)))
      BY <1>0, <2>1, <2>2 DEF SendCommit, TypeInv, TypeOK
    <3> QED
      BY <2>1, <2>2, <3>1, Committing, SendKeeps, VerdictType
  <2>3. CASE i # job[w].invoice
    BY <1>0, <2>1, <2>3 DEF SendCommit, Kept, Exists, TypeInv, TypeOK
  <2> QED
    BY <2>2, <2>3
<1>4. CASE \E w \in Workers : ArchiveCommit(w)
  <2>1. PICK w \in Workers : ArchiveCommit(w)
    BY <1>4
  <2>2. CASE i = job[w].invoice
    <3>1. invoices'[i] = Flush(invoices[i], job[w].snap,
                               Archived(job[w].snap, job[w].req.redact))
      BY <1>0, <2>1, <2>2 DEF ArchiveCommit, TypeInv, TypeOK
    <3>2. job[w].req.redact \in BOOLEAN
      BY <2>1, Committing, RequestData DEF Request
    <3> QED
      BY <2>1, <2>2, <3>1, <3>2, Committing, ArchiveKeeps
  <2>3. CASE i # job[w].invoice
    BY <1>0, <2>1, <2>3 DEF ArchiveCommit, Kept, Exists, TypeInv, TypeOK
  <2> QED
    BY <2>2, <2>3
<1> QED
  BY <1>0, <1>1, <1>2, <1>3, <1>4, Writers

-----------------------------------------------------------------------------
(* Snapshots: a handler that holds one held it before, or reads it now.    *)
Held(v) ==
  /\ job[v].at \in Sending \cup {"archive"}
  /\ job'[v].invoice = job[v].invoice /\ job'[v].snap = job[v].snap
  /\ job'[v].at \in Sending => job[v].at \in Sending

Loaded(v) ==
  /\ UNCHANGED invoices
  /\ job'[v].invoice \in InvoiceIds
  /\ job'[v].snap = invoices[job'[v].invoice]
  /\ Exists(job'[v].invoice)
  /\ job'[v].at \in Sending => Sendable(job'[v].snap)

(* A handler's step moves one thread. *)
LEMMA OneJob ==
  ASSUME TypeInv, NEW w \in Workers, Step(w)
  PROVE  \E next : job' = [job EXCEPT ![w] = next]
<1>1. CASE TransformInsert(w)
  <2>1. \A i : [job EXCEPT ![w].at = "load", ![w].invoice = i]
                 = [job EXCEPT ![w] = [job[w] EXCEPT !.at = "load", !.invoice = i]]
    BY DEF TypeInv, TypeOK
  <2> QED
    BY <1>1, <2>1 DEF TransformInsert, Committed
<1>2. CASE TransformStep(w) /\ ~TransformInsert(w)
  BY <1>2 DEF TransformStep, TransformReplay, TransformRefuse, TransformAdmit,
              SigningFails, TransformConflict, Refuse, Reply, Continue, Fail
<1>3. CASE ProviderSubmit(w)
  <2>1. [job EXCEPT ![w].at = "commit"]
          = [job EXCEPT ![w] = [job[w] EXCEPT !.at = "commit"]]
    BY DEF TypeInv, TypeOK
  <2> QED
    BY <1>3, <2>1 DEF ProviderSubmit
<1>4. CASE SendStep(w) /\ ~ProviderSubmit(w)
  BY <1>4 DEF SendStep, SendRefuse, SendReplay, SendProceed, SendLoad,
              SendReplayPrior, SendAdmit, SendCommit, SendConflict, Refuse, Reply,
              Continue, Fail, Committed
<1>5. CASE RecordStep(w) \/ Deliver(w)
  BY <1>5 DEF RecordStep, ArchiveLoad, ArchiveCommit, OfficialLoad, OfficialCommit,
              WebhookTest, Deliver, Refuse, Reply, Continue, Fail, Committed
<1> QED
  BY <1>1, <1>2, <1>3, <1>4, <1>5 DEF Step

(* A step of a handler is the step of a thread that has a job.             *)
LEMMA StepStarts ==
  ASSUME NEW w \in Workers, Step(w)
  PROVE  job[w].at \in Steps
  BY DEF Step, TransformStep, TransformReplay, TransformRefuse, TransformAdmit,
         SigningFails, TransformInsert, TransformConflict, SendStep, SendRefuse,
         SendReplay, SendProceed, SendLoad, SendReplayPrior, SendAdmit,
         ProviderSubmit, SendCommit, SendConflict, RecordStep, ArchiveLoad,
         ArchiveCommit, OfficialLoad, OfficialCommit, WebhookTest, Deliver, Steps

(* A thread that holds a snapshot after a step held it before, or has just *)
(* loaded it.                                                              *)
LEMMA SnapshotStep ==
  ASSUME SafetyInv, [Next]_vars, NEW v \in Workers,
         job'[v].at \in Sending \cup {"archive"}
  PROVE  Held(v) \/ Loaded(v)
<1>0. TypeInv /\ RowsOK
  BY DEF SafetyInv
<1>1. CASE job'[v] = job[v]
  BY <1>1 DEF Held
<1>2. CASE job'[v] = Idle
  BY <1>2 DEF Idle, Sending
<1>3. ASSUME NEW next \in Job, Continue(v, next) PROVE job'[v] = next /\ UNCHANGED invoices
  BY <1>0, <1>3 DEF Continue, database, TypeInv, TypeOK
<1>4. ASSUME NEW w \in Workers, NEW next, w # v, job' = [job EXCEPT ![w] = next]
      PROVE  Held(v) \/ Loaded(v)
  BY <1>0, <1>1, <1>4 DEF TypeInv, TypeOK
<1>5. ASSUME NEW w \in Workers, Step(w), w # v PROVE Held(v) \/ Loaded(v)
  <2>1. \E next : job' = [job EXCEPT ![w] = next]
    BY <1>0, <1>5, OneJob
  <2> QED
    BY <1>4, <1>5, <2>1
<1>6. ASSUME Step(v) PROVE Held(v) \/ Loaded(v)
  <2>1. job[v] \in Job
    BY <1>0, <1>6, StepStarts, BusyJob DEF TypeInv
  <2> USE <1>0, <2>1
  <2>2. ASSUME NEW outcome, NEW i, NEW n, Reply(v, outcome, i, n) PROVE FALSE
    BY <1>2, <2>2 DEF Reply, Idle, Sending, TypeInv, TypeOK
  <2>3. ~Refuse(v)
    BY <2>2 DEF Refuse
  <2>4. ~Fail(v)
    BY <1>2 DEF Fail, Idle, Sending, TypeInv, TypeOK
  <2>5. ASSUME NEW outcome, NEW i, NEW n, Committed(v, outcome, i, n) PROVE FALSE
    BY <2>5 DEF Committed, Idle, Sending, TypeInv, TypeOK
  <2>6. CASE TransformReplay(v)
    <3>1. PICK i \in PriorInvoices(job[v].req) :
            /\ Sendable(invoices[i])
            /\ Continue(v, [job[v] EXCEPT !.at = "prior", !.invoice = i,
                                          !.snap = invoices[i]])
      BY <2>2, <2>3, <2>6 DEF TransformReplay
    <3>2. i \in InvoiceIds /\ invoices[i].key # None /\ RowOK(invoices[i])
      BY DEF PriorInvoices, InvoicesWithKey, RowsOK
    <3>3. Exists(i)
      BY <3>2 DEF RowOK, Exists
    <3>4. /\ job'[v].invoice = i /\ job'[v].snap = invoices[i]
          /\ UNCHANGED invoices
      BY <3>1 DEF Continue, database, Job, TypeInv, TypeOK
    <3> QED
      BY <3>1, <3>2, <3>3, <3>4 DEF Loaded
  <2>7. CASE TransformAdmit(v)
    <3>1. job'[v].at = "insert"
      BY <2>4, <2>7 DEF TransformAdmit, Continue, Job, TypeInv, TypeOK
    <3> QED
      BY <3>1 DEF Sending
  <2>8. CASE TransformInsert(v)
    <3>1. job'[v].at = "load"
      BY <2>5, <2>8 DEF TransformInsert, Job, TypeInv, TypeOK
    <3> QED
      BY <3>1 DEF Sending
  <2>9. CASE SendProceed(v)
    <3>1. job'[v].at \in {"load", "transform"}
      BY <2>9 DEF SendProceed, Continue, Job, TypeInv, TypeOK
    <3> QED
      BY <3>1 DEF Sending
  <2>10. CASE SendLoad(v)
    <3>1. /\ Found(v) /\ Sendable(invoices[job[v].invoice])
          /\ Continue(v, [job[v] EXCEPT !.at = "prior",
                                        !.snap = invoices[job[v].invoice]])
      BY <2>3, <2>10 DEF SendLoad
    <3>2. job[v].invoice \in InvoiceIds
      BY <2>10 DEF SendLoad, Job, TypeInv, JobsOK, JobOK, OrNone
    <3>3. /\ job'[v].invoice = job[v].invoice
          /\ job'[v].snap = invoices[job[v].invoice]
          /\ UNCHANGED invoices
      BY <3>1 DEF Continue, database, Job, TypeInv, TypeOK
    <3> QED
      BY <3>1, <3>2, <3>3 DEF Loaded, Found
  <2>11. CASE SendAdmit(v)
    <3>1. Continue(v, [job[v] EXCEPT !.at = "submit",
                         !.retry = SubmissionsOf(job[v].invoice) # {}])
      BY <2>3, <2>4, <2>11 DEF SendAdmit
    <3>2. job'[v].invoice = job[v].invoice /\ job'[v].snap = job[v].snap
      BY <3>1 DEF Continue, Job, TypeInv, TypeOK
    <3> QED
      BY <2>11, <3>2 DEF SendAdmit, Held, Sending
  <2>12. CASE ProviderSubmit(v)
    <3>1. job'[v].invoice = job[v].invoice /\ job'[v].snap = job[v].snap
      BY <2>12 DEF ProviderSubmit, Job, TypeInv, TypeOK
    <3> QED
      BY <2>12, <3>1 DEF ProviderSubmit, Held, Sending
  <2>13. CASE ArchiveLoad(v)
    <3>1. /\ Found(v)
          /\ Continue(v, [job[v] EXCEPT !.at = "archive",
                                        !.snap = invoices[job[v].invoice]])
      BY <2>2, <2>3, <2>4, <2>13 DEF ArchiveLoad
    <3>2. job[v].invoice \in InvoiceIds
      BY <2>13 DEF ArchiveLoad, Job, TypeInv, JobsOK, JobOK, OrNone
    <3>3. /\ job'[v].invoice = job[v].invoice /\ job'[v].at = "archive"
          /\ job'[v].snap = invoices[job[v].invoice]
          /\ UNCHANGED invoices
      BY <3>1 DEF Continue, database, Job, TypeInv, TypeOK
    <3> QED
      BY <3>1, <3>2, <3>3 DEF Loaded, Found, Sending
  <2>14. CASE OfficialLoad(v)
    <3>1. job'[v].at = "official"
      BY <2>3, <2>14 DEF OfficialLoad, Continue, Job, TypeInv, TypeOK
    <3> QED
      BY <3>1 DEF Sending
  <2>15. ~TransformRefuse(v) /\ ~SigningFails(v) /\ ~TransformConflict(v)
    BY <2>3, <2>4 DEF TransformRefuse, SigningFails, TransformConflict
  <2>16. ~SendRefuse(v) /\ ~SendReplay(v) /\ ~SendReplayPrior(v)
         /\ ~SendCommit(v) /\ ~SendConflict(v)
    BY <2>2, <2>3, <2>4, <2>5
    DEF SendRefuse, SendReplay, SendReplayPrior, SendCommit, SendConflict
  <2>17. ~ArchiveCommit(v) /\ ~OfficialCommit(v) /\ ~WebhookTest(v) /\ ~Deliver(v)
    BY <2>2, <2>3, <2>4, <2>5 DEF ArchiveCommit, OfficialCommit, WebhookTest, Deliver
  <2> QED
    BY <1>6, <2>6, <2>7, <2>8, <2>9, <2>10, <2>11, <2>12, <2>13, <2>14, <2>15,
       <2>16, <2>17
    DEF Step, TransformStep, SendStep, RecordStep
<1>7. CASE \E w \in Workers : Step(w)
  BY <1>5, <1>6, <1>7
<1>8. CASE \E w \in Workers, r \in Requests : Receive(w, r)
  <2>1. PICK w \in Workers, r \in Requests : Receive(w, r)
    BY <1>8
  <2>2. CASE w = v
    <3>1. job'[v].at \in {"transform", "send", "load"}
      BY <1>0, <2>1, <2>2 DEF Receive, Idle, TypeInv, TypeOK
    <3> QED
      BY <3>1 DEF Sending
  <2> QED
    BY <1>4, <2>1, <2>2 DEF Receive
<1>9. CASE \E region \in Regions, newRole \in RestartRoles : Restart(region, newRole)
  BY <1>1, <1>2, <1>9 DEF Restart
<1>10. CASE UNCHANGED vars
  BY <1>1, <1>10 DEF vars
<1> QED
  BY <1>7, <1>8, <1>9, <1>10 DEF Next

(* A snapshot stays true of its row while other handlers commit to it. *)
LEMMA SnapsStep ==
  ASSUME SafetyInv, [Next]_vars
  PROVE  SnapsOK'
<1> SUFFICES ASSUME NEW v \in Workers, job'[v].at \in Sending \cup {"archive"}
             PROVE  /\ RowOK(job'[v].snap)
                    /\ StillTrue(job'[v].snap, invoices'[job'[v].invoice])
                    /\ job'[v].at \in Sending => Sendable(job'[v].snap)
  BY DEF SnapsOK, SnapOK
<1>1. CASE Held(v)
  <2>1. job[v].at \in Steps /\ job[v].at # "send"
    BY <1>1 DEF Held, Sending, Steps
  <2>2. job[v].invoice \in InvoiceIds
    BY <1>1, <2>1, BusyJob
    DEF Held, Sending, SafetyInv, TypeInv, JobsOK, JobOK, OrNone
  <2>3. /\ RowOK(job[v].snap)
        /\ StillTrue(job[v].snap, invoices[job[v].invoice])
        /\ job[v].at \in Sending => Sendable(job[v].snap)
    BY <1>1 DEF Held, SafetyInv, SnapsOK, SnapOK
  <2>4. Kept(invoices[job[v].invoice], invoices'[job[v].invoice])
    BY <2>2, <2>3, RowStep DEF StillTrue, Exists
  <2> QED
    BY <1>1, <2>3, <2>4 DEF Held, StillTrue, Kept
<1>2. CASE Loaded(v)
  BY <1>2 DEF Loaded, StillTrue, Exists, SafetyInv, RowsOK
<1> QED
  BY <1>1, <1>2, SnapshotStep

(* The events that are evidence for an erased row stay in its trail.       *)
LEMMA EvidenceStays ==
  ASSUME TypeInv, NEW i \in InvoiceIds, HasEvidence(i, invoices[i]), Grows(i),
         Kept(invoices[i], invoices'[i])
  PROVE  HasEvidence(i, invoices[i])'
<1>1. PICK n \in EventsOf(i, "archived") :
        /\ trail[i][n].payload = "original"
        /\ invoices[i].validation = "passed" => trail[i][n].document = "xml"
  BY DEF HasEvidence
<1>2. n \in DOMAIN trail[i] /\ trail[i][n].type = "archived"
  BY DEF EventsOf
<1>3. n \in DOMAIN trail'[i] /\ trail'[i][n] = trail[i][n]
  BY <1>2 DEF Grows
<1>4. n \in EventsOf(i, "archived")'
  BY <1>2, <1>3 DEF EventsOf
<1> QED
  BY <1>1, <1>3, <1>4 DEF HasEvidence, Kept

(* The events of a row that a step does not insert stay where they are. *)
LEMMA TrailStep ==
  ASSUME SafetyInv, [Next]_vars, NEW i \in InvoiceIds, Exists(i)
  PROVE  Grows(i)
<1>0. TypeInv
  BY DEF SafetyInv
<1>1. CASE Quiet
  BY <1>1 DEF Quiet
<1>2. ASSUME NEW w \in Workers, TransformInsert(w) PROVE Grows(i)
  <2>1. PICK j \in InvoiceIds :
          /\ NextId(j)
          /\ trail' = [trail EXCEPT ![j] =
               TransformEvents(job[w].req.payload.body, WorkerRegion[w])]
    BY <1>2 DEF TransformInsert
  <2>2. i # j
    BY <2>1 DEF NextId
  <2> QED
    BY <1>0, <2>1, <2>2 DEF Grows, TypeInv, TypeOK
<1>3. ASSUME NEW w \in Workers, SendCommit(w) PROVE Grows(i)
  <2>1. job[w] \in Job
    BY <1>0, <1>3, BusyJob DEF SendCommit, Steps, TypeInv
  <2>2. SendEvents(job[w].retry, Verdict(w), WorkerRegion[w]) \in Seq(AuditEvent)
    BY <2>1, SendEventsType, VerdictType, WorkersAssumption DEF Job
  <2>3. job[w].invoice \in InvoiceIds
    BY <1>3, Committing
  <2>4. trail' = [trail EXCEPT ![job[w].invoice] =
          @ \o SendEvents(job[w].retry, Verdict(w), WorkerRegion[w])]
    BY <1>3 DEF SendCommit
  <2> QED
    BY <1>0, <2>2, <2>3, <2>4, ConcatGrows
<1>4. ASSUME NEW w \in Workers, ArchiveCommit(w) PROVE Grows(i)
  <2>1. /\ job[w].invoice \in InvoiceIds
        /\ ArchivedEvent(job[w].snap, WorkerRegion[w]) \in AuditEvent
    BY <1>4, Committing, WorkersAssumption
    DEF ArchivedEvent, AuditEvent, EventTypes, Invoice
  <2> QED
    BY <1>0, <1>4, <2>1, AppendGrows DEF ArchiveCommit
<1> QED
  BY <1>0, <1>1, <1>2, <1>3, <1>4, Writers

(* Only an archive redacts, and its event hashes what it read, which is    *)
(* the original unless the stored row was redacted already.                *)
LEMMA EvidenceStep ==
  ASSUME SafetyInv, [Next]_vars
  PROVE  EvidenceKept'
<1> SUFFICES ASSUME NEW i \in InvoiceIds, invoices'[i].payload = "redacted"
             PROVE  HasEvidence(i, invoices[i])'
  BY DEF EvidenceKept, Redacted
<1>0. TypeInv /\ RowOK(invoices[i])
  BY DEF SafetyInv, RowsOK
<1>1. CASE Redacted(i)
  <2>1. HasEvidence(i, invoices[i])
    BY <1>1 DEF SafetyInv, EvidenceKept
  <2>2. Exists(i)
    BY <1>0, <1>1 DEF Redacted, RowOK, Exists
  <2> QED
    BY <1>0, <2>1, <2>2, EvidenceStays, RowStep, TrailStep
<1>2. CASE ~Redacted(i)
  <2>1. ~Quiet
    BY <1>2 DEF Quiet, Redacted
  <2>2. ASSUME NEW w \in Workers, TransformInsert(w) PROVE FALSE
    <3>1. PICK j \in InvoiceIds :
            invoices' = [invoices EXCEPT ![j] = NewInvoice(job[w].req, WorkerRegion[w])]
      BY <2>2 DEF TransformInsert
    <3>2. job[w].req \in Requests /\ job[w].req.payload # None
      BY <1>0, <2>2, BusyJob DEF TransformInsert, Steps, TypeInv, JobsOK, JobOK
    <3> QED
      BY <1>0, <1>2, <3>1, <3>2, NewRowOK, WorkersAssumption
      DEF Redacted, TypeInv, TypeOK
  <2>3. ASSUME NEW w \in Workers, SendCommit(w) PROVE FALSE
    <3>1. CASE i = job[w].invoice
      <4>1. invoices'[i] = Flush(invoices[i], job[w].snap,
                                 Delivered(job[w].snap, Verdict(w)))
        BY <1>0, <2>3, <3>1 DEF SendCommit, TypeInv, TypeOK
      <4> QED
        BY <1>2, <2>3, <3>1, <4>1, Committing, SendKeeps, VerdictType DEF Redacted
    <3>2. CASE i # job[w].invoice
      BY <1>0, <1>2, <2>3, <3>2 DEF SendCommit, Redacted, TypeInv, TypeOK
    <3> QED
      BY <3>1, <3>2
  <2>4. ASSUME NEW w \in Workers, ArchiveCommit(w) PROVE HasEvidence(i, invoices[i])'
    <3> DEFINE snap == job[w].snap
               event == ArchivedEvent(snap, WorkerRegion[w])
               last == Len(trail[i]) + 1
    <3>1. i = job[w].invoice
      BY <1>0, <1>2, <2>4 DEF ArchiveCommit, Redacted, TypeInv, TypeOK
    <3>2. invoices'[i] = Flush(invoices[i], snap, Archived(snap, job[w].req.redact))
      BY <1>0, <2>4, <3>1 DEF ArchiveCommit, TypeInv, TypeOK
    <3>3. job[w].req.redact \in BOOLEAN
      BY <2>4, Committing, RequestData DEF Request
    <3>4. /\ snap.payload = "original"
          /\ invoices'[i].validation = snap.validation
          /\ RowOK(snap)
      BY <1>2, <2>4, <3>1, <3>2, <3>3, Committing, ArchiveKeeps
      DEF Redacted, Kept, StillTrue
    <3>5. event \in AuditEvent
      BY <2>4, Committing, WorkersAssumption
      DEF ArchivedEvent, AuditEvent, EventTypes, Invoice
    <3>6. last \in DOMAIN trail'[i] /\ trail'[i][last] = event
      BY <1>0, <2>4, <3>1, <3>5, AppendGrows DEF ArchiveCommit
    <3>7. /\ event.type = "archived" /\ event.payload = "original"
          /\ invoices'[i].validation = "passed" => event.document = "xml"
      BY <3>4 DEF ArchivedEvent, RowOK
    <3>8. last \in EventsOf(i, "archived")'
      BY <3>6, <3>7 DEF EventsOf
    <3> HIDE DEF last, event
    <3> QED
      BY <3>6, <3>7, <3>8 DEF HasEvidence
  <2> QED
    BY <1>0, <2>1, <2>2, <2>3, <2>4, Writers
<1> QED
  BY <1>1, <1>2

(* No step submits an invoice that did not pass validation.                *)
LEMMA ValidatedStep ==
  ASSUME SafetyInv, [Next]_vars
  PROVE  OnlyValidatedIsSubmitted'
<1>0. TypeInv
  BY DEF SafetyInv
<1>1. ASSUME NEW i \in InvoiceIds, invoices[i].validation = "passed"
      PROVE  invoices'[i].validation = "passed"
  <2>1. Exists(i)
    BY <1>1 DEF SafetyInv, RowsOK, RowOK, Exists
  <2> QED
    BY <1>1, <2>1, RowStep DEF Kept
<1>2. \A n \in DOMAIN submissions : submissions[n].invoice \in InvoiceIds
  <2>1. \A n \in DOMAIN submissions : submissions[n] \in Submission
    BY <1>0 DEF TypeInv, TypeOK
  <2> QED
    BY <2>1 DEF Submission
<1>3. CASE UNCHANGED submissions
  BY <1>1, <1>2, <1>3 DEF SafetyInv, OnlyValidatedIsSubmitted
<1>4. ASSUME NEW w \in Workers, SendCommit(w) PROVE OnlyValidatedIsSubmitted'
  <2>1. invoices[job[w].invoice].validation = "passed"
    <3>1. job[w].snap.validation = "passed"
      BY <1>4 DEF SendCommit, SafetyInv, SnapsOK, SnapOK, Sending, Sendable
    <3> QED
      BY <1>4, <3>1, Committing DEF StillTrue
  <2>2. job[w].invoice \in InvoiceIds
    BY <1>4, Committing
  <2>3. PICK s : submissions' = Append(submissions, s) /\ s.invoice = job[w].invoice
    BY <1>4 DEF SendCommit
  <2>4. ASSUME NEW n \in DOMAIN submissions'
        PROVE  invoices'[submissions'[n].invoice].validation = "passed"
    <3>1. CASE n \in DOMAIN submissions
      <4>1. submissions'[n] = submissions[n]
        BY <1>0, <2>3, <3>1 DEF TypeInv, TypeOK
      <4> QED
        BY <1>1, <1>2, <3>1, <4>1 DEF SafetyInv, OnlyValidatedIsSubmitted
    <3>2. CASE n \notin DOMAIN submissions
      <4>1. submissions'[n] = s
        BY <1>0, <2>3, <3>2 DEF TypeInv, TypeOK
      <4> QED
        BY <1>1, <2>1, <2>2, <2>3, <4>1
    <3> QED
      BY <3>1, <3>2
  <2> QED
    BY <2>4 DEF OnlyValidatedIsSubmitted
<1> QED
  BY <1>0, <1>3, <1>4, Writers DEF Quiet, TransformInsert, ArchiveCommit

(* The safety invariant holds initially.                                   *)
LEMMA InitSafety == Init => SafetyInv
<1> SUFFICES ASSUME Init PROVE SafetyInv
  OBVIOUS
<1>1. RowsOK
  BY DEF Init, RowsOK, RowOK, NoInvoice
<1>2. SnapsOK
  BY DEF Init, SnapsOK, SnapOK, Idle, Sending
<1>3. EvidenceKept /\ OnlyValidatedIsSubmitted
  BY DEF Init, EvidenceKept, Redacted, NoInvoice, OnlyValidatedIsSubmitted
<1> QED
  BY <1>1, <1>2, <1>3, InitType DEF SafetyInv

(* The safety invariant is preserved by every step.                        *)
LEMMA NextSafety == SafetyInv /\ [Next]_vars => SafetyInv'
<1> SUFFICES ASSUME SafetyInv, [Next]_vars PROVE SafetyInv'
  OBVIOUS
<1>1. TypeInv'
  BY NextType DEF SafetyInv
<1>2. RowsOK'
  BY RowStep DEF RowsOK
<1> QED
  BY <1>1, <1>2, SnapsStep, EvidenceStep, ValidatedStep DEF SafetyInv

(* The safety invariant holds in every reachable state.                    *)
LEMMA SafetyInvariant == Spec => []SafetyInv
<1>1. SafetyInv /\ [Next]_vars => SafetyInv'
  BY NextSafety
<1> QED
  BY <1>1, InitSafety, PTL DEF Spec

(* api/routes/invoices.py:153: what a redaction removes is hashed in an    *)
(* "archived" event, for any number of archives and sends of one invoice   *)
(* that work from rows they read before the others committed.              *)
THEOREM EvidenceIsKept == Spec => []EvidenceKept
<1>1. SafetyInv => EvidenceKept
  BY DEF SafetyInv
<1> QED
  BY <1>1, SafetyInvariant, PTL

(* No send by id, by payload or by key submits an invoice that did not     *)
(* pass validation (_ensure_sendable, invoices.py:605).                    *)
THEOREM ValidatedFirst == Spec => []OnlyValidatedIsSubmitted
<1>1. SafetyInv => OnlyValidatedIsSubmitted
  BY DEF SafetyInv
<1> QED
  BY <1>1, SafetyInvariant, PTL

(* A redacted payload and document stay redacted: the UPDATE of a handler  *)
(* that read the row before writes back only columns that it changed.      *)
THEOREM RedactionStays == Spec => RedactionIsFinal
<1>1. SafetyInv /\ SafetyInv' /\ [Next]_vars =>
        [\A i \in InvoiceIds :
           Redacted(i) => /\ invoices'[i].payload = "redacted"
                          /\ invoices'[i].document = "none"]_invoices
  <2> SUFFICES ASSUME SafetyInv, SafetyInv', [Next]_vars,
                      NEW i \in InvoiceIds, Redacted(i)
               PROVE  /\ invoices'[i].payload = "redacted"
                      /\ invoices'[i].document = "none"
    OBVIOUS
  <2>1. Exists(i)
    BY DEF SafetyInv, RowsOK, RowOK, Redacted, Exists
  <2>2. RowOK(invoices'[i]) /\ Kept(invoices[i], invoices'[i])
    BY <2>1, RowStep
  <2> QED
    BY <2>2 DEF Kept, RowOK, Redacted
<1> QED
  BY <1>1, SafetyInvariant, PTL DEF Spec, RedactionIsFinal

-----------------------------------------------------------------------------
(***************************************************************************)
(* Keys. A handler looks its key up, works, and inserts; another may       *)
(* insert the key meanwhile. What makes the keys safe is that the insert   *)
(* itself is refused (TransformKeyFree, the unique index), and that no     *)
(* handler changes the key or the hash of a row it did not insert. So no   *)
(* two rows share a key, and every answer to a transform is about the row  *)
(* that holds the key of its request.                                      *)
(*                                                                         *)
(* Scope. Who is told of an invoice, and where it is written: a tenant     *)
(* meets its own invoices only, rows and submissions are written in the    *)
(* regions of their tenant, and no region writes in a role that takes no   *)
(* writes. Each handler checks access, region and role once and acts on    *)
(* them later, after other threads' commits. So the invariant says of      *)
(* every thread that has passed a check what it still guarantees where the *)
(* thread stands: a row never changes its tenant, the snapshot has the     *)
(* tenant of its row, and a role changes only with the end of the process  *)
(* that passed the check.                                                  *)
(***************************************************************************)

(* What a client that is told of invoice i after a transform may rely on. *)
Told(r, i) ==
  /\ i \in InvoiceIds /\ Exists(i)
  /\ TransformKey(r) # None => /\ invoices[i].key = TransformKey(r)
                               /\ invoices[i].hash = TransformHash(r)

TransformOutcomes == {"transformed", "invalid"}

(* A row with a key has the hash of the request that it was made for. *)
KeyedRowsHaveHashes ==
  \A i \in InvoiceIds : invoices[i].key # None => invoices[i].hash # None

AnswersToldRight ==
  /\ \A a \in TransformAnswers : Told(a.req, a.invoice)
  /\ \A w \in Workers :
       job[w].at = "reply" /\ job[w].outcome \in TransformOutcomes =>
         Told(job[w].req, job[w].invoice)

KeyInv == SafetyInv /\ KeysAreUnique /\ KeyedRowsHaveHashes /\ AnswersToldRight

-----------------------------------------------------------------------------
(* Commits that are not inserts leave every key and hash as it was. *)
LEMMA KeyColumns ==
  ASSUME SafetyInv, [Next]_vars, \A w \in Workers : ~TransformInsert(w)
  PROVE  \A i \in InvoiceIds : /\ invoices'[i].key = invoices[i].key
                               /\ invoices'[i].hash = invoices[i].hash
<1> SUFFICES ASSUME NEW i \in InvoiceIds
             PROVE  /\ invoices'[i].key = invoices[i].key
                    /\ invoices'[i].hash = invoices[i].hash
  OBVIOUS
<1>0. TypeInv
  BY DEF SafetyInv
<1>1. CASE Quiet
  BY <1>1 DEF Quiet
<1>2. ASSUME NEW w \in Workers, SendCommit(w) \/ ArchiveCommit(w)
      PROVE  /\ invoices'[i].key = invoices[i].key
             /\ invoices'[i].hash = invoices[i].hash
  <2>1. CASE i # job[w].invoice
    BY <1>0, <1>2, <2>1 DEF SendCommit, ArchiveCommit, TypeInv, TypeOK
  <2>2. CASE i = job[w].invoice
    <3>1. Exists(i)
      BY <1>2, <2>2, Committing DEF StillTrue, Exists
    <3> QED
      BY <3>1, RowStep DEF Kept
  <2> QED
    BY <2>1, <2>2
<1> QED
  BY <1>0, <1>1, <1>2, Writers

(* What an insert adds, and that it adds nothing else. *)
LEMMA Inserting ==
  ASSUME SafetyInv, NEW w \in Workers, TransformInsert(w)
  PROVE  LET r == job[w].req
         IN  /\ r \in Requests /\ r.payload # None
             /\ \A i \in InvoiceIds : invoices[i].key = TransformKey(r) =>
                                        TransformKey(r) = None
             /\ \E j \in InvoiceIds :
                  /\ ~Exists(j)
                  /\ invoices' = [invoices EXCEPT ![j] = NewInvoice(r, WorkerRegion[w])]
                  /\ \/ Committed(w, "invalid", j, 0)
                     \/ Committed(w, "transformed", j, 0)
                     \/ job' = [job EXCEPT ![w].at = "load", ![w].invoice = j]
                        /\ UNCHANGED history
<1> DEFINE r == job[w].req
<1>1. r \in Requests /\ r.payload # None
  BY BusyJob DEF TransformInsert, Steps, SafetyInv, TypeInv, JobsOK, JobOK
<1>2. \A i \in InvoiceIds : invoices[i].key = TransformKey(r) => TransformKey(r) = None
  BY DEF TransformInsert, TransformKeyFree, InvoicesWithKey
<1>3. \E j \in InvoiceIds :
        /\ ~Exists(j)
        /\ invoices' = [invoices EXCEPT ![j] = NewInvoice(r, WorkerRegion[w])]
        /\ \/ Committed(w, "invalid", j, 0)
           \/ Committed(w, "transformed", j, 0)
           \/ job' = [job EXCEPT ![w].at = "load", ![w].invoice = j]
              /\ UNCHANGED history
  BY DEF TransformInsert, NextId
<1> QED
  BY <1>1, <1>2, <1>3

(* The row a transform inserts holds the key and the hash of its request.  *)
LEMMA NewInvoiceKey ==
  ASSUME NEW r \in Requests, r.payload # None, NEW region \in Regions
  PROVE  LET row == NewInvoice(r, region)
         IN  /\ row.key = TransformKey(r)
             /\ row.key # None => row.hash = TransformHash(r) /\ row.hash # None
<1>1. TransformHash(r) # None
  BY RequestData, HashesAssumption
<1> QED
  BY <1>1 DEF NewInvoice

(* No step leaves two rows with one key, or a keyed row without a hash.    *)
LEMMA RowKeysStep ==
  ASSUME SafetyInv, KeysAreUnique, KeyedRowsHaveHashes, [Next]_vars
  PROVE  /\ KeyedRowsHaveHashes'
         /\ \A i, j \in InvoiceIds :
              invoices'[i].key # None /\ invoices'[i].key = invoices'[j].key => i = j
<1>1. CASE \A w \in Workers : ~TransformInsert(w)
  BY <1>1, KeyColumns DEF KeysAreUnique, KeyedRowsHaveHashes
<1>2. CASE \E w \in Workers : TransformInsert(w)
  <2>1. PICK w \in Workers : TransformInsert(w)
    BY <1>2
  <2> DEFINE r == job[w].req
             row == NewInvoice(r, WorkerRegion[w])
  <2>2. PICK n \in InvoiceIds : invoices' = [invoices EXCEPT ![n] = row]
    BY <2>1, Inserting
  <2>3. /\ row.key = TransformKey(r)
        /\ row.key # None => row.hash # None
    BY <2>1, Inserting, NewInvoiceKey, WorkersAssumption
  <2>4. \A i \in InvoiceIds : invoices[i].key = TransformKey(r) => TransformKey(r) = None
    BY <2>1, Inserting
  <2>5. invoices \in [InvoiceIds -> Invoice]
    BY DEF SafetyInv, TypeInv, TypeOK
  <2> HIDE DEF row
  <2> QED
    BY <2>2, <2>3, <2>4, <2>5 DEF KeysAreUnique, KeyedRowsHaveHashes
<1> QED
  BY <1>1, <1>2

(* No step leaves two submissions with one key.                            *)
LEMMA SubmissionKeysStep ==
  ASSUME SafetyInv, KeysAreUnique, [Next]_vars
  PROVE  \A n, m \in DOMAIN submissions' :
           submissions'[n].key # None /\ submissions'[n].key = submissions'[m].key
             => n = m
<1>0. TypeInv
  BY DEF SafetyInv
<1>1. CASE UNCHANGED submissions
  BY <1>1 DEF KeysAreUnique
<1>2. ASSUME NEW w \in Workers, SendCommit(w)
      PROVE  \A n, m \in DOMAIN submissions' :
               submissions'[n].key # None /\ submissions'[n].key = submissions'[m].key
                 => n = m
  <2> DEFINE k == SendKey(job[w].req)
  <2>1. PICK s : submissions' = Append(submissions, s) /\ s.key = k
    BY <1>2 DEF SendCommit
  <2>2. \A n \in DOMAIN submissions : submissions[n].key = k => k = None
    BY <1>2 DEF SendCommit, SendKeyFree, SubmissionsWithKey
  <2>3. /\ \A n \in DOMAIN submissions : submissions'[n] = submissions[n]
        /\ \A n \in DOMAIN submissions' : n \notin DOMAIN submissions =>
             submissions'[n] = s /\ n = Len(submissions) + 1
    BY <1>0, <2>1 DEF TypeInv, TypeOK
  <2> HIDE DEF k
  <2> QED
    BY <2>1, <2>2, <2>3 DEF KeysAreUnique
<1> QED
  BY <1>0, <1>1, <1>2, Writers DEF Quiet, TransformInsert, ArchiveCommit

-----------------------------------------------------------------------------
(* What a client was told stays true of the row it was told of. *)
LEMMA ToldStays ==
  ASSUME SafetyInv, [Next]_vars, NEW r, NEW i, Told(r, i)
  PROVE  Told(r, i)'
  BY RowStep DEF Told, Exists, Kept

(* A replay tells of the row that holds the key of the request. *)
LEMMA ReplayTold ==
  ASSUME SafetyInv, KeyedRowsHaveHashes, NEW r \in Requests, NEW i \in PriorInvoices(r),
         ReplayAllowed(r, invoices[i])
  PROVE  Told(r, i)
<1>1. /\ i \in InvoiceIds
      /\ invoices[i].key = TransformKey(r) /\ TransformKey(r) # None
  BY DEF PriorInvoices, InvoicesWithKey
<1>2. Exists(i)
  BY <1>1 DEF SafetyInv, RowsOK, RowOK, Exists
<1>3. invoices[i].hash = TransformHash(r)
  BY <1>1 DEF ReplayAllowed, HashMatches, KeyedRowsHaveHashes
<1> QED
  BY <1>1, <1>2, <1>3 DEF Told

(* Who answers: a replay, or the delivery of what was committed. *)
LEMMA AnswersStep ==
  ASSUME KeyInv, [Next]_vars, NEW a \in TransformAnswers'
  PROVE  Told(a.req, a.invoice)'
<1>0. SafetyInv /\ TypeInv /\ KeyedRowsHaveHashes /\ AnswersToldRight
  BY DEF KeyInv, SafetyInv
<1>1. a \in answers' /\ a.outcome \in TransformOutcomes
  BY DEF TransformAnswers, TransformOutcomes
<1>2. CASE a \in answers
  BY <1>0, <1>1, <1>2, ToldStays
  DEF AnswersToldRight, TransformAnswers, TransformOutcomes
<1>3. ASSUME NEW w \in Workers, NEW outcome, NEW i, NEW n, Reply(w, outcome, i, n),
             a \notin answers
      PROVE  a.req = job[w].req /\ a.outcome = outcome /\ a.invoice = i
  BY <1>1, <1>3 DEF Reply
<1>4. ASSUME NEW w \in Workers, Step(w), a \notin answers
      PROVE  Told(a.req, a.invoice)
  <2>1. ~Refuse(w)
    BY <1>1, <1>3, <1>4 DEF Refuse, TransformOutcomes
  <2>2. answers' # answers
    BY <1>1, <1>4
  <2>3. CASE TransformReplay(w)
    <3>1. job[w].req \in Requests
      BY <1>0, <2>3, BusyJob DEF TransformReplay, Steps, TypeInv
    <3>2. PICK i \in PriorInvoices(job[w].req) :
            /\ ReplayAllowed(job[w].req, invoices[i])
            /\ Reply(w, "invalid", i, 0) \/ Reply(w, "transformed", i, 0)
      BY <2>1, <2>2, <2>3 DEF TransformReplay, Continue, history
    <3> QED
      BY <1>0, <1>3, <1>4, <3>1, <3>2, ReplayTold
  <2>4. CASE Deliver(w)
    BY <1>0, <1>1, <1>3, <1>4, <2>4 DEF Deliver, AnswersToldRight
  <2>5. ~SendReplay(w) /\ ~SendReplayPrior(w) /\ ~ArchiveLoad(w)
    BY <1>1, <1>3, <1>4, <2>1, <2>2
    DEF SendReplay, SendReplayPrior, ArchiveLoad, TransformOutcomes, Continue, Fail,
        history
  <2>6. ~TransformStep(w) \/ TransformReplay(w)
    BY <2>1, <2>2
    DEF TransformStep, TransformRefuse, TransformAdmit, SigningFails, TransformInsert,
        TransformConflict, Continue, Fail, Committed, history
  <2>7. ~SendStep(w)
    BY <2>1, <2>2, <2>5
    DEF SendStep, SendRefuse, SendProceed, SendLoad, SendAdmit, ProviderSubmit,
        SendCommit, SendConflict, Continue, Fail, Committed, history
  <2>8. ~RecordStep(w)
    BY <2>1, <2>2, <2>5
    DEF RecordStep, ArchiveCommit, OfficialLoad, OfficialCommit, WebhookTest,
        Continue, Fail, Committed, history
  <2> QED
    BY <1>4, <2>3, <2>4, <2>6, <2>7, <2>8 DEF Step
<1>5. ASSUME a \notin answers PROVE \E w \in Workers : Step(w)
  BY <1>1, <1>5 DEF Next, Receive, Restart, vars
<1> QED
  BY <1>0, <1>2, <1>4, <1>5, ToldStays

(* The answer that waits for delivery after an insert. *)
LEMMA RepliesStep ==
  ASSUME KeyInv, [Next]_vars, NEW v \in Workers,
         job'[v].at = "reply", job'[v].outcome \in TransformOutcomes
  PROVE  Told(job[v].req, job[v].invoice)'
<1>0. SafetyInv /\ TypeInv /\ AnswersToldRight
  BY DEF KeyInv, SafetyInv
<1>1. CASE job'[v] = job[v]
  <2>1. Told(job[v].req, job[v].invoice)
    BY <1>0, <1>1 DEF AnswersToldRight
  <2> QED
    BY <1>0, <1>1, <2>1, ToldStays DEF Told, Exists
<1>2. job'[v] # Idle
  BY DEF Idle
<1>3. ASSUME NEW w \in Workers, NEW next, job' = [job EXCEPT ![w] = next], w # v
      PROVE  job'[v] = job[v]
  BY <1>0, <1>3 DEF TypeInv, TypeOK
<1>4. CASE \E w \in Workers : TransformInsert(w)
  <2>1. PICK w \in Workers : TransformInsert(w)
    BY <1>4
  <2> DEFINE r == job[w].req
             row == NewInvoice(r, WorkerRegion[w])
  <2>2. PICK j \in InvoiceIds :
          /\ invoices' = [invoices EXCEPT ![j] = row]
          /\ \/ Committed(w, "invalid", j, 0)
             \/ Committed(w, "transformed", j, 0)
             \/ job' = [job EXCEPT ![w].at = "load", ![w].invoice = j]
    BY <1>0, <2>1, Inserting
  <2>3. CASE w # v
    <3>1. job'[v] = job[v]
      BY <1>0, <2>2, <2>3 DEF Committed, TypeInv, TypeOK
    <3> QED
      BY <1>1, <3>1
  <2>4. CASE w = v
    <3>1. job[v] \in Job
      BY <1>0, <2>1, <2>4, BusyJob DEF TransformInsert, Steps, TypeInv
    <3>2. job'[v].req = r /\ job'[v].invoice = j
      <4>1. job' # [job EXCEPT ![w].at = "load", ![w].invoice = j]
        BY <1>0, <2>4, <3>1 DEF Job, TypeInv, TypeOK
      <4>2. ASSUME NEW outcome, Committed(w, outcome, j, 0)
            PROVE  job'[w].req = r /\ job'[w].invoice = j
        <5>1. job'[w] = [Idle EXCEPT !.at = "reply", !.req = r, !.invoice = j,
                                     !.outcome = outcome, !.submission = 0]
          BY <1>0, <4>2 DEF Committed, TypeInv, TypeOK
        <5> QED
          BY <5>1 DEF Idle
      <4> QED
        BY <2>2, <2>4, <4>1, <4>2
    <3>3. /\ row.status # "absent"
          /\ row.key = TransformKey(r)
          /\ row.key # None => row.hash = TransformHash(r)
      BY <1>0, <2>1, Inserting, NewInvoiceKey, NewInvoiceType, WorkersAssumption
    <3>4. invoices'[j] = row
      BY <1>0, <2>2 DEF TypeInv, TypeOK
    <3> HIDE DEF row
    <3> QED
      BY <3>2, <3>3, <3>4 DEF Told, Exists
  <2> QED
    BY <2>3, <2>4
<1>5. ASSUME NEW w \in Workers, Step(w), ~TransformInsert(w)
      PROVE  job'[v] = job[v]
  <2>1. ASSUME w = v PROVE FALSE
    <3> USE <1>0, <2>1
    <3>1. ~Refuse(v) /\ ~Fail(v)
      BY <1>2 DEF Refuse, Reply, Fail, TypeInv, TypeOK
    <3>2. ASSUME NEW outcome, NEW i, NEW n PROVE ~Reply(v, outcome, i, n)
      BY <1>2 DEF Reply, TypeInv, TypeOK
    <3>3. ASSUME NEW outcome, NEW i, NEW n, outcome \notin TransformOutcomes
          PROVE  ~Committed(v, outcome, i, n)
      BY <3>3 DEF Committed, Idle, TypeInv, TypeOK
    <3>4. job[v] \in Job
      <4>1. job[v].at \in Steps
        BY <1>5, StepStarts
      <4> QED
        BY <4>1, BusyJob DEF TypeInv
    <3>5. ~TransformReplay(v) /\ ~TransformAdmit(v)
      <4>1. TransformReplay(v) => job'[v].at = "prior"
        BY <3>1, <3>2, <3>4 DEF TransformReplay, Continue, Job, TypeInv, TypeOK
      <4>2. TransformAdmit(v) => job'[v].at = "insert"
        BY <3>1, <3>4 DEF TransformAdmit, Continue, Job, TypeInv, TypeOK
      <4> QED
        BY <4>1, <4>2
    <3>6. ~SendProceed(v) /\ ~SendLoad(v)
      <4>1. SendProceed(v) => job'[v].at \in {"load", "transform"}
        BY <3>4 DEF SendProceed, Continue, Job, TypeInv, TypeOK
      <4>2. SendLoad(v) => job'[v].at = "prior"
        BY <3>1, <3>4 DEF SendLoad, Continue, Job, TypeInv, TypeOK
      <4> QED
        BY <4>1, <4>2
    <3>7. ~SendAdmit(v) /\ ~ProviderSubmit(v)
      <4>1. SendAdmit(v) => job'[v].at = "submit"
        BY <3>1, <3>4 DEF SendAdmit, Continue, Job, TypeInv, TypeOK
      <4>2. ProviderSubmit(v) => job'[v].at = "commit"
        BY <3>4 DEF ProviderSubmit, Job, TypeInv, TypeOK
      <4> QED
        BY <4>1, <4>2
    <3>8. ~ArchiveLoad(v) /\ ~OfficialLoad(v)
      <4>1. ArchiveLoad(v) => job'[v].at = "archive"
        BY <3>1, <3>2, <3>4 DEF ArchiveLoad, Continue, Job, TypeInv, TypeOK
      <4>2. OfficialLoad(v) => job'[v].at = "official"
        BY <3>1, <3>4 DEF OfficialLoad, Continue, Job, TypeInv, TypeOK
      <4> QED
        BY <4>1, <4>2
    <3>9. ~TransformStep(v)
      BY <1>5, <3>1, <3>5
      DEF TransformStep, TransformRefuse, SigningFails, TransformConflict
    <3>10. ~SendStep(v)
      BY <3>1, <3>2, <3>3, <3>6, <3>7
      DEF SendStep, SendRefuse, SendReplay, SendReplayPrior, SendCommit, SendConflict,
          TransformOutcomes
    <3>11. ~RecordStep(v) /\ ~Deliver(v)
      BY <3>1, <3>2, <3>3, <3>8
      DEF RecordStep, ArchiveCommit, OfficialCommit, WebhookTest, Deliver,
          TransformOutcomes
    <3> QED
      BY <1>5, <3>9, <3>10, <3>11 DEF Step
  <2>2. \E next : job' = [job EXCEPT ![w] = next]
    BY <1>0, <1>5, OneJob
  <2> QED
    BY <1>3, <2>1, <2>2
<1>6. CASE \E w \in Workers : Step(w)
  BY <1>1, <1>4, <1>5, <1>6
<1>7. CASE \E w \in Workers, r \in Requests : Receive(w, r)
  <2>1. PICK w \in Workers, r \in Requests : Receive(w, r)
    BY <1>7
  <2>2. w # v
    BY <1>0, <2>1, RequestData DEF Receive, Idle, TypeInv, TypeOK
  <2> QED
    BY <1>1, <1>3, <2>1, <2>2 DEF Receive
<1>8. CASE \E region \in Regions, newRole \in RestartRoles : Restart(region, newRole)
  BY <1>1, <1>2, <1>8 DEF Restart
<1>9. CASE UNCHANGED vars
  BY <1>1, <1>9 DEF vars
<1> QED
  BY <1>6, <1>7, <1>8, <1>9 DEF Next

(* KeyInv holds in every reachable state.                                  *)
LEMMA KeyInvariant == Spec => []KeyInv
<1>1. Init => KeyInv
  <2> SUFFICES ASSUME Init PROVE KeyInv
    OBVIOUS
  <2>1. \A i \in InvoiceIds : invoices[i].key = None
    BY DEF Init, NoInvoice
  <2>2. KeysAreUnique /\ KeyedRowsHaveHashes
    BY <2>1 DEF Init, KeysAreUnique, KeyedRowsHaveHashes
  <2>3. AnswersToldRight
    BY DEF Init, AnswersToldRight, TransformAnswers, Idle
  <2> QED
    BY <2>2, <2>3, InitSafety DEF KeyInv
<1>2. KeyInv /\ [Next]_vars => KeyInv'
  <2> SUFFICES ASSUME KeyInv, [Next]_vars PROVE KeyInv'
    OBVIOUS
  <2>1. SafetyInv'
    BY NextSafety DEF KeyInv
  <2>2. KeysAreUnique' /\ KeyedRowsHaveHashes'
    BY RowKeysStep, SubmissionKeysStep DEF KeyInv, KeysAreUnique
  <2>3. AnswersToldRight'
    BY AnswersStep, RepliesStep DEF AnswersToldRight
  <2> QED
    BY <2>1, <2>2, <2>3 DEF KeyInv
<1> QED
  BY <1>1, <1>2, PTL DEF Spec

(* No two invoices and no two submissions hold one key, in every           *)
(* interleaving of handlers that each checked for the key before another   *)
(* inserted it (invoices.py:104 and 163, models.py:78 and 114).            *)
THEOREM UniqueKeys == Spec => []KeysAreUnique
<1>1. KeyInv => KeysAreUnique
  BY DEF KeyInv
<1> QED
  BY <1>1, KeyInvariant, PTL

(* All answers to transforms with one key are about one invoice and one    *)
(* content, for any number of clients, retries, lost answers and restarts  *)
(* (_ensure_idempotency_hash_matches, invoices.py:712).                    *)
THEOREM OneTransformPerKey == Spec => []KeyBindsOneTransform
<1>1. KeyInv => KeyBindsOneTransform
  BY DEF KeyInv, AnswersToldRight, Told, KeysAreUnique, KeyBindsOneTransform
<1> QED
  BY <1>1, KeyInvariant, PTL

-----------------------------------------------------------------------------
(* The caller of the request may be told of invoice i. *)
Own(r, i) ==
  /\ i \in InvoiceIds /\ Exists(i)
  /\ r.caller # Admin /\ r.op # "webhook" => invoices[i].tenant = r.caller

Acting == {"prior", "submit", "commit", "archive", "official", "reply"}
Writing == {"insert", "submit", "commit", "archive"}

(* What the checks that a thread has passed still guarantee. *)
JobScoped(w) ==
  /\ job[w].at \in Acting => Own(job[w].req, job[w].invoice)
  /\ job[w].at \in Sending =>
       job[w].snap.tenant = invoices[job[w].invoice].tenant
  /\ job[w].at = "insert" =>
       TenantAdmitted(TenantOf(job[w].req), WorkerRegion[w])
  /\ job[w].at \in {"submit", "commit"} =>
       TenantAdmitted(job[w].snap.tenant, WorkerRegion[w])
  /\ job[w].at \in Writing => Writable(WorkerRegion[w])

JobsScoped == \A w \in Workers : JobScoped(w)

AnswersScoped ==
  \A a \in answers : a.outcome # "refused" => Own(a.req, a.invoice)

ScopeInv == SafetyInv /\ JobsScoped /\ AnswersScoped /\ WrittenInAllowedRegion

-----------------------------------------------------------------------------
(* A flush writes neither the tenant nor the region of a row.              *)
LEMMA FlushScope ==
  ASSUME NEW stored \in Invoice, NEW snap, NEW new
  PROVE  /\ Flush(stored, snap, new).tenant = stored.tenant
         /\ Flush(stored, snap, new).region = stored.region
  BY DEF Flush, Invoice

(* A stored row keeps its tenant and its region, and a row appears only by *)
(* an insert.                                                              *)
LEMMA ScopeColumns ==
  ASSUME SafetyInv, [Next]_vars, NEW i \in InvoiceIds
  PROVE  /\ Exists(i) => /\ invoices'[i].status # "absent"
                         /\ invoices'[i].tenant = invoices[i].tenant
                         /\ invoices'[i].region = invoices[i].region
         /\ ~Exists(i) =>
              \/ invoices'[i] = invoices[i]
              \/ \E w \in Workers :
                   /\ TransformInsert(w)
                   /\ invoices'[i] = NewInvoice(job[w].req, WorkerRegion[w])
<1>0. TypeInv
  BY DEF SafetyInv
<1>1. CASE Quiet
  BY <1>1 DEF Quiet, Exists
<1>2. ASSUME NEW w \in Workers, TransformInsert(w)
      PROVE  \/ Exists(i) /\ invoices'[i] = invoices[i]
             \/ ~Exists(i) /\ invoices'[i] = invoices[i]
             \/ ~Exists(i) /\ invoices'[i] = NewInvoice(job[w].req, WorkerRegion[w])
  <2>1. PICK j \in InvoiceIds :
          NextId(j) /\ invoices' = [invoices EXCEPT ![j] =
                                      NewInvoice(job[w].req, WorkerRegion[w])]
    BY <1>2 DEF TransformInsert
  <2>2. CASE i = j
    BY <1>0, <2>1, <2>2 DEF NextId, TypeInv, TypeOK
  <2>3. CASE i # j
    BY <1>0, <2>1, <2>3 DEF TypeInv, TypeOK
  <2> QED
    BY <2>2, <2>3
<1>3. ASSUME NEW w \in Workers, SendCommit(w) \/ ArchiveCommit(w)
      PROVE  \/ invoices'[i] = invoices[i]
             \/ /\ Exists(i)
                /\ invoices'[i].tenant = invoices[i].tenant
                /\ invoices'[i].region = invoices[i].region
  <2>1. CASE i # job[w].invoice
    BY <1>0, <1>3, <2>1 DEF SendCommit, ArchiveCommit, TypeInv, TypeOK
  <2>2. CASE i = job[w].invoice
    <3>1. Exists(i)
      BY <1>3, <2>2, Committing DEF StillTrue, Exists
    <3>2. \E new : invoices'[i] = Flush(invoices[i], job[w].snap, new)
      <4>1. \E new : invoices' = [invoices EXCEPT ![i] = Flush(@, job[w].snap, new)]
        BY <1>3, <2>2 DEF SendCommit, ArchiveCommit
      <4>2. PICK new : invoices' = [invoices EXCEPT ![i] = Flush(@, job[w].snap, new)]
        BY <4>1
      <4> QED
        BY <1>0, <4>2 DEF TypeInv, TypeOK
    <3>3. invoices[i] \in Invoice
      BY <1>0 DEF TypeInv, TypeOK
    <3> QED
      BY <3>1, <3>2, <3>3, FlushScope
  <2> QED
    BY <2>1, <2>2
<1>4. Exists(i) => invoices'[i].status # "absent"
  BY RowStep DEF Kept
<1> QED
  BY <1>0, <1>1, <1>2, <1>3, <1>4, Writers

(* Whoever may be told of an invoice may be told of it later.              *)
LEMMA OwnStays ==
  ASSUME SafetyInv, [Next]_vars, NEW r, NEW i, Own(r, i)
  PROVE  /\ i \in InvoiceIds /\ invoices'[i].status # "absent"
         /\ r.caller # Admin /\ r.op # "webhook" => invoices'[i].tenant = r.caller
         /\ invoices'[i].tenant = invoices[i].tenant
  BY ScopeColumns DEF Own, Exists

(* No step of a handler changes a role.                                    *)
LEMMA RolesStay ==
  ASSUME NEW w \in Workers, Step(w)
  PROVE  role' = role
<1>1. Refuse(w) \/ Fail(w) => role' = role
  BY DEF Refuse, Reply, Fail
<1>2. \A outcome, i, n : Reply(w, outcome, i, n) \/ Committed(w, outcome, i, n)
                         => role' = role
  BY DEF Reply, Committed
<1>3. \A next : Continue(w, next) => role' = role
  BY DEF Continue
<1>4. CASE TransformStep(w)
  <2>1. TransformReplay(w) => role' = role
    BY <1>1, <1>2, <1>3 DEF TransformReplay
  <2>2. TransformInsert(w) => role' = role
    BY <1>2 DEF TransformInsert
  <2> QED
    BY <1>1, <1>3, <1>4, <2>1, <2>2
    DEF TransformStep, TransformRefuse, TransformAdmit, SigningFails, TransformConflict
<1>5. CASE SendStep(w)
  <2>1. SendRefuse(w) \/ SendReplay(w) \/ SendProceed(w) \/ SendLoad(w) => role' = role
    BY <1>1, <1>2, <1>3 DEF SendRefuse, SendReplay, SendProceed, SendLoad
  <2>2. SendReplayPrior(w) \/ SendAdmit(w) => role' = role
    BY <1>1, <1>2, <1>3 DEF SendReplayPrior, SendAdmit
  <2>3. ProviderSubmit(w) \/ SendConflict(w) => role' = role
    BY <1>1 DEF ProviderSubmit, SendConflict
  <2>4. SendCommit(w) => role' = role
    BY <1>2 DEF SendCommit
  <2> QED
    BY <1>5, <2>1, <2>2, <2>3, <2>4 DEF SendStep
<1>6. CASE RecordStep(w) \/ Deliver(w)
  <2>1. ArchiveLoad(w) \/ OfficialLoad(w) => role' = role
    BY <1>1, <1>2, <1>3 DEF ArchiveLoad, OfficialLoad
  <2>2. ArchiveCommit(w) => role' = role
    BY <1>2 DEF ArchiveCommit
  <2>3. OfficialCommit(w) \/ WebhookTest(w) \/ Deliver(w) => role' = role
    BY <1>1, <1>2 DEF OfficialCommit, WebhookTest, Deliver
  <2> QED
    BY <1>6, <2>1, <2>2, <2>3 DEF RecordStep
<1> QED
  BY <1>4, <1>5, <1>6 DEF Step

(* What a thread was granted stays granted while it stands still and its   *)
(* process keeps its role.                                                 *)
LEMMA StillScoped ==
  ASSUME SafetyInv, [Next]_vars, NEW v \in Workers, JobScoped(v),
         job'[v] = job[v], role'[WorkerRegion[v]] = role[WorkerRegion[v]]
  PROVE  JobScoped(v)'
<1>1. job[v].at \in Acting =>
        /\ Own(job[v].req, job[v].invoice)
        /\ invoices'[job[v].invoice].status # "absent"
        /\ invoices'[job[v].invoice].tenant = invoices[job[v].invoice].tenant
  BY OwnStays DEF JobScoped
<1> QED
  BY <1>1 DEF JobScoped, Own, Exists, Writable, Acting, Sending

(* What a thread is granted by its own step it has just checked, or was    *)
(* granted before.                                                         *)
LEMMA StepScoped ==
  ASSUME SafetyInv, NEW v \in Workers, JobScoped(v), Step(v)
  PROVE  JobScoped(v)'
<1>0. TypeInv /\ RowsOK /\ [Next]_vars
  BY DEF SafetyInv, Next
<1>1. role' = role
  BY RolesStay
<1>2. job[v] \in Job
  BY <1>0, StepStarts, BusyJob DEF TypeInv
<1>3. ASSUME job'[v] = Idle PROVE JobScoped(v)'
  BY <1>3 DEF JobScoped, Idle, Acting, Sending, Writing
<1>4. ASSUME NEW outcome, NEW i, NEW n, Reply(v, outcome, i, n) PROVE JobScoped(v)'
  BY <1>0, <1>3, <1>4 DEF Reply, TypeInv, TypeOK
<1>5. Refuse(v) => JobScoped(v)'
  BY <1>4 DEF Refuse
<1>6. Fail(v) => JobScoped(v)'
  BY <1>0, <1>3 DEF Fail, TypeInv, TypeOK
<1>7. ASSUME NEW next \in Job, Continue(v, next)
      PROVE  job'[v] = next /\ invoices' = invoices
  BY <1>0, <1>7 DEF Continue, database, TypeInv, TypeOK
<1>8. ASSUME NEW outcome, NEW i \in InvoiceIds, NEW n, Committed(v, outcome, i, n),
             invoices'[i].status # "absent",
             job[v].req.caller # Admin /\ job[v].req.op # "webhook" =>
               invoices'[i].tenant = job[v].req.caller
      PROVE  JobScoped(v)'
  <2>1. job'[v] = [Idle EXCEPT !.at = "reply", !.req = job[v].req, !.invoice = i,
                               !.outcome = outcome, !.submission = n]
    BY <1>0, <1>8 DEF Committed, TypeInv, TypeOK
  <2>2. job'[v].at = "reply" /\ job'[v].req = job[v].req /\ job'[v].invoice = i
    BY <2>1 DEF Idle
  <2> QED
    BY <1>8, <2>2 DEF JobScoped, Own, Exists, Sending, Writing
<1>9. ASSUME NEW outcome, NEW n, Committed(v, outcome, job[v].invoice, n),
             Own(job[v].req, job[v].invoice)
      PROVE  JobScoped(v)'
  BY <1>0, <1>8, <1>9, OwnStays
<1>10. CASE TransformReplay(v)
  <2>1. PICK i \in PriorInvoices(job[v].req) :
          \/ Refuse(v)
          \/ \E outcome : Reply(v, outcome, i, 0)
          \/ /\ ReplayAllowed(job[v].req, invoices[i])
             /\ Continue(v, [job[v] EXCEPT !.at = "prior", !.invoice = i,
                                           !.snap = invoices[i]])
    BY <1>10 DEF TransformReplay
  <2>2. i \in InvoiceIds /\ Exists(i)
    BY <1>0 DEF PriorInvoices, InvoicesWithKey, RowsOK, RowOK, Exists
  <2>3. CASE /\ ReplayAllowed(job[v].req, invoices[i])
             /\ Continue(v, [job[v] EXCEPT !.at = "prior", !.invoice = i,
                                           !.snap = invoices[i]])
    <3>1. /\ job'[v].at = "prior" /\ job'[v].req = job[v].req
          /\ job'[v].invoice = i /\ job'[v].snap = invoices[i]
          /\ invoices' = invoices
      BY <1>0, <1>2, <2>3 DEF Continue, database, Job, TypeInv, TypeOK
    <3> QED
      BY <2>2, <2>3, <3>1
      DEF ReplayAllowed, HasAccess, JobScoped, Own, Exists, Sending, Writing
  <2> QED
    BY <1>4, <1>5, <2>1, <2>3
<1>11. CASE TransformAdmit(v)
  <2>1. \/ Fail(v)
        \/ /\ TenantAdmitted(TenantOf(job[v].req), WorkerRegion[v])
           /\ Writable(WorkerRegion[v])
           /\ Continue(v, [job[v] EXCEPT !.at = "insert"])
    BY <1>11 DEF TransformAdmit
  <2>2. CASE /\ TenantAdmitted(TenantOf(job[v].req), WorkerRegion[v])
             /\ Writable(WorkerRegion[v])
             /\ Continue(v, [job[v] EXCEPT !.at = "insert"])
    <3>1. job'[v].at = "insert" /\ job'[v].req = job[v].req
      BY <1>0, <1>2, <2>2 DEF Continue, Job, TypeInv, TypeOK
    <3> QED
      BY <1>1, <2>2, <3>1 DEF JobScoped, Writable, Acting, Sending
  <2> QED
    BY <1>6, <2>1, <2>2
<1>12. CASE TransformInsert(v)
  <2> DEFINE r == job[v].req
  <2>1. PICK i \in InvoiceIds :
          /\ invoices' = [invoices EXCEPT ![i] = NewInvoice(r, WorkerRegion[v])]
          /\ \/ \E outcome : Committed(v, outcome, i, 0)
             \/ job' = [job EXCEPT ![v].at = "load", ![v].invoice = i]
    BY <1>12 DEF TransformInsert
  <2>2. r \in Requests /\ r.payload # None
    BY <1>0, <1>12, BusyJob DEF TransformInsert, Steps, TypeInv, JobsOK, JobOK
  <2>3. /\ invoices'[i].status # "absent"
        /\ r.caller # Admin => invoices'[i].tenant = r.caller
    <3>1. NewInvoice(r, WorkerRegion[v]).status # "absent"
      BY <2>2, NewInvoiceType, WorkersAssumption
    <3>2. NewInvoice(r, WorkerRegion[v]).tenant = TenantOf(r)
      BY DEF NewInvoice
    <3> QED
      BY <1>0, <2>1, <3>1, <3>2 DEF TenantOf, TypeInv, TypeOK
  <2>4. CASE job' = [job EXCEPT ![v].at = "load", ![v].invoice = i]
    <3>1. job'[v].at = "load"
      BY <1>0, <1>2, <2>4 DEF Job, TypeInv, TypeOK
    <3> QED
      BY <3>1 DEF JobScoped, Acting, Sending, Writing
  <2> QED
    BY <1>8, <2>1, <2>3, <2>4
<1>13. CASE SendProceed(v)
  <2>1. job'[v].at \in {"load", "transform"}
    BY <1>0, <1>2, <1>13 DEF SendProceed, Continue, Job, TypeInv, TypeOK
  <2> QED
    BY <2>1 DEF JobScoped, Acting, Sending, Writing
<1>14. ASSUME NEW at \in {"prior", "archive", "official"}, Found(v),
              job[v].at = "load",
              at = "archive" => Writable(WorkerRegion[v]),
              Continue(v, [job[v] EXCEPT !.at = at, !.snap = invoices[job[v].invoice]])
       PROVE  JobScoped(v)'
  <2>1. job[v].invoice \in InvoiceIds
    BY <1>0, <1>14, BusyJob DEF Steps, TypeInv, JobsOK, JobOK, OrNone
  <2>2. /\ job'[v].at = at /\ job'[v].req = job[v].req
        /\ job'[v].invoice = job[v].invoice
        /\ job'[v].snap = invoices[job[v].invoice]
        /\ invoices' = invoices
    BY <1>0, <1>2, <1>14 DEF Continue, database, Job, TypeInv, TypeOK
  <2> QED
    BY <1>1, <1>14, <2>1, <2>2
    DEF Found, HasAccess, JobScoped, Own, Exists, Writable, Sending, Writing
<1>15. CASE SendLoad(v) \/ ArchiveLoad(v) \/ OfficialLoad(v)
  BY <1>4, <1>5, <1>6, <1>14, <1>15 DEF SendLoad, ArchiveLoad, OfficialLoad
<1>16. CASE SendAdmit(v)
  <2>1. \/ Refuse(v) \/ Fail(v)
        \/ /\ TenantAdmitted(job[v].snap.tenant, WorkerRegion[v])
           /\ Writable(WorkerRegion[v])
           /\ Continue(v, [job[v] EXCEPT !.at = "submit",
                             !.retry = SubmissionsOf(job[v].invoice) # {}])
    BY <1>16 DEF SendAdmit
  <2>2. CASE /\ TenantAdmitted(job[v].snap.tenant, WorkerRegion[v])
             /\ Writable(WorkerRegion[v])
             /\ Continue(v, [job[v] EXCEPT !.at = "submit",
                               !.retry = SubmissionsOf(job[v].invoice) # {}])
    <3>1. /\ job'[v].at = "submit" /\ job'[v].req = job[v].req
          /\ job'[v].invoice = job[v].invoice /\ job'[v].snap = job[v].snap
          /\ invoices' = invoices
      BY <1>0, <1>2, <2>2 DEF Continue, database, Job, TypeInv, TypeOK
    <3>2. job[v].at = "prior"
      BY <1>16 DEF SendAdmit
    <3> QED
      BY <1>1, <2>2, <3>1, <3>2
      DEF JobScoped, Own, Exists, Writable, Acting, Sending
  <2> QED
    BY <1>5, <1>6, <2>1, <2>2
<1>17. CASE ProviderSubmit(v)
  <2>1. job' = [job EXCEPT ![v].at = "commit"]
        /\ invoices' = invoices /\ job[v].at = "submit"
    BY <1>17 DEF ProviderSubmit, database
  <2>2. /\ job'[v].at = "commit" /\ job'[v].req = job[v].req
        /\ job'[v].invoice = job[v].invoice /\ job'[v].snap = job[v].snap
    BY <1>0, <1>2, <2>1 DEF Job, TypeInv, TypeOK
  <2>3. /\ Own(job[v].req, job[v].invoice)
        /\ job[v].snap.tenant = invoices[job[v].invoice].tenant
        /\ TenantAdmitted(job[v].snap.tenant, WorkerRegion[v])
        /\ Writable(WorkerRegion[v])
    BY <2>1 DEF JobScoped, Acting, Sending, Writing
  <2> QED
    BY <1>1, <2>1, <2>2, <2>3 DEF JobScoped, Own, Exists, Writable
<1>18. CASE SendCommit(v) \/ ArchiveCommit(v) \/ OfficialCommit(v)
  <2>1. SendCommit(v) => /\ job[v].at = "commit"
                         /\ Committed(v, "sent", job[v].invoice, Len(submissions) + 1)
    BY DEF SendCommit
  <2>2. ArchiveCommit(v) => /\ job[v].at = "archive"
                            /\ Committed(v, "archived", job[v].invoice, 0)
    BY DEF ArchiveCommit
  <2>3. OfficialCommit(v) =>
          /\ job[v].at = "official"
          /\ Fail(v) \/ Committed(v, "checked", job[v].invoice, 0)
    BY DEF OfficialCommit
  <2>4. job[v].at \in Acting => Own(job[v].req, job[v].invoice)
    BY DEF JobScoped
  <2>5. Own(job[v].req, job[v].invoice)
    BY <1>18, <2>1, <2>2, <2>3, <2>4 DEF Acting
  <2> QED
    BY <1>6, <1>9, <1>18, <2>1, <2>2, <2>3, <2>5
<1>19. CASE WebhookTest(v)
  <2>1. job[v].invoice \in InvoiceIds
    BY <1>0, <1>19, BusyJob
    DEF WebhookTest, Steps, TypeInv, JobsOK, JobOK, OrNone
  <2>2. Refuse(v) \/ (Exists(job[v].invoice) /\ job[v].req.op = "webhook"
                        /\ Committed(v, "recorded", job[v].invoice, 0))
    BY <1>19 DEF WebhookTest
  <2> QED
    BY <1>5, <1>9, <2>1, <2>2 DEF Own
<1>20. CASE TransformRefuse(v) \/ SigningFails(v) \/ TransformConflict(v)
              \/ SendRefuse(v) \/ SendConflict(v)
  BY <1>5, <1>6, <1>20
  DEF TransformRefuse, SigningFails, TransformConflict, SendRefuse, SendConflict
<1>21. CASE SendReplay(v) \/ SendReplayPrior(v) \/ Deliver(v)
  BY <1>4, <1>5, <1>21 DEF SendReplay, SendReplayPrior, Deliver
<1> QED
  BY <1>10, <1>11, <1>12, <1>13, <1>15, <1>16, <1>17, <1>18, <1>19, <1>20, <1>21
  DEF Step, TransformStep, SendStep, RecordStep

(* Every thread's grants outlive every step.                               *)
LEMMA JobsStep ==
  ASSUME SafetyInv, JobsScoped, [Next]_vars
  PROVE  JobsScoped'
<1> SUFFICES ASSUME NEW v \in Workers PROVE JobScoped(v)'
  BY DEF JobsScoped
<1>0. TypeInv /\ JobScoped(v) /\ WorkerRegion[v] \in Regions
  BY WorkersAssumption DEF SafetyInv, JobsScoped
<1>1. CASE job'[v] = job[v] /\ role'[WorkerRegion[v]] = role[WorkerRegion[v]]
  BY <1>0, <1>1, StillScoped
<1>2. ASSUME job'[v].at \in {"idle", "transform", "send", "load"} PROVE JobScoped(v)'
  BY <1>2 DEF JobScoped, Acting, Sending, Writing
<1>3. CASE \E w \in Workers : Step(w)
  <2>1. PICK w \in Workers : Step(w)
    BY <1>3
  <2>2. CASE w = v
    BY <1>0, <2>1, <2>2, StepScoped
  <2>3. CASE w # v
    <3>1. \E next : job' = [job EXCEPT ![w] = next]
      BY <1>0, <2>1, OneJob
    <3> QED
      BY <1>0, <1>1, <2>1, <2>3, <3>1, RolesStay DEF TypeInv, TypeOK
  <2> QED
    BY <2>2, <2>3
<1>4. CASE \E w \in Workers, r \in Requests : Receive(w, r)
  <2>1. PICK w \in Workers, r \in Requests : Receive(w, r)
    BY <1>4
  <2>2. CASE w = v
    <3>1. job'[v].at \in {"transform", "send", "load"}
      BY <1>0, <2>1, <2>2 DEF Receive, Idle, TypeInv, TypeOK
    <3> QED
      BY <1>2, <3>1
  <2>3. CASE w # v
    BY <1>0, <1>1, <2>1, <2>3 DEF Receive, TypeInv, TypeOK
  <2> QED
    BY <2>2, <2>3
<1>5. CASE \E region \in Regions, newRole \in RestartRoles : Restart(region, newRole)
  <2>1. PICK region \in Regions, newRole \in RestartRoles : Restart(region, newRole)
    BY <1>5
  <2>2. CASE WorkerRegion[v] = region
    <3>1. job'[v] = Idle
      BY <2>1, <2>2 DEF Restart
    <3> QED
      BY <1>2, <3>1 DEF Idle
  <2>3. CASE WorkerRegion[v] # region
    BY <1>0, <1>1, <2>1, <2>3 DEF Restart, TypeInv, TypeOK
  <2> QED
    BY <2>2, <2>3
<1>6. CASE UNCHANGED vars
  BY <1>1, <1>6 DEF vars
<1> QED
  BY <1>3, <1>4, <1>5, <1>6 DEF Next

-----------------------------------------------------------------------------
(* Who is told of an invoice may be told of it: a handler looks at the row *)
(* itself, or at a submission of it, or has the grant of its thread.       *)
LEMMA AnswersScopedStep ==
  ASSUME ScopeInv, [Next]_vars
  PROVE  AnswersScoped'
<1> SUFFICES ASSUME NEW a \in answers', a.outcome # "refused"
             PROVE  Own(a.req, a.invoice)'
  BY DEF AnswersScoped
<1>0. SafetyInv /\ TypeInv /\ RowsOK /\ JobsScoped /\ AnswersScoped
  BY DEF ScopeInv, SafetyInv
<1>1. ASSUME Own(a.req, a.invoice) PROVE Own(a.req, a.invoice)'
  BY <1>0, <1>1, OwnStays DEF Own, Exists
<1>2. CASE a \in answers
  BY <1>0, <1>1, <1>2 DEF AnswersScoped
<1>3. ASSUME NEW w \in Workers, NEW outcome, NEW i, NEW n, Reply(w, outcome, i, n),
             a \notin answers
      PROVE  a.req = job[w].req /\ a.outcome = outcome /\ a.invoice = i
  BY <1>3 DEF Reply
<1>4. ASSUME NEW w \in Workers, Step(w), a \notin answers
      PROVE  Own(a.req, a.invoice)
  <2>1. ~Refuse(w)
    BY <1>3, <1>4 DEF Refuse
  <2>2. answers' # answers
    BY <1>4
  <2>3. CASE TransformReplay(w)
    <3>1. PICK i \in PriorInvoices(job[w].req) :
            /\ ReplayAllowed(job[w].req, invoices[i])
            /\ Reply(w, "invalid", i, 0) \/ Reply(w, "transformed", i, 0)
      BY <2>1, <2>2, <2>3 DEF TransformReplay, Continue, history
    <3>2. i \in InvoiceIds /\ Exists(i)
      BY <1>0 DEF PriorInvoices, InvoicesWithKey, RowsOK, RowOK, Exists
    <3>3. a.req = job[w].req /\ a.invoice = i
      BY <1>3, <1>4, <3>1
    <3> QED
      BY <3>1, <3>2, <3>3 DEF ReplayAllowed, HasAccess, Own
  <2>4. CASE SendReplay(w)
    <3>1. PICK n \in PriorSubmissions(job[w].req) :
            /\ HasAccess(job[w].req.caller, invoices[submissions[n].invoice])
            /\ Reply(w, "sent", submissions[n].invoice, n)
      BY <2>1, <2>4 DEF SendReplay
    <3>2. /\ submissions[n].invoice \in InvoiceIds
          /\ invoices[submissions[n].invoice].validation = "passed"
      <4>1. n \in DOMAIN submissions /\ submissions[n] \in Submission
        BY <1>0 DEF PriorSubmissions, SubmissionsWithKey, TypeInv, TypeOK
      <4> QED
        BY <1>0, <4>1 DEF Submission, SafetyInv, OnlyValidatedIsSubmitted
    <3>3. Exists(submissions[n].invoice)
      BY <1>0, <3>2 DEF RowsOK, RowOK, Exists
    <3>4. a.req = job[w].req /\ a.invoice = submissions[n].invoice
      BY <1>3, <1>4, <3>1
    <3> QED
      BY <3>1, <3>2, <3>3, <3>4 DEF HasAccess, Own
  <2>5. CASE SendReplayPrior(w) \/ Deliver(w)
    <3>1. Own(job[w].req, job[w].invoice)
      BY <1>0, <2>5 DEF SendReplayPrior, Deliver, JobsScoped, JobScoped, Acting
    <3>2. a.req = job[w].req /\ a.invoice = job[w].invoice
      BY <1>3, <1>4, <2>5 DEF SendReplayPrior, Deliver
    <3> QED
      BY <3>1, <3>2
  <2>6. CASE ArchiveLoad(w)
    <3>1. Found(w) /\ Reply(w, "archived", job[w].invoice, 0) /\ job[w].at = "load"
      BY <2>1, <2>2, <2>6 DEF ArchiveLoad, Continue, Fail, history
    <3>2. job[w].invoice \in InvoiceIds
      BY <1>0, <3>1, BusyJob DEF Steps, TypeInv, JobsOK, JobOK, OrNone
    <3>3. a.req = job[w].req /\ a.invoice = job[w].invoice
      BY <1>3, <1>4, <3>1
    <3> QED
      BY <3>1, <3>2, <3>3 DEF Found, HasAccess, Own
  <2>7. ~TransformStep(w) \/ TransformReplay(w)
    BY <2>1, <2>2
    DEF TransformStep, TransformRefuse, TransformAdmit, SigningFails, TransformInsert,
        TransformConflict, Continue, Fail, Committed, history
  <2>8. ~SendStep(w) \/ SendReplay(w) \/ SendReplayPrior(w)
    BY <2>1, <2>2
    DEF SendStep, SendRefuse, SendProceed, SendLoad, SendAdmit, ProviderSubmit,
        SendCommit, SendConflict, Continue, Fail, Committed, history
  <2>9. ~RecordStep(w) \/ ArchiveLoad(w)
    BY <2>1, <2>2
    DEF RecordStep, ArchiveCommit, OfficialLoad, OfficialCommit, WebhookTest,
        Continue, Fail, Committed, history
  <2> QED
    BY <1>4, <2>3, <2>4, <2>5, <2>6, <2>7, <2>8, <2>9 DEF Step
<1>5. ASSUME a \notin answers PROVE \E w \in Workers : Step(w)
  BY <1>5 DEF Next, Receive, Restart, vars
<1> QED
  BY <1>1, <1>2, <1>4, <1>5

(* The region of a row and that of a submission were admitted for the      *)
(* tenant of the row.                                                      *)
LEMMA RegionsStep ==
  ASSUME ScopeInv, [Next]_vars
  PROVE  WrittenInAllowedRegion'
<1>0. SafetyInv /\ TypeInv /\ RowsOK /\ JobsScoped /\ WrittenInAllowedRegion
  BY DEF ScopeInv, SafetyInv
<1>1. ASSUME NEW i \in InvoiceIds, invoices'[i].status # "absent"
      PROVE  invoices'[i].region \in AllowedRegions(invoices'[i].tenant)
  <2>1. CASE Exists(i)
    BY <1>0, <2>1, ScopeColumns DEF WrittenInAllowedRegion
  <2>2. CASE ~Exists(i)
    <3>1. PICK w \in Workers :
            /\ TransformInsert(w)
            /\ invoices'[i] = NewInvoice(job[w].req, WorkerRegion[w])
      BY <1>0, <1>1, <2>2, ScopeColumns DEF Exists
    <3>2. TenantAdmitted(TenantOf(job[w].req), WorkerRegion[w])
      BY <1>0, <3>1 DEF TransformInsert, JobsScoped, JobScoped
    <3> QED
      BY <3>1, <3>2 DEF NewInvoice, TenantAdmitted
  <2> QED
    BY <2>1, <2>2
<1>2. ASSUME NEW n \in DOMAIN submissions
      PROVE  submissions[n].region \in
               AllowedRegions(invoices'[submissions[n].invoice].tenant)
  <2>1. submissions[n].invoice \in InvoiceIds
    <3>1. submissions[n] \in Submission
      BY <1>0 DEF TypeInv, TypeOK
    <3> QED
      BY <3>1 DEF Submission
  <2>2. Exists(submissions[n].invoice)
    BY <1>0, <2>1 DEF SafetyInv, OnlyValidatedIsSubmitted, RowsOK, RowOK, Exists
  <2> QED
    BY <1>0, <2>1, <2>2, ScopeColumns DEF WrittenInAllowedRegion
<1>3. ASSUME NEW n \in DOMAIN submissions'
      PROVE  submissions'[n].region \in
               AllowedRegions(invoices'[submissions'[n].invoice].tenant)
  <2>1. CASE UNCHANGED submissions
    BY <1>2, <1>3, <2>1
  <2>2. ASSUME NEW w \in Workers, SendCommit(w)
        PROVE  submissions'[n].region \in
                 AllowedRegions(invoices'[submissions'[n].invoice].tenant)
    <3>1. PICK s : /\ submissions' = Append(submissions, s)
                   /\ s.invoice = job[w].invoice /\ s.region = WorkerRegion[w]
      BY <2>2 DEF SendCommit
    <3>2. /\ Own(job[w].req, job[w].invoice)
          /\ job[w].snap.tenant = invoices[job[w].invoice].tenant
          /\ TenantAdmitted(job[w].snap.tenant, WorkerRegion[w])
      BY <1>0, <2>2 DEF SendCommit, JobsScoped, JobScoped, Acting, Sending
    <3>3. invoices'[job[w].invoice].tenant = invoices[job[w].invoice].tenant
      BY <1>0, <3>2, OwnStays
    <3>4. CASE n \in DOMAIN submissions
      <4>1. submissions'[n] = submissions[n]
        BY <1>0, <3>1, <3>4 DEF TypeInv, TypeOK
      <4> QED
        BY <1>2, <3>4, <4>1
    <3>5. CASE n \notin DOMAIN submissions
      <4>1. submissions'[n] = s
        BY <1>0, <1>3, <3>1, <3>5 DEF TypeInv, TypeOK
      <4> QED
        BY <3>1, <3>2, <3>3, <4>1 DEF TenantAdmitted
    <3> QED
      BY <3>4, <3>5
  <2> QED
    BY <1>0, <2>1, <2>2, Writers DEF Quiet, TransformInsert, ArchiveCommit
<1> QED
  BY <1>1, <1>3 DEF WrittenInAllowedRegion, Exists

(* ScopeInv holds initially.                                               *)
LEMMA InitScope == Init => ScopeInv
<1> SUFFICES ASSUME Init PROVE ScopeInv
  OBVIOUS
<1>1. JobsScoped
  BY DEF Init, JobsScoped, JobScoped, Idle, Acting, Sending, Writing
<1>2. AnswersScoped /\ WrittenInAllowedRegion
  BY DEF Init, AnswersScoped, WrittenInAllowedRegion, NoInvoice, Exists
<1> QED
  BY <1>1, <1>2, InitSafety DEF ScopeInv

(* No step breaks it.                                                      *)
LEMMA NextScope == ScopeInv /\ [Next]_vars => ScopeInv'
  BY NextSafety, JobsStep, AnswersScopedStep, RegionsStep DEF ScopeInv

(* ScopeInv holds in every reachable state.                                *)
LEMMA ScopeInvariant == Spec => []ScopeInv
  BY InitScope, NextScope, PTL DEF Spec

(* No tenant is told of another's invoice, whichever way a handler found   *)
(* the row: by its id, by a key that may be another tenant's, or through a *)
(* submission (_ensure_invoice_access, invoices.py:651).                   *)
THEOREM TenantsMeetTheirOwn == Spec => []TenantsSeeTheirOwn
<1>1. ScopeInv => TenantsSeeTheirOwn
  BY DEF ScopeInv, AnswersScoped, Own, TenantsSeeTheirOwn
<1> QED
  BY <1>1, ScopeInvariant, PTL

(* Rows and submissions are written where their tenant may write, also     *)
(* those that a handler writes long after it asked (invoices.py:634).      *)
THEOREM RegionsAreAllowed == Spec => []WrittenInAllowedRegion
<1>1. ScopeInv => WrittenInAllowedRegion
  BY DEF ScopeInv
<1> QED
  BY <1>1, ScopeInvariant, PTL

-----------------------------------------------------------------------------
(* The events that a step adds are among E. *)
Adds(E) ==
  \A i \in InvoiceIds : \A n \in (DOMAIN trail'[i]) \ (DOMAIN trail[i]) :
    trail'[i][n] \in E

(* The events that a process of a region writes. *)
EventsIn(region) == {event \in AuditEvent : event.region = region}

(* The events that no role forbids. *)
Observations == {event \in AuditEvent : event.type \notin MutationEvents}

(* Events that follow those of an invoice are all that a step adds.        *)
LEMMA Adding ==
  ASSUME TypeInv, NEW i \in InvoiceIds, NEW E, NEW events \in Seq(E),
         trail' = [trail EXCEPT ![i] = @ \o events]
  PROVE  Adds(E)
<1>1. trail[i] \in Seq(AuditEvent) /\ trail'[i] = trail[i] \o events
  BY DEF TypeInv, TypeOK
<1>2. \A n \in (DOMAIN trail'[i]) \ (DOMAIN trail[i]) : trail'[i][n] \in E
  BY <1>1
<1>3. \A j \in InvoiceIds : j # i => trail'[j] = trail[j]
  BY DEF TypeInv, TypeOK
<1> QED
  BY <1>2, <1>3 DEF Adds

(* So does one event.                                                      *)
LEMMA AddingOne ==
  ASSUME TypeInv, NEW i \in InvoiceIds, NEW E, NEW event \in E,
         trail' = [trail EXCEPT ![i] = Append(@, event)]
  PROVE  Adds(E)
<1>1. trail[i] \in Seq(AuditEvent) /\ trail'[i] = Append(trail[i], event)
  BY DEF TypeInv, TypeOK
<1>2. \A n \in (DOMAIN trail'[i]) \ (DOMAIN trail[i]) : trail'[i][n] \in E
  BY <1>1
<1>3. \A j \in InvoiceIds : j # i => trail'[j] = trail[j]
  BY DEF TypeInv, TypeOK
<1> QED
  BY <1>2, <1>3 DEF Adds

(* The events of a handler carry the region of its process.                *)
LEMMA RegionalEvents ==
  ASSUME NEW region \in Regions
  PROVE  /\ \A type \in EventTypes : Event(type, region) \in EventsIn(region)
         /\ \A body \in Body : TransformEvents(body, region) \in Seq(EventsIn(region))
         /\ \A prior \in BOOLEAN, delivery \in Deliveries :
              SendEvents(prior, delivery, region) \in Seq(EventsIn(region))
<1>1. \A type \in EventTypes : Event(type, region) \in EventsIn(region)
  BY EventType DEF EventsIn, Event
<1>2. ASSUME NEW body \in Body
      PROVE  TransformEvents(body, region) \in Seq(EventsIn(region))
  <2>1. \A type \in {"invoice_received", "validation_failed", "validation_passed",
                     "transformed", "sif_record_generated", "sif_record_signed"} :
          Event(type, region) \in EventsIn(region)
    BY <1>1 DEF EventTypes
  <2> QED
    BY <2>1 DEF TransformEvents
<1>3. ASSUME NEW prior \in BOOLEAN, NEW delivery \in Deliveries
      PROVE  SendEvents(prior, delivery, region) \in Seq(EventsIn(region))
  <2>1. \A type \in {"retried", "submitted", delivery} :
          Event(type, region) \in EventsIn(region)
    BY <1>1 DEF EventTypes, Deliveries
  <2> QED
    BY <2>1 DEF SendEvents
<1> QED
  BY <1>1, <1>2, <1>3

(* What a handler's step adds to a trail is no mutation, or it comes from  *)
(* a thread that was let through by a role that its process still has.     *)
LEMMA MutationsAreLetThrough ==
  ASSUME ScopeInv, NEW w \in Workers, Step(w)
  PROVE  \/ Adds(Observations)
         \/ Writable(WorkerRegion[w]) /\ Adds(EventsIn(WorkerRegion[w]))
<1> DEFINE region == WorkerRegion[w]
           i == job[w].invoice
<1>0. SafetyInv /\ TypeInv /\ JobScoped(w) /\ region \in Regions
  BY WorkersAssumption DEF ScopeInv, SafetyInv, JobsScoped
<1>1. ASSUME UNCHANGED trail PROVE Adds(Observations)
  BY <1>1 DEF Adds
<1>2. CASE TransformInsert(w)
  <2>1. Writable(region)
    BY <1>0, <1>2 DEF TransformInsert, JobScoped, Writing
  <2>2. job[w].req \in Requests /\ job[w].req.payload # None
    BY <1>0, <1>2, Inserting
  <2>3. PICK j \in InvoiceIds : trail' =
          [trail EXCEPT ![j] = TransformEvents(job[w].req.payload.body, region)]
    BY <1>2 DEF TransformInsert
  <2>4. TransformEvents(job[w].req.payload.body, region) \in Seq(EventsIn(region))
    BY <1>0, <2>2, RequestData, RegionalEvents
  <2>5. trail'[j] \in Seq(EventsIn(region))
    BY <1>0, <2>3, <2>4 DEF TypeInv, TypeOK
  <2>6. \A k \in InvoiceIds : k # j => trail'[k] = trail[k]
    BY <1>0, <2>3 DEF TypeInv, TypeOK
  <2>7. \A n \in DOMAIN trail'[j] : trail'[j][n] \in EventsIn(region)
    BY <2>5
  <2> QED
    BY <2>1, <2>6, <2>7 DEF Adds
<1>3. CASE SendCommit(w)
  <2>1. Writable(region) /\ job[w].at \in Steps
    BY <1>0, <1>3 DEF SendCommit, JobScoped, Writing, Steps
  <2>2. SendEvents(job[w].retry, Verdict(w), region) \in Seq(EventsIn(region))
    BY <1>0, <2>1, BusyJob, VerdictType, RegionalEvents DEF TypeInv
  <2>3. i \in InvoiceIds
    BY <1>0, <1>3, Committing
  <2>4. trail' = [trail EXCEPT ![i] = @ \o SendEvents(job[w].retry, Verdict(w), region)]
    BY <1>3 DEF SendCommit
  <2> QED
    BY <1>0, <2>1, <2>2, <2>3, <2>4, Adding
<1>4. CASE ArchiveCommit(w)
  <2>1. Writable(region)
    BY <1>0, <1>4 DEF ArchiveCommit, JobScoped, Writing
  <2>2. i \in InvoiceIds /\ job[w].snap \in Invoice
    BY <1>0, <1>4, Committing
  <2>3. ArchivedEvent(job[w].snap, region) \in EventsIn(region)
    BY <1>0, <2>2 DEF ArchivedEvent, EventsIn, AuditEvent, EventTypes, Invoice
  <2>4. trail' = [trail EXCEPT ![i] = Append(@, ArchivedEvent(job[w].snap, region))]
    BY <1>4 DEF ArchiveCommit
  <2> QED
    BY <1>0, <2>1, <2>2, <2>3, <2>4, AddingOne
<1>5. CASE OfficialCommit(w) \/ WebhookTest(w)
  <2>1. job[w].at \in {"official", "load"}
    BY <1>5 DEF OfficialCommit, WebhookTest
  <2>2. i \in InvoiceIds
    <3>1. i \in OrNone(InvoiceIds)
      BY <1>0, <2>1, BusyJob DEF Steps, TypeInv
    <3>2. i # None
      BY <1>0, <2>1 DEF TypeInv, JobsOK, JobOK
    <3> QED
      BY <3>1, <3>2 DEF OrNone
  <2>3. \/ UNCHANGED trail
        \/ \E type \in EventTypes \ MutationEvents :
             trail' = [trail EXCEPT ![i] = Append(@, Event(type, region))]
    <3>1. {"official_validation_passed", "official_validation_failed",
           "official_validation_not_configured", "webhook_test_delivered"}
            \subseteq EventTypes \ MutationEvents
      BY DEF EventTypes, MutationEvents
    <3> QED
      BY <1>5, <3>1 DEF OfficialCommit, WebhookTest, Refuse, Fail, database
  <2>4. \A type \in EventTypes \ MutationEvents : Event(type, region) \in Observations
    BY <1>0, EventType DEF Observations, Event
  <2> QED
    BY <1>0, <1>1, <2>2, <2>3, <2>4, AddingOne
<1>6. CASE TransformStep(w) /\ ~TransformInsert(w)
  <2>1. TransformReplay(w) => UNCHANGED trail
    BY DEF TransformReplay, Refuse, Continue, database
  <2>2. TransformRefuse(w) \/ TransformAdmit(w) => UNCHANGED trail
    BY DEF TransformRefuse, TransformAdmit, Refuse, Continue, Fail, database
  <2>3. SigningFails(w) \/ TransformConflict(w) => UNCHANGED trail
    BY DEF SigningFails, TransformConflict, Fail, database
  <2> QED
    BY <1>1, <1>6, <2>1, <2>2, <2>3 DEF TransformStep
<1>7. CASE SendStep(w) /\ ~SendCommit(w)
  <2>1. SendRefuse(w) \/ SendReplay(w) \/ SendProceed(w) => UNCHANGED trail
    BY DEF SendRefuse, SendReplay, SendProceed, Refuse, Continue, database
  <2>2. SendLoad(w) \/ SendReplayPrior(w) => UNCHANGED trail
    BY DEF SendLoad, SendReplayPrior, Refuse, Continue, database
  <2>3. SendAdmit(w) => UNCHANGED trail
    BY DEF SendAdmit, Refuse, Continue, Fail, database
  <2>4. ProviderSubmit(w) \/ SendConflict(w) => UNCHANGED trail
    BY DEF ProviderSubmit, SendConflict, Fail, database
  <2> QED
    BY <1>1, <1>7, <2>1, <2>2, <2>3, <2>4 DEF SendStep
<1>8. CASE ArchiveLoad(w) \/ OfficialLoad(w) \/ Deliver(w)
  BY <1>1, <1>8 DEF ArchiveLoad, OfficialLoad, Deliver, Refuse, Continue, Fail, database
<1> QED
  BY <1>2, <1>3, <1>4, <1>5, <1>6, <1>7, <1>8 DEF Step, RecordStep

(* A region in no write role adds no mutation to any trail, not even one   *)
(* that a handler began before a redeployment took the role away           *)
(* (_ensure_region_accepts_writes, invoices.py:626).                       *)
THEOREM StandbyIsQuiet == Spec => StandbyNeverWrites
<1> DEFINE Quieted ==
      \A i \in InvoiceIds : \A n \in (DOMAIN trail'[i]) \ (DOMAIN trail[i]) :
        trail'[i][n].type \in MutationEvents =>
          role[trail'[i][n].region] \in WriteRoles
<1>1. ASSUME Adds(Observations) PROVE Quieted
  BY <1>1 DEF Adds, Observations
<1>2. ASSUME NEW w \in Workers, Writable(WorkerRegion[w]), Adds(EventsIn(WorkerRegion[w]))
      PROVE  Quieted
  BY <1>2 DEF Adds, EventsIn, Writable
<1>3. ASSUME UNCHANGED trail PROVE Adds(Observations)
  BY <1>3 DEF Adds
<1>4. ScopeInv /\ [Next]_vars => Quieted
  <2> SUFFICES ASSUME ScopeInv, [Next]_vars PROVE Quieted
    OBVIOUS
  <2>1. CASE \E w \in Workers : Step(w)
    BY <1>1, <1>2, <2>1, MutationsAreLetThrough
  <2>2. CASE ~\E w \in Workers : Step(w)
    <3>1. UNCHANGED trail
      BY <2>2 DEF Next, Receive, Restart, database, vars
    <3> QED
      BY <1>1, <1>3, <3>1
  <2> QED
    BY <2>1, <2>2
<1>5. ScopeInv /\ [Next]_vars => [Quieted]_vars
  BY <1>4
<1> HIDE DEF Quieted
<1>6. Spec => [][Quieted]_vars
  BY <1>5, ScopeInvariant, PTL DEF Spec
<1> QED
  BY <1>6 DEF StandbyNeverWrites, Quieted
=============================================================================
