---------------------------- MODULE InvoiceService ----------------------------
(***************************************************************************)
(* The invoice workflow of app/services/invoices.py as it runs: one API    *)
(* process per region, each with threads that serve one request at a time, *)
(* all of them over one database.                                          *)
(*                                                                         *)
(* A handler is cut into steps where another thread's commit can come      *)
(* between two of its own accesses: at each read that it decides on, around *)
(* the provider call, and at its commit.  A commit is one step: what a     *)
(* handler flushed before it is invisible to others, and the row and       *)
(* unique-index locks that the flush takes are held until it ends.         *)
(***************************************************************************)
EXTENDS InvoiceData

CONSTANTS
  Workers,       (* the threads that serve requests                         *)
  WorkerRegion,  (* the region whose process each thread belongs to         *)
  InitialRole,   (* the REGION_ROLE each region starts with                 *)
  RestartRoles,  (* the roles a region's process may restart with           *)
  MaxAttempts,   (* bound: how often clients make each request              *)
  MaxRestarts    (* bound: restarts, with or without a change of role       *)

ASSUME WorkersAssumption ==
  /\ WorkerRegion \in [Workers -> Regions]
  /\ InitialRole \in [Regions -> Roles]
  /\ RestartRoles \subseteq Roles
  /\ MaxAttempts \in [Requests -> Nat]
  /\ MaxRestarts \in Nat

VARIABLES
  role,          (* the role of each region's process                       *)
  invoices,      (* table invoices                                          *)
  submissions,   (* table invoice_submissions, in commit order              *)
  trail,         (* table audit_events: each invoice's, in commit order     *)
  job,           (* what each thread is doing                               *)
  calls,         (* history: submit calls the provider got per invoice, key *)
  attempts,      (* history: how often each request was made                *)
  answers,       (* history: the definite (not 5xx) answers clients got     *)
  restarts       (* history: restarts so far                                *)

database == <<invoices, submissions, trail>>
history  == <<calls, attempts, answers, restarts>>
vars     == <<role, invoices, submissions, trail, job, calls, attempts,
              answers, restarts>>

(* Where a thread stands in its handler: the next access it will make. *)
Steps == {"transform", "insert", "send", "load", "prior", "submit",
          "commit", "archive", "official", "reply"}

Outcomes == {"refused", "invalid", "transformed", "sent", "archived",
             "checked", "recorded"}

(* A job knows its request, the invoice it is about, the row it loaded,    *)
(* whether it saw an earlier submission, and, once it has committed, the   *)
(* answer that is on its way to the client.                                *)
Idle == [at |-> "idle", req |-> None, invoice |-> None, snap |-> NoInvoice,
         retry |-> FALSE, outcome |-> "refused", submission |-> 0]

Job == [at : Steps, req : Requests, invoice : OrNone(InvoiceIds),
        snap : Invoice, retry : BOOLEAN, outcome : Outcomes, submission : Nat]

Answer == [req : Requests, outcome : Outcomes,
           invoice : OrNone(InvoiceIds), submission : Nat]

TypeOK ==
  /\ role \in [Regions -> Roles]
  /\ invoices \in [InvoiceIds -> Invoice]
  /\ submissions \in Seq(Submission)
  /\ trail \in [InvoiceIds -> Seq(AuditEvent)]
  /\ job \in [Workers -> Job \cup {Idle}]
  /\ calls \in [InvoiceIds -> [OrNone(Keys) -> Nat]]
  /\ attempts \in [Requests -> Nat]
  /\ answers \subseteq Answer
  /\ restarts \in Nat

Init ==
  /\ role = InitialRole
  /\ invoices = [i \in InvoiceIds |-> NoInvoice]
  /\ submissions = << >>
  /\ trail = [i \in InvoiceIds |-> << >>]
  /\ job = [w \in Workers |-> Idle]
  /\ calls = [i \in InvoiceIds |-> [k \in OrNone(Keys) |-> 0]]
  /\ attempts = [r \in Requests |-> 0]
  /\ answers = {}
  /\ restarts = 0

-----------------------------------------------------------------------------
(* Queries. *)
Exists(i) == invoices[i].status # "absent"

InvoicesWithKey(k) == {i \in InvoiceIds : k # None /\ invoices[i].key = k}

(* Fault: submissions are stored without their key. *)
SubmissionKeysNotStored(k) == {}

SubmissionsWithKey(k) ==
  {n \in DOMAIN submissions : k # None /\ submissions[n].key = k}

(* Fault: a send does not look for its key before it works. *)
PriorSubmissionsUnread(r) == {}

(* What the handlers look up before they work: the row, or the submission, *)
(* that holds the key of the request.                                      *)
PriorInvoices(r) == InvoicesWithKey(TransformKey(r))

PriorSubmissions(r) == SubmissionsWithKey(SendKey(r))

(* Fault: no unique index on the key. *)
TransformKeyUnconstrained(r) == TRUE

(* What the unique indexes enforce at the commit. *)
TransformKeyFree(r) == InvoicesWithKey(TransformKey(r)) = {}

SendKeyFree(r) == SubmissionsWithKey(SendKey(r)) = {}

SubmissionsOf(i) == {n \in DOMAIN submissions : submissions[n].invoice = i}

(* _latest_submission: a set of one, or of none. *)
LatestSubmission(i) ==
  {n \in SubmissionsOf(i) : \A m \in SubmissionsOf(i) : m <= n}

EventsOf(i, type) == {n \in DOMAIN trail[i] : trail[i][n].type = type}

Writable(region) == role[region] \in WriteRoles

(* Invoice ids are uuids: the model numbers them in the order of insertion. *)
NextId(i) == ~Exists(i) /\ \A j \in InvoiceIds : j < i => Exists(j)

(* Ends of a handler: a definite answer, or a 5xx after which the session  *)
(* is rolled back and the client knows nothing.                            *)
Reply(w, outcome, i, n) ==
  /\ answers' = answers \cup
       {[req |-> job[w].req, outcome |-> outcome, invoice |-> i,
         submission |-> n]}
  /\ job' = [job EXCEPT ![w] = Idle]
  /\ UNCHANGED <<role, calls, attempts, restarts>>

Refuse(w) == Reply(w, "refused", None, 0) /\ UNCHANGED database

Fail(w) ==
  /\ job' = [job EXCEPT ![w] = Idle]
  /\ UNCHANGED <<role, database, history>>

(* The commit of a handler: its answer is made, not yet delivered. *)
Committed(w, outcome, i, n) ==
  /\ job' = [job EXCEPT ![w] =
       [Idle EXCEPT !.at = "reply", !.req = job[w].req, !.invoice = i,
                    !.outcome = outcome, !.submission = n]]
  /\ UNCHANGED <<role, history>>

(* A step that stays inside the handler and writes nothing. *)
Continue(w, next) ==
  /\ job' = [job EXCEPT ![w] = next]
  /\ UNCHANGED <<role, database, history>>

-----------------------------------------------------------------------------
(* A thread picks up a request.  The last conjunct is the bound on rows:   *)
(* every request that may insert one must find room for it.                *)
Receive(w, r) ==
  /\ job[w] = Idle
  /\ attempts[r] < MaxAttempts[r]
  /\ r.payload # None =>
       Cardinality({v \in Workers : job[v] # Idle /\ job[v].req.payload # None})
         < Cardinality({i \in InvoiceIds : ~Exists(i)})
  /\ attempts' = [attempts EXCEPT ![r] = @ + 1]
  /\ job' = [job EXCEPT ![w] =
       [Idle EXCEPT !.req = r, !.invoice = r.target,
                    !.at = IF r.op \in {"transform", "send"} THEN r.op ELSE "load"]]
  /\ UNCHANGED <<role, database, calls, answers, restarts>>

(***************************************************************************)
(* transform: also the first half of a send that carries a payload.        *)
(***************************************************************************)
ReplayAllowed(r, row) ==
  /\ HasAccess(r.caller, row)
  /\ row.tenant = TenantOf(r)
  /\ HashMatches(row.hash, TransformHash(r))

(* With an idempotency key that is already taken: replay or refuse. *)
TransformReplay(w) ==
  LET r == job[w].req
  IN  /\ job[w].at = "transform"
      /\ ~TenantDenied(r)
      /\ ~KeyConflict(TransformHeader(r), r.payload.key)
      /\ \E i \in PriorInvoices(r) :
           \/ /\ ~ReplayAllowed(r, invoices[i])
              /\ Refuse(w)
           \/ /\ ReplayAllowed(r, invoices[i])
              /\ invoices[i].validation = "failed"
              /\ Reply(w, "invalid", i, 0)
              /\ UNCHANGED database
           \/ /\ ReplayAllowed(r, invoices[i])
              /\ invoices[i].validation # "failed"
              /\ r.op = "transform"
              /\ Reply(w, "transformed", i, 0)
              /\ UNCHANGED database
           \/ /\ ReplayAllowed(r, invoices[i])
              /\ invoices[i].validation # "failed"
              /\ r.op = "send"
              /\ IF Sendable(invoices[i])
                 THEN Continue(w, [job[w] EXCEPT !.at = "prior", !.invoice = i,
                                                 !.snap = invoices[i]])
                 ELSE Refuse(w)

TransformRefuse(w) ==
  LET r == job[w].req
  IN  /\ job[w].at = "transform"
      /\ \/ TenantDenied(r)
         \/ KeyConflict(TransformHeader(r), r.payload.key)
         \/ /\ PriorInvoices(r) = {}
            /\ ~TenantAdmitted(TenantOf(r), WorkerRegion[w])
      /\ Refuse(w)

(* Checked, and about to validate, transform, sign and insert; or turned   *)
(* away by a region that takes no writes.                                  *)
TransformAdmit(w) ==
  LET r == job[w].req
  IN  /\ job[w].at = "transform"
      /\ ~TenantDenied(r)
      /\ ~KeyConflict(TransformHeader(r), r.payload.key)
      /\ PriorInvoices(r) = {}
      /\ TenantAdmitted(TenantOf(r), WorkerRegion[w])
      /\ IF Writable(WorkerRegion[w])
         THEN Continue(w, [job[w] EXCEPT !.at = "insert"])
         ELSE Fail(w)

(* The Spanish SIF signing command fails: 502, nothing stored. *)
SigningFails(w) ==
  /\ job[w].at = "insert"
  /\ SigningConfigured
  /\ job[w].req.payload.body.compliant /\ job[w].req.payload.body.spanish
  /\ Fail(w)

(* The row, its events and the commit.  A send then reads the row again. *)
TransformInsert(w) ==
  LET r      == job[w].req
      region == WorkerRegion[w]
  IN  /\ job[w].at = "insert"
      /\ TransformKeyFree(r)
      /\ \E i \in InvoiceIds :
           /\ NextId(i)
           /\ invoices' = [invoices EXCEPT ![i] = NewInvoice(r, region)]
           /\ trail' = [trail EXCEPT ![i] = TransformEvents(r.payload.body, region)]
           /\ UNCHANGED submissions
           /\ \/ /\ ~r.payload.body.compliant
                 /\ Committed(w, "invalid", i, 0)
              \/ /\ r.payload.body.compliant /\ r.op = "transform"
                 /\ Committed(w, "transformed", i, 0)
              \/ /\ r.payload.body.compliant /\ r.op = "send"
                 /\ job' = [job EXCEPT ![w].at = "load", ![w].invoice = i]
                 /\ UNCHANGED <<role, history>>

(* Fault: the thread waits for the key for ever. *)
TransformConflictHangs(w) == FALSE

(* Another transaction inserted the key first: the unique constraint turns *)
(* the insert into an IntegrityError, which no handler catches.            *)
TransformConflict(w) ==
  /\ job[w].at = "insert"
  /\ ~TransformKeyFree(job[w].req)
  /\ Fail(w)

(***************************************************************************)
(* send                                                                    *)
(***************************************************************************)
SendRefuse(w) ==
  LET r == job[w].req
  IN  /\ job[w].at = "send"
      /\ \/ KeyConflict(r.header, r.key)
         \/ (r.target = None) = (r.payload = None)
      /\ Refuse(w)

(* The key has a submission: replay it, or refuse. *)
SendReplay(w) ==
  LET r == job[w].req
  IN  /\ job[w].at = "send"
      /\ ~KeyConflict(r.header, r.key)
      /\ (r.target = None) # (r.payload = None)
      /\ \E n \in PriorSubmissions(r) :
           LET i == submissions[n].invoice
           IN  IF /\ HasAccess(r.caller, invoices[i])
                  /\ HashMatches(submissions[n].hash, SendHash(r))
               THEN Reply(w, "sent", i, n) /\ UNCHANGED database
               ELSE Refuse(w)

SendProceed(w) ==
  LET r == job[w].req
  IN  /\ job[w].at = "send"
      /\ ~KeyConflict(r.header, r.key)
      /\ (r.target = None) # (r.payload = None)
      /\ PriorSubmissions(r) = {}
      /\ Continue(w, [job[w] EXCEPT !.at = IF r.target # None THEN "load"
                                                              ELSE "transform"])

(* The row a handler works from is read here; what it decides afterwards   *)
(* it decides on this snapshot.                                            *)
Found(w) ==
  /\ Exists(job[w].invoice)
  /\ HasAccess(job[w].req.caller, invoices[job[w].invoice])

SendLoad(w) ==
  /\ job[w].at = "load" /\ job[w].req.op = "send"
  /\ IF Found(w) /\ Sendable(invoices[job[w].invoice])
     THEN Continue(w, [job[w] EXCEPT !.at = "prior",
                                     !.snap = invoices[job[w].invoice]])
     ELSE Refuse(w)

(* The latest submission is read after the row.  A row seen accepted or    *)
(* pending is answered with it and the request's own key is not stored.    *)
(* Fault: only a pending delivery counts as made. *)
UndeliveredUnlessPending(w) ==
  \/ SubmissionsOf(job[w].invoice) = {}
  \/ job[w].snap.delivery # "pending"

Undelivered(w) ==
  \/ SubmissionsOf(job[w].invoice) = {}
  \/ job[w].snap.delivery \notin {"accepted", "pending"}

SendReplayPrior(w) ==
  /\ job[w].at = "prior"
  /\ ~Undelivered(w)
  /\ \E n \in LatestSubmission(job[w].invoice) :
       Reply(w, "sent", job[w].invoice, n)
  /\ UNCHANGED database

SendAdmit(w) ==
  LET region == WorkerRegion[w]
  IN  /\ job[w].at = "prior"
      /\ Undelivered(w)
      /\ IF ~TenantAdmitted(job[w].snap.tenant, region) THEN Refuse(w)
         ELSE IF ~Writable(region) THEN Fail(w)
         ELSE Continue(w, [job[w] EXCEPT !.at = "submit",
                             !.retry = SubmissionsOf(job[w].invoice) # {}])

(* Fault: the "submitted" event is committed before the provider is called. *)
ProviderSubmitAfterCommit(w) ==
  /\ job[w].at = "submit"
  /\ calls' = [calls EXCEPT ![job[w].invoice][SendKey(job[w].req)] = @ + 1]
  /\ trail' = [trail EXCEPT ![job[w].invoice] =
       Append(@, Event("submitted", WorkerRegion[w]))]
  /\ job' = [job EXCEPT ![w].at = "commit"]
  /\ UNCHANGED <<role, invoices, submissions, attempts, answers, restarts>>

(* provider.submit: outside the database, and not undone by a rollback. *)
ProviderSubmit(w) ==
  /\ job[w].at = "submit"
  /\ calls' = [calls EXCEPT ![job[w].invoice][SendKey(job[w].req)] = @ + 1]
  /\ job' = [job EXCEPT ![w].at = "commit"]
  /\ UNCHANGED <<role, database, attempts, answers, restarts>>

Verdict(w) == ProviderVerdict(job[w].snap.body, Simulated(job[w].req))

SendCommit(w) ==
  LET r == job[w].req
      i == job[w].invoice
      k == SendKey(r)
  IN  /\ job[w].at = "commit"
      /\ SendKeyFree(r)
      /\ submissions' = Append(submissions,
           [invoice |-> i, delivery |-> Verdict(w), region |-> WorkerRegion[w],
            key |-> k, hash |-> IF k = None THEN None ELSE SendHash(r)])
      /\ invoices' = [invoices EXCEPT ![i] =
           Flush(@, job[w].snap, Delivered(job[w].snap, Verdict(w)))]
      /\ trail' = [trail EXCEPT ![i] =
           @ \o SendEvents(job[w].retry, Verdict(w), WorkerRegion[w])]
      /\ Committed(w, "sent", i, Len(submissions) + 1)

(* The provider has the invoice, and the unique constraint on the key of   *)
(* the submission rolls everything else back.                              *)
SendConflict(w) ==
  /\ job[w].at = "commit"
  /\ ~SendKeyFree(job[w].req)
  /\ Fail(w)

(***************************************************************************)
(* archive, official_validate and webhook_test                             *)
(***************************************************************************)
ArchiveLoad(w) ==
  LET i == job[w].invoice
  IN  /\ job[w].at = "load" /\ job[w].req.op = "archive"
      /\ \/ ~Found(w) /\ Refuse(w)
         \/ Found(w) /\ ~Writable(WorkerRegion[w]) /\ Fail(w)
         \/ /\ Found(w) /\ Writable(WorkerRegion[w])
            /\ invoices[i].status = "archived"
            /\ Reply(w, "archived", i, 0)
            /\ UNCHANGED database
         \/ /\ Found(w) /\ Writable(WorkerRegion[w])
            /\ invoices[i].status # "archived"
            /\ Continue(w, [job[w] EXCEPT !.at = "archive", !.snap = invoices[i]])

ArchiveCommit(w) ==
  LET i    == job[w].invoice
      snap == job[w].snap
  IN  /\ job[w].at = "archive"
      /\ invoices' = [invoices EXCEPT ![i] =
           Flush(@, snap, Archived(snap, job[w].req.redact))]
      /\ trail' = [trail EXCEPT ![i] =
           Append(@, ArchivedEvent(snap, WorkerRegion[w]))]
      /\ UNCHANGED submissions
      /\ Committed(w, "archived", i, 0)

(* Fault: the document is not asked for. *)
OfficialLoadWithoutDocument(w) ==
  LET i == job[w].invoice
  IN  /\ job[w].at = "load" /\ job[w].req.op = "official"
      /\ IF Found(w)
         THEN Continue(w, [job[w] EXCEPT !.at = "official", !.snap = invoices[i]])
         ELSE Refuse(w)

OfficialLoad(w) ==
  LET i == job[w].invoice
  IN  /\ job[w].at = "load" /\ job[w].req.op = "official"
      /\ IF Found(w) /\ invoices[i].document # "none"
         THEN Continue(w, [job[w] EXCEPT !.at = "official", !.snap = invoices[i]])
         ELSE Refuse(w)

(* The validator command answers, is not configured, or exceeds its        *)
(* timeout.  The result row and its event are one transaction; the event   *)
(* stands for both.                                                        *)
OfficialCommit(w) ==
  LET i == job[w].invoice
  IN  /\ job[w].at = "official"
      /\ \/ \E verdict \in {"official_validation_passed", "official_validation_failed",
                            "official_validation_not_configured"} :
              /\ trail' = [trail EXCEPT ![i] =
                   Append(@, Event(verdict, WorkerRegion[w]))]
              /\ UNCHANGED <<invoices, submissions>>
              /\ Committed(w, "checked", i, 0)
         \/ Fail(w)

(* The service the webhook route builds has no caller: it acts as Admin. *)
WebhookTest(w) ==
  LET i == job[w].invoice
  IN  /\ job[w].at = "load" /\ job[w].req.op = "webhook"
      /\ IF Exists(i)
         THEN /\ trail' = [trail EXCEPT ![i] =
                   Append(@, Event("webhook_test_delivered", WorkerRegion[w]))]
              /\ UNCHANGED <<invoices, submissions>>
              /\ Committed(w, "recorded", i, 0)
         ELSE Refuse(w)

(* The client gets the answer to what was committed. *)
Deliver(w) ==
  /\ job[w].at = "reply"
  /\ Reply(w, job[w].outcome, job[w].invoice, job[w].submission)
  /\ UNCHANGED database

-----------------------------------------------------------------------------
(* Fault: a new role takes effect under the requests in flight. *)
RestartKeepsHandlers(region, newRole) ==
  /\ restarts < MaxRestarts
  /\ restarts' = restarts + 1
  /\ role' = [role EXCEPT ![region] = newRole]
  /\ UNCHANGED <<database, job, calls, attempts, answers>>

(* The process of a region dies or is redeployed, perhaps in another role  *)
(* (settings are read once per process): what it was serving is lost, and  *)
(* so is what its open transactions had flushed.                           *)
Restart(region, newRole) ==
  /\ restarts < MaxRestarts
  /\ restarts' = restarts + 1
  /\ role' = [role EXCEPT ![region] = newRole]
  /\ job' = [w \in Workers |-> IF WorkerRegion[w] = region THEN Idle ELSE job[w]]
  /\ UNCHANGED <<database, calls, attempts, answers>>

TransformStep(w) ==
  \/ TransformReplay(w) \/ TransformRefuse(w) \/ TransformAdmit(w)
  \/ SigningFails(w) \/ TransformInsert(w) \/ TransformConflict(w)

SendStep(w) ==
  \/ SendRefuse(w) \/ SendReplay(w) \/ SendProceed(w) \/ SendLoad(w)
  \/ SendReplayPrior(w) \/ SendAdmit(w) \/ ProviderSubmit(w)
  \/ SendCommit(w) \/ SendConflict(w)

RecordStep(w) ==
  \/ ArchiveLoad(w) \/ ArchiveCommit(w) \/ OfficialLoad(w)
  \/ OfficialCommit(w) \/ WebhookTest(w)

Step(w) == TransformStep(w) \/ SendStep(w) \/ RecordStep(w) \/ Deliver(w)

Next ==
  \/ \E w \in Workers, r \in Requests : Receive(w, r)
  \/ \E w \in Workers : Step(w)
  \/ \E region \in Regions, newRole \in RestartRoles :
       Restart(region, newRole)

Spec == Init /\ [][Next]_vars
=============================================================================
