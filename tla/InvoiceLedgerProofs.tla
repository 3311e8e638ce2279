-------------------------- MODULE InvoiceLedgerProofs ------------------------
(***************************************************************************)
(* What is recorded of an invoice agrees with what was done to it: the     *)
(* trail has one event for each submission and one official result for     *)
(* each document that was stored or attested, and the tables implement the *)
(* abstract ledger.                                                        *)
(*                                                                         *)
(* The trail is compared by counting, one handler at a time. An action     *)
(* appends its events in the commit that inserts the submission            *)
(* (SilentStep: all others append none of the types that are counted), so  *)
(* an invoice has as many events of a type as it has submissions with that *)
(* verdict.                                                                *)
(*                                                                         *)
(* The refinement goes step by step: only the commits of transform, send   *)
(* and archive, and nothing else, move the ledger (LedgerNext); every      *)
(* other action, crash and answer leaves what the ledger sees as it was.   *)
(***************************************************************************)
EXTENDS InvoiceServiceProofs, InvoiceRefinement, FiniteSetTheorems

(* The places of a trail that hold events of a type. *)
Places(events, type) == {n \in DOMAIN events : events[n].type = type}

(* The events that a send leaves of its submission. *)
SendTypes == Deliveries \cup {"submitted", "retried"}

(* How many events of a type a trail has after others were appended to it. *)
LEMMA PlacesAfter ==
  ASSUME NEW s \in Seq(AuditEvent), NEW e \in Seq(AuditEvent), NEW type
  PROVE  /\ IsFiniteSet(Places(s, type)) /\ Cardinality(Places(s, type)) \in Nat
         /\ Places(e, type) = {} => Places(s \o e, type) = Places(s, type)
         /\ \A m : Places(e, type) = {m} =>
              Cardinality(Places(s \o e, type)) = Cardinality(Places(s, type)) + 1
<1>1. IsFiniteSet(Places(s, type)) /\ Cardinality(Places(s, type)) \in Nat
  <2>1. IsFiniteSet(1..Len(s)) /\ Places(s, type) \subseteq 1..Len(s)
    BY FS_Interval DEF Places
  <2> QED
    BY <2>1, FS_Subset, FS_CardinalityType
<1>2. Places(s \o e, type) =
        Places(s, type) \cup {Len(s) + m : m \in Places(e, type)}
  <2>1. /\ DOMAIN s = 1..Len(s) /\ DOMAIN e = 1..Len(e) 
        /\ DOMAIN (s \o e) = 1..(Len(s) + Len(e))
        /\ Len(s) \in Nat /\ Len(e) \in Nat
        /\ \A n \in 1..Len(s) : (s \o e)[n] = s[n]
        /\ \A m \in 1..Len(e) : (s \o e)[Len(s) + m] = e[m]
    OBVIOUS
  <2>2. \A n \in 1..(Len(s) + Len(e)) :
          n \in 1..Len(s) \/ \E m \in 1..Len(e) : n = Len(s) + m
    <3> SUFFICES ASSUME NEW n \in 1..(Len(s) + Len(e)), n \notin 1..Len(s)
                 PROVE  \E m \in 1..Len(e) : n = Len(s) + m
      OBVIOUS
    <3>1. n - Len(s) \in 1..Len(e) /\ n = Len(s) + (n - Len(s))
      BY <2>1
    <3> QED
      BY <3>1
  <2>3. \A n \in 1..Len(s), m \in 1..Len(e) :
          n \in 1..(Len(s) + Len(e)) /\ Len(s) + m \in 1..(Len(s) + Len(e))
    BY <2>1
  <2>4. \A n \in 1..Len(s) : n \in Places(s \o e, type) <=> n \in Places(s, type)
    BY <2>1, <2>3 DEF Places
  <2>5. \A m \in 1..Len(e) :
          Len(s) + m \in Places(s \o e, type) <=> m \in Places(e, type)
    BY <2>1, <2>3 DEF Places
  <2>6. /\ Places(s \o e, type) \subseteq 1..(Len(s) + Len(e))
        /\ Places(s, type) \subseteq 1..Len(s) /\ Places(e, type) \subseteq 1..Len(e)
    BY <2>1 DEF Places
  <2> QED
    BY <2>2, <2>4, <2>5, <2>6
<1>3. ASSUME NEW m, Places(e, type) = {m}
      PROVE  Cardinality(Places(s \o e, type)) = Cardinality(Places(s, type)) + 1
  <2>1. Places(s \o e, type) = Places(s, type) \cup {Len(s) + m}
    BY <1>2, <1>3
  <2>2. m \in DOMAIN e
    BY <1>3 DEF Places
  <2>3. Len(s) + m \notin Places(s, type)
    BY <2>2 DEF Places
  <2> QED
    BY <1>1, <2>1, <2>3, FS_AddElement
<1> QED
  BY <1>1, <1>2, <1>3

(* The events of one send, and those that no transform makes. *)
LEMMA PlacesOfSend ==
  ASSUME NEW prior \in BOOLEAN, NEW delivery \in Deliveries, NEW region
  PROVE  LET events == SendEvents(prior, delivery, region)
         IN  /\ \E m : Places(events, "submitted") = {m}
             /\ \E m : Places(events, delivery) = {m}
             /\ prior => \E m : Places(events, "retried") = {m}
             /\ \A type : type \notin {"submitted", delivery} /\ (type = "retried" => ~prior)
                  => Places(events, type) = {}
<1> DEFINE events == SendEvents(prior, delivery, region)
<1>1. delivery \notin {"submitted", "retried"}
  BY DEF Deliveries
<1>2. CASE prior
  <2>1. /\ DOMAIN events = 1..3
        /\ events[1].type = "retried" /\ events[2].type = "submitted"
        /\ events[3].type = delivery
    BY <1>2 DEF SendEvents, Event
  <2>2. \A n \in 1..3 : n = 1 \/ n = 2 \/ n = 3
    OBVIOUS
  <2> HIDE DEF events
  <2>3. /\ Places(events, "retried") = {1} /\ Places(events, "submitted") = {2}
        /\ Places(events, delivery) = {3}
    BY <1>1, <2>1, <2>2 DEF Places
  <2>4. \A type : type \notin {"submitted", delivery, "retried"} => Places(events, type) = {}
    BY <2>1, <2>2 DEF Places
  <2> QED
    BY <1>2, <2>3, <2>4 DEF events
<1>3. CASE ~prior
  <2>1. /\ DOMAIN events = 1..2
        /\ events[1].type = "submitted" /\ events[2].type = delivery
    BY <1>3 DEF SendEvents, Event
  <2>2. \A n \in 1..2 : n = 1 \/ n = 2
    OBVIOUS
  <2> HIDE DEF events
  <2>3. Places(events, "submitted") = {1} /\ Places(events, delivery) = {2}
    BY <1>1, <2>1, <2>2 DEF Places
  <2>4. \A type : type \notin {"submitted", delivery} => Places(events, type) = {}
    BY <2>1, <2>2 DEF Places
  <2> QED
    BY <1>3, <2>3, <2>4 DEF events
<1> QED
  BY <1>2, <1>3

(* The events of certain types. *)
OfTypes(types) == {event \in AuditEvent : event.type \in types}

(* The types of the events of a transform. *)
TransformTypes ==
  {"invoice_received", "validation_passed", "validation_failed", "transformed",
   "sif_record_generated", "sif_record_signed"}

(* A transform writes no other events than these. *)
LEMMA TransformEventTypes ==
  ASSUME NEW body \in Body, NEW region \in Regions
  PROVE  TransformEvents(body, region) \in Seq(OfTypes(TransformTypes))
<1>1. \A type \in TransformTypes : Event(type, region) \in OfTypes(TransformTypes)
  BY EventType DEF TransformTypes, EventTypes, OfTypes, Event
<1> DEFINE S == OfTypes(TransformTypes)
<1>2. \A type \in TransformTypes : Event(type, region) \in S
  BY <1>1
<1> HIDE DEF S
<1>3. TransformEvents(body, region) \in Seq(S)
  BY <1>2 DEF TransformEvents, TransformTypes
<1> QED
  BY <1>3 DEF S

(* A thread notes an official verdict, or the test of a webhook. *)
Notes == OfficialVerdicts \cup {"webhook_test_delivered"}

(* The step in which it does. *)
Noting(w, type) ==
  /\ trail' = [trail EXCEPT ![job[w].invoice] = Append(@, Event(type, WorkerRegion[w]))]
  /\ UNCHANGED <<invoices, submissions>>
  /\ \/ job[w].at = "official"
     \/ /\ type \notin OfficialVerdicts
        /\ job[w].at = "load" /\ Exists(job[w].invoice)

(* Who writes to the trail. *)
LEMMA TrailWriters ==
  ASSUME [Next]_vars
  PROVE  \/ UNCHANGED database
         \/ \E w \in Workers : TransformInsert(w) \/ SendCommit(w) \/ ArchiveCommit(w)
         \/ \E w \in Workers, type \in Notes : Noting(w, type)
<1>1. ASSUME NEW w \in Workers, Step(w),
             ~TransformInsert(w), ~SendCommit(w), ~ArchiveCommit(w)
      PROVE  UNCHANGED database \/ \E type \in Notes : Noting(w, type)
  <2>1. CASE TransformStep(w)
    <3>1. TransformReplay(w) => UNCHANGED database
      BY DEF TransformReplay, Refuse, Continue
    <3>2. TransformRefuse(w) \/ TransformAdmit(w) => UNCHANGED database
      BY DEF TransformRefuse, TransformAdmit, Refuse, Continue, Fail
    <3>3. SigningFails(w) \/ TransformConflict(w) => UNCHANGED database
      BY DEF SigningFails, TransformConflict, Fail
    <3> QED
      BY <1>1, <2>1, <3>1, <3>2, <3>3 DEF TransformStep
  <2>2. CASE SendStep(w)
    <3>1. SendRefuse(w) \/ SendReplay(w) \/ SendProceed(w) => UNCHANGED database
      BY DEF SendRefuse, SendReplay, SendProceed, Refuse, Continue
    <3>2. SendLoad(w) \/ SendReplayPrior(w) => UNCHANGED database
      BY DEF SendLoad, SendReplayPrior, Refuse, Continue
    <3>3. SendAdmit(w) => UNCHANGED database
      BY DEF SendAdmit, Refuse, Continue, Fail
    <3>4. ProviderSubmit(w) \/ SendConflict(w) => UNCHANGED database
      BY DEF ProviderSubmit, SendConflict, Fail
    <3> QED
      BY <1>1, <2>2, <3>1, <3>2, <3>3, <3>4 DEF SendStep
  <2>3. CASE ArchiveLoad(w) \/ OfficialLoad(w) \/ Deliver(w)
    <3>1. ArchiveLoad(w) => UNCHANGED database
      BY DEF ArchiveLoad, Refuse, Continue, Fail
    <3>2. OfficialLoad(w) \/ Deliver(w) => UNCHANGED database
      BY DEF OfficialLoad, Deliver, Refuse, Continue
    <3> QED
      BY <2>3, <3>1, <3>2
  <2>4. CASE OfficialCommit(w)
    BY <2>4 DEF OfficialCommit, Fail, Noting, Notes, OfficialVerdicts
  <2>5. CASE WebhookTest(w)
    BY <2>5 DEF WebhookTest, Refuse, Noting, Notes, OfficialVerdicts
  <2> QED
    BY <1>1, <2>1, <2>2, <2>3, <2>4, <2>5 DEF Step, RecordStep
<1>2. CASE \E w \in Workers : Step(w)
  BY <1>1, <1>2
<1>3. CASE ~\E w \in Workers : Step(w)
  BY <1>3 DEF Next, Receive, Restart, vars, database
<1> QED
  BY <1>2, <1>3

(* No event is written of an invoice that is not inserted yet. *)
SilentBefore == \A i \in InvoiceIds : ~Exists(i) => trail[i] = << >>

(* The row that a thread writes events of is there. *)
LEMMA NotedExists ==
  ASSUME ScopeInv, NEW w \in Workers, NEW type, Noting(w, type)
  PROVE  job[w].invoice \in InvoiceIds /\ Exists(job[w].invoice)
<1>1. CASE job[w].at = "official"
  BY <1>1 DEF ScopeInv, JobsScoped, JobScoped, Acting, Own
<1>2. CASE job[w].at = "load" /\ Exists(job[w].invoice)
  BY <1>2, BusyJob
  DEF ScopeInv, SafetyInv, TypeInv, JobsOK, JobOK, Steps, OrNone
<1> QED
  BY <1>1, <1>2 DEF Noting

(* The events of an invoice come with its row, or later. *)
LEMMA SilentStep ==
  ASSUME ScopeInv, SilentBefore, [Next]_vars
  PROVE  SilentBefore'
<1> SUFFICES ASSUME NEW i \in InvoiceIds, invoices'[i].status = "absent"
             PROVE  trail'[i] = << >>
  BY DEF SilentBefore, Exists
<1>0. SafetyInv /\ TypeInv
  BY DEF ScopeInv, SafetyInv
<1>1. ~Exists(i) /\ trail[i] = << >>
  BY <1>0, RowStep DEF Kept, SilentBefore
<1>2. ASSUME NEW j \in InvoiceIds, Exists(j), NEW new,
             trail' = [trail EXCEPT ![j] = new]
      PROVE  trail'[i] = << >>
  BY <1>0, <1>1, <1>2 DEF TypeInv, TypeOK
<1>3. CASE UNCHANGED database
  BY <1>1, <1>3 DEF database
<1>4. ASSUME NEW w \in Workers, TransformInsert(w) PROVE trail'[i] = << >>
  <2>1. PICK j \in InvoiceIds :
          /\ invoices' = [invoices EXCEPT ![j] = NewInvoice(job[w].req, WorkerRegion[w])]
          /\ trail' = [trail EXCEPT ![j] =
               TransformEvents(job[w].req.payload.body, WorkerRegion[w])]
    BY <1>4 DEF TransformInsert
  <2>2. NewInvoice(job[w].req, WorkerRegion[w]).status # "absent"
    BY <1>0, <1>4, Inserting, NewInvoiceType, WorkersAssumption
  <2>3. i # j
    BY <1>0, <2>1, <2>2 DEF TypeInv, TypeOK
  <2> QED
    BY <1>0, <1>1, <2>1, <2>3 DEF TypeInv, TypeOK
<1>5. ASSUME NEW w \in Workers, SendCommit(w) \/ ArchiveCommit(w)
      PROVE  trail'[i] = << >>
  <2>1. job[w].invoice \in InvoiceIds /\ Exists(job[w].invoice)
    BY <1>0, <1>5, Committing DEF StillTrue, Exists
  <2>2. \E new : trail' = [trail EXCEPT ![job[w].invoice] = new]
    BY <1>5 DEF SendCommit, ArchiveCommit
  <2> QED
    BY <1>2, <2>1, <2>2
<1>6. ASSUME NEW w \in Workers, NEW type, Noting(w, type) PROVE trail'[i] = << >>
  <2>1. \E new : trail' = [trail EXCEPT ![job[w].invoice] = new]
    BY <1>6 DEF Noting
  <2> QED
    BY <1>2, <1>6, <2>1, NotedExists
<1> QED
  BY <1>3, <1>4, <1>5, <1>6, TrailWriters

-----------------------------------------------------------------------------
(* An event of another type changes no count. *)
LEMMA PlacesAfterOne ==
  ASSUME NEW s \in Seq(AuditEvent), NEW event \in AuditEvent, NEW type,
         event.type # type
  PROVE  Places(Append(s, event), type) = Places(s, type)
<1>1. Places(<<event>>, type) = {}
  BY DEF Places
<1>2. Append(s, event) = s \o <<event>>
  OBVIOUS
<1>3. \A e \in Seq(AuditEvent) :
        Places(e, type) = {} => Places(s \o e, type) = Places(s, type)
  BY PlacesAfter
<1>4. <<event>> \in Seq(AuditEvent)
  OBVIOUS
<1>5. Places(s \o <<event>>, type) = Places(s, type)
  BY <1>1, <1>3, <1>4
<1> QED
  BY <1>2, <1>5

(* Only sends leave events of sends. *)
LEMMA CountsStay ==
  ASSUME ScopeInv, SilentBefore, [Next]_vars, \A w \in Workers : ~SendCommit(w),
         NEW i \in InvoiceIds, NEW type \in SendTypes
  PROVE  Places(trail'[i], type) = Places(trail[i], type)
<1>0. SafetyInv /\ TypeInv /\ trail[i] \in Seq(AuditEvent)
  BY DEF ScopeInv, SafetyInv, TypeInv, TypeOK
<1>1. ASSUME NEW j \in InvoiceIds, NEW event \in AuditEvent, event.type # type,
             trail' = [trail EXCEPT ![j] = Append(@, event)]
      PROVE  Places(trail'[i], type) = Places(trail[i], type)
  <2>1. CASE i = j
    <3>1. trail'[i] = Append(trail[i], event)
      BY <1>0, <1>1, <2>1 DEF TypeInv, TypeOK
    <3> QED
      BY <1>0, <1>1, <3>1, PlacesAfterOne
  <2>2. CASE i # j
    BY <1>0, <1>1, <2>2 DEF TypeInv, TypeOK
  <2> QED
    BY <2>1, <2>2
<1>2. CASE UNCHANGED database
  BY <1>2 DEF database
<1>3. ASSUME NEW w \in Workers, TransformInsert(w)
      PROVE  Places(trail'[i], type) = Places(trail[i], type)
  <2> DEFINE events == TransformEvents(job[w].req.payload.body, WorkerRegion[w])
  <2>1. PICK j \in InvoiceIds : ~Exists(j) /\ trail' = [trail EXCEPT ![j] = events]
    BY <1>3 DEF TransformInsert, NextId
  <2>2. events \in Seq(OfTypes(TransformTypes))
    BY <1>0, <1>3, Inserting, RequestData, TransformEventTypes, WorkersAssumption
  <2>3. \A n \in DOMAIN events : events[n].type # type
    <3> HIDE DEF events
    <3>1. \A n \in DOMAIN events : events[n] \in OfTypes(TransformTypes)
      BY <2>2
    <3>2. \A event \in OfTypes(TransformTypes) : event.type # type
      BY DEF OfTypes, TransformTypes, SendTypes, Deliveries
    <3> QED
      BY <3>1, <3>2
  <2> HIDE DEF events
  <2>4. CASE i = j
    <3>1. trail[i] = << >> /\ trail'[i] = events
      BY <1>0, <2>1, <2>4 DEF SilentBefore, TypeInv, TypeOK
    <3> QED
      BY <2>3, <3>1 DEF Places
  <2>5. CASE i # j
    BY <1>0, <2>1, <2>5 DEF TypeInv, TypeOK
  <2> QED
    BY <2>4, <2>5
<1>4. ASSUME NEW w \in Workers, ArchiveCommit(w)
      PROVE  Places(trail'[i], type) = Places(trail[i], type)
  <2> DEFINE event == ArchivedEvent(job[w].snap, WorkerRegion[w])
  <2>1. job[w].invoice \in InvoiceIds /\ event \in AuditEvent
    BY <1>0, <1>4, Committing, WorkersAssumption
    DEF ArchivedEvent, AuditEvent, EventTypes, Invoice
  <2>2. event.type # type
    BY DEF ArchivedEvent, SendTypes, Deliveries
  <2>3. trail' = [trail EXCEPT ![job[w].invoice] = Append(@, event)]
    BY <1>4 DEF ArchiveCommit
  <2> HIDE DEF event
  <2> QED
    BY <1>1, <2>1, <2>2, <2>3
<1>5. ASSUME NEW w \in Workers, NEW note \in Notes, Noting(w, note)
      PROVE  Places(trail'[i], type) = Places(trail[i], type)
  <2> DEFINE event == Event(note, WorkerRegion[w])
  <2>1. job[w].invoice \in InvoiceIds
    BY <1>5, NotedExists
  <2>2. event \in AuditEvent
    BY EventType, WorkersAssumption DEF Notes, OfficialVerdicts, EventTypes
  <2>3. event.type # type
    BY DEF Event, Notes, OfficialVerdicts, SendTypes, Deliveries
  <2>4. trail' = [trail EXCEPT ![job[w].invoice] = Append(@, event)]
    BY <1>5 DEF Noting
  <2> HIDE DEF event
  <2> QED
    BY <1>1, <2>1, <2>2, <2>3, <2>4
<1> QED
  BY <1>2, <1>3, <1>4, <1>5, TrailWriters

(* The submissions of an invoice with a verdict. *)
Sent(i, verdict) == {n \in SubmissionsOf(i) : submissions[n].delivery = verdict}

(* What a send commits. *)
LEMMA Submitting ==
  ASSUME SafetyInv, NEW w \in Workers, SendCommit(w)
  PROVE  LET last == Len(submissions) + 1
             i    == job[w].invoice
         IN  /\ i \in InvoiceIds /\ Exists(i) /\ last \notin DOMAIN submissions
             /\ DOMAIN submissions' = DOMAIN submissions \cup {last}
             /\ \A n \in DOMAIN submissions : submissions'[n] = submissions[n]
             /\ submissions'[last].invoice = i
             /\ submissions'[last].delivery = Verdict(w)
             /\ trail'[i] = trail[i] \o
                  SendEvents(job[w].retry, Verdict(w), WorkerRegion[w])
             /\ \A j \in InvoiceIds : j # i => trail'[j] = trail[j]
<1>0. TypeInv
  BY DEF SafetyInv
<1>1. job[w].invoice \in InvoiceIds /\ Exists(job[w].invoice)
  BY Committing DEF StillTrue, Exists
<1>2. PICK s : /\ submissions' = Append(submissions, s)
               /\ s.invoice = job[w].invoice /\ s.delivery = Verdict(w)
  BY DEF SendCommit
<1>3. submissions \in Seq(Submission)
  BY <1>0 DEF TypeInv, TypeOK
<1>4. trail' = [trail EXCEPT ![job[w].invoice] =
        @ \o SendEvents(job[w].retry, Verdict(w), WorkerRegion[w])]
  BY DEF SendCommit
<1>5. trail \in [InvoiceIds -> Seq(AuditEvent)]
  BY <1>0 DEF TypeInv, TypeOK
<1>6. /\ DOMAIN submissions = 1..Len(submissions) /\ Len(submissions) \in Nat
      /\ DOMAIN submissions' = 1..(Len(submissions) + 1)
      /\ \A n \in DOMAIN submissions : submissions'[n] = submissions[n]
      /\ submissions'[Len(submissions) + 1] = s
  BY <1>2, <1>3
<1>7. /\ Len(submissions) + 1 \notin DOMAIN submissions
      /\ DOMAIN submissions' = DOMAIN submissions \cup {Len(submissions) + 1}
  BY <1>6
<1>8. /\ trail'[job[w].invoice] = trail[job[w].invoice] \o
           SendEvents(job[w].retry, Verdict(w), WorkerRegion[w])
      /\ \A j \in InvoiceIds : j # job[w].invoice => trail'[j] = trail[j]
  BY <1>1, <1>4, <1>5
<1> QED
  BY <1>1, <1>2, <1>6, <1>7, <1>8

(* Submissions are finitely many. *)
LEMMA SubmissionsFinite ==
  ASSUME TypeInv, NEW S \in SUBSET (DOMAIN submissions)
  PROVE  IsFiniteSet(S) /\ Cardinality(S) \in Nat
<1>1. DOMAIN submissions = 1..Len(submissions) /\ Len(submissions) \in Nat
  BY DEF TypeInv, TypeOK
<1>2. IsFiniteSet(1..Len(submissions)) /\ S \subseteq 1..Len(submissions)
  BY <1>1, FS_Interval
<1> QED
  BY <1>2, FS_Subset, FS_CardinalityType

(* A send leaves the events of its submission: each count goes up with the *)
(* submissions that it counts.                                             *)
LEMMA CountsGrow ==
  ASSUME SafetyInv, NEW w \in Workers, SendCommit(w), NEW i \in InvoiceIds
  PROVE  /\ SubmissionsOf(i)' = SubmissionsOf(i) \cup
              (IF i = job[w].invoice THEN {Len(submissions) + 1} ELSE {})
         /\ \A d \in Deliveries : Sent(i, d)' = Sent(i, d) \cup
              (IF i = job[w].invoice /\ d = Verdict(w) THEN {Len(submissions) + 1}
                                                       ELSE {})
<1> DEFINE last == Len(submissions) + 1
<1>1. /\ last \notin DOMAIN submissions
      /\ DOMAIN submissions' = DOMAIN submissions \cup {last}
      /\ \A n \in DOMAIN submissions : submissions'[n] = submissions[n]
      /\ submissions'[last].invoice = job[w].invoice
      /\ submissions'[last].delivery = Verdict(w)
  BY Submitting
<1> HIDE DEF last
<1>2. SubmissionsOf(i)' = SubmissionsOf(i) \cup
        (IF i = job[w].invoice THEN {last} ELSE {})
  BY <1>1 DEF SubmissionsOf
<1>3. \A d \in Deliveries : Sent(i, d)' = Sent(i, d) \cup
        (IF i = job[w].invoice /\ d = Verdict(w) THEN {last} ELSE {})
  BY <1>1, <1>2 DEF Sent, SubmissionsOf
<1> QED
  BY <1>2, <1>3 DEF last

(* The counts that the trail keeps of the submissions of an invoice. *)
Matches(i) ==
  /\ Cardinality(Places(trail[i], "submitted")) = Cardinality(SubmissionsOf(i))
  /\ \A d \in Deliveries : Cardinality(Places(trail[i], d)) = Cardinality(Sent(i, d))

(* No step breaks the agreement: a send appends the events of its          *)
(* submission in the commit that inserts it, and nobody else appends such  *)
(* events.                                                                 *)
LEMMA MatchesStep ==
  ASSUME ScopeInv, SilentBefore, [Next]_vars, NEW i \in InvoiceIds, Matches(i)
  PROVE  Matches(i)'
<1>0. SafetyInv /\ TypeInv /\ trail[i] \in Seq(AuditEvent)
  BY DEF ScopeInv, SafetyInv, TypeInv, TypeOK
<1>1. CASE \A w \in Workers : ~SendCommit(w)
  <2>1. UNCHANGED submissions
    BY <1>0, <1>1, Writers DEF Quiet, TransformInsert, ArchiveCommit
  <2>2. \A type \in SendTypes : Places(trail'[i], type) = Places(trail[i], type)
    BY <1>1, CountsStay
  <2>3. SubmissionsOf(i)' = SubmissionsOf(i) /\ \A d : Sent(i, d)' = Sent(i, d)
    BY <2>1 DEF SubmissionsOf, Sent
  <2> QED
    BY <2>2, <2>3 DEF Matches, SendTypes
<1>2. ASSUME NEW w \in Workers, SendCommit(w) PROVE Matches(i)'
  <2> DEFINE last == Len(submissions) + 1
             events == SendEvents(job[w].retry, Verdict(w), WorkerRegion[w])
  <2>1. /\ last \notin DOMAIN submissions
        /\ i = job[w].invoice => trail'[i] = trail[i] \o events
        /\ i # job[w].invoice => trail'[i] = trail[i]
    BY <1>0, <1>2, Submitting
  <2>2. /\ SubmissionsOf(i)' = SubmissionsOf(i) \cup
             (IF i = job[w].invoice THEN {last} ELSE {})
        /\ \A d \in Deliveries : Sent(i, d)' = Sent(i, d) \cup
             (IF i = job[w].invoice /\ d = Verdict(w) THEN {last} ELSE {})
    BY <1>0, <1>2, CountsGrow
  <2>3. CASE i # job[w].invoice
    BY <2>1, <2>2, <2>3 DEF Matches
  <2>4. CASE i = job[w].invoice
    <3>1. job[w].retry \in BOOLEAN /\ Verdict(w) \in Deliveries
      BY <1>0, <1>2, BusyJob, VerdictType DEF SendCommit, Steps, TypeInv
    <3>2. events \in Seq(AuditEvent)
      BY <3>1, SendEventsType, WorkersAssumption
    <3>3. /\ \E m : Places(events, "submitted") = {m}
          /\ \E m : Places(events, Verdict(w)) = {m}
          /\ \A d \in Deliveries : d # Verdict(w) => Places(events, d) = {}
      <4>1. \A d \in Deliveries : d # "submitted" /\ d # "retried"
        BY DEF Deliveries
      <4> QED
        BY <3>1, <4>1, PlacesOfSend
    <3> HIDE DEF events, last
    <3>4. /\ IsFiniteSet(SubmissionsOf(i)) /\ last \notin SubmissionsOf(i)
          /\ \A d : IsFiniteSet(Sent(i, d)) /\ last \notin Sent(i, d)
      BY <1>0, <2>1, SubmissionsFinite DEF SubmissionsOf, Sent
    <3>5. ASSUME NEW type, NEW m, Places(events, type) = {m}
          PROVE  Cardinality(Places(trail'[i], type)) =
                   Cardinality(Places(trail[i], type)) + 1
      <4>1. Cardinality(Places(trail[i] \o events, type)) =
              Cardinality(Places(trail[i], type)) + 1
        <5>1. \A e \in Seq(AuditEvent) :
                Places(e, type) = {m} =>
                  Cardinality(Places(trail[i] \o e, type)) =
                    Cardinality(Places(trail[i], type)) + 1
          BY <1>0, PlacesAfter
        <5> QED
          BY <3>2, <3>5, <5>1
      <4> QED
        BY <2>1, <2>4, <4>1
    <3>6. Cardinality(Places(trail'[i], "submitted")) = Cardinality(SubmissionsOf(i)')
      <4>1. Cardinality(SubmissionsOf(i)') = Cardinality(SubmissionsOf(i)) + 1
        BY <2>2, <2>4, <3>4, FS_AddElement
      <4>2. Cardinality(Places(trail'[i], "submitted")) =
              Cardinality(Places(trail[i], "submitted")) + 1
        BY <3>3, <3>5
      <4> QED
        BY <4>1, <4>2 DEF Matches
    <3>7. ASSUME NEW d \in Deliveries
          PROVE  Cardinality(Places(trail'[i], d)) = Cardinality(Sent(i, d)')
      <4>1. CASE d = Verdict(w)
        <5>1. Cardinality(Sent(i, d)') = Cardinality(Sent(i, d)) + 1
          BY <2>2, <2>4, <3>4, <4>1, FS_AddElement
        <5>2. Cardinality(Places(trail'[i], d)) = Cardinality(Places(trail[i], d)) + 1
          BY <3>3, <3>5, <4>1
        <5> QED
          BY <5>1, <5>2 DEF Matches
      <4>2. CASE d # Verdict(w)
        <5>1. Sent(i, d)' = Sent(i, d)
          BY <2>2, <4>2
        <5>2. Places(events, d) = {}
          BY <3>3, <4>2
        <5>3. Places(trail[i] \o events, d) = Places(trail[i], d)
          BY <1>0, <3>2, <5>2, PlacesAfter
        <5> QED
          BY <2>1, <2>4, <5>1, <5>3 DEF Matches
      <4> QED
        BY <4>1, <4>2
    <3> QED
      BY <3>6, <3>7 DEF Matches
  <2> QED
    BY <2>3, <2>4
<1> QED
  BY <1>1, <1>2

-----------------------------------------------------------------------------
(* Where a thread may stand without having read a row. *)
Away == {"idle", "reply", "transform", "send", "insert", "load"}

(* The ways in which a thread comes to stand anywhere else. *)
Loads(v) ==
  LET i == job'[v].invoice
  IN  /\ job'[v].at \in {"prior", "archive", "official"}
      /\ i \in InvoiceIds /\ Exists(i) /\ job'[v].snap = invoices[i]
      /\ job'[v].at = "official" => invoices[i].document # "none"
      /\ job'[v].at = "archive" => invoices[i].status # "archived"

(* A send is admitted; it remembers if it is a retry. *)
Admits(v) ==
  /\ job[v].at = "prior" /\ Undelivered(v)
  /\ job'[v] = [job[v] EXCEPT !.at = "submit",
                              !.retry = SubmissionsOf(job[v].invoice) # {}]

(* The answer of the provider is there. *)
Submits(v) == job[v].at = "submit" /\ job'[v] = [job[v] EXCEPT !.at = "commit"]

(* What becomes of a thread that makes a step. *)
LEMMA OwnTurn ==
  ASSUME TypeInv, RowsOK, NEW v \in Workers, Step(v)
  PROVE  \/ job'[v].at \in Away
         \/ UNCHANGED database /\ (Loads(v) \/ Admits(v) \/ Submits(v))
<1>1. job[v].at \in Steps /\ job[v] \in Job /\ job \in [Workers -> Job \cup {Idle}]
  BY StepStarts, BusyJob DEF TypeInv, TypeOK
<1>2. ASSUME job'[v] = Idle PROVE job'[v].at \in Away
  BY <1>2 DEF Idle, Away
<1>3. ASSUME NEW outcome, NEW i, NEW n, Reply(v, outcome, i, n)
      PROVE  job'[v].at \in Away
  BY <1>1, <1>2, <1>3 DEF Reply
<1>4. Refuse(v) => job'[v].at \in Away
  BY <1>3 DEF Refuse
<1>5. Fail(v) => job'[v].at \in Away
  BY <1>1, <1>2 DEF Fail
<1>6. ASSUME NEW outcome, NEW i, NEW n, Committed(v, outcome, i, n)
      PROVE  job'[v].at \in Away
  <2>1. job'[v] = [Idle EXCEPT !.at = "reply", !.req = job[v].req, !.invoice = i,
                               !.outcome = outcome, !.submission = n]
    BY <1>1, <1>6 DEF Committed
  <2>2. job'[v].at = "reply"
    BY <2>1 DEF Idle
  <2> QED
    BY <2>2 DEF Away
<1>7. ASSUME NEW next, Continue(v, next) PROVE job'[v] = next /\ UNCHANGED database
  BY <1>1, <1>7 DEF Continue, database
<1>8. ASSUME job[v].at = "load"
      PROVE  job[v].invoice \in InvoiceIds
  BY <1>1, <1>8 DEF TypeInv, JobsOK, JobOK, Job, OrNone
<1>9. ASSUME NEW at \in {"prior", "archive", "official"}, NEW i \in InvoiceIds, Exists(i),
             at = "official" => invoices[i].document # "none",
             at = "archive" => invoices[i].status # "archived",
             Continue(v, [job[v] EXCEPT !.at = at, !.invoice = i, !.snap = invoices[i]])
      PROVE  UNCHANGED database /\ Loads(v)
  <2> DEFINE next == [job[v] EXCEPT !.at = at, !.invoice = i, !.snap = invoices[i]]
  <2>1. next.at = at /\ next.invoice = i /\ next.snap = invoices[i]
    BY <1>1 DEF Job
  <2> HIDE DEF next
  <2>2. job'[v] = next /\ UNCHANGED database
    BY <1>7, <1>9 DEF next
  <2> QED
    BY <1>9, <2>1, <2>2 DEF Loads
<1>10. ASSUME NEW at \in {"prior", "archive", "official"}, job[v].at = "load", Found(v),
              at = "official" => invoices[job[v].invoice].document # "none",
              at = "archive" => invoices[job[v].invoice].status # "archived",
              Continue(v, [job[v] EXCEPT !.at = at, !.snap = invoices[job[v].invoice]])
       PROVE  UNCHANGED database /\ Loads(v)
  <2> DEFINE next == [job[v] EXCEPT !.at = at, !.snap = invoices[job[v].invoice]]
  <2>1. /\ next.at = at /\ next.invoice = job[v].invoice
        /\ next.snap = invoices[job[v].invoice]
    BY <1>1 DEF Job
  <2> HIDE DEF next
  <2>2. job'[v] = next /\ UNCHANGED database
    BY <1>7, <1>10 DEF next
  <2> QED
    BY <1>8, <1>10, <2>1, <2>2 DEF Loads, Found
<1>11. CASE TransformReplay(v)
  <2>1. PICK i \in PriorInvoices(job[v].req) :
          \/ Refuse(v)
          \/ \E outcome : Reply(v, outcome, i, 0)
          \/ Continue(v, [job[v] EXCEPT !.at = "prior", !.invoice = i,
                                        !.snap = invoices[i]])
    BY <1>11 DEF TransformReplay
  <2>2. i \in InvoiceIds /\ Exists(i)
    BY DEF PriorInvoices, InvoicesWithKey, RowsOK, RowOK, Exists
  <2> QED
    BY <1>3, <1>4, <1>9, <2>1, <2>2
<1>12. CASE TransformAdmit(v)
  <2>1. Fail(v) \/ Continue(v, [job[v] EXCEPT !.at = "insert"])
    BY <1>12 DEF TransformAdmit
  <2> QED
    BY <1>1, <1>5, <1>7, <2>1 DEF Job, Away
<1>13. CASE TransformInsert(v)
  <2>1. PICK i \in InvoiceIds :
          \/ \E outcome : Committed(v, outcome, i, 0)
          \/ job' = [job EXCEPT ![v].at = "load", ![v].invoice = i]
    BY <1>13 DEF TransformInsert
  <2> QED
    BY <1>1, <1>6, <2>1 DEF Job, Away
<1>14. CASE SendProceed(v)
  <2>1. job'[v].at \in {"load", "transform"}
    BY <1>1, <1>7, <1>14 DEF SendProceed, Job
  <2> QED
    BY <2>1 DEF Away
<1>15. CASE SendLoad(v)
  BY <1>4, <1>10, <1>15 DEF SendLoad
<1>16. CASE SendAdmit(v)
  <2>1. Refuse(v) \/ Fail(v) \/
          Continue(v, [job[v] EXCEPT !.at = "submit",
                                     !.retry = SubmissionsOf(job[v].invoice) # {}])
    BY <1>16 DEF SendAdmit
  <2> QED
    BY <1>4, <1>5, <1>7, <1>16, <2>1 DEF SendAdmit, Admits
<1>17. CASE ProviderSubmit(v)
  BY <1>1, <1>17 DEF ProviderSubmit, Submits
<1>18. CASE ArchiveLoad(v)
  <2>1. \/ Refuse(v) \/ Fail(v) \/ \E i : Reply(v, "archived", i, 0)
        \/ /\ job[v].at = "load" /\ Found(v)
           /\ invoices[job[v].invoice].status # "archived"
           /\ Continue(v, [job[v] EXCEPT !.at = "archive",
                                         !.snap = invoices[job[v].invoice]])
    BY <1>18 DEF ArchiveLoad
  <2> QED
    BY <1>3, <1>4, <1>5, <1>10, <2>1
<1>19. CASE OfficialLoad(v)
  BY <1>4, <1>10, <1>19 DEF OfficialLoad
<1>20. CASE SendCommit(v) \/ ArchiveCommit(v)
  BY <1>6, <1>20 DEF SendCommit, ArchiveCommit
<1>21. CASE OfficialCommit(v) \/ WebhookTest(v)
  BY <1>4, <1>5, <1>6, <1>21 DEF OfficialCommit, WebhookTest
<1>22. CASE TransformRefuse(v) \/ SigningFails(v) \/ TransformConflict(v)
              \/ SendRefuse(v) \/ SendConflict(v)
  BY <1>4, <1>5, <1>22
  DEF TransformRefuse, SigningFails, TransformConflict, SendRefuse, SendConflict
<1>23. CASE SendReplay(v) \/ SendReplayPrior(v) \/ Deliver(v)
  BY <1>3, <1>4, <1>23 DEF SendReplay, SendReplayPrior, Deliver
<1> QED
  BY <1>11, <1>12, <1>13, <1>14, <1>15, <1>16, <1>17, <1>18, <1>19, <1>20, <1>21,
     <1>22, <1>23
  DEF Step, TransformStep, SendStep, RecordStep

(* So a thread that holds a snapshot held it before, has just read it, or  *)
(* went on with the one it held.                                           *)
LEMMA Turn ==
  ASSUME TypeInv, RowsOK, NEW v \in Workers, [Next]_vars
  PROVE  \/ job'[v] = job[v]
         \/ job'[v].at \in Away
         \/ UNCHANGED database /\ (Loads(v) \/ Admits(v) \/ Submits(v))
<1>1. ASSUME NEW w \in Workers, w # v, Step(w) PROVE job'[v] = job[v]
  <2>1. \E next : job' = [job EXCEPT ![w] = next]
    BY <1>1, OneJob
  <2> QED
    BY <1>1, <2>1 DEF TypeInv, TypeOK
<1>2. ASSUME NEW w \in Workers, NEW r \in Requests, Receive(w, r)
      PROVE  job'[v] = job[v] \/ job'[v].at \in Away
  <2>1. CASE w = v
    <3>1. job'[v].at \in {"transform", "send", "load"}
      BY <1>2, <2>1 DEF Receive, Idle, TypeInv, TypeOK
    <3> QED
      BY <3>1 DEF Away
  <2>2. CASE w # v
    BY <1>2, <2>2 DEF Receive, TypeInv, TypeOK
  <2> QED
    BY <2>1, <2>2
<1>3. ASSUME NEW region, NEW newRole, Restart(region, newRole)
      PROVE  job'[v] = job[v] \/ job'[v].at \in Away
  <2>1. job'[v] = job[v] \/ job'[v] = Idle
    BY <1>3 DEF Restart
  <2> QED
    BY <2>1 DEF Idle, Away
<1>4. CASE UNCHANGED vars
  BY <1>4 DEF vars
<1> QED
  BY <1>1, <1>2, <1>3, <1>4, OwnTurn DEF Next

-----------------------------------------------------------------------------
(* The document that an official result is of can be named. *)
Traceable(i) ==
  \/ invoices[i].document = "xml"
  \/ \E n \in EventsOf(i, "archived") : trail[i][n].document = "xml"

(* So can the document that an official validation is running on. *)
OfficialJobsTraceable ==
  \A w \in Workers : job[w].at = "official" => Traceable(job[w].invoice)

(* A document goes only with the archive whose event hashes it. *)
LEMMA TraceStays ==
  ASSUME SafetyInv, [Next]_vars, NEW i \in InvoiceIds, Exists(i), Traceable(i)
  PROVE  Traceable(i)'
<1>0. TypeInv /\ Grows(i)
  BY TrailStep DEF SafetyInv
<1>1. ASSUME NEW n \in EventsOf(i, "archived"), trail[i][n].document = "xml"
      PROVE  Traceable(i)'
  <2>1. n \in EventsOf(i, "archived")' /\ trail'[i][n] = trail[i][n]
    BY <1>0 DEF EventsOf, Grows
  <2> QED
    BY <1>1, <2>1 DEF Traceable
<1>2. CASE invoices'[i].document = "xml"
  BY <1>2 DEF Traceable
<1>3. ASSUME invoices[i].document = "xml", invoices'[i].document # "xml"
      PROVE  Traceable(i)'
  <2>1. ~Quiet
    BY <1>3 DEF Quiet
  <2>2. ASSUME NEW w \in Workers, TransformInsert(w) PROVE FALSE
    <3>1. PICK j \in InvoiceIds :
            /\ ~Exists(j)
            /\ invoices' = [invoices EXCEPT ![j] = NewInvoice(job[w].req, WorkerRegion[w])]
      BY <2>2, Inserting
    <3> QED
      BY <1>0, <1>3, <3>1 DEF TypeInv, TypeOK
  <2>3. ASSUME NEW w \in Workers, SendCommit(w) PROVE FALSE
    <3> DEFINE snap == job[w].snap
               new  == Delivered(snap, Verdict(w))
    <3>1. i = job[w].invoice /\ invoices'[i] = Flush(invoices[i], snap, new)
      BY <1>0, <1>3, <2>3 DEF SendCommit, TypeInv, TypeOK
    <3>2. /\ snap \in Invoice /\ invoices[i] \in Invoice
          /\ new \in Invoice /\ new.document = snap.document
      <4>1. snap \in Invoice /\ invoices[i] \in Invoice
        BY <2>3, <3>1, Committing
      <4>2. new \in Invoice
        BY <4>1, VerdictType, AssignmentsType
      <4>3. new.document = snap.document
        BY <4>1 DEF Delivered, Invoice
      <4> QED
        BY <4>1, <4>2, <4>3
    <3> HIDE DEF new, snap
    <3> QED
      BY <1>3, <3>1, <3>2, FlushColumns
  <2>4. ASSUME NEW w \in Workers, ArchiveCommit(w) PROVE Traceable(i)'
    <3> DEFINE snap  == job[w].snap
               new   == Archived(snap, job[w].req.redact)
               event == ArchivedEvent(snap, WorkerRegion[w])
               last  == Len(trail[i]) + 1
    <3>1. i = job[w].invoice /\ invoices'[i] = Flush(invoices[i], snap, new)
      BY <1>0, <1>3, <2>4 DEF ArchiveCommit, TypeInv, TypeOK
    <3>2. /\ snap \in Invoice /\ invoices[i] \in Invoice
          /\ new \in Invoice /\ (new.document = "none" \/ new.document = snap.document)
      <4>1. /\ snap \in Invoice /\ invoices[i] \in Invoice
            /\ job[w].req.redact \in BOOLEAN
        BY <2>4, <3>1, Committing, RequestData DEF Request
      <4>2. new \in Invoice
        BY <4>1, AssignmentsType DEF Deliveries
      <4>3. new.document = "none" \/ new.document = snap.document
        BY <4>1 DEF Archived, Invoice
      <4> QED
        BY <4>1, <4>2, <4>3
    <3>3. snap.document = "xml"
      <4>1. snap.document \in {"none", "xml"}
        BY <3>2 DEF Invoice
      <4> HIDE DEF new, snap
      <4> QED
        BY <1>3, <3>1, <3>2, <4>1, FlushColumns
    <3>4. event \in AuditEvent
      BY <2>4, Committing, WorkersAssumption
      DEF ArchivedEvent, AuditEvent, EventTypes, Invoice
    <3>5. last \in DOMAIN trail'[i] /\ trail'[i][last] = event
      BY <1>0, <2>4, <3>1, <3>4, AppendGrows DEF ArchiveCommit
    <3>6. event.type = "archived" /\ event.document = "xml"
      BY <3>3 DEF ArchivedEvent
    <3> HIDE DEF last, event
    <3>7. last \in EventsOf(i, "archived")'
      BY <3>5, <3>6 DEF EventsOf
    <3> QED
      BY <3>5, <3>6, <3>7 DEF Traceable
  <2> QED
    BY <1>0, <2>1, <2>2, <2>3, <2>4, Writers
<1> QED
  BY <1>1, <1>2, <1>3 DEF Traceable

(* The validator runs on a document that is there when it is read. *)
LEMMA OfficialJobsStep ==
  ASSUME ScopeInv, OfficialJobsTraceable, [Next]_vars
  PROVE  OfficialJobsTraceable'
<1> SUFFICES ASSUME NEW v \in Workers, job'[v].at = "official",
                    NEW i, i = job'[v].invoice
             PROVE  Traceable(i)'
  BY DEF OfficialJobsTraceable, Traceable, EventsOf
<1>0. SafetyInv /\ TypeInv /\ RowsOK
  BY DEF ScopeInv, SafetyInv
<1>1. CASE job'[v] = job[v]
  <2>1. Own(job[v].req, job[v].invoice)
    BY <1>1 DEF ScopeInv, JobsScoped, JobScoped, Acting
  <2> QED
    BY <1>0, <1>1, <2>1, TraceStays DEF OfficialJobsTraceable, Own
<1>2. CASE UNCHANGED database /\ Loads(v)
  <2>1. i \in InvoiceIds /\ invoices[i].document # "none"
    BY <1>2 DEF Loads
  <2>2. invoices[i].document \in {"none", "xml"}
    BY <1>0, <2>1 DEF TypeInv, TypeOK, Invoice
  <2> QED
    BY <1>2, <2>1, <2>2 DEF Traceable, database
<1>3. ~(job'[v].at \in Away)
  BY DEF Away
<1>4. ~Admits(v)
  BY <1>0, BusyJob DEF Admits, Steps, TypeInv, Job
<1>5. ~Submits(v)
  BY <1>0, BusyJob DEF Submits, Steps, TypeInv, Job
<1> QED
  BY <1>0, <1>1, <1>2, <1>3, <1>4, <1>5, Turn

(* An official result is noted by a thread that read a document. *)
LEMMA OfficialStep ==
  ASSUME ScopeInv, SilentBefore, OfficialJobsTraceable, OfficialResultsAreTraceable,
         [Next]_vars
  PROVE  OfficialResultsAreTraceable'
<1> SUFFICES ASSUME NEW i \in InvoiceIds, NEW type \in OfficialVerdicts,
                    Places(trail'[i], type) # {}
             PROVE  Traceable(i)'
  BY DEF OfficialResultsAreTraceable, Traceable, EventsOf, Places
<1>0. SafetyInv /\ TypeInv /\ trail[i] \in Seq(AuditEvent)
  BY DEF ScopeInv, SafetyInv, TypeInv, TypeOK
<1>1. CASE Places(trail[i], type) # {}
  <2>1. Exists(i)
    BY <1>1 DEF SilentBefore, Places
  <2>2. Traceable(i)
    BY <1>1 DEF OfficialResultsAreTraceable, Traceable, EventsOf, Places
  <2> QED
    BY <1>0, <2>1, <2>2, TraceStays
<1>2. CASE Places(trail[i], type) = {}
  <2>1. trail'[i] # trail[i]
    BY <1>2
  <2>2. ASSUME NEW w \in Workers, TransformInsert(w) PROVE FALSE
    <3> DEFINE events == TransformEvents(job[w].req.payload.body, WorkerRegion[w])
    <3>1. PICK j \in InvoiceIds : trail' = [trail EXCEPT ![j] = events]
      BY <2>2 DEF TransformInsert
    <3>2. trail'[i] = events
      BY <1>0, <2>1, <3>1 DEF TypeInv, TypeOK
    <3>3. events \in Seq(OfTypes(TransformTypes))
      BY <1>0, <2>2, Inserting, RequestData, TransformEventTypes, WorkersAssumption
    <3>4. \A event \in OfTypes(TransformTypes) : event.type # type
      BY DEF OfTypes, TransformTypes, OfficialVerdicts
    <3> HIDE DEF events
    <3>5. \A n \in DOMAIN events : events[n] \in OfTypes(TransformTypes)
      BY <3>3
    <3> QED
      BY <3>2, <3>4, <3>5 DEF Places
  <2>3. ASSUME NEW w \in Workers, SendCommit(w) PROVE FALSE
    <3> DEFINE events == SendEvents(job[w].retry, Verdict(w), WorkerRegion[w])
    <3>1. trail'[i] = trail[i] \o events
      BY <1>0, <2>1, <2>3, Submitting
    <3>2. job[w].retry \in BOOLEAN /\ Verdict(w) \in Deliveries
      BY <1>0, <2>3, BusyJob, VerdictType DEF SendCommit, Steps, TypeInv
    <3>3. events \in Seq(AuditEvent)
      BY <3>2, SendEventsType, WorkersAssumption
    <3>4. type \notin {"submitted", "retried"} \cup Deliveries
      BY DEF OfficialVerdicts, Deliveries
    <3>5. Places(events, type) = {}
      BY <3>2, <3>4, PlacesOfSend
    <3> HIDE DEF events
    <3>6. Places(trail[i] \o events, type) = Places(trail[i], type)
      BY <1>0, <3>3, <3>5, PlacesAfter
    <3> QED
      BY <1>2, <3>1, <3>6
  <2>4. ASSUME NEW w \in Workers, ArchiveCommit(w) PROVE FALSE
    <3> DEFINE event == ArchivedEvent(job[w].snap, WorkerRegion[w])
    <3>1. trail'[i] = Append(trail[i], event)
      BY <1>0, <2>1, <2>4 DEF ArchiveCommit, TypeInv, TypeOK
    <3>2. event \in AuditEvent
      BY <1>0, <2>4, Committing, WorkersAssumption
      DEF ArchivedEvent, AuditEvent, EventTypes, Invoice
    <3>3. event.type # type
      BY DEF ArchivedEvent, OfficialVerdicts
    <3> HIDE DEF event
    <3> QED
      BY <1>0, <1>2, <3>1, <3>2, <3>3, PlacesAfterOne
  <2>5. ASSUME NEW w \in Workers, NEW note \in Notes, Noting(w, note)
        PROVE  Traceable(i)'
    <3> DEFINE event == Event(note, WorkerRegion[w])
    <3>1. i = job[w].invoice
      BY <1>0, <2>1, <2>5 DEF Noting, TypeInv, TypeOK
    <3>2. trail'[i] = Append(trail[i], event)
      BY <1>0, <2>5, <3>1 DEF Noting, TypeInv, TypeOK
    <3>3. event \in AuditEvent /\ event.type = note
      BY EventType, WorkersAssumption DEF Event, Notes, OfficialVerdicts, EventTypes
    <3> HIDE DEF event
    <3>4. note = type
      BY <1>0, <1>2, <3>2, <3>3, PlacesAfterOne
    <3>5. job[w].at = "official"
      BY <2>5, <3>4 DEF Noting
    <3> QED
      BY <1>0, <2>5, <3>1, <3>5, NotedExists, TraceStays DEF OfficialJobsTraceable
  <2> QED
    BY <2>1, <2>2, <2>3, <2>4, <2>5, TrailWriters DEF database
<1> QED
  BY <1>1, <1>2

(* What the trail tells of submissions and of official results. *)
TrailInv ==
  /\ ScopeInv /\ SilentBefore /\ OfficialJobsTraceable /\ OfficialResultsAreTraceable
  /\ \A i \in InvoiceIds : Matches(i)

(* TrailInv holds in every reachable state. *)
LEMMA TrailInvariant == Spec => []TrailInv
<1>1. Init => TrailInv
  <2> SUFFICES ASSUME Init PROVE TrailInv
    OBVIOUS
  <2>1. ScopeInv
    BY InitScope
  <2>2. \A i \in InvoiceIds : trail[i] = << >>
    BY DEF Init
  <2>3. SilentBefore /\ OfficialResultsAreTraceable
    BY <2>2 DEF SilentBefore, OfficialResultsAreTraceable, EventsOf
  <2>4. OfficialJobsTraceable
    BY DEF Init, OfficialJobsTraceable, Idle
  <2>5. \A i \in InvoiceIds : Matches(i)
    <3>1. \A i \in InvoiceIds : \A type : Places(trail[i], type) = {}
      BY <2>2 DEF Places
    <3>2. \A i \in InvoiceIds : SubmissionsOf(i) = {} /\ \A d : Sent(i, d) = {}
      BY DEF Init, SubmissionsOf, Sent
    <3> QED
      BY <3>1, <3>2 DEF Matches
  <2> QED
    BY <2>1, <2>3, <2>4, <2>5 DEF TrailInv
<1>2. TrailInv /\ [Next]_vars => TrailInv'
  <2> SUFFICES ASSUME TrailInv, [Next]_vars PROVE TrailInv'
    OBVIOUS
  <2>1. ScopeInv'
    BY NextScope DEF TrailInv
  <2>2. SilentBefore' /\ OfficialJobsTraceable' /\ OfficialResultsAreTraceable'
    BY SilentStep, OfficialJobsStep, OfficialStep DEF TrailInv
  <2>3. \A i \in InvoiceIds : Matches(i)'
    BY MatchesStep DEF TrailInv
  <2> QED
    BY <2>1, <2>2, <2>3 DEF TrailInv
<1> QED
  BY <1>1, <1>2, PTL DEF Spec

(* The audit trail and the submissions tell one story: every submission    *)
(* has its "submitted" event and the event of its verdict, and no event is *)
(* left of a send that crashed, lost its key or was rolled back (the       *)
(* commit of send, invoices.py:333).                                       *)
THEOREM TrailTellsOfSubmissions == Spec => []TrailMatchesSubmissions
<1>1. TrailInv => TrailMatchesSubmissions
  BY DEF TrailInv, Matches, TrailMatchesSubmissions, EventsOf, Places, Sent
<1> QED
  BY <1>1, TrailInvariant, PTL

(* Every official result is of a document that is stored or that an        *)
(* "archived" event hashes, also when an archive redacts it while the      *)
(* validator runs (official_validate, invoices.py:399).                    *)
THEOREM OfficialResultsTraceable == Spec => []OfficialResultsAreTraceable
<1>1. TrailInv => OfficialResultsAreTraceable
  BY DEF TrailInv
<1> QED
  BY <1>1, TrailInvariant, PTL

-----------------------------------------------------------------------------
(* The tables, read as a ledger.                                           *)

(* What a row is to the ledger. *)
LEMMA LedgerRows ==
  ASSUME TypeInv, RowsOK, NEW i \in InvoiceIds
  PROVE  /\ LedgerRegistered[i] = "no" <=> ~Exists(i)
         /\ LedgerRegistered[i] = "valid" <=> invoices[i].validation = "passed"
         /\ LedgerContent[i] = "none" <=> ~Exists(i)
         /\ LedgerContent[i] = "stored" <=> invoices[i].payload = "original"
<1>1. /\ invoices[i].validation \in {"none", "passed", "failed"}
      /\ invoices[i].payload \in {"none", "original", "redacted"}
  BY DEF TypeInv, TypeOK, Invoice
<1>2. /\ invoices[i].validation = "none" <=> ~Exists(i)
      /\ invoices[i].payload = "none" <=> ~Exists(i)
  BY DEF RowsOK, RowOK, Exists
<1>3. /\ LedgerRegistered[i] = "no" <=> invoices[i].validation = "none"
      /\ LedgerRegistered[i] = "valid" <=> invoices[i].validation = "passed"
  BY <1>1 DEF LedgerRegistered, Registration
<1>4. /\ LedgerContent[i] = "none" <=> invoices[i].payload = "none"
      /\ LedgerContent[i] = "stored" <=> invoices[i].payload = "original"
  BY <1>1 DEF LedgerContent, Content
<1> QED
  BY <1>2, <1>3, <1>4

(* The columns of a row that the ledger knows. *)
SameEntry(i) ==
  /\ invoices'[i].validation = invoices[i].validation
  /\ invoices'[i].key = invoices[i].key
  /\ invoices'[i].payload = invoices[i].payload

(* Rows that keep these columns leave the ledger as it is. *)
LEMMA SameLedgerRows ==
  ASSUME \A i \in InvoiceIds : SameEntry(i)
  PROVE  UNCHANGED <<LedgerRegistered, LedgerKeys, LedgerContent>>
<1>1. LedgerRegistered' = LedgerRegistered
  BY DEF SameEntry, LedgerRegistered
<1>2. LedgerKeys' = LedgerKeys /\ LedgerContent' = LedgerContent
  BY DEF SameEntry, LedgerKeys, LedgerContent
<1> QED
  BY <1>1, <1>2

(* No evidence comes but with an archive. *)
LEMMA SameEvidence ==
  ASSUME NEW i \in InvoiceIds, Grows(i),
         Places(trail'[i], "archived") = Places(trail[i], "archived"),
         invoices'[i].validation = invoices[i].validation
  PROVE  HasEvidence(i, invoices[i])' <=> HasEvidence(i, invoices[i])
<1>1. EventsOf(i, "archived")' = EventsOf(i, "archived")
  BY DEF Places, EventsOf
<1>2. \A n \in EventsOf(i, "archived") : trail'[i][n] = trail[i][n]
  BY DEF EventsOf, Grows
<1> QED
  BY <1>1, <1>2 DEF HasEvidence

(* An event of another type is no evidence. *)
LEMMA OtherEvents ==
  ASSUME SafetyInv, [Next]_vars, NEW i \in InvoiceIds,
         \A w \in Workers : ~TransformInsert(w) /\ ~ArchiveCommit(w)
  PROVE  Places(trail'[i], "archived") = Places(trail[i], "archived")
<1>0. TypeInv /\ trail[i] \in Seq(AuditEvent) /\ trail \in [InvoiceIds -> Seq(AuditEvent)]
  BY DEF SafetyInv, TypeInv, TypeOK
<1>1. CASE trail'[i] = trail[i]
  BY <1>1
<1>2. ASSUME NEW w \in Workers, SendCommit(w), trail'[i] # trail[i]
      PROVE  Places(trail'[i], "archived") = Places(trail[i], "archived")
  <2> DEFINE events == SendEvents(job[w].retry, Verdict(w), WorkerRegion[w])
  <2>1. trail'[i] = trail[i] \o events
    BY <1>0, <1>2, Submitting
  <2>2. job[w].retry \in BOOLEAN /\ Verdict(w) \in Deliveries
    BY <1>0, <1>2, BusyJob, VerdictType DEF SendCommit, Steps, TypeInv
  <2>3. events \in Seq(AuditEvent)
    BY <2>2, SendEventsType, WorkersAssumption
  <2>4. "archived" \notin {"submitted", "retried"} \cup Deliveries
    BY DEF Deliveries
  <2>5. Places(events, "archived") = {}
    BY <2>2, <2>4, PlacesOfSend
  <2> HIDE DEF events
  <2>6. Places(trail[i] \o events, "archived") = Places(trail[i], "archived")
    BY <1>0, <2>3, <2>5, PlacesAfter
  <2> QED
    BY <2>1, <2>6
<1>3. ASSUME NEW w \in Workers, NEW note \in Notes, Noting(w, note), trail'[i] # trail[i]
      PROVE  Places(trail'[i], "archived") = Places(trail[i], "archived")
  <2> DEFINE event == Event(note, WorkerRegion[w])
  <2>1. trail'[i] = Append(trail[i], event)
    BY <1>0, <1>3 DEF Noting
  <2>2. event \in AuditEvent /\ event.type # "archived"
    BY EventType, WorkersAssumption DEF Event, Notes, OfficialVerdicts, EventTypes
  <2> HIDE DEF event
  <2> QED
    BY <1>0, <2>1, <2>2, PlacesAfterOne
<1> QED
  BY <1>1, <1>2, <1>3, TrailWriters DEF database

(* Where there is neither an insert nor an archive, what is attested stays *)
(* as it was.                                                              *)
LEMMA SameAttested ==
  ASSUME SafetyInv, SilentBefore, [Next]_vars,
         \A w \in Workers : ~TransformInsert(w) /\ ~ArchiveCommit(w),
         \A i \in InvoiceIds : SameEntry(i)
  PROVE  UNCHANGED LedgerAttested
<1>1. ASSUME NEW i \in InvoiceIds, Exists(i)
      PROVE  HasEvidence(i, invoices[i])' <=> HasEvidence(i, invoices[i])
  BY <1>1, OtherEvents, SameEvidence, TrailStep DEF SameEntry
<1>2. ASSUME NEW i \in InvoiceIds, ~Exists(i)
      PROVE  HasEvidence(i, invoices[i])' <=> HasEvidence(i, invoices[i])
  <2>1. Places(trail[i], "archived") = {}
    BY <1>2 DEF SilentBefore, Places
  <2>2. Places(trail'[i], "archived") = {}
    BY <2>1, OtherEvents
  <2> QED
    BY <2>1, <2>2 DEF HasEvidence, EventsOf, Places
<1> QED
  BY <1>1, <1>2 DEF LedgerAttested

(* A change of one row is a change of one entry of the ledger. *)
LEMMA OneLedgerRow ==
  ASSUME NEW j \in InvoiceIds, \A i \in InvoiceIds : i # j => SameEntry(i)
  PROVE  /\ LedgerRegistered' =
              [LedgerRegistered EXCEPT ![j] = Registration(invoices'[j].validation)]
         /\ LedgerKeys' = [LedgerKeys EXCEPT ![j] = invoices'[j].key]
         /\ LedgerContent' = [LedgerContent EXCEPT ![j] = Content(invoices'[j].payload)]
<1>1. LedgerRegistered' =
        [LedgerRegistered EXCEPT ![j] = Registration(invoices'[j].validation)]
  BY DEF SameEntry, LedgerRegistered
<1>2. LedgerKeys' = [LedgerKeys EXCEPT ![j] = invoices'[j].key]
  BY DEF SameEntry, LedgerKeys
<1>3. LedgerContent' = [LedgerContent EXCEPT ![j] = Content(invoices'[j].payload)]
  BY DEF SameEntry, LedgerContent
<1> QED
  BY <1>1, <1>2, <1>3

(* The submissions as the ledger lists them. *)
LedgerEntries ==
  [invoice : InvoiceIds, key : OrNone(Keys), verdict : Deliveries]

(* The ledger lists what the table of submissions lists. *)
LEMMA SentList ==
  ASSUME submissions \in Seq(Submission)
  PROVE  /\ LedgerSent \in Seq(LedgerEntries)
         /\ Len(LedgerSent) = Len(submissions)
         /\ \A n \in 1..Len(submissions) : LedgerSent[n] = LedgerEntry(submissions[n])
<1>1. DOMAIN submissions = 1..Len(submissions) /\ Len(submissions) \in Nat
  OBVIOUS
<1>2. \A s \in Submission : LedgerEntry(s) \in LedgerEntries
  BY DEF Submission, LedgerEntry, LedgerEntries
<1>3. \A n \in 1..Len(submissions) : LedgerEntry(submissions[n]) \in LedgerEntries
  BY <1>2
<1>4. LedgerSent = [n \in 1..Len(submissions) |-> LedgerEntry(submissions[n])]
  BY <1>1 DEF LedgerSent
<1> QED
  BY <1>1, <1>3, <1>4

(* A submission more in the table is one more in the ledger. *)
LEMMA SentGrows ==
  ASSUME submissions \in Seq(Submission), NEW s \in Submission,
         submissions' = Append(submissions, s)
  PROVE  LedgerSent' = Append(LedgerSent, LedgerEntry(s))
<1> DEFINE later == Append(LedgerSent, LedgerEntry(s))
<1>1. submissions' \in Seq(Submission) /\ Len(submissions') = Len(submissions) + 1
  OBVIOUS
<1>2. /\ LedgerSent' \in Seq(LedgerEntries)
      /\ Len(LedgerSent') = Len(submissions')
      /\ \A n \in 1..Len(submissions') : LedgerSent'[n] = LedgerEntry(submissions'[n])
  <2>1. /\ DOMAIN submissions' = 1..Len(submissions') /\ Len(submissions') \in Nat
        /\ \A n \in 1..Len(submissions') : submissions'[n] \in Submission
    BY <1>1
  <2>2. \A t \in Submission : LedgerEntry(t) \in LedgerEntries
    BY DEF Submission, LedgerEntry, LedgerEntries
  <2>3. \A n \in 1..Len(submissions') : LedgerEntry(submissions'[n]) \in LedgerEntries
    BY <2>1, <2>2
  <2>4. LedgerSent' = [n \in 1..Len(submissions') |-> LedgerEntry(submissions'[n])]
    BY <2>1 DEF LedgerSent
  <2> QED
    BY <2>1, <2>3, <2>4
<1>3. LedgerEntry(s) \in LedgerEntries
  BY DEF Submission, LedgerEntry, LedgerEntries
<1>4. /\ LedgerSent \in Seq(LedgerEntries) /\ Len(LedgerSent) = Len(submissions)
      /\ \A n \in 1..Len(submissions) : LedgerSent[n] = LedgerEntry(submissions[n])
  BY SentList
<1>5. /\ later \in Seq(LedgerEntries) /\ Len(later) = Len(submissions) + 1
      /\ \A n \in 1..Len(submissions) : later[n] = LedgerEntry(submissions[n])
      /\ later[Len(submissions) + 1] = LedgerEntry(s)
  BY <1>3, <1>4
<1>6. /\ \A n \in 1..Len(submissions) : submissions'[n] = submissions[n]
      /\ submissions'[Len(submissions) + 1] = s
  OBVIOUS
<1> HIDE DEF later
<1>7. \A n \in 1..(Len(submissions) + 1) : LedgerSent'[n] = later[n]
  <2>1. \A n \in 1..(Len(submissions) + 1) :
          n \in 1..Len(submissions) \/ n = Len(submissions) + 1
    BY <1>1
  <2> QED
    BY <1>1, <1>2, <1>5, <1>6, <2>1
<1> QED
  BY <1>1, <1>2, <1>5, <1>7, SeqEqual DEF later

(* An insert registers an invoice, *)
LEMMA RegisterStep ==
  ASSUME ScopeInv, SilentBefore, [Next]_vars, NEW w \in Workers, TransformInsert(w)
  PROVE  \E j \in InvoiceIds, k \in Keys \cup {None}, v \in {"valid", "invalid"} :
           Ledger!Register(j, k, v)
<1> DEFINE r   == job[w].req
           row == NewInvoice(r, WorkerRegion[w])
           k   == TransformKey(r)
           v   == IF r.payload.body.compliant THEN "valid" ELSE "invalid"
<1>0. SafetyInv /\ TypeInv /\ RowsOK
  BY DEF ScopeInv, SafetyInv
<1>1. r \in Requests /\ r.payload # None /\ k \in Keys \cup {None}
  BY <1>0, Inserting, RequestData DEF OrNone
<1>2. PICK j \in InvoiceIds :
        /\ ~Exists(j) /\ invoices' = [invoices EXCEPT ![j] = row]
        /\ trail' = [trail EXCEPT ![j] =
             TransformEvents(r.payload.body, WorkerRegion[w])]
        /\ UNCHANGED submissions
  BY DEF TransformInsert, NextId
<1>3. invoices'[j] = row /\ \A i \in InvoiceIds : i # j => invoices'[i] = invoices[i]
  BY <1>0, <1>2 DEF TypeInv, TypeOK
<1>4. row.key = k /\ row.payload = "original" /\ Registration(row.validation) = v
  BY DEF NewInvoice, Registration
<1>5. LedgerRegistered[j] = "no"
  BY <1>0, <1>2, LedgerRows
<1>6. k # None => \A i \in InvoiceIds : LedgerKeys[i] # k
  BY <1>0, Inserting DEF LedgerKeys
<1> HIDE DEF row, k, v
<1>7. /\ LedgerRegistered' = [LedgerRegistered EXCEPT ![j] = v]
      /\ LedgerKeys' = [LedgerKeys EXCEPT ![j] = k]
      /\ LedgerContent' = [LedgerContent EXCEPT ![j] = "stored"]
  <2>1. Content("original") = "stored"
    BY DEF Content
  <2>2. \A i \in InvoiceIds : i # j => SameEntry(i)
    BY <1>3 DEF SameEntry
  <2> QED
    BY <1>3, <1>4, <2>1, <2>2, OneLedgerRow
<1>8. UNCHANGED LedgerSent
  BY <1>2 DEF LedgerSent
<1>9. UNCHANGED LedgerAttested
  <2>1. \A i \in InvoiceIds : i # j =>
          (HasEvidence(i, invoices[i])' <=> HasEvidence(i, invoices[i]))
    <3>1. \A i \in InvoiceIds : i # j => trail'[i] = trail[i]
      BY <1>0, <1>2 DEF TypeInv, TypeOK
    <3> QED
      BY <1>3, <3>1 DEF HasEvidence, EventsOf
  <2>2. ~HasEvidence(j, invoices[j])
    BY <1>2 DEF SilentBefore, HasEvidence, EventsOf
  <2>3. ~HasEvidence(j, invoices[j])'
    <3> DEFINE events == TransformEvents(r.payload.body, WorkerRegion[w])
    <3>1. events \in Seq(OfTypes(TransformTypes))
      BY <1>1, RequestData, TransformEventTypes, WorkersAssumption
    <3>2. \A event \in OfTypes(TransformTypes) : event.type # "archived"
      BY DEF OfTypes, TransformTypes
    <3>3. trail'[j] = events
      BY <1>0, <1>2 DEF TypeInv, TypeOK
    <3> HIDE DEF events
    <3>4. \A n \in DOMAIN events : events[n] \in OfTypes(TransformTypes)
      BY <3>1
    <3> QED
      BY <3>2, <3>3, <3>4 DEF HasEvidence, EventsOf
  <2> QED
    BY <2>1, <2>2, <2>3 DEF LedgerAttested
<1>10. v \in {"valid", "invalid"}
  BY DEF v
<1>11. Ledger!Register(j, k, v)
  BY <1>5, <1>6, <1>7, <1>8, <1>9 DEF Ledger!Register
<1> QED
  BY <1>1, <1>10, <1>11

(* a send submits one, *)
LEMMA SubmitStep ==
  ASSUME ScopeInv, SilentBefore, [Next]_vars, NEW w \in Workers, SendCommit(w)
  PROVE  \E i \in InvoiceIds, k \in Keys \cup {None}, v \in Deliveries :
           Ledger!Submit(i, k, v)
<1> DEFINE i    == job[w].invoice
           k    == SendKey(job[w].req)
           snap == job[w].snap
<1>0. SafetyInv /\ TypeInv /\ RowsOK /\ submissions \in Seq(Submission)
  BY DEF ScopeInv, SafetyInv, TypeInv, TypeOK
<1>1. /\ i \in InvoiceIds /\ k \in Keys \cup {None} /\ Verdict(w) \in Deliveries
      /\ snap \in Invoice /\ invoices[i] \in Invoice
      /\ RowOK(invoices[i]) /\ StillTrue(snap, invoices[i])
  BY <1>0, Committing, RequestData, VerdictType DEF OrNone
<1>2. PICK s : /\ submissions' = Append(submissions, s)
               /\ s = [invoice |-> i, delivery |-> Verdict(w),
                       region |-> WorkerRegion[w], key |-> k,
                       hash |-> IF k = None THEN None ELSE SendHash(job[w].req)]
  BY DEF SendCommit
<1>3. s \in Submission /\ LedgerEntry(s) = [invoice |-> i, key |-> k, verdict |-> Verdict(w)]
  <2>1. SendHash(job[w].req) \in SendHashes
    BY <1>0, Committing, RequestData
  <2>2. s \in Submission
    BY <1>1, <1>2, <2>1, WorkersAssumption DEF Submission, OrNone
  <2>3. LedgerEntry(s) = [invoice |-> i, key |-> k, verdict |-> Verdict(w)]
    BY <1>2 DEF LedgerEntry
  <2> QED
    BY <2>2, <2>3
<1> HIDE DEF k
<1>4. LedgerSent' = Append(LedgerSent, [invoice |-> i, key |-> k, verdict |-> Verdict(w)])
  BY <1>0, <1>2, <1>3, SentGrows
<1>5. LedgerRegistered[i] = "valid"
  <2>1. snap.validation = "passed"
    BY <1>0 DEF SendCommit, SafetyInv, SnapsOK, SnapOK, Sending, Sendable
  <2> QED
    BY <1>0, <1>1, <2>1, LedgerRows DEF StillTrue
<1>6. k # None => \A n \in DOMAIN LedgerSent : LedgerSent[n].key # k
  <2>1. k # None => \A n \in DOMAIN submissions : submissions[n].key # k
    BY DEF SendCommit, SendKeyFree, SubmissionsWithKey, k
  <2> QED
    BY <2>1 DEF LedgerSent, LedgerEntry
<1>7. \A j \in InvoiceIds : SameEntry(j)
  <2>1. invoices' = [invoices EXCEPT ![i] =
                       Flush(@, snap, Delivered(snap, Verdict(w)))]
    BY DEF SendCommit
  <2>2. /\ invoices'[i] = Flush(invoices[i], snap, Delivered(snap, Verdict(w)))
        /\ \A j \in InvoiceIds : j # i => invoices'[j] = invoices[j]
    BY <1>0, <1>1, <2>1 DEF TypeInv, TypeOK
  <2>3. SameEntry(i)
    BY <1>1, <2>2, SendKeeps DEF Kept, SameEntry
  <2> QED
    BY <2>2, <2>3 DEF SameEntry
<1>8. UNCHANGED <<LedgerRegistered, LedgerKeys, LedgerContent>>
  BY <1>7, SameLedgerRows
<1>9. UNCHANGED LedgerAttested
  <2>1. \A v \in Workers : ~TransformInsert(v) /\ ~ArchiveCommit(v)
    <3>1. submissions' # submissions
      BY <1>0, <1>2, <1>3
    <3> QED
      BY <3>1 DEF TransformInsert, ArchiveCommit
  <2> QED
    BY <1>0, <1>7, <2>1, SameAttested
<1>10. Ledger!Submit(i, k, Verdict(w))
  BY <1>4, <1>5, <1>6, <1>8, <1>9 DEF Ledger!Submit
<1> QED
  BY <1>1, <1>10 DEF k

(* and an archive attests one, and erases it only then.                    *)
LEMMA AttestStep ==
  ASSUME ScopeInv, SilentBefore, [Next]_vars, NEW w \in Workers, ArchiveCommit(w)
  PROVE  \E i \in InvoiceIds, redact \in BOOLEAN : Ledger!Attest(i, redact)
<1>i. PICK i \in InvoiceIds : i = job[w].invoice
  BY Committing DEF ScopeInv
<1> DEFINE snap == job[w].snap
           redact == job[w].req.redact
           new   == Archived(snap, redact)
           event == ArchivedEvent(snap, WorkerRegion[w])
           last  == Len(trail[i]) + 1
<1>0. SafetyInv /\ TypeInv /\ RowsOK /\ EvidenceKept
  BY DEF ScopeInv, SafetyInv
<1>1. /\ i \in InvoiceIds /\ snap \in Invoice /\ invoices[i] \in Invoice
      /\ RowOK(invoices[i]) /\ RowOK(snap) /\ StillTrue(snap, invoices[i])
      /\ redact \in BOOLEAN
  BY <1>0, <1>i, Committing, RequestData DEF Request
<1>2. /\ invoices'[i] = Flush(invoices[i], snap, new)
      /\ \A j \in InvoiceIds : j # i => invoices'[j] = invoices[j]
      /\ \A j \in InvoiceIds : j # i => trail'[j] = trail[j]
      /\ UNCHANGED submissions
  BY <1>0, <1>i DEF ArchiveCommit, TypeInv, TypeOK
<1>3. RowOK(invoices'[i]) /\ Kept(invoices[i], invoices'[i]) /\ Grows(i)
  <2>1. Exists(i)
    BY <1>1 DEF StillTrue, Exists
  <2> QED
    BY <1>0, <1>1, <2>1, RowStep, TrailStep
<1>4. /\ invoices[i].payload \in {"original", "redacted"}
      /\ invoices'[i].payload \in {"original", "redacted"}
      /\ snap.payload \in {"original", "redacted"}
      /\ invoices[i].payload = "original" => snap.payload = "original"
      /\ invoices[i].payload = "redacted" => invoices'[i].payload = "redacted"
  <2>1. invoices'[i] \in Invoice
    <3>1. TypeInv'
      BY <1>0, NextType
    <3> QED
      BY <1>1, <3>1 DEF TypeInv, TypeOK
  <2> QED
    BY <1>1, <1>3, <2>1 DEF Invoice, RowOK, StillTrue, Kept
<1>5. LedgerContent[i] # "none"
  BY <1>0, <1>1, LedgerRows DEF StillTrue, Exists
<1>6. i \in LedgerAttested \/ LedgerContent[i] = "stored"
  <2>1. CASE invoices[i].payload = "original"
    BY <1>0, <1>1, <2>1, LedgerRows
  <2>2. CASE invoices[i].payload = "redacted"
    BY <1>0, <1>1, <2>2 DEF EvidenceKept, Redacted, LedgerAttested
  <2> QED
    BY <1>4, <2>1, <2>2
<1>7. HasEvidence(i, invoices[i])'
  <2>1. CASE HasEvidence(i, invoices[i])
    BY <1>0, <1>1, <1>3, <2>1, EvidenceStays
  <2>2. CASE ~HasEvidence(i, invoices[i])
    <3>1. invoices[i].payload = "original" /\ snap.payload = "original"
      BY <1>0, <1>1, <1>4, <2>2 DEF EvidenceKept, Redacted
    <3>2. invoices'[i].validation = snap.validation
      BY <1>1, <1>3 DEF Kept, StillTrue
    <3>3. event \in AuditEvent
      BY <1>1, WorkersAssumption DEF ArchivedEvent, AuditEvent, EventTypes, Invoice
    <3>4. last \in DOMAIN trail'[i] /\ trail'[i][last] = event
      BY <1>0, <1>i, <3>3, AppendGrows DEF ArchiveCommit
    <3>5. /\ event.type = "archived" /\ event.payload = "original"
          /\ invoices'[i].validation = "passed" => event.document = "xml"
      BY <1>1, <3>1, <3>2 DEF ArchivedEvent, RowOK
    <3> HIDE DEF last, event
    <3>6. last \in EventsOf(i, "archived")'
      BY <3>4, <3>5 DEF EventsOf
    <3> QED
      BY <3>4, <3>5, <3>6 DEF HasEvidence
  <2> QED
    BY <2>1, <2>2
<1>8. LedgerAttested' = LedgerAttested \cup {i}
  <2>1. \A j \in InvoiceIds : j # i =>
          (HasEvidence(j, invoices[j])' <=> HasEvidence(j, invoices[j]))
    BY <1>2 DEF HasEvidence, EventsOf
  <2> QED
    BY <1>1, <1>7, <2>1 DEF LedgerAttested
<1>9. /\ LedgerRegistered' = [LedgerRegistered EXCEPT ![i] =
                                Registration(invoices'[i].validation)]
      /\ LedgerKeys' = [LedgerKeys EXCEPT ![i] = invoices'[i].key]
      /\ LedgerContent' = [LedgerContent EXCEPT ![i] = Content(invoices'[i].payload)]
  <2>1. \A j \in InvoiceIds : j # i => SameEntry(j)
    BY <1>2 DEF SameEntry
  <2> QED
    BY <1>1, <2>1, OneLedgerRow
<1>10. UNCHANGED <<LedgerRegistered, LedgerKeys, LedgerSent>>
  <2>1. LedgerRegistered' = LedgerRegistered
    BY <1>1, <1>3, <1>9 DEF Kept, LedgerRegistered
  <2>2. LedgerKeys' = LedgerKeys
    BY <1>1, <1>3, <1>9 DEF Kept, LedgerKeys
  <2>3. LedgerSent' = LedgerSent
    BY <1>2 DEF LedgerSent
  <2> QED
    BY <2>1, <2>2, <2>3
<1>11. CASE invoices'[i].payload = "redacted"
  <2>1. LedgerContent' = [LedgerContent EXCEPT ![i] = "erased"]
    BY <1>9, <1>11 DEF Content
  <2>2. Ledger!Attest(i, TRUE)
    BY <1>5, <1>6, <1>8, <1>10, <2>1 DEF Ledger!Attest
  <2> QED
    BY <1>1, <2>2
<1>12. CASE invoices'[i].payload = "original"
  <2>1. LedgerContent' = LedgerContent
    BY <1>1, <1>4, <1>9, <1>12 DEF LedgerContent
  <2>2. Ledger!Attest(i, FALSE)
    BY <1>5, <1>6, <1>8, <1>10, <2>1 DEF Ledger!Attest
  <2> QED
    BY <1>1, <2>2
<1> QED
  BY <1>4, <1>11, <1>12

(* Every other step leaves the ledger as it is. *)
LEMMA StutterStep ==
  ASSUME ScopeInv, SilentBefore, [Next]_vars,
         \A w \in Workers : ~TransformInsert(w) /\ ~SendCommit(w) /\ ~ArchiveCommit(w)
  PROVE  UNCHANGED Ledger!ledger
<1>0. SafetyInv /\ TypeInv
  BY DEF ScopeInv, SafetyInv
<1>1. UNCHANGED <<invoices, submissions>>
  BY <1>0, Writers DEF Quiet
<1>2. \A i \in InvoiceIds : SameEntry(i)
  BY <1>1 DEF SameEntry
<1>3. UNCHANGED <<LedgerRegistered, LedgerKeys, LedgerContent, LedgerAttested>>
  BY <1>0, <1>2, SameLedgerRows, SameAttested
<1>4. UNCHANGED LedgerSent
  BY <1>1 DEF LedgerSent
<1> QED
  BY <1>3, <1>4 DEF Ledger!ledger

(* An empty database is an empty ledger. *)
LEMMA InitLedger == Init => Ledger!Init
<1> SUFFICES ASSUME Init PROVE Ledger!Init
  OBVIOUS
<1>1. \A i \in InvoiceIds : invoices[i] = NoInvoice /\ trail[i] = << >>
  BY DEF Init
<1>2. LedgerRegistered = [i \in InvoiceIds |-> "no"]
  BY <1>1 DEF LedgerRegistered, Registration, NoInvoice
<1>3. LedgerKeys = [i \in InvoiceIds |-> None]
  BY <1>1 DEF LedgerKeys, NoInvoice
<1>4. LedgerContent = [i \in InvoiceIds |-> "none"]
  BY <1>1 DEF LedgerContent, Content, NoInvoice
<1>5. LedgerAttested = {}
  BY <1>1 DEF LedgerAttested, HasEvidence, EventsOf
<1>6. LedgerSent = << >>
  <2>1. submissions \in Seq(Submission) /\ Len(submissions) = 0
    BY DEF Init
  <2> QED
    BY <2>1, SentList, EmptySeq
<1> QED
  BY <1>2, <1>3, <1>4, <1>5, <1>6 DEF Ledger!Init

(* The tables move as the ledger promises: a key registers one invoice and *)
(* one submission at most, only valid invoices are submitted, and contents *)
(* are erased only once they are attested, whatever the interleaving of    *)
(* transform, send and archive (invoices.py:95, 244 and 447).              *)
THEOREM LedgerImplemented == Spec => ImplementsLedger
<1>1. TrailInv /\ [Next]_vars => [Ledger!Next]_Ledger!ledger
  <2> SUFFICES ASSUME TrailInv, [Next]_vars PROVE [Ledger!Next]_Ledger!ledger
    OBVIOUS
  <2>0. ScopeInv /\ SilentBefore
    BY DEF TrailInv
  <2>1. ASSUME NEW w \in Workers, TransformInsert(w) PROVE Ledger!Next
    BY <2>0, <2>1, RegisterStep DEF Ledger!Next
  <2>2. ASSUME NEW w \in Workers, SendCommit(w) PROVE Ledger!Next
    BY <2>0, <2>2, SubmitStep DEF Ledger!Next
  <2>3. ASSUME NEW w \in Workers, ArchiveCommit(w) PROVE Ledger!Next
    BY <2>0, <2>3, AttestStep DEF Ledger!Next
  <2>4. CASE \A w \in Workers : ~TransformInsert(w) /\ ~SendCommit(w) /\ ~ArchiveCommit(w)
    BY <2>0, <2>4, StutterStep
  <2> QED
    BY <2>1, <2>2, <2>3, <2>4
<1> QED
  BY <1>1, InitLedger, TrailInvariant, PTL DEF Spec, ImplementsLedger, Ledger!Spec
=============================================================================
