-------------------------- MODULE InvoiceSerialProofs --------------------------
(***************************************************************************)
(* What the handlers of app/services/invoices.py guarantee as long as no   *)
(* two of them work on one invoice at the same time, or send under one key *)
(* at the same time.  The run accepted_twice shows that they can break it  *)
(* when they do.                                                           *)
(*                                                                         *)
(* The row that a handler works from is then the row that is stored when   *)
(* it commits (FreshSnaps), so that a flush writes what the handler        *)
(* decided and the check of a delivery that was already made is still      *)
(* true.  Each invoice is settled by its latest submission (Settled), all  *)
(* others having been rejected.  And only a crash makes the provider get   *)
(* an invoice again under one key (CallsOK).                               *)
(***************************************************************************)
EXTENDS InvoiceLedgerProofs

(* A thread that has read the row of an invoice, to submit or archive it.  *)
InHand(w) == job[w].at \in Sending \cup {"archive"}

(* No two threads have one invoice in hand. *)
HandlersApart ==
  \A v, w \in Workers :
    v # w /\ InHand(v) /\ InHand(w) => job[v].invoice # job[w].invoice

(* A thread that is on the way of a send, from where the key was looked up *)
(* to where the answer waits.                                              *)
OnItsWay(w) ==
  \/ job[w].at \in Sending
  \/ job[w].at \in {"transform", "insert", "load"} /\ job[w].req.op = "send"

(* No two threads send under one key. *)
KeysApart ==
  \A v, w \in Workers :
    v # w /\ OnItsWay(v) /\ OnItsWay(w) =>
      \/ SendKey(job[v].req) = None
      \/ SendKey(job[v].req) # SendKey(job[w].req)

(* A deployment with one thread keeps them apart. *)
LEMMA OneThreadSuffices ==
  ASSUME \A v, w \in Workers : v = w
  PROVE  HandlersApart /\ KeysApart
BY DEF HandlersApart, KeysApart

(* What a thread has read is what is stored. *)
FreshSnap(w) ==
  /\ InHand(w) => job[w].snap = invoices[job[w].invoice]
  /\ job[w].at \in {"submit", "commit"} =>
       /\ Undelivered(w)
       /\ job[w].retry = (SubmissionsOf(job[w].invoice) # {})

FreshSnaps == \A w \in Workers : FreshSnap(w)

(* A thread that commits does not stay where it was. *)
LEMMA CommitMoves ==
  ASSUME TypeInv, NEW w \in Workers,
         TransformInsert(w) \/ SendCommit(w) \/ ArchiveCommit(w)
  PROVE  job'[w] # job[w] /\ (SendCommit(w) => job'[w].at = "reply")
<1>1. job[w].at \in {"insert", "commit", "archive"}
  BY Zenon DEF TransformInsert, SendCommit, ArchiveCommit
<1>2. job[w] \in Job /\ job \in [Workers -> Job \cup {Idle}]
  <2>1. job[w].at \in Steps
    BY <1>1 DEF Steps
  <2> QED
    BY <2>1, BusyJob DEF TypeInv, TypeOK
<1>3. ASSUME NEW outcome, NEW i, NEW n, Committed(w, outcome, i, n)
      PROVE  job'[w].at = "reply"
  <2>1. job'[w] = [Idle EXCEPT !.at = "reply", !.req = job[w].req, !.invoice = i,
                               !.outcome = outcome, !.submission = n]
    BY <1>2, <1>3 DEF Committed
  <2> QED
    BY <2>1 DEF Idle
<1>4. CASE TransformInsert(w)
  <2>1. PICK i \in InvoiceIds :
          \/ \E outcome : Committed(w, outcome, i, 0)
          \/ job' = [job EXCEPT ![w].at = "load", ![w].invoice = i]
    BY <1>4 DEF TransformInsert
  <2>2. job'[w].at \in {"reply", "load"}
    BY <1>2, <1>3, <2>1, SMTT(30) DEF Job
  <2>3. ~SendCommit(w)
    BY <1>4 DEF TransformInsert, SendCommit
  <2> QED
    BY <1>1, <2>2, <2>3, SMTT(30)
<1>5. CASE SendCommit(w) \/ ArchiveCommit(w)
  <2>1. job'[w].at = "reply"
    BY <1>3, <1>5, Zenon DEF SendCommit, ArchiveCommit
  <2> QED
    BY <1>1, <2>1
<1> QED
  BY <1>4, <1>5

(* What a thread has in hand, no other thread changes. *)
LEMMA HandsOff ==
  ASSUME SafetyInv, HandlersApart, [Next]_vars,
         NEW v \in Workers, InHand(v), job'[v] = job[v],
         NEW i, i = job[v].invoice
  PROVE  invoices'[i] = invoices[i] /\ SubmissionsOf(i)' = SubmissionsOf(i)
<1>0. TypeInv /\ invoices \in [InvoiceIds -> Invoice]
  BY DEF SafetyInv, TypeInv, TypeOK
<1>1. i \in InvoiceIds /\ Exists(i)
  <2>1. job[v].at \in {"prior", "submit", "commit", "archive"}
    BY DEF InHand, Sending
  <2>2. Exists(i)
    BY <2>1 DEF SafetyInv, SnapsOK, SnapOK, StillTrue, Sending, Exists
  <2>3. job[v].at \in Steps
    BY <2>1 DEF Steps
  <2> QED
    BY <1>0, <2>1, <2>2, <2>3, BusyJob DEF TypeInv, JobsOK, JobOK, OrNone
<1>2. CASE Quiet
  BY <1>2 DEF Quiet, SubmissionsOf
<1>3. ASSUME NEW w \in Workers, TransformInsert(w)
      PROVE  invoices'[i] = invoices[i] /\ SubmissionsOf(i)' = SubmissionsOf(i)
  <2>1. PICK j \in InvoiceIds :
          \E row : ~Exists(j) /\ invoices' = [invoices EXCEPT ![j] = row]
    BY <1>3, Inserting
  <2> QED
    BY <1>0, <1>1, <1>3, <2>1 DEF TransformInsert, SubmissionsOf
<1>4. ASSUME NEW w \in Workers, SendCommit(w) \/ ArchiveCommit(w)
      PROVE  invoices'[i] = invoices[i] /\ SubmissionsOf(i)' = SubmissionsOf(i)
  <2>1. v # w
    BY <1>0, <1>4, CommitMoves
  <2>2. InHand(w)
    BY <1>4 DEF InHand, Sending, SendCommit, ArchiveCommit
  <2>3. i # job[w].invoice
    BY <2>1, <2>2 DEF HandlersApart
  <2>4. PICK row : invoices' = [invoices EXCEPT ![job[w].invoice] = row]
    BY <1>4, Zenon DEF SendCommit, ArchiveCommit
  <2>5. SubmissionsOf(i)' = SubmissionsOf(i)
    <3>1. CASE ArchiveCommit(w)
      BY <3>1 DEF ArchiveCommit, SubmissionsOf
    <3>2. CASE SendCommit(w)
      <4>1. SubmissionsOf(i)' = SubmissionsOf(i) \cup
              (IF i = job[w].invoice THEN {Len(submissions) + 1} ELSE {})
        BY <1>0, <1>1, <3>2, CountsGrow
      <4> QED
        BY <2>3, <4>1
    <3> QED
      BY <1>4, <3>1, <3>2
  <2> QED
    BY <1>0, <1>1, <2>3, <2>4, <2>5
<1> QED
  BY <1>0, <1>2, <1>3, <1>4, Writers

(* No step makes stale what a thread has read. *)
LEMMA FreshStep ==
  ASSUME HandlersApart, SafetyInv, FreshSnaps, [Next]_vars
  PROVE  FreshSnaps'
<1> SUFFICES ASSUME NEW v \in Workers,
                    job'[v].at \in {"prior", "submit", "commit", "archive"}
             PROVE  FreshSnap(v)'
  BY DEF FreshSnaps, FreshSnap, InHand, Sending
<1>0. TypeInv /\ RowsOK
  BY DEF SafetyInv
<1>2. job'[v].at \notin Away
  BY DEF Away
<1>3. CASE job'[v] = job[v]
  <2>1. InHand(v) /\ FreshSnap(v)
    BY <1>3 DEF FreshSnaps, InHand, Sending
  <2>2. PICK i : i = job[v].invoice
    OBVIOUS
  <2>3. invoices'[i] = invoices[i] /\ SubmissionsOf(i)' = SubmissionsOf(i)
    BY <1>3, <2>1, <2>2, HandsOff
  <2> QED
    BY <1>3, <2>1, <2>2, <2>3 DEF FreshSnap, Undelivered, InHand, SubmissionsOf
<1>4. CASE UNCHANGED database /\ Loads(v)
  BY <1>4 DEF Loads, FreshSnap, InHand, Sending, database
<1>5. CASE UNCHANGED database /\ Admits(v)
  <2>1. job[v] \in Job
    BY <1>0, <1>5, BusyJob DEF Admits, Steps, TypeInv
  <2>2. /\ job'[v].snap = job[v].snap /\ job'[v].invoice = job[v].invoice
        /\ job'[v].retry = (SubmissionsOf(job[v].invoice) # {})
        /\ Undelivered(v) /\ job[v].at = "prior"
    BY <1>5, <2>1 DEF Admits, Job
  <2> QED
    BY <1>5, <2>2
    DEF FreshSnaps, FreshSnap, Undelivered, SubmissionsOf, InHand, Sending, database
<1>6. CASE UNCHANGED database /\ Submits(v)
  <2>1. job[v] \in Job
    BY <1>0, <1>6, BusyJob DEF Submits, Steps, TypeInv
  <2>2. /\ job'[v].snap = job[v].snap /\ job'[v].invoice = job[v].invoice
        /\ job'[v].retry = job[v].retry /\ job[v].at = "submit"
    BY <1>6, <2>1 DEF Submits, Job
  <2> QED
    BY <1>6, <2>2
    DEF FreshSnaps, FreshSnap, Undelivered, SubmissionsOf, InHand, Sending, database
<1> QED
  BY <1>0, <1>2, <1>3, <1>4, <1>5, <1>6, Turn

-----------------------------------------------------------------------------
(* An UPDATE of a row that is as it was loaded stores what was assigned.   *)
LEMMA FlushFresh ==
  ASSUME NEW row \in Invoice, NEW new \in Invoice
  PROVE  LET stored == Flush(row, row, new)
         IN  /\ stored.status = new.status /\ stored.delivery = new.delivery
             /\ stored.error = new.error /\ stored.payload = new.payload
             /\ stored.key = row.key
  BY DEF Flush, Changed, Invoice

(* An invoice is what its latest submission made of it; the others were    *)
(* rejected.                                                               *)
Settled(i) ==
  /\ SubmissionsOf(i) = {} => invoices[i].delivery = "not_submitted"
  /\ \A n \in LatestSubmission(i) : invoices[i].delivery = submissions[n].delivery
  /\ SubmissionsOf(i) # {} =>
       (invoices[i].error = "rejection" <=> invoices[i].delivery = "rejected")
  /\ \A n \in SubmissionsOf(i) :
       n \in LatestSubmission(i) \/ submissions[n].delivery = "rejected"
  /\ Redacted(i) => invoices[i].status = "archived"

AllSettled == \A i \in InvoiceIds : Settled(i)

(* The row that a commit of the one thread leaves, and the rows it leaves alone. *)
LEMMA FreshCommit ==
  ASSUME SafetyInv, FreshSnaps, NEW w \in Workers, SendCommit(w) \/ ArchiveCommit(w)
  PROVE  LET i   == job[w].invoice
             row == invoices[i]
         IN  /\ i \in InvoiceIds /\ row \in Invoice /\ Exists(i)
             /\ \A j \in InvoiceIds : j # i => invoices'[j] = invoices[j]
             /\ invoices'[i].key = row.key
             /\ SendCommit(w) =>
                  /\ row.payload # "redacted"
                  /\ invoices'[i].payload = row.payload
                  /\ invoices'[i].delivery = Verdict(w)
                  /\ invoices'[i].error =
                       IF Verdict(w) = "rejected" THEN "rejection" ELSE "none"
             /\ ArchiveCommit(w) =>
                  /\ invoices'[i].status = "archived"
                  /\ invoices'[i].delivery = row.delivery
                  /\ invoices'[i].error = row.error
<1> DEFINE i   == job[w].invoice
           row == invoices[i]
<1>1. /\ i \in InvoiceIds /\ row \in Invoice /\ Exists(i) /\ job[w].snap = row
      /\ RowOK(row)
  <2>1. job[w].at \in {"commit", "archive"}
    BY DEF SendCommit, ArchiveCommit
  <2>2. job[w].snap = row
    BY <2>1 DEF FreshSnaps, FreshSnap, InHand, Sending
  <2> QED
    BY <2>2, Committing, SMTT(30) DEF StillTrue, Exists
<1>2. invoices \in [InvoiceIds -> Invoice]
  BY DEF SafetyInv, TypeInv, TypeOK
<1>3. CASE SendCommit(w)
  <2> DEFINE new == Delivered(row, Verdict(w))
  <2>1. /\ new \in Invoice /\ new.payload = row.payload /\ new.delivery = Verdict(w)
        /\ new.error = IF Verdict(w) = "rejected" THEN "rejection" ELSE "none"
    <3>1. new \in Invoice
      BY <1>1, VerdictType, AssignmentsType
    <3> QED
      BY <1>1, <3>1 DEF Delivered, Invoice
  <2>2. row.payload # "redacted"
    <3>1. Sendable(row)
      BY <1>1, <1>3 DEF SendCommit, SafetyInv, SnapsOK, SnapOK, Sending
    <3> QED
      BY <1>1, <3>1 DEF Sendable, RowOK
  <2>3. invoices' = [invoices EXCEPT ![i] = Flush(row, row, new)]
    BY <1>1, <1>2, <1>3 DEF SendCommit
  <2>4. ~ArchiveCommit(w)
    BY <1>3 DEF SendCommit, ArchiveCommit
  <2> HIDE DEF new
  <2>5. /\ invoices'[i] = Flush(row, row, new)
        /\ \A j \in InvoiceIds : j # i => invoices'[j] = invoices[j]
    BY <1>1, <1>2, <2>3
  <2>6. /\ invoices'[i].payload = new.payload /\ invoices'[i].key = row.key
        /\ invoices'[i].delivery = new.delivery /\ invoices'[i].error = new.error
    BY <1>1, <2>1, <2>5, FlushFresh
  <2> QED
    BY <1>1, <2>1, <2>2, <2>4, <2>5, <2>6
<1>4. CASE ArchiveCommit(w)
  <2> DEFINE new == Archived(row, job[w].req.redact)
  <2>1. /\ new \in Invoice /\ new.status = "archived"
        /\ new.delivery = row.delivery /\ new.error = row.error
    <3>1. job[w].req.redact \in BOOLEAN
      BY Committing, RequestData DEF Request
    <3>2. new \in Invoice
      BY <1>1, <3>1, AssignmentsType DEF Deliveries
    <3> QED
      BY <1>1, <3>2 DEF Archived, Invoice
  <2>2. invoices' = [invoices EXCEPT ![i] = Flush(row, row, new)]
    BY <1>1, <1>2, <1>4 DEF ArchiveCommit
  <2>3. ~SendCommit(w)
    BY <1>4 DEF SendCommit, ArchiveCommit
  <2> HIDE DEF new
  <2>4. /\ invoices'[i] = Flush(row, row, new)
        /\ \A j \in InvoiceIds : j # i => invoices'[j] = invoices[j]
    BY <1>1, <1>2, <2>2
  <2>5. /\ invoices'[i].status = new.status /\ invoices'[i].key = row.key
        /\ invoices'[i].delivery = new.delivery /\ invoices'[i].error = new.error
    BY <1>1, <2>1, <2>4, FlushFresh
  <2> QED
    BY <1>1, <2>1, <2>3, <2>4, <2>5, SMTT(30)
<1> QED
  BY <1>3, <1>4

(* An invoice that is not inserted yet was not submitted. *)
LEMMA NoneBefore ==
  ASSUME SafetyInv, NEW i \in InvoiceIds, ~Exists(i)
  PROVE  SubmissionsOf(i) = {}
<1>1. invoices[i].validation = "none"
  BY DEF SafetyInv, RowsOK, RowOK, Exists
<1> QED
  BY <1>1 DEF SubmissionsOf, SafetyInv, OnlyValidatedIsSubmitted

(* No step unsettles an invoice. *)
LEMMA SettledStep ==
  ASSUME SafetyInv, FreshSnaps, AllSettled, [Next]_vars, NEW i \in InvoiceIds
  PROVE  Settled(i)'
<1>0. TypeInv /\ invoices \in [InvoiceIds -> Invoice]
  BY DEF SafetyInv, TypeInv, TypeOK
<1>1. ASSUME UNCHANGED submissions,
             invoices'[i].delivery = invoices[i].delivery,
             invoices'[i].error = invoices[i].error,
             Redacted(i)' => invoices'[i].status = "archived"
      PROVE  Settled(i)'
  <2>1. /\ SubmissionsOf(i)' = SubmissionsOf(i)
        /\ LatestSubmission(i)' = LatestSubmission(i)
    BY <1>1 DEF SubmissionsOf, LatestSubmission
  <2> QED
    BY <1>1, <2>1 DEF AllSettled, Settled
<1>2. CASE Quiet
  BY <1>1, <1>2 DEF Quiet, AllSettled, Settled, Redacted
<1>3. ASSUME NEW w \in Workers, TransformInsert(w) PROVE Settled(i)'
  <2> DEFINE row == NewInvoice(job[w].req, WorkerRegion[w])
  <2>1. PICK j \in InvoiceIds : ~Exists(j) /\ invoices' = [invoices EXCEPT ![j] = row]
    BY <1>3, Inserting
  <2>2. UNCHANGED submissions
    BY <1>3 DEF TransformInsert
  <2>3. CASE i # j
    <3>1. invoices'[i] = invoices[i]
      BY <1>0, <2>1, <2>3
    <3> QED
      BY <1>1, <2>2, <3>1 DEF AllSettled, Settled, Redacted
  <2>4. CASE i = j
    <3>1. invoices'[i].delivery = "not_submitted" /\ invoices'[i].payload = "original"
      BY <1>0, <2>1, <2>4 DEF NewInvoice
    <3>2. SubmissionsOf(i)' = {}
      BY <2>1, <2>2, <2>4, NoneBefore DEF SubmissionsOf
    <3> QED
      BY <3>1, <3>2 DEF Settled, LatestSubmission, Redacted
  <2> QED
    BY <2>3, <2>4
<1>4. ASSUME NEW w \in Workers, ArchiveCommit(w) PROVE Settled(i)'
  <2>1. UNCHANGED submissions
    BY <1>4 DEF ArchiveCommit
  <2>2. CASE i # job[w].invoice
    <3>1. invoices'[i] = invoices[i]
      BY <1>4, <2>2, FreshCommit
    <3> QED
      BY <1>1, <2>1, <3>1 DEF AllSettled, Settled, Redacted
  <2>3. CASE i = job[w].invoice
    BY <1>1, <1>4, <2>1, <2>3, FreshCommit
  <2> QED
    BY <2>2, <2>3
<1>5. ASSUME NEW w \in Workers, SendCommit(w) PROVE Settled(i)'
  <2> DEFINE last == Len(submissions) + 1
  <2>1. /\ last \notin DOMAIN submissions
        /\ DOMAIN submissions' = DOMAIN submissions \cup {last}
        /\ \A n \in DOMAIN submissions : submissions'[n] = submissions[n]
        /\ submissions'[last].invoice = job[w].invoice
        /\ submissions'[last].delivery = Verdict(w)
    BY <1>5, Submitting
  <2>2. \A n \in DOMAIN submissions : n \in Nat /\ n <= last
    BY <1>0 DEF TypeInv, TypeOK
  <2>3. last \in Nat
    BY <1>0 DEF TypeInv, TypeOK
  <2>4. SubmissionsOf(i)' = SubmissionsOf(i) \cup
          (IF i = job[w].invoice THEN {last} ELSE {})
    BY <1>5, CountsGrow
  <2> HIDE DEF last
  <2>5. CASE i # job[w].invoice
    <3>1. invoices'[i] = invoices[i]
      BY <1>5, <2>5, FreshCommit
    <3>2. /\ SubmissionsOf(i)' = SubmissionsOf(i)
          /\ \A n \in SubmissionsOf(i) : submissions'[n] = submissions[n]
      BY <2>1, <2>4, <2>5 DEF SubmissionsOf
    <3>3. LatestSubmission(i)' = LatestSubmission(i)
      BY <3>2 DEF LatestSubmission
    <3> QED
      BY <3>1, <3>2, <3>3 DEF AllSettled, Settled, LatestSubmission, Redacted
  <2>6. CASE i = job[w].invoice
    <3>1. LatestSubmission(i)' = {last} /\ SubmissionsOf(i)' # {}
      <4>1. \A n \in SubmissionsOf(i) : n \in Nat /\ n <= last /\ n # last
        BY <2>1, <2>2 DEF SubmissionsOf
      <4>2. LatestSubmission(i)' =
              {n \in SubmissionsOf(i)' : \A m \in SubmissionsOf(i)' : m <= n}
        BY DEF LatestSubmission
      <4> QED
        BY <2>3, <2>4, <2>6, <4>1, <4>2
    <3>2. /\ invoices[i].payload # "redacted"
          /\ invoices'[i].payload = invoices[i].payload
          /\ invoices'[i].delivery = Verdict(w)
          /\ invoices'[i].error = IF Verdict(w) = "rejected" THEN "rejection" ELSE "none"
      BY <1>5, <2>6, FreshCommit
    <3>3. \A n \in SubmissionsOf(i) :
            submissions'[n] = submissions[n] /\ submissions[n].delivery = "rejected"
      <4> SUFFICES ASSUME NEW n \in SubmissionsOf(i)
                   PROVE  submissions[n].delivery = "rejected"
        BY <2>1 DEF SubmissionsOf
      <4>1. invoices[i].delivery \notin {"accepted", "pending"}
        BY <1>5, <2>6 DEF SendCommit, FreshSnaps, FreshSnap, Undelivered, InHand,
            Sending
      <4>2. submissions[n].delivery \in Deliveries
        <5>1. submissions \in Seq(Submission) /\ n \in DOMAIN submissions
          BY <1>0 DEF TypeInv, TypeOK, SubmissionsOf
        <5>2. submissions[n] \in Submission
          BY <5>1
        <5> QED
          BY <5>2 DEF Submission
      <4>3. /\ n \in LatestSubmission(i) =>
                  invoices[i].delivery = submissions[n].delivery
            /\ n \in LatestSubmission(i) \/ submissions[n].delivery = "rejected"
        BY DEF AllSettled, Settled
      <4> QED
        BY <4>1, <4>2, <4>3 DEF Deliveries
    <3> QED
      BY <2>1, <2>4, <2>6, <3>1, <3>2, <3>3 DEF Settled, Redacted
  <2> QED
    BY <2>5, <2>6
<1> QED
  BY <1>0, <1>2, <1>3, <1>4, <1>5, Writers

(* Retries are announced: so many "retried" events as submissions that     *)
(* followed another one.                                                   *)
Announced(i) ==
  Cardinality(Places(trail[i], "retried")) =
    IF SubmissionsOf(i) = {} THEN 0 ELSE Cardinality(SubmissionsOf(i)) - 1

AllAnnounced == \A i \in InvoiceIds : Announced(i)

(* A retry is announced exactly when a submission is there.                *)
LEMMA AnnouncedStep ==
  ASSUME ScopeInv, SilentBefore, FreshSnaps, [Next]_vars,
         NEW i \in InvoiceIds, Announced(i)
  PROVE  Announced(i)'
<1>0. SafetyInv /\ TypeInv /\ trail[i] \in Seq(AuditEvent)
  BY DEF ScopeInv, SafetyInv, TypeInv, TypeOK
<1>1. CASE \A w \in Workers : ~SendCommit(w)
  <2>1. UNCHANGED submissions
    BY <1>0, <1>1, Writers DEF Quiet, TransformInsert, ArchiveCommit
  <2>2. Places(trail'[i], "retried") = Places(trail[i], "retried")
    BY <1>1, CountsStay DEF SendTypes
  <2>3. SubmissionsOf(i)' = SubmissionsOf(i)
    BY <2>1 DEF SubmissionsOf
  <2> QED
    BY <2>2, <2>3 DEF Announced
<1>2. ASSUME NEW w \in Workers, SendCommit(w) PROVE Announced(i)'
  <2> DEFINE last == Len(submissions) + 1
             events == SendEvents(job[w].retry, Verdict(w), WorkerRegion[w])
  <2>1. /\ last \notin DOMAIN submissions
        /\ i = job[w].invoice => trail'[i] = trail[i] \o events
        /\ i # job[w].invoice => trail'[i] = trail[i]
    BY <1>0, <1>2, Submitting
  <2>2. SubmissionsOf(i)' = SubmissionsOf(i) \cup
          (IF i = job[w].invoice THEN {last} ELSE {})
    BY <1>0, <1>2, CountsGrow
  <2>3. CASE i # job[w].invoice
    BY <2>1, <2>2, <2>3 DEF Announced
  <2>4. CASE i = job[w].invoice
    <3>1. /\ job[w].retry \in BOOLEAN /\ Verdict(w) \in Deliveries
          /\ job[w].retry = (SubmissionsOf(i) # {})
      BY <1>0, <1>2, <2>4, BusyJob, VerdictType
      DEF SendCommit, Steps, TypeInv, FreshSnaps, FreshSnap
    <3>2. events \in Seq(AuditEvent)
      BY <3>1, SendEventsType, WorkersAssumption
    <3>3. /\ job[w].retry => \E m : Places(events, "retried") = {m}
          /\ ~job[w].retry => Places(events, "retried") = {}
      <4>1. "retried" \notin {"submitted", Verdict(w)}
        BY <3>1 DEF Deliveries
      <4> QED
        BY <3>1, <4>1, PlacesOfSend
    <3>4. /\ IsFiniteSet(SubmissionsOf(i)) /\ last \notin SubmissionsOf(i)
          /\ Cardinality(SubmissionsOf(i)) \in Nat
      BY <1>0, <2>1, SubmissionsFinite DEF SubmissionsOf
    <3> HIDE DEF events, last
    <3>5. /\ SubmissionsOf(i)' = SubmissionsOf(i) \cup {last} /\ SubmissionsOf(i)' # {}
          /\ Cardinality(SubmissionsOf(i)') = Cardinality(SubmissionsOf(i)) + 1
      BY <2>2, <2>4, <3>4, FS_AddElement
    <3>6. \A e \in Seq(AuditEvent) :
            /\ Places(e, "retried") = {} =>
                 Places(trail[i] \o e, "retried") = Places(trail[i], "retried")
            /\ \A m : Places(e, "retried") = {m} =>
                 Cardinality(Places(trail[i] \o e, "retried")) =
                   Cardinality(Places(trail[i], "retried")) + 1
      BY <1>0, PlacesAfter
    <3>7. /\ Places(events, "retried") = {} =>
               Places(trail'[i], "retried") = Places(trail[i], "retried")
          /\ \A m : Places(events, "retried") = {m} =>
               Cardinality(Places(trail'[i], "retried")) =
                 Cardinality(Places(trail[i], "retried")) + 1
      BY <2>1, <2>4, <3>2, <3>6
    <3>8. CASE SubmissionsOf(i) = {}
      <4>1. Places(trail'[i], "retried") = Places(trail[i], "retried")
        BY <3>1, <3>3, <3>7, <3>8
      <4>2. Cardinality(SubmissionsOf(i)) = 0
        BY <3>8, FS_EmptySet
      <4> QED
        BY <3>5, <3>8, <4>1, <4>2 DEF Announced
    <3>9. CASE SubmissionsOf(i) # {}
      <4>1. Cardinality(Places(trail'[i], "retried")) =
              Cardinality(Places(trail[i], "retried")) + 1
        BY <3>1, <3>3, <3>7, <3>9
      <4> QED
        BY <3>4, <3>5, <3>9, <4>1 DEF Announced
    <3> QED
      BY <3>8, <3>9
  <2> QED
    BY <2>3, <2>4
<1> QED
  BY <1>1, <1>2

-----------------------------------------------------------------------------
(* The answers of keyed sends. *)

(* A send, until its answer is delivered. *)
Sends(w) == OnItsWay(w) \/ (job[w].at = "reply" /\ job[w].outcome = "sent")

(* The ways in which a thread gets on, in a send. *)
LooksUp(v) ==
  /\ PriorSubmissions(job[v].req) = {}
  /\ job'[v].at = IF job[v].req.target # None THEN "load" ELSE "transform"
  /\ job'[v].invoice = job[v].invoice
  /\ job[v].at = "send"

Finds(v) ==
  /\ job[v].at = "transform" /\ OnItsWay(v)
  /\ \/ job'[v].at = "insert"
     \/ job'[v].at = "prior" /\ job'[v].invoice \in PriorInvoices(job[v].req)

Inserts(v) ==
  /\ job[v].at = "insert" /\ OnItsWay(v) /\ TransformInsert(v)
  /\ job'[v].at = "load" /\ job'[v].invoice \in InvoiceIds
  /\ invoices' = [invoices EXCEPT ![job'[v].invoice] =
                    NewInvoice(job[v].req, WorkerRegion[v])]

GoesOn(v) ==
  /\ job[v].at \notin {"transform", "insert"} /\ OnItsWay(v)
  /\ job'[v].at \in Sending /\ job'[v].invoice = job[v].invoice

Ends(v) ==
  /\ SendCommit(v) /\ job'[v].at = "reply"
  /\ job'[v].invoice = job[v].invoice /\ job'[v].submission = Len(submissions) + 1

(* A step of a thread that is then in a send was one of these. *)
LEMMA SendTurn ==
  ASSUME TypeInv, NEW v \in Workers, Step(v), Sends(v)'
  PROVE  /\ job'[v].req = job[v].req
         /\ LooksUp(v) \/ Finds(v) \/ Inserts(v) \/ GoesOn(v) \/ Ends(v)
<1>1. job[v].at \in Steps /\ job[v] \in Job /\ job \in [Workers -> Job \cup {Idle}]
  BY StepStarts, BusyJob DEF TypeInv, TypeOK
<1>2. job'[v] # Idle
  BY DEF Sends, OnItsWay, Sending, Idle
<1>3. ASSUME NEW outcome, NEW i, NEW n PROVE ~Reply(v, outcome, i, n)
  BY <1>1, <1>2 DEF Reply
<1>4. ~Refuse(v) /\ ~Fail(v)
  BY <1>1, <1>2, <1>3 DEF Refuse, Fail
<1>5. ASSUME NEW outcome, NEW i, NEW n, Committed(v, outcome, i, n)
      PROVE  /\ outcome = "sent" /\ job'[v].at = "reply" /\ job'[v].req = job[v].req
             /\ job'[v].invoice = i /\ job'[v].submission = n
  <2>1. job'[v] = [Idle EXCEPT !.at = "reply", !.req = job[v].req, !.invoice = i,
                               !.outcome = outcome, !.submission = n]
    BY <1>1, <1>5 DEF Committed
  <2>2. /\ job'[v].at = "reply" /\ job'[v].req = job[v].req
        /\ job'[v].outcome = outcome
        /\ job'[v].invoice = i /\ job'[v].submission = n
    BY <2>1 DEF Idle
  <2> QED
    BY <2>2 DEF Sends, OnItsWay, Sending
<1>6. ASSUME NEW next, Continue(v, next) PROVE job'[v] = next
  BY <1>1, <1>6 DEF Continue
<1>7. CASE TransformReplay(v)
  <2>1. PICK i \in PriorInvoices(job[v].req) :
          /\ job[v].req.op = "send"
          /\ Continue(v, [job[v] EXCEPT !.at = "prior", !.invoice = i,
                                        !.snap = invoices[i]])
    BY <1>3, <1>4, <1>7, Zenon DEF TransformReplay
  <2>2. job'[v].at = "prior" /\ job'[v].invoice = i /\ job'[v].req = job[v].req
    BY <1>1, <1>6, <2>1 DEF Job
  <2> QED
    BY <1>7, <2>1, <2>2 DEF TransformReplay, Finds, OnItsWay
<1>8. CASE TransformAdmit(v)
  <2>1. job'[v].at = "insert" /\ job'[v].req = job[v].req
    BY <1>1, <1>4, <1>6, <1>8 DEF TransformAdmit, Job
  <2> QED
    BY <1>8, <2>1 DEF TransformAdmit, Finds, OnItsWay, Sends, Sending
<1>9. CASE TransformInsert(v)
  <2>1. PICK i \in InvoiceIds :
          /\ invoices' = [invoices EXCEPT ![i] = NewInvoice(job[v].req, WorkerRegion[v])]
          /\ job[v].req.op = "send"
          /\ job' = [job EXCEPT ![v].at = "load", ![v].invoice = i]
    BY <1>5, <1>9 DEF TransformInsert
  <2>2. job'[v].at = "load" /\ job'[v].invoice = i /\ job'[v].req = job[v].req
    BY <1>1, <2>1 DEF Job
  <2> QED
    BY <1>9, <2>1, <2>2 DEF TransformInsert, Inserts, OnItsWay
<1>10. CASE SendProceed(v)
  <2>1. /\ job'[v].at = IF job[v].req.target # None THEN "load" ELSE "transform"
        /\ job'[v].invoice = job[v].invoice /\ job'[v].req = job[v].req
    BY <1>1, <1>6, <1>10 DEF SendProceed, Job
  <2> QED
    BY <1>10, <2>1 DEF SendProceed, LooksUp
<1>11. CASE SendLoad(v)
  <2>1. /\ job'[v].at = "prior" /\ job'[v].invoice = job[v].invoice
        /\ job'[v].req = job[v].req
    BY <1>1, <1>4, <1>6, <1>11 DEF SendLoad, Job
  <2> QED
    BY <1>11, <2>1 DEF SendLoad, GoesOn, OnItsWay, Sending
<1>12. CASE SendAdmit(v)
  <2>1. Continue(v, [job[v] EXCEPT !.at = "submit",
                                   !.retry = SubmissionsOf(job[v].invoice) # {}])
    BY <1>4, <1>12 DEF SendAdmit
  <2>2. /\ job'[v].at = "submit" /\ job'[v].invoice = job[v].invoice
        /\ job'[v].req = job[v].req
    BY <1>1, <1>6, <2>1 DEF Job
  <2> QED
    BY <1>12, <2>2 DEF SendAdmit, GoesOn, OnItsWay, Sending
<1>13. CASE ProviderSubmit(v)
  <2>1. /\ job'[v].at = "commit" /\ job'[v].invoice = job[v].invoice
        /\ job'[v].req = job[v].req
    BY <1>1, <1>13 DEF ProviderSubmit, Job
  <2> QED
    BY <1>13, <2>1 DEF ProviderSubmit, GoesOn, OnItsWay, Sending
<1>14. CASE SendCommit(v)
  BY <1>5, <1>14 DEF SendCommit, Ends
<1>15. ~ArchiveLoad(v) /\ ~OfficialLoad(v)
  <2>1. ASSUME NEW at \in {"archive", "official"}
        PROVE  ~Continue(v, [job[v] EXCEPT !.at = at, !.snap = invoices[job[v].invoice]])
    BY <1>1, <1>6, <2>1 DEF Job, Sends, OnItsWay, Sending
  <2> QED
    BY <1>3, <1>4, <2>1 DEF ArchiveLoad, OfficialLoad
<1>16. ~ArchiveCommit(v) /\ ~OfficialCommit(v) /\ ~WebhookTest(v)
  BY <1>4, <1>5 DEF ArchiveCommit, OfficialCommit, WebhookTest
<1>17. /\ ~TransformRefuse(v) /\ ~SigningFails(v) /\ ~TransformConflict(v)
       /\ ~SendRefuse(v) /\ ~SendConflict(v)
  BY <1>4
  DEF TransformRefuse, SigningFails, TransformConflict, SendRefuse, SendConflict
<1>18. ~SendReplay(v) /\ ~SendReplayPrior(v) /\ ~Deliver(v)
  BY <1>3, <1>4 DEF SendReplay, SendReplayPrior, Deliver
<1> QED
  BY <1>7, <1>8, <1>9, <1>10, <1>11, <1>12, <1>13, <1>14, <1>15, <1>16, <1>17, <1>18
  DEF Step, TransformStep, SendStep, RecordStep


(* The invoice that a key stands for: the one that the request names, or   *)
(* the one that was inserted under the key.                                *)
Means(target, key, i) ==
  key # None => IF target # None THEN i = target
                                 ELSE Exists(i) /\ invoices[i].key = key

(* What a stored submission keeps of the request it was made for. *)
SubmissionMeans(n) ==
  LET s == submissions[n]
  IN  s.key # None => s.hash # None /\ Means(s.hash.target, s.key, s.invoice)

SubmissionsMean == \A n \in DOMAIN submissions : SubmissionMeans(n)

(* A send on its way has not met its key, and works on the invoice that    *)
(* the key stands for.                                                     *)
SendMeans(w) ==
  LET r == job[w].req
  IN  OnItsWay(w) =>
        /\ PriorSubmissions(r) = {}
        /\ IF job[w].at \in {"transform", "insert"}
           THEN r.target = None
           ELSE Means(r.target, SendKey(r), job[w].invoice)

SendsMean == \A w \in Workers : SendMeans(w)

(* What a key stands for stays: a row keeps its key and its hash. *)
LEMMA MeansStays ==
  ASSUME SafetyInv, [Next]_vars, NEW target, NEW key, NEW i \in InvoiceIds,
         Means(target, key, i)
  PROVE  Means(target, key, i)'
  BY RowStep DEF Means, Exists, Kept

(* Under its key, a send transforms what it carries. *)
LEMMA TransformsUnderKey ==
  ASSUME NEW r, r.op = "send", SendKey(r) # None
  PROVE  TransformKey(r) = SendKey(r)
  BY DEF TransformKey, TransformHeader, IdempotencyValue

(* A thread in a send, and the invoice it is about, are of their types.    *)
LEMMA OnItsWayTypes ==
  ASSUME TypeInv, NEW w \in Workers, OnItsWay(w)
  PROVE  /\ job[w].at \in Steps /\ job[w].req \in Requests
         /\ job[w].at \notin {"transform", "insert"} => job[w].invoice \in InvoiceIds
<1>1. job[w].at \in Steps
  BY DEF OnItsWay, Sending, Steps
<1> QED
  BY <1>1, BusyJob DEF OnItsWay, Sending, TypeInv, JobsOK, JobOK, OrNone

(* A step that brings a thread into a send, or on in it, is its own.       *)
LEMMA SendsBefore ==
  ASSUME TypeInv, [Next]_vars, NEW v \in Workers, Sends(v)'
  PROVE  job'[v] = job[v] \/ Step(v)
<1>0. job \in [Workers -> Job \cup {Idle}]
  BY DEF TypeInv, TypeOK
<1>1. ASSUME NEW w \in Workers, w # v, Step(w) PROVE job'[v] = job[v]
  <2>1. \E next : job' = [job EXCEPT ![w] = next]
    BY <1>1, OneJob
  <2> QED
    BY <1>0, <1>1, <2>1
<1>2. CASE \E w \in Workers, r \in Requests : Receive(w, r)
  <2>1. PICK w \in Workers, r \in Requests : Receive(w, r)
    BY <1>2
  <2>2. CASE w = v
    <3>1. /\ job'[v].req = r
          /\ job'[v].at = IF r.op \in {"transform", "send"} THEN r.op ELSE "load"
      BY <1>0, <2>1, <2>2 DEF Receive, Idle
    <3> QED
      BY <3>1 DEF Sends, OnItsWay, Sending
  <2>3. CASE w # v
    BY <1>0, <2>1, <2>3 DEF Receive
  <2> QED
    BY <2>2, <2>3
<1>3. CASE \E region \in Regions, newRole \in RestartRoles : Restart(region, newRole)
  <2>1. job'[v] = job[v] \/ job'[v] = Idle
    BY <1>3 DEF Restart
  <2> QED
    BY <2>1 DEF Sends, OnItsWay, Sending, Idle
<1>4. CASE UNCHANGED vars
  BY <1>4 DEF vars
<1> QED
  BY <1>1, <1>2, <1>3, <1>4 DEF Next

(* No submission comes under the key of a send on its way.                 *)
LEMMA KeyStaysFree ==
  ASSUME SafetyInv, KeysApart, SendsMean, [Next]_vars,
         NEW v \in Workers, OnItsWay(v), ~SendCommit(v),
         NEW r, r = job[v].req
  PROVE  PriorSubmissions(r)' = {}
<1>0. TypeInv /\ PriorSubmissions(r) = {}
  BY DEF SafetyInv, SendsMean, SendMeans
<1>1. CASE UNCHANGED submissions
  BY <1>0, <1>1 DEF PriorSubmissions, SubmissionsWithKey
<1>2. ASSUME NEW w \in Workers, SendCommit(w)
      PROVE  PriorSubmissions(r)' = {}
  <2>1. v # w
    BY <1>2, SMTT(30)
  <2>2. OnItsWay(w)
    BY <1>2 DEF SendCommit, OnItsWay, Sending
  <2>3. SendKey(r) = None \/ SendKey(r) # SendKey(job[w].req)
    BY <2>1, <2>2, SMTT(30) DEF KeysApart
  <2>4. PICK s : submissions' = Append(submissions, s) /\ s.key = SendKey(job[w].req)
    BY <1>2 DEF SendCommit
  <2>5. submissions \in Seq(Submission)
    BY <1>0 DEF TypeInv, TypeOK
  <2>6. \A n \in DOMAIN submissions' :
          \/ n \in DOMAIN submissions /\ submissions'[n] = submissions[n]
          \/ submissions'[n] = s
    BY <2>4, <2>5
  <2> QED
    BY <1>0, <2>3, <2>4, <2>6 DEF PriorSubmissions, SubmissionsWithKey
<1> QED
  BY <1>0, <1>1, <1>2, Writers DEF Quiet, TransformInsert, ArchiveCommit

(* A send keeps to the invoice that its key stands for. *)
LEMMA SendsMeanStep ==
  ASSUME SafetyInv, KeysApart, SendsMean, [Next]_vars
  PROVE  SendsMean'
<1> SUFFICES ASSUME NEW v \in Workers, OnItsWay(v)',
                    NEW r, r = job'[v].req, NEW i, i = job'[v].invoice
             PROVE  /\ PriorSubmissions(r)' = {}
                    /\ IF job'[v].at \in {"transform", "insert"}
                       THEN r.target = None ELSE Means(r.target, SendKey(r), i)'
  BY DEF SendsMean, SendMeans, Means, PriorSubmissions, SubmissionsWithKey, Exists
<1>0. TypeInv
  BY DEF SafetyInv
<1>1. job'[v] = job[v] \/ Step(v)
  BY <1>0, SendsBefore DEF Sends
<1>2. ~SendCommit(v)
  BY <1>0, CommitMoves DEF OnItsWay, Sending
<1>3. ASSUME r = job[v].req, OnItsWay(v)
      PROVE  /\ PriorSubmissions(r)' = {} /\ r \in Requests
             /\ job[v].at \in {"transform", "insert"} => r.target = None /\ r.op = "send"
  <2>1. PriorSubmissions(r)' = {}
    BY <1>1, <1>2, <1>3, KeyStaysFree
  <2> QED
    BY <1>0, <1>3, <2>1, OnItsWayTypes DEF SendsMean, SendMeans, OnItsWay, Sending
<1>4. ASSUME r = job[v].req, i = job[v].invoice, OnItsWay(v),
             job[v].at \notin {"transform", "insert"}
      PROVE  Means(r.target, SendKey(r), i)'
  <2>1. i \in InvoiceIds /\ Means(r.target, SendKey(r), i)
    BY <1>0, <1>4, OnItsWayTypes DEF SendsMean, SendMeans
  <2> QED
    BY <2>1, MeansStays
<1>5. CASE job'[v] = job[v]
  <2>1. OnItsWay(v) /\ r = job[v].req /\ i = job[v].invoice
    BY <1>5 DEF OnItsWay
  <2> QED
    BY <1>3, <1>4, <1>5, <2>1
<1>6. CASE r = job[v].req /\ LooksUp(v)
  <2>1. job[v].invoice = r.target
    BY <1>0, <1>6 DEF LooksUp, TypeInv, JobsOK, JobOK
  <2>2. PriorSubmissions(r)' = {}
    <3>1. ASSUME NEW w \in Workers, SendCommit(w) PROVE FALSE
      <4>1. w # v /\ Step(w)
        BY <1>6, <3>1 DEF LooksUp, SendCommit, Step, SendStep
      <4>2. \E next : job' = [job EXCEPT ![w] = next]
        BY <1>0, <4>1, OneJob
      <4>3. job'[v] = job[v]
        BY <1>0, <4>1, <4>2 DEF TypeInv, TypeOK
      <4> QED
        BY <1>6, <4>3 DEF LooksUp
    <3>2. UNCHANGED submissions
      BY <1>0, <3>1, Writers DEF Quiet, TransformInsert, ArchiveCommit
    <3> QED
      BY <1>6, <3>2 DEF LooksUp, PriorSubmissions, SubmissionsWithKey
  <2> QED
    BY <1>6, <2>1, <2>2 DEF LooksUp, Means
<1>7. CASE r = job[v].req /\ Finds(v)
  <2>1. /\ PriorSubmissions(r)' = {} /\ r.target = None /\ r.op = "send"
    BY <1>3, <1>7 DEF Finds
  <2>2. ASSUME i \in PriorInvoices(r) PROVE Means(r.target, SendKey(r), i)'
    <3>1. i \in InvoiceIds /\ invoices[i].key = TransformKey(r) /\ TransformKey(r) # None
      BY <2>2 DEF PriorInvoices, InvoicesWithKey
    <3>2. Exists(i)
      BY <3>1 DEF SafetyInv, RowsOK, RowOK, Exists
    <3>3. Means(r.target, SendKey(r), i)
      BY <2>1, <3>1, <3>2, TransformsUnderKey DEF Means
    <3> QED
      BY <3>1, <3>3, MeansStays
  <2> QED
    BY <1>7, <2>1, <2>2 DEF Finds
<1>8. CASE r = job[v].req /\ Inserts(v)
  <2> DEFINE row == NewInvoice(r, WorkerRegion[v])
  <2>1. PriorSubmissions(r)' = {} /\ r.op = "send" /\ r.target = None
    BY <1>3, <1>8 DEF Inserts
  <2>2. r \in Requests /\ r.payload # None
    BY <1>8, Inserting DEF Inserts
  <2>3. row.key = TransformKey(r) /\ row.status # "absent"
    BY <2>2, NewInvoiceKey, NewInvoiceType, WorkersAssumption
  <2> HIDE DEF row
  <2>4. invoices'[i] = row
    BY <1>0, <1>8 DEF Inserts, row, TypeInv, TypeOK
  <2>5. Means(r.target, SendKey(r), i)'
    BY <2>1, <2>3, <2>4, TransformsUnderKey DEF Means, Exists
  <2> QED
    BY <1>8, <2>1, <2>5 DEF Inserts
<1>9. CASE r = job[v].req /\ GoesOn(v)
  BY <1>3, <1>4, <1>9 DEF GoesOn, Sending
<1>10. ~Ends(v)
  BY DEF Ends, OnItsWay, Sending
<1>11. Sends(v)'
  BY DEF Sends
<1> QED
  BY <1>0, <1>5, <1>6, <1>7, <1>8, <1>9, <1>10, <1>11, SendsBefore, SendTurn

(* Each submission is of the invoice that its key stands for. *)
LEMMA SubmissionsMeanStep ==
  ASSUME SafetyInv, SendsMean, SubmissionsMean, [Next]_vars
  PROVE  SubmissionsMean'
<1>0. TypeInv /\ submissions \in Seq(Submission)
  BY DEF SafetyInv, TypeInv, TypeOK
<1>1. ASSUME NEW n \in DOMAIN submissions, submissions'[n] = submissions[n]
      PROVE  SubmissionMeans(n)'
  <2> DEFINE s == submissions[n]
  <2>1. s.invoice \in InvoiceIds
    <3>1. submissions[n] \in Submission
      BY <1>0
    <3> QED
      BY <3>1 DEF Submission
  <2>2. SubmissionMeans(n)
    BY DEF SubmissionsMean
  <2>3. ASSUME NEW t \in {s}, t.key # None
        PROVE  t.hash # None /\ Means(t.hash.target, t.key, t.invoice)'
    <3>1. t.invoice \in InvoiceIds /\ Means(t.hash.target, t.key, t.invoice)
      BY <2>1, <2>2, <2>3 DEF SubmissionMeans
    <3> QED
      BY <2>2, <2>3, <3>1, MeansStays DEF SubmissionMeans
  <2> QED
    BY <1>1, <2>3 DEF SubmissionMeans, Means, Exists
<1>2. CASE UNCHANGED submissions
  BY <1>1, <1>2 DEF SubmissionsMean
<1>3. ASSUME NEW w \in Workers, SendCommit(w) PROVE SubmissionsMean'
  <2>1. PICK last, r, i :
          last = Len(submissions) + 1 /\ r = job[w].req /\ i = job[w].invoice
    OBVIOUS
  <2>2. /\ DOMAIN submissions' = DOMAIN submissions \cup {last}
        /\ \A n \in DOMAIN submissions : submissions'[n] = submissions[n]
        /\ submissions'[last].invoice = i
    BY <1>3, <2>1, Submitting
  <2>3. /\ submissions'[last].key = SendKey(r)
        /\ SendKey(r) # None => submissions'[last].hash = SendHash(r)
    <3>1. PICK s : /\ submissions' = Append(submissions, s)
                   /\ s.key = SendKey(r)
                   /\ SendKey(r) # None => s.hash = SendHash(r)
      BY <1>3, <2>1 DEF SendCommit
    <3>2. submissions'[last] = s
      BY <1>0, <2>1, <3>1
    <3> QED
      BY <3>1, <3>2
  <2>4. ASSUME SendKey(r) # None
        PROVE  SendHash(r) # None /\ Means(SendHash(r).target, SendKey(r), i)'
    <3>1. OnItsWay(w) /\ job[w].at = "commit"
      BY <1>3 DEF SendCommit, OnItsWay, Sending
    <3>2. r \in Requests /\ i \in InvoiceIds /\ Means(r.target, SendKey(r), i)
      BY <1>0, <2>1, <3>1, OnItsWayTypes DEF SendsMean, SendMeans
    <3>3. SendHash(r).target = r.target
      BY DEF SendHash
    <3>4. SendHash(r) # None
      BY <3>2, RequestData, HashesAssumption
    <3>5. Means(SendHash(r).target, SendKey(r), i)
      BY <3>2, <3>3
    <3> QED
      BY <3>2, <3>4, <3>5, MeansStays
  <2>5. SubmissionMeans(last)'
    BY <2>2, <2>3, <2>4 DEF SubmissionMeans, Means, Exists
  <2>6. \A n \in DOMAIN submissions : SubmissionMeans(n)'
    BY <1>1, <2>2
  <2> QED
    BY <2>2, <2>5, <2>6 DEF SubmissionsMean
<1> QED
  BY <1>0, <1>2, <1>3, Writers DEF Quiet, TransformInsert, ArchiveCommit

(* The delivery of an invoice is made, or under way. *)
Delivering(i) == invoices[i].delivery \in {"accepted", "pending"}

(* What a client that is told of submission n of invoice i may rely on:    *)
(* its key is stored with it, or another key is and no send under its own  *)
(* will add one.                                                           *)
ToldOf(r, i, n) ==
  SendKey(r) # None =>
    /\ Means(r.target, SendKey(r), i) /\ n \in SubmissionsOf(i)
    /\ \/ submissions[n].key = SendKey(r)
       \/ /\ Delivering(i) /\ n \in LatestSubmission(i)
          /\ \A m \in SubmissionsOf(i) : submissions[m].key # SendKey(r)

(* All answers to sends, delivered or waiting, are right. *)
SendsTold ==
  /\ \A a \in answers : a.outcome = "sent" => ToldOf(a.req, a.invoice, a.submission)
  /\ \A w \in Workers : job[w].at = "reply" /\ job[w].outcome = "sent" =>
       ToldOf(job[w].req, job[w].invoice, job[w].submission)

(* An invoice that is being delivered is not submitted again. *)
LEMMA DeliveringStays ==
  ASSUME SafetyInv, FreshSnaps, [Next]_vars,
         NEW i \in InvoiceIds, Exists(i), SubmissionsOf(i) # {}, Delivering(i)
  PROVE  Delivering(i)' /\ SubmissionsOf(i)' = SubmissionsOf(i)
<1>0. TypeInv /\ invoices \in [InvoiceIds -> Invoice]
  BY DEF SafetyInv, TypeInv, TypeOK
<1>1. CASE Quiet
  BY <1>1 DEF Quiet, Delivering, SubmissionsOf
<1>2. ASSUME NEW w \in Workers, TransformInsert(w)
      PROVE  Delivering(i)' /\ SubmissionsOf(i)' = SubmissionsOf(i)
  <2>1. PICK j \in InvoiceIds : \E row : ~Exists(j) /\ invoices' = [invoices EXCEPT ![j] = row]
    BY <1>2, Inserting
  <2>2. invoices'[i] = invoices[i]
    BY <1>0, <2>1
  <2> QED
    BY <1>2, <2>2 DEF TransformInsert, Delivering, SubmissionsOf
<1>3. ASSUME NEW w \in Workers, ArchiveCommit(w)
      PROVE  Delivering(i)' /\ SubmissionsOf(i)' = SubmissionsOf(i)
  <2>1. invoices'[i].delivery = invoices[i].delivery
    BY <1>3, FreshCommit
  <2> QED
    BY <1>3, <2>1 DEF ArchiveCommit, Delivering, SubmissionsOf
<1>4. ASSUME NEW w \in Workers, SendCommit(w)
      PROVE  Delivering(i)' /\ SubmissionsOf(i)' = SubmissionsOf(i)
  <2>1. i # job[w].invoice
    BY <1>4
    DEF SendCommit, FreshSnaps, FreshSnap, Undelivered, Delivering, InHand, Sending
  <2>2. invoices'[i] = invoices[i]
    BY <1>4, <2>1, FreshCommit
  <2>3. SubmissionsOf(i)' = SubmissionsOf(i)
    <3>1. SubmissionsOf(i)' = SubmissionsOf(i) \cup
            (IF i = job[w].invoice THEN {Len(submissions) + 1} ELSE {})
      BY <1>4, CountsGrow
    <3> QED
      BY <2>1, <3>1
  <2> QED
    BY <2>2, <2>3 DEF Delivering
<1> QED
  BY <1>0, <1>1, <1>2, <1>3, <1>4, Writers

(* Submissions stay as they are; others may follow. *)
LEMMA SubmissionsStay ==
  ASSUME SafetyInv, [Next]_vars, NEW n \in DOMAIN submissions
  PROVE  n \in DOMAIN submissions' /\ submissions'[n] = submissions[n]
<1>1. CASE UNCHANGED submissions
  BY <1>1
<1>2. ASSUME NEW w \in Workers, SendCommit(w)
      PROVE  n \in DOMAIN submissions' /\ submissions'[n] = submissions[n]
  BY <1>2, Submitting
<1> QED
  BY <1>1, <1>2, Writers DEF SafetyInv, Quiet, TransformInsert, ArchiveCommit

(* What a client was told of its send stays true. *)
LEMMA ToldOfStays ==
  ASSUME SafetyInv, FreshSnaps, [Next]_vars, NEW r, NEW i, NEW n, ToldOf(r, i, n)
  PROVE  ToldOf(r, i, n)'
<1> SUFFICES ASSUME SendKey(r) # None
             PROVE  /\ Means(r.target, SendKey(r), i)' /\ n \in SubmissionsOf(i)'
                    /\ \/ submissions'[n].key = SendKey(r)
                       \/ /\ Delivering(i)' /\ n \in LatestSubmission(i)'
                          /\ \A m \in SubmissionsOf(i)' : submissions'[m].key # SendKey(r)
  BY DEF ToldOf
<1>0. /\ Means(r.target, SendKey(r), i)
      /\ n \in DOMAIN submissions /\ submissions[n].invoice = i
  BY DEF ToldOf, SubmissionsOf
<1>1. i \in InvoiceIds /\ Exists(i)
  <2>1. submissions \in Seq(Submission)
    BY DEF SafetyInv, TypeInv, TypeOK
  <2>2. submissions[n] \in Submission
    BY <1>0, <2>1
  <2>3. i \in InvoiceIds
    BY <1>0, <2>2 DEF Submission
  <2> QED
    BY <1>0, <2>3, NoneBefore DEF SubmissionsOf
<1>2. Means(r.target, SendKey(r), i)'
  BY <1>0, <1>1, MeansStays
<1>3. /\ n \in SubmissionsOf(i)'
      /\ \A m \in SubmissionsOf(i) : submissions'[m] = submissions[m]
  BY <1>0, SubmissionsStay DEF SubmissionsOf
<1>4. CASE submissions[n].key = SendKey(r)
  BY <1>0, <1>2, <1>3, <1>4 DEF SubmissionsOf
<1>5. CASE submissions[n].key # SendKey(r)
  <2>1. /\ Delivering(i) /\ n \in LatestSubmission(i)
        /\ \A m \in SubmissionsOf(i) : submissions[m].key # SendKey(r)
    BY <1>5 DEF ToldOf
  <2>2. Delivering(i)' /\ SubmissionsOf(i)' = SubmissionsOf(i)
    BY <1>1, <2>1, DeliveringStays DEF LatestSubmission
  <2>3. LatestSubmission(i)' = LatestSubmission(i)
    BY <2>2 DEF LatestSubmission
  <2> QED
    BY <1>2, <1>3, <2>1, <2>2, <2>3
<1> QED
  BY <1>4, <1>5

(* A keyed send that is replayed is told of what is stored under its key.  *)
LEMMA ReplayToldOf ==
  ASSUME SubmissionsMean, NEW r, NEW n \in PriorSubmissions(r),
         HashMatches(submissions[n].hash, SendHash(r))
  PROVE  ToldOf(r, submissions[n].invoice, n)
<1>1. /\ n \in DOMAIN submissions /\ submissions[n].key = SendKey(r)
      /\ SendKey(r) # None
  BY DEF PriorSubmissions, SubmissionsWithKey
<1>2. /\ submissions[n].hash # None
      /\ Means(submissions[n].hash.target, SendKey(r), submissions[n].invoice)
  BY <1>1 DEF SubmissionsMean, SubmissionMeans
<1>3. submissions[n].hash = SendHash(r) /\ SendHash(r).target = r.target
  BY <1>2 DEF HashMatches, SendHash
<1> QED
  BY <1>1, <1>2, <1>3 DEF ToldOf, SubmissionsOf

(* One whose invoice is being delivered already is told of the latest      *)
(* submission.                                                             *)
LEMMA PriorToldOf ==
  ASSUME SafetyInv, FreshSnaps, SendsMean, NEW w \in Workers, SendReplayPrior(w)
  PROVE  \E n \in LatestSubmission(job[w].invoice) :
           /\ Reply(w, "sent", job[w].invoice, n)
           /\ ToldOf(job[w].req, job[w].invoice, n)
<1> DEFINE r == job[w].req
           i == job[w].invoice
<1>1. job[w].at = "prior" /\ OnItsWay(w) /\ ~Undelivered(w)
  BY DEF SendReplayPrior, OnItsWay, Sending
<1>2. Delivering(i)
  BY <1>1 DEF FreshSnaps, FreshSnap, InHand, Sending, Undelivered, Delivering
<1>3. PriorSubmissions(r) = {} /\ Means(r.target, SendKey(r), i)
  BY <1>1 DEF SendsMean, SendMeans
<1>4. SendKey(r) # None => \A m \in SubmissionsOf(i) : submissions[m].key # SendKey(r)
  BY <1>3 DEF PriorSubmissions, SubmissionsWithKey, SubmissionsOf
<1>5. PICK n \in LatestSubmission(i) : Reply(w, "sent", i, n)
  BY DEF SendReplayPrior
<1>6. n \in SubmissionsOf(i)
  BY <1>5 DEF LatestSubmission
<1> QED
  BY <1>2, <1>3, <1>4, <1>5, <1>6 DEF ToldOf

(* Who tells a client of its send: one of the two replays, or the delivery *)
(* of what was committed.                                                  *)
LEMMA AnswersToldStep ==
  ASSUME SafetyInv, FreshSnaps, SendsMean, SubmissionsMean, SendsTold, [Next]_vars,
         NEW a \in answers', a.outcome = "sent"
  PROVE  ToldOf(a.req, a.invoice, a.submission)'
<1>1. CASE a \in answers
  BY <1>1, ToldOfStays DEF SendsTold
<1>2. ASSUME NEW w \in Workers, NEW outcome, NEW i, NEW n, Reply(w, outcome, i, n),
             a \notin answers
      PROVE  a.req = job[w].req /\ a.outcome = outcome /\ a.invoice = i /\ a.submission = n
  BY <1>2 DEF Reply
<1>3. ASSUME NEW w \in Workers, Step(w), a \notin answers
      PROVE  ToldOf(a.req, a.invoice, a.submission)
  <2>1. ~Refuse(w)
    BY <1>2, <1>3 DEF Refuse
  <2>2. answers' # answers
    BY <1>3
  <2>3. CASE SendReplay(w)
    <3>1. PICK n \in PriorSubmissions(job[w].req) :
            /\ HashMatches(submissions[n].hash, SendHash(job[w].req))
            /\ Reply(w, "sent", submissions[n].invoice, n)
      BY <2>1, <2>3 DEF SendReplay
    <3> QED
      BY <1>2, <1>3, <3>1, ReplayToldOf
  <2>4. CASE SendReplayPrior(w)
    BY <1>2, <1>3, <2>4, PriorToldOf
  <2>5. CASE Deliver(w)
    <3>1. /\ job[w].at = "reply"
          /\ Reply(w, job[w].outcome, job[w].invoice, job[w].submission)
      BY <2>5 DEF Deliver
    <3>2. /\ a.req = job[w].req /\ a.outcome = job[w].outcome
          /\ a.invoice = job[w].invoice /\ a.submission = job[w].submission
      BY <1>2, <1>3, <3>1
    <3>3. ToldOf(job[w].req, job[w].invoice, job[w].submission)
      BY <3>1, <3>2, Zenon DEF SendsTold
    <3> QED
      BY <3>2, <3>3
  <2>6. ~TransformReplay(w) /\ ~ArchiveLoad(w)
    <3>1. \A outcome, i, n : outcome # "sent" => ~Reply(w, outcome, i, n)
      BY <1>2, <1>3, Zenon
    <3>2. \A next : ~Continue(w, next)
      BY <2>2 DEF Continue, history
    <3>3. ~Fail(w)
      BY <2>2 DEF Fail, history
    <3> QED
      BY <2>1, <3>1, <3>2, <3>3, Zenon DEF TransformReplay, ArchiveLoad
  <2>7. ~TransformStep(w)
    BY <2>1, <2>2, <2>6, Zenon
    DEF TransformStep, TransformRefuse, TransformAdmit, SigningFails, TransformInsert,
        TransformConflict, Continue, Fail, Committed, history
  <2>8. ~SendStep(w) \/ SendReplay(w) \/ SendReplayPrior(w)
    BY <2>1, <2>2
    DEF SendStep, SendRefuse, SendProceed, SendLoad, SendAdmit, ProviderSubmit,
        SendCommit, SendConflict, Continue, Fail, Committed, history
  <2>9. ~RecordStep(w)
    BY <2>1, <2>2, <2>6
    DEF RecordStep, ArchiveCommit, OfficialLoad, OfficialCommit, WebhookTest,
        Continue, Fail, Committed, history
  <2> QED
    BY <1>3, <2>3, <2>4, <2>5, <2>7, <2>8, <2>9 DEF Step
<1>4. ASSUME a \notin answers PROVE \E w \in Workers : Step(w)
  BY <1>4, Zenon DEF Next, Receive, Restart, vars
<1> QED
  BY <1>1, <1>3, <1>4, ToldOfStays

(* The answer that waits for delivery after a commit. *)
LEMMA RepliesToldStep ==
  ASSUME SafetyInv, FreshSnaps, SendsMean, SendsTold, [Next]_vars,
         NEW v \in Workers, job'[v].at = "reply", job'[v].outcome = "sent",
         NEW r, r = job'[v].req, NEW i, i = job'[v].invoice,
         NEW n, n = job'[v].submission
  PROVE  ToldOf(r, i, n)'
<1>0. TypeInv /\ submissions \in Seq(Submission)
  BY DEF SafetyInv, TypeInv, TypeOK
<1>1. CASE job'[v] = job[v]
  <2>1. ToldOf(r, i, n)
    BY <1>1 DEF SendsTold
  <2> QED
    BY <2>1, ToldOfStays
<1>2. CASE r = job[v].req /\ Ends(v)
  <2>1. OnItsWay(v) /\ i = job[v].invoice /\ job[v].at = "commit" /\ SendCommit(v)
    BY <1>2 DEF Ends, SendCommit, OnItsWay, Sending
  <2>2. i \in InvoiceIds /\ Means(r.target, SendKey(r), i)
    BY <1>0, <1>2, <2>1, OnItsWayTypes DEF SendsMean, SendMeans
  <2>3. Means(r.target, SendKey(r), i)'
    BY <2>2, MeansStays
  <2>4. n = Len(submissions) + 1 /\ n \in DOMAIN submissions'
        /\ submissions'[n].invoice = i
    BY <1>2, <2>1, Submitting DEF Ends
  <2>5. submissions'[n].key = SendKey(r)
    <3>1. PICK s : submissions' = Append(submissions, s) /\ s.key = SendKey(r)
      BY <1>2, <2>1 DEF SendCommit
    <3> QED
      BY <1>0, <2>4, <3>1
  <2> QED
    BY <2>3, <2>4, <2>5 DEF ToldOf, SubmissionsOf
<1>3. ~LooksUp(v) /\ ~Finds(v) /\ ~Inserts(v) /\ ~GoesOn(v)
  BY DEF LooksUp, Finds, Inserts, GoesOn, Sending
<1>4. Sends(v)'
  BY DEF Sends
<1> QED
  BY <1>0, <1>1, <1>2, <1>3, <1>4, SendsBefore, SendTurn

-----------------------------------------------------------------------------
(* What handlers keep true that do not overlap on an invoice.              *)
SerialInv == KeyInv /\ TrailInv /\ FreshSnaps /\ AllSettled /\ AllAnnounced

(* SerialInv holds as long as no two handlers overlap on an invoice.       *)
LEMMA SerialInvariant == Spec /\ []HandlersApart => []SerialInv
<1> DEFINE Serial == FreshSnaps /\ AllSettled /\ AllAnnounced
<1>1. Init => Serial
  <2> SUFFICES ASSUME Init PROVE Serial
    OBVIOUS
  <2>1. FreshSnaps
    BY DEF Init, Idle, FreshSnaps, FreshSnap, InHand, Sending
  <2>2. \A i \in InvoiceIds : SubmissionsOf(i) = {} /\ Places(trail[i], "retried") = {}
    BY DEF Init, SubmissionsOf, Places
  <2>3. AllSettled
    BY <2>2 DEF Init, NoInvoice, AllSettled, Settled, LatestSubmission, Redacted
  <2>4. AllAnnounced
    BY <2>2, FS_EmptySet DEF AllAnnounced, Announced
  <2> QED
    BY <2>1, <2>3, <2>4
<1>2. KeyInv /\ TrailInv /\ HandlersApart /\ Serial /\ [Next]_vars => Serial'
  <2> SUFFICES ASSUME KeyInv, TrailInv, HandlersApart, Serial, [Next]_vars PROVE Serial'
    OBVIOUS
  <2>1. ScopeInv /\ SilentBefore /\ SafetyInv
    BY DEF TrailInv, ScopeInv
  <2>2. FreshSnaps'
    BY <2>1, FreshStep
  <2>3. AllSettled'
    BY <2>1, SettledStep DEF AllSettled
  <2>4. AllAnnounced'
    BY <2>1, AnnouncedStep DEF AllAnnounced
  <2> QED
    BY <2>2, <2>3, <2>4
<1>3. KeyInv /\ TrailInv /\ Serial => SerialInv
  BY DEF SerialInv
<1> HIDE DEF Serial
<1> QED
  BY <1>1, <1>2, <1>3, KeyInvariant, TrailInvariant, PTL DEF Spec

(* What sends keep true that do not overlap under a key either.            *)
ToldInv == SerialInv /\ SendsMean /\ SubmissionsMean /\ SendsTold

(* ToldInv holds as long as no two sends overlap under a key, and no two   *)
(* handlers on an invoice.                                                 *)
LEMMA ToldInvariant == Spec /\ []HandlersApart /\ []KeysApart => []ToldInv
<1> DEFINE Agreed == SendsMean /\ SubmissionsMean /\ SendsTold
<1>1. Init => Agreed
  <2> SUFFICES ASSUME Init PROVE Agreed
    OBVIOUS
  <2>1. \A w \in Workers : job[w].at = "idle"
    BY DEF Init, Idle
  <2>2. SendsMean
    BY <2>1 DEF SendsMean, SendMeans, OnItsWay, Sending
  <2>3. SubmissionsMean
    BY DEF Init, SubmissionsMean
  <2>4. SendsTold
    BY <2>1 DEF Init, SendsTold
  <2> QED
    BY <2>2, <2>3, <2>4
<1>2. SerialInv /\ KeysApart /\ Agreed /\ [Next]_vars => Agreed'
  <2> SUFFICES ASSUME SerialInv, KeysApart, Agreed, [Next]_vars PROVE Agreed'
    OBVIOUS
  <2>1. SafetyInv /\ FreshSnaps
    BY DEF SerialInv, KeyInv
  <2>2. SendsMean' /\ SubmissionsMean'
    BY <2>1, SendsMeanStep, SubmissionsMeanStep
  <2>3. SendsTold'
    BY <2>1, AnswersToldStep, RepliesToldStep DEF SendsTold, ToldOf, Means, Exists,
       SubmissionsOf, LatestSubmission, Delivering
  <2> QED
    BY <2>2, <2>3
<1>3. SerialInv /\ Agreed => ToldInv
  BY DEF ToldInv
<1> HIDE DEF Agreed
<1> QED
  BY <1>1, <1>2, <1>3, SerialInvariant, PTL DEF Spec

(* tests/test_invoice_send.py:27: an accepted invoice is not submitted     *)
(* again, as long as no two sends of it overlap (the check of the latest   *)
(* submission, invoices.py:275).                                           *)
THEOREM AcceptedOnce ==
  Spec /\ []HandlersApart => []AtMostOneAcceptedSubmission
<1>1. SerialInv => AtMostOneAcceptedSubmission
  <2> SUFFICES ASSUME SerialInv, NEW i \in InvoiceIds
               PROVE  Cardinality(Sent(i, "accepted")) <= 1
    BY DEF AtMostOneAcceptedSubmission, Sent
  <2>1. Sent(i, "accepted") \subseteq LatestSubmission(i)
    BY DEF SerialInv, AllSettled, Settled, Sent
  <2>2. \A n, m \in LatestSubmission(i) : n = m
    <3>1. submissions \in Seq(Submission)
      BY DEF SerialInv, KeyInv, SafetyInv, TypeInv, TypeOK
    <3>2. \A n \in SubmissionsOf(i) : n \in Nat
      BY <3>1 DEF SubmissionsOf
    <3> QED
      BY <3>2 DEF LatestSubmission
  <2>3. Sent(i, "accepted") = {} \/ \E n : Sent(i, "accepted") = {n}
    BY <2>1, <2>2
  <2>4. Cardinality({}) = 0 /\ \A n : Cardinality({n}) = 1
    BY FS_EmptySet, FS_Singleton
  <2>5. Cardinality(Sent(i, "accepted")) \in {0, 1}
    BY <2>3, <2>4, Zenon
  <2> QED
    BY <2>5
<1> QED
  BY <1>1, SerialInvariant, PTL

(* The columns that status() reports (invoices.py:350) are those of the    *)
(* latest submission and agree with one another, as long as no two         *)
(* handlers overlap on an invoice.                                         *)
THEOREM StatusTellsOfLatest ==
  Spec /\ []HandlersApart => []StatusMatchesLatestSubmission
<1>1. SerialInv => StatusMatchesLatestSubmission
  BY DEF SerialInv, AllSettled, Settled, StatusMatchesLatestSubmission
<1> QED
  BY <1>1, SerialInvariant, PTL

(* Every submission but an invoice's first is announced as a retry         *)
(* (invoices.py:279), as long as no two sends of it overlap.               *)
THEOREM RetriesAnnounced == Spec /\ []HandlersApart => []RetriesAreDeclared
<1>1. SerialInv => RetriesAreDeclared
  BY DEF SerialInv, AllAnnounced, Announced, RetriesAreDeclared, EventsOf, Places
<1> QED
  BY <1>1, SerialInvariant, PTL

(* README.md:474: a redacted invoice is an archived one, as long as no     *)
(* send that read the row before overlaps with the archive.                *)
THEOREM RedactedAreArchived ==
  Spec /\ []HandlersApart => []RedactedImpliesArchived
<1>1. SerialInv => RedactedImpliesArchived
  BY DEF SerialInv, AllSettled, Settled, RedactedImpliesArchived
<1> QED
  BY <1>1, SerialInvariant, PTL

(* A client that repeats a keyed send is told of the same submission each  *)
(* time, whichever of the two ways send finds it (invoices.py:259 and      *)
(* invoices.py:275), as long as no two sends overlap on an invoice or      *)
(* under a key.                                                            *)
THEOREM RetriesAreToldTheSame ==
  Spec /\ []HandlersApart /\ []KeysApart => []SendRetriesAgree
<1>1. ToldInv => SendRetriesAgree
  <2> SUFFICES ASSUME ToldInv, NEW a \in answers, NEW b \in answers,
                      a.outcome = "sent", b.outcome = "sent",
                      a.req = b.req, SendKey(a.req) # None
               PROVE  a.submission = b.submission
    BY DEF SendRetriesAgree
  <2> DEFINE r == a.req
             i == a.invoice
             j == b.invoice
             n == a.submission
             m == b.submission
  <2>1. ToldOf(r, i, n) /\ ToldOf(r, j, m)
    BY DEF ToldInv, SendsTold
  <2>2. /\ Means(r.target, SendKey(r), i) /\ n \in SubmissionsOf(i)
        /\ Means(r.target, SendKey(r), j) /\ m \in SubmissionsOf(j)
    BY <2>1 DEF ToldOf
  <2>3. submissions \in Seq(Submission) /\ KeysAreUnique
    BY DEF ToldInv, SerialInv, KeyInv, SafetyInv, TypeInv, TypeOK
  <2>4. \A k \in DOMAIN submissions : k \in Nat /\ submissions[k].invoice \in InvoiceIds
    <3>1. \A k \in DOMAIN submissions : k \in Nat /\ submissions[k] \in Submission
      BY <2>3
    <3> QED
      BY <3>1 DEF Submission
  <2>5. i = j
    <3>1. i \in InvoiceIds /\ j \in InvoiceIds
      BY <2>2, <2>4 DEF SubmissionsOf
    <3> QED
      BY <2>2, <2>3, <3>1 DEF Means, KeysAreUnique
  <2>6. CASE submissions[n].key = SendKey(r) /\ submissions[m].key = SendKey(r)
    BY <2>2, <2>3, <2>6 DEF KeysAreUnique, SubmissionsOf
  <2>7. CASE submissions[n].key # SendKey(r) \/ submissions[m].key # SendKey(r)
    <3>1. \A k \in SubmissionsOf(i) : submissions[k].key # SendKey(r)
      BY <2>1, <2>5, <2>7 DEF ToldOf
    <3>2. n \in LatestSubmission(i) /\ m \in LatestSubmission(i)
      BY <2>1, <2>2, <2>5, <3>1 DEF ToldOf
    <3>3. n <= m /\ m <= n /\ n \in Nat /\ m \in Nat
      BY <2>4, <3>2 DEF LatestSubmission, SubmissionsOf
    <3> QED
      BY <3>3
  <2> QED
    BY <2>6, <2>7
<1> QED
  BY <1>1, ToldInvariant, PTL

-----------------------------------------------------------------------------
(* The calls that the provider gets under a key.                           *)

(* A call for the key is stored, or will be by the thread that made it.    *)
Spent(k) ==
  \/ \E n \in DOMAIN submissions : submissions[n].key = k
  \/ \E w \in Workers : job[w].at = "commit" /\ SendKey(job[w].req) = k

(* No more calls than crashes, and one more only if the key is spent.      *)
CallsOK ==
  \A i \in InvoiceIds, k \in Keys :
    \/ calls[i][k] <= restarts
    \/ calls[i][k] = restarts + 1 /\ Spent(k)

(* What a handler does beside the tables.                                  *)
LEMMA CallsChange ==
  ASSUME [Next]_vars
  PROVE  \/ UNCHANGED <<calls, restarts>>
         \/ UNCHANGED restarts /\ \E w \in Workers : ProviderSubmit(w)
         \/ UNCHANGED calls /\ restarts' = restarts + 1
<1>1. ASSUME NEW w \in Workers, Step(w)
      PROVE  UNCHANGED <<calls, restarts>> \/ (ProviderSubmit(w) /\ UNCHANGED restarts)
  <2>1. CASE TransformStep(w)
    <3>1. CASE TransformReplay(w)
      <4>1. PICK i \in PriorInvoices(job[w].req) :
              \/ Refuse(w)
              \/ Reply(w, "invalid", i, 0)
              \/ Reply(w, "transformed", i, 0)
              \/ Continue(w, [job[w] EXCEPT !.at = "prior", !.invoice = i,
                                            !.snap = invoices[i]])
        BY <3>1, Zenon DEF TransformReplay
      <4> QED BY <4>1 DEF Refuse, Reply, Continue, history
    <3>2. CASE TransformRefuse(w)
      BY <3>2 DEF TransformRefuse, Refuse, Reply
    <3>3. CASE TransformAdmit(w) \/ SigningFails(w) \/ TransformConflict(w)
      BY <3>3 DEF TransformAdmit, SigningFails, TransformConflict, Continue, Fail, history
    <3>4. CASE TransformInsert(w)
      BY <3>4 DEF TransformInsert, Committed, history
    <3> QED BY <2>1, <3>1, <3>2, <3>3, <3>4 DEF TransformStep
  <2>2. CASE SendStep(w)
    BY <2>2 DEF SendStep, SendRefuse, SendReplay, SendProceed, SendLoad,
       SendReplayPrior, SendAdmit, ProviderSubmit, SendCommit, SendConflict,
       Refuse, Reply, Continue, Fail, Committed, history
  <2>3. CASE RecordStep(w) \/ Deliver(w)
    BY <2>3 DEF RecordStep, ArchiveLoad, ArchiveCommit, OfficialLoad,
       OfficialCommit, WebhookTest, Deliver, Refuse, Reply, Continue, Fail,
       Committed, history
  <2> QED BY <1>1, <2>1, <2>2, <2>3 DEF Step
<1>2. ASSUME NEW w \in Workers, NEW r \in Requests, Receive(w, r)
      PROVE  UNCHANGED <<calls, restarts>>
  BY <1>2 DEF Receive
<1>3. ASSUME NEW region \in Regions, NEW newRole \in RestartRoles,
             Restart(region, newRole)
      PROVE  UNCHANGED calls /\ restarts' = restarts + 1
  BY <1>3 DEF Restart
<1> QED
  BY <1>1, <1>2, <1>3 DEF Next, vars

(* A key that is spent stays so, unless a process dies: the thread that    *)
(* called the provider stores the key, and finds it free.                  *)
LEMMA SpentStays ==
  ASSUME SafetyInv, SendsMean, [Next]_vars, UNCHANGED restarts,
         NEW k \in Keys, Spent(k)
  PROVE  Spent(k)'
<1>0. TypeInv /\ job \in [Workers -> Job \cup {Idle}] /\ restarts \in Nat
  BY DEF SafetyInv, TypeInv, TypeOK
<1>1. CASE \E n \in DOMAIN submissions : submissions[n].key = k
  BY <1>1, SubmissionsStay DEF Spent
<1>2. ASSUME NEW v \in Workers, job[v].at = "commit", SendKey(job[v].req) = k
      PROVE  Spent(k)'
  <2>1. CASE job'[v] = job[v]
    BY <1>2, <2>1 DEF Spent
  <2>2. CASE Step(v)
    <3>1. SendKeyFree(job[v].req)
      BY <1>2 DEF SendsMean, SendMeans, OnItsWay, Sending, SendKeyFree,
         PriorSubmissions
    <3>2. SendCommit(v)
      BY <1>2, <2>2, <3>1 DEF Step, TransformStep, TransformReplay,
         TransformRefuse, TransformAdmit, SigningFails, TransformInsert,
         TransformConflict, SendStep, SendRefuse, SendReplay, SendProceed,
         SendLoad, SendReplayPrior, SendAdmit, ProviderSubmit, SendConflict,
         RecordStep, ArchiveLoad, ArchiveCommit, OfficialLoad, OfficialCommit,
         WebhookTest, Deliver
    <3>3. PICK s : submissions' = Append(submissions, s) /\ s.key = k
      BY <1>2, <3>2 DEF SendCommit
    <3>4. submissions \in Seq(Submission)
      BY <1>0 DEF TypeInv, TypeOK
    <3>5. /\ Len(submissions) + 1 \in DOMAIN submissions'
          /\ submissions'[Len(submissions) + 1] = s
      BY <3>3, <3>4
    <3> QED BY <3>3, <3>5 DEF Spent
  <2>3. ASSUME NEW w \in Workers, w # v, Step(w)
        PROVE  job'[v] = job[v]
    <3>1. \E next : job' = [job EXCEPT ![w] = next]
      BY <1>0, <2>3, OneJob
    <3> QED BY <1>0, <2>3, <3>1
  <2>4. ASSUME NEW w \in Workers, NEW r \in Requests, Receive(w, r)
        PROVE  job'[v] = job[v]
    <3>1. w # v
      BY <1>2, <2>4 DEF Receive, Idle
    <3> QED BY <1>0, <2>4, <3>1 DEF Receive
  <2>5. ASSUME NEW region \in Regions, NEW newRole \in RestartRoles,
               Restart(region, newRole)
        PROVE  FALSE
    BY <1>0, <2>5 DEF Restart
  <2> QED BY <2>1, <2>2, <2>3, <2>4, <2>5 DEF Next, vars
<1> QED BY <1>1, <1>2 DEF Spent

(* A thread calls the provider under a key that is not spent.              *)
LEMMA CallsUnspent ==
  ASSUME KeysApart, SendsMean, NEW w \in Workers, ProviderSubmit(w),
         SendKey(job[w].req) # None
  PROVE  ~Spent(SendKey(job[w].req))
<1>1. job[w].at = "submit" /\ OnItsWay(w)
  BY DEF ProviderSubmit, OnItsWay, Sending
<1>2. \A n \in DOMAIN submissions : submissions[n].key # SendKey(job[w].req)
  BY <1>1 DEF SendsMean, SendMeans, PriorSubmissions, SubmissionsWithKey
<1>3. ASSUME NEW v \in Workers, job[v].at = "commit"
      PROVE  SendKey(job[v].req) # SendKey(job[w].req)
  <2>1. v # w /\ OnItsWay(v)
    BY <1>1, <1>3 DEF OnItsWay, Sending
  <2> QED BY <1>1, <2>1 DEF KeysApart
<1> QED BY <1>2, <1>3 DEF Spent

LEMMA CallsOKStep ==
  ASSUME SafetyInv, KeysApart, SendsMean, CallsOK, [Next]_vars
  PROVE  CallsOK'
<1> SUFFICES ASSUME NEW i \in InvoiceIds, NEW k \in Keys
             PROVE  \/ calls'[i][k] <= restarts'
                    \/ calls'[i][k] = restarts' + 1 /\ Spent(k)'
  BY DEF CallsOK, Spent
<1>0. /\ TypeInv /\ job \in [Workers -> Job \cup {Idle}]
      /\ calls \in [InvoiceIds -> [OrNone(Keys) -> Nat]]
      /\ calls[i][k] \in Nat /\ restarts \in Nat
      /\ k # None /\ k \in OrNone(Keys)
  <2>1. TypeInv
    BY DEF SafetyInv
  <2>2. k # None /\ k \in OrNone(Keys)
    BY NoneAssumption DEF OrNone
  <2>3. TypeOK
    BY <2>1 DEF TypeInv
  <2>4. /\ job \in [Workers -> Job \cup {Idle}]
        /\ calls \in [InvoiceIds -> [OrNone(Keys) -> Nat]]
        /\ restarts \in Nat
    BY <2>3 DEF TypeOK
  <2>5. calls[i][k] \in Nat
    BY <2>2, <2>4
  <2> QED BY <2>1, <2>2, <2>4, <2>5
<1>1. \/ calls[i][k] <= restarts
      \/ calls[i][k] = restarts + 1 /\ Spent(k)
  BY DEF CallsOK
<1>2. CASE UNCHANGED <<calls, restarts>>
  BY <1>1, <1>2, SpentStays
<1>3. CASE UNCHANGED calls /\ restarts' = restarts + 1
  BY <1>0, <1>1, <1>3
<1>4. ASSUME NEW w \in Workers, ProviderSubmit(w), UNCHANGED restarts
      PROVE  \/ calls'[i][k] <= restarts'
             \/ calls'[i][k] = restarts' + 1 /\ Spent(k)'
  <2> DEFINE j == job[w].invoice
             l == SendKey(job[w].req)
  <2>1. calls' = [calls EXCEPT ![j][l] = @ + 1]
    BY <1>4 DEF ProviderSubmit
  <2>2. CASE i = j /\ k = l
    <3>1. calls'[i][k] = calls[i][k] + 1
      BY <1>0, <2>1, <2>2
    <3>2. calls[i][k] <= restarts
      BY <1>0, <1>1, <1>4, <2>2, CallsUnspent
    <3>3. job'[w].at = "commit" /\ job'[w].req = job[w].req
      <4>1. job[w] \in Job
        BY <1>0, <1>4, BusyJob DEF ProviderSubmit, Steps, TypeInv
      <4> QED BY <1>0, <1>4, <4>1 DEF ProviderSubmit, Job
    <3>4. Spent(k)'
      BY <2>2, <3>3 DEF Spent
    <3> QED BY <1>0, <1>4, <3>1, <3>2, <3>4
  <2>3. CASE ~(i = j /\ k = l)
    <3>1. calls'[i][k] = calls[i][k]
      BY <1>0, <2>1, <2>3
    <3> QED BY <1>1, <1>4, <3>1, SpentStays
  <2> QED BY <2>2, <2>3
<1> QED BY <1>2, <1>3, <1>4, CallsChange

LEMMA CallsInvariant == Spec /\ []KeysApart => [](SafetyInv /\ CallsOK)
<1> DEFINE Counted == SendsMean /\ CallsOK
<1>1. Init => Counted
  BY DEF Init, Idle, SendsMean, SendMeans, OnItsWay, Sending, CallsOK, OrNone
<1>2. SafetyInv /\ KeysApart /\ Counted /\ [Next]_vars => Counted'
  BY SendsMeanStep, CallsOKStep
<1>3. Counted => CallsOK
  OBVIOUS
<1> HIDE DEF Counted
<1> QED
  BY <1>1, <1>2, <1>3, SafetyInvariant, PTL DEF Spec

(* The provider gets an invoice under one key at most once, and once more  *)
(* for each process that died (invoices.py:298 and 335), as long as no two *)
(* sends under one key overlap.                                            *)
THEOREM CrashesCostOneCall ==
  Spec /\ []KeysApart => []RepeatsComeFromCrashes
<1>1. SafetyInv /\ CallsOK => RepeatsComeFromCrashes
  <2> SUFFICES ASSUME SafetyInv, CallsOK, NEW i \in InvoiceIds, NEW k \in Keys
               PROVE  calls[i][k] <= 1 + restarts
    BY DEF RepeatsComeFromCrashes
  <2>1. calls[i][k] \in Nat /\ restarts \in Nat
    BY DEF SafetyInv, TypeInv, TypeOK, OrNone
  <2> QED BY <2>1 DEF CallsOK
<1> QED
  BY <1>1, CallsInvariant, PTL

(* api/routes/regions.py:48, where it is right: a keyed send reaches the   *)
(* provider once, as long as no process dies and no two sends under one    *)
(* key overlap.                                                            *)
THEOREM SubmittedOnceWithoutCrash ==
  Spec /\ []KeysApart /\ [](restarts = 0) => []KeyedSendSubmitsOnce
<1>1. RepeatsComeFromCrashes /\ restarts = 0 => KeyedSendSubmitsOnce
  BY DEF RepeatsComeFromCrashes, KeyedSendSubmitsOnce
<1> QED
  BY <1>1, CrashesCostOneCall, PTL
=============================================================================
