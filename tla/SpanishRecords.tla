---------------------------- MODULE SpanishRecords ----------------------------
(***************************************************************************)
(* The Spanish fiscal records that InvoiceService.transform writes          *)
(* (app/services/invoices.py, spain_sif.py, spanish_sif_signing.py,         *)
(* validation/no_network.py): each record carries a hash over its fields    *)
(* and the hash of the record before it, which the client sends along.      *)
(*                                                                         *)
(* A till is a client that keeps its chain as it should: it numbers its    *)
(* records, sends each with an idempotency key until it is answered, and   *)
(* takes the hashes of the answered record from its audit trail to the     *)
(* next.  A stray client sends whatever it likes, without a key.           *)
(*                                                                         *)
(* SHA-256 is a register of what has been hashed: a hash is the position   *)
(* of its input, a new input gets the next one.  So a client knows no hash *)
(* before it exists, and two inputs never share one.                       *)
(*                                                                         *)
(* A definition marked "Fault:" is what the one after it would be with a   *)
(* plausible bug; nothing uses it.                                         *)
(***************************************************************************)
EXTENDS Readiness, Sequences

CONSTANTS
  Tills, Strays,   (* sellers, by the kind of their client                  *)
  Workers,         (* the requests that are served at a time                *)
  Deployments,     (* the settings that the service may be deployed with    *)
  Foreign,         (* a well-formed hash that this service never computed   *)
  Malformed,       (* a text that is no hash                                *)
  Redacted,        (* the document of an archived record                    *)
  MaxNumber,       (* bound: records of a till                              *)
  MaxStrays,       (* bound: rows, and hashes, of a stray client              *)
  MaxDeploys,      (* bound: later deployments                              *)
  MaxArchived      (* bound: documents redacted                             *)

ASSUME SpanishAssumption ==
  /\ Tills \cap Strays = {}
  /\ Deployments \subseteq SUBSET SettingNames
  /\ Foreign \notin Nat /\ Malformed \notin Nat /\ Foreign # Malformed
  /\ MaxNumber \in Nat /\ MaxStrays \in Nat
  /\ MaxDeploys \in Nat /\ MaxArchived \in Nat

VARIABLES
  settings,     (* of the running deployment                                *)
  deploys,      (* later deployments                                        *)
  recordInputs, (* the record hashes computed so far, by their input        *)
  eventInputs,  (* the event hashes, likewise                               *)
  rows,         (* the compliant invoices of the database, in order         *)
  job,          (* what each worker is serving                              *)
  last          (* the row of the last record that a till was answered for  *)

vars == <<settings, deploys, recordInputs, eventInputs, rows, job, last>>

Sellers == Tills \cup Strays

(* metadata.first_record and first_event: true, a text such as "true", or  *)
(* not given.  A previous hash of 0 is not given.                          *)
FirstMarks == {"true", "text", "absent"}
Previous   == Nat \cup {Foreign, Malformed}

Metadata ==
  [first : FirstMarks, previous : Previous, named : BOOLEAN,
   firstEvent : FirstMarks, previousEvent : Previous]

-----------------------------------------------------------------------------
(* Fault: any mark counts in the validator.                                *)
CompliantIfMarked(m) ==
  /\ m.first = "absent" => m.previous # 0 /\ m.named
  /\ m.previous # Malformed
  /\ m.firstEvent = "absent" => m.previousEvent # 0
  /\ m.previousEvent # Malformed

(* validate_es, as to the chain: a previous record, by its hash, number    *)
(* and date, and a previous event, unless this is the first; a hash that   *)
(* is given must look like one, even then.  Only the JSON value true marks *)
(* a first.                                                                *)
Compliant(m) ==
  /\ m.first # "true" => m.previous # 0 /\ m.named
  /\ m.previous # Malformed
  /\ m.firstEvent # "true" => m.previousEvent # 0
  /\ m.previousEvent # Malformed

(* Fault: the hash that was sent, also for a first record.                 *)
PreviousAsSent(m) == m.previous

PreviousRecordHash(m) == IF m.first = "true" THEN 0 ELSE m.previous
PreviousEventHash(m) ==
  IF m.firstEvent = "true" THEN 0 ELSE m.previousEvent

(* Fault: HUELLAANTERIOR is left out.                                      *)
RecordFieldsWithoutPrevious(seller, number, m) ==
  [seller |-> seller, number |-> number, previous |-> 0]

(* registration_hash_fields.  The timestamp is the invoice's own or its    *)
(* date, so that it does not tell records apart.                           *)
RecordFields(seller, number, m) ==
  [seller |-> seller, number |-> number, previous |-> PreviousRecordHash(m)]

(* event_hash_fields: the installation, which is the seller's, and nothing *)
(* of the invoice.                                                         *)
EventFields(seller, m) ==
  [seller |-> seller, previous |-> PreviousEventHash(m)]

(* The text of a document: as the transformer wrote it, or as a command    *)
(* signed it.                                                              *)
Texts == {"generated", "signed"}

(* stable_payload_hash of a text, given the texts hashed so far.           *)
Hashed(inputs, text) ==
  IF \E h \in DOMAIN inputs : inputs[h] = text
  THEN inputs ELSE Append(inputs, text)
HashOf(inputs, text) == CHOOSE h \in DOMAIN inputs : inputs[h] = text

(* _encadenamiento: PrimerRegistro, or RegistroAnterior with the number    *)
(* and date, if they were given, and the hash.                             *)
LinkOf(m) ==
  IF m.first = "true"
  THEN [first |-> TRUE, named |-> FALSE, previous |-> 0]
  ELSE [first |-> FALSE, named |-> m.named, previous |-> PreviousRecordHash(m)]

(* build_aeat_registro_alta_xml.                                           *)
DocumentOf(seller, number, m, inputs) ==
  [huella |-> HashOf(inputs, RecordFields(seller, number, m)),
   link   |-> LinkOf(m),
   text   |-> "generated"]

(* Fault: the record hash is that of the previous record.                  *)
TrailOfPrevious(seller, number, m, records, events) ==
  [record |-> m.previous,
   event  |-> HashOf(events, EventFields(seller, m)),
   signature |-> "none"]

(* The audit events sif_record_generated and, if a command is configured,  *)
(* sif_record_signed.  Both hashes are computed from the invoice again.    *)
TrailOf(seller, number, m, records, events) ==
  [record |-> HashOf(records, RecordFields(seller, number, m)),
   event  |-> HashOf(events, EventFields(seller, m)),
   signature |-> "none"]

-----------------------------------------------------------------------------
Idle == [stage |-> "idle"]

RowsOf(seller)   == {i \in DOMAIN rows : rows[i].seller = seller}
WithKey(s, n)    == {i \in RowsOf(s) : rows[i].keyed /\ rows[i].number = n}
InFlight(seller) ==
  {w \in Workers : job[w].stage \in {"sign", "insert"} /\ job[w].seller = seller}

Init ==
  /\ settings \in Deployments
  /\ deploys = 0
  /\ recordInputs = <<>>
  /\ eventInputs = <<>>
  /\ rows = <<>>
  /\ job = [w \in Workers |-> Idle]
  /\ last = [s \in Tills |-> 0]

(* From the validation to the document and its hashes.  A request that is  *)
(* not compliant is stored without a record and changes nothing here.      *)
Generate(w, seller, number, keyed, m) ==
  /\ Compliant(m)
  /\ recordInputs' = Hashed(recordInputs, RecordFields(seller, number, m))
  /\ eventInputs' = Hashed(eventInputs, EventFields(seller, m))
  /\ job' = [job EXCEPT ![w] =
       [stage  |-> IF SigningCommand \in settings THEN "sign" ELSE "insert",
        seller |-> seller,
        number |-> number,
        keyed  |-> keyed,
        doc    |-> DocumentOf(seller, number, m, recordInputs'),
        trail  |-> TrailOf(seller, number, m, recordInputs', eventInputs')]]

(* The number of a till's next record.                                     *)
NextNumber(s) == IF last[s] = 0 THEN 1 ELSE rows[last[s]].number + 1

(* What a till sends with it.                                              *)
NextMetadata(s) ==
  IF last[s] = 0
  THEN [first |-> "true", previous |-> 0, named |-> FALSE,
        firstEvent |-> "true", previousEvent |-> 0]
  ELSE [first |-> "absent", previous |-> rows[last[s]].trail.record,
        named |-> TRUE,
        firstEvent |-> "absent", previousEvent |-> rows[last[s]].trail.event]

(* transform with a key: a known key is answered with its row.             *)
TillAsks(w, s) ==
  /\ job[w] = Idle
  /\ NextNumber(s) <= MaxNumber
  /\ LET known == WithKey(s, NextNumber(s))
     IN  \/ \E i \in known :
              /\ job' = [job EXCEPT ![w] = [stage |-> "reply", row |-> i]]
              /\ UNCHANGED <<recordInputs, eventInputs>>
         \/ /\ known = {}
            /\ Generate(w, s, NextNumber(s), TRUE, NextMetadata(s))
  /\ UNCHANGED <<settings, deploys, rows, last>>

(* transform without a key.  Every stray record has the same number, and   *)
(* its event is a first one or not compliant.                              *)
StrayAsks(w, s) ==
  /\ job[w] = Idle
  /\ Cardinality(RowsOf(s)) + Cardinality(InFlight(s)) < MaxStrays
  /\ \E first, firstEvent \in FirstMarks, named \in BOOLEAN,
        previous \in {0, Foreign, Malformed} \cup DOMAIN recordInputs,
        previousEvent \in {0, Malformed} :
       Generate(w, s, 1, FALSE,
         [first |-> first, previous |-> previous, named |-> named,
          firstEvent |-> firstEvent, previousEvent |-> previousEvent])
  /\ Cardinality({h \in DOMAIN recordInputs' : recordInputs'[h].seller = s})
       <= MaxStrays
  /\ UNCHANGED <<settings, deploys, rows, last>>

(* Fault: the document as it was before signing is kept.                   *)
SignKeepsDocument(w) ==
  /\ job[w].stage = "sign"
  /\ \E text \in Texts :
       job' = [job EXCEPT ![w].stage = "insert", ![w].trail.signature = text]
  /\ UNCHANGED <<settings, deploys, recordInputs, eventInputs, rows, last>>

(* sign_spanish_sif_document: what the command prints is the document, or, *)
(* if it prints nothing, what it leaves in the file.  Nobody looks whether *)
(* either is signed.  The event refers to the result by its hash.          *)
Sign(w) ==
  /\ job[w].stage = "sign"
  /\ \E text \in Texts :
       job' = [job EXCEPT ![w].stage = "insert", ![w].doc.text = text,
                         ![w].trail.signature = text]
  /\ UNCHANGED <<settings, deploys, recordInputs, eventInputs, rows, last>>

(* The command fails (502) or takes 30 seconds (500): nothing is stored.   *)
SigningFails(w) ==
  /\ job[w].stage = "sign"
  /\ job' = [job EXCEPT ![w] = Idle]
  /\ UNCHANGED <<settings, deploys, recordInputs, eventInputs, rows, last>>

(* Fault: no index makes the key unique.                                   *)
StoreAnyway(w) ==
  /\ job[w].stage = "insert"
  /\ rows' = Append(rows,
       [seller |-> job[w].seller, number |-> job[w].number,
        keyed |-> job[w].keyed, doc |-> job[w].doc, trail |-> job[w].trail,
        under |-> settings])
  /\ job' = [job EXCEPT ![w] = IF @.keyed
       THEN [stage |-> "reply", row |-> Len(rows')] ELSE Idle]
  /\ UNCHANGED <<settings, deploys, recordInputs, eventInputs, last>>

(* The row and its audit events are committed together.  What a stray      *)
(* client does with its answer is in its next request.                     *)
Store(w) ==
  /\ job[w].stage = "insert"
  /\ job[w].keyed => WithKey(job[w].seller, job[w].number) = {}
  /\ rows' = Append(rows,
       [seller |-> job[w].seller, number |-> job[w].number,
        keyed |-> job[w].keyed, doc |-> job[w].doc, trail |-> job[w].trail,
        under |-> settings])
  /\ job' = [job EXCEPT ![w] = IF @.keyed
       THEN [stage |-> "reply", row |-> Len(rows')] ELSE Idle]
  /\ UNCHANGED <<settings, deploys, recordInputs, eventInputs, last>>

(* Another attempt stored its row under the same key: the flush raises,    *)
(* the answer is a 500.                                                    *)
StoreConflicts(w) ==
  /\ job[w].stage = "insert"
  /\ job[w].keyed /\ WithKey(job[w].seller, job[w].number) # {}
  /\ job' = [job EXCEPT ![w] = Idle]
  /\ UNCHANGED <<settings, deploys, recordInputs, eventInputs, rows, last>>

(* The answer reaches the client.  A till that waited for it goes on.      *)
Reply(w) ==
  /\ job[w].stage = "reply"
  /\ LET row == rows[job[w].row]
     IN  last' = IF row.number = NextNumber(row.seller)
                 THEN [last EXCEPT ![row.seller] = job[w].row]
                 ELSE last
  /\ job' = [job EXCEPT ![w] = Idle]
  /\ UNCHANGED <<settings, deploys, recordInputs, eventInputs, rows>>

(* The answer, or the request's connection, is lost.                       *)
LoseReply(w) ==
  /\ job[w].stage = "reply"
  /\ job' = [job EXCEPT ![w] = Idle]
  /\ UNCHANGED <<settings, deploys, recordInputs, eventInputs, rows, last>>

(* Fault: the hashes go with the document.                                 *)
ArchiveWithTrail(i) ==
  /\ rows[i].doc # Redacted
  /\ Cardinality({j \in DOMAIN rows : rows[j].doc = Redacted}) < MaxArchived
  /\ rows' = [rows EXCEPT ![i].doc = Redacted, ![i].trail.event = 0]
  /\ UNCHANGED <<settings, deploys, recordInputs, eventInputs, job, last>>

(* archive redacts the document; the audit trail stays.                    *)
Archive(i) ==
  /\ rows[i].doc # Redacted
  /\ Cardinality({j \in DOMAIN rows : rows[j].doc = Redacted}) < MaxArchived
  /\ rows' = [rows EXCEPT ![i].doc = Redacted]
  /\ UNCHANGED <<settings, deploys, recordInputs, eventInputs, job, last>>

(* The process ends, with all it was serving, and starts with other        *)
(* settings or the same: get_settings reads them once.                     *)
Deploy ==
  /\ deploys < MaxDeploys
  /\ deploys' = deploys + 1
  /\ settings' \in Deployments
  /\ job' = [w \in Workers |-> Idle]
  /\ UNCHANGED <<recordInputs, eventInputs, rows, last>>

Next ==
  \/ \E w \in Workers :
       \/ \E s \in Tills : TillAsks(w, s)
       \/ \E s \in Strays : StrayAsks(w, s)
       \/ Sign(w) \/ SigningFails(w)
       \/ Store(w) \/ StoreConflicts(w)
       \/ Reply(w) \/ LoseReply(w)
  \/ \E i \in DOMAIN rows : Archive(i)
  \/ Deploy

Spec == Init /\ [][Next]_vars

-----------------------------------------------------------------------------
Hashes == Nat \ {0}
Link   == [first : BOOLEAN, named : BOOLEAN, previous : Previous]

Document == [huella : Hashes, link : Link, text : Texts]
Trail    == [record : Hashes, event : Hashes, signature : Texts \cup {"none"}]

RecordInput == [seller : Sellers, number : Nat \ {0}, previous : Previous]
EventInput  == [seller : Sellers, previous : Previous]

Row ==
  [seller : Sellers, number : Nat \ {0}, keyed : BOOLEAN,
   doc : Document \cup {Redacted}, trail : Trail, under : Deployments]

Pending ==
  [stage : {"sign", "insert"}, seller : Sellers, number : Nat \ {0},
   keyed : BOOLEAN, doc : Document, trail : Trail]

Replying == [stage : {"reply"}, row : Nat \ {0}]

TypeOK ==
  /\ settings \in Deployments
  /\ deploys \in 0..MaxDeploys
  /\ recordInputs \in Seq(RecordInput)
  /\ eventInputs \in Seq(EventInput)
  /\ rows \in Seq(Row)
  /\ job \in [Workers -> {Idle} \cup Replying \cup Pending]
  /\ last \in [Tills -> Nat]

(* The documents that the database still holds.                            *)
Kept == {i \in DOMAIN rows : rows[i].doc # Redacted}

(* The validator, the document and the hash read the chain from the same   *)
(* metadata, each in its own place (no_network.py:304-331,                 *)
(* spain_sif.py:56-65, 284-301): a stored record is the first, and then    *)
(* its hash covers no previous one, or it names the record before it and   *)
(* prints the well-formed hash that its own hash covers.                   *)
LinksAreComplete ==
  \A i \in Kept :
    LET doc == rows[i].doc
    IN  /\ doc.link.previous = recordInputs[doc.huella].previous
        /\ IF doc.link.first
           THEN doc.link.previous = 0
           ELSE /\ doc.link.named
                /\ doc.link.previous \notin {0, Malformed}

(* The next record takes the hash from the audit trail, which outlives the *)
(* document (invoices.py:201-218): it is the hash of this seller's record  *)
(* of this number, and the one that the document shows.                    *)
TrailTellsTheHash ==
  \A i \in DOMAIN rows :
    LET hash == rows[i].trail.record
    IN  /\ hash \in DOMAIN recordInputs
        /\ recordInputs[hash].seller = rows[i].seller
        /\ recordInputs[hash].number = rows[i].number
        /\ i \in Kept => rows[i].doc.huella = hash

(* A till's records are one chain, with neither a gap nor a fork, although *)
(* answers are lost, signing fails, the service restarts and attempts      *)
(* overlap (invoices.py:97-111, 120-142, 201-230): no number is stored     *)
(* twice, and each record but the first follows the hashes of the one      *)
(* stored under the number before.                                         *)
ChainIsLinear ==
  \A s \in Tills : \A i \in RowsOf(s) :
    LET before == {j \in RowsOf(s) : rows[j].number + 1 = rows[i].number}
    IN  /\ \A j \in RowsOf(s) : rows[j].number = rows[i].number => j = i
        /\ IF rows[i].number = 1
           THEN /\ recordInputs[rows[i].trail.record].previous = 0
                /\ eventInputs[rows[i].trail.event].previous = 0
           ELSE \E j \in before :
                  /\ recordInputs[rows[i].trail.record].previous
                       = rows[j].trail.record
                  /\ eventInputs[rows[i].trail.event].previous
                       = rows[j].trail.event

(* Following documents back from hash to hash ends: whatever previous      *)
(* hashes clients send, a document's record was hashed after the one it    *)
(* follows, because its hash covers that of the other (spain_sif.py:87,    *)
(* 301).                                                                   *)
PredecessorsCameFirst ==
  \A i \in Kept :
    rows[i].doc.link.previous \in Nat =>
      rows[i].doc.link.previous < rows[i].doc.huella

(* The signing result is used twice, for the document and for the          *)
(* reference in its sif_record_signed event (invoices.py:133-142, 219-229):*)
(* the event is there exactly if the service had a command when it stored  *)
(* the record, and refers to the document that is stored, signed or not;   *)
(* no other document is signed.                                            *)
ReferenceIsOfDocument ==
  \A i \in DOMAIN rows :
    LET signature == rows[i].trail.signature
    IN  /\ signature # "none" <=> SigningCommand \in rows[i].under
        /\ i \in Kept =>
             rows[i].doc.text =
               IF signature = "none" THEN "generated" ELSE signature

(* What the readiness report says of the running service is so: a country  *)
(* that is ready has a validator that runs, and a record that was stored   *)
(* while Spain was ready, by its command and not by the flag that vouches  *)
(* for signing elsewhere, went through the command and has the event that  *)
(* says so (compliance.py:50-147, official_validation.py:50-59,            *)
(* spanish_sif_signing.py:24-32).                                          *)
ReadyMeansChecked ==
  /\ \A c \in Countries :
       ProductionReady(c, settings) => HasValidator(c, settings)
  /\ \A i \in DOMAIN rows :
       ProductionReady("ES", rows[i].under) /\ SigningFlag \notin rows[i].under
         => rows[i].trail.signature # "none"
=============================================================================
