------------------------- MODULE SpanishRecordsProofs -------------------------
(***************************************************************************)
(* Proofs about SpanishRecords.  What the properties say of stored rows    *)
(* holds from the moment a document is generated: the invariant says it of *)
(* the pending jobs as well, over hash registers that only grow.           *)
(***************************************************************************)
EXTENDS SpanishRefinement, SequenceTheorems, TLAPS

-----------------------------------------------------------------------------
(* The invariant                                                           *)

DocOK(doc, trail, recs) ==
  /\ doc.huella = trail.record
  /\ doc.text = IF trail.signature = "none" THEN "generated"
                                            ELSE trail.signature
  /\ doc.link.previous = recs[doc.huella].previous
  /\ IF doc.link.first
     THEN doc.link.previous = 0
     ELSE doc.link.named /\ doc.link.previous \notin {0, Malformed}

TrailOK(e, recs, evs) ==
  /\ e.keyed <=> e.seller \in Tills
  /\ e.trail.record \in DOMAIN recs
  /\ e.trail.event \in DOMAIN evs
  /\ recs[e.trail.record].seller = e.seller
  /\ recs[e.trail.record].number = e.number
  /\ evs[e.trail.event].seller = e.seller

(* What an entry of a till follows.                                        *)
Follows(row, number, seller, previous, previousEvent) ==
  /\ row.seller = seller
  /\ row.number + 1 = number
  /\ previous = row.trail.record
  /\ previousEvent = row.trail.event

Linked(seller, number, previous, previousEvent, stored) ==
  seller \in Tills =>
    IF number = 1
    THEN previous = 0 /\ previousEvent = 0
    ELSE \E j \in DOMAIN stored :
           Follows(stored[j], number, seller, previous, previousEvent)

LinkedEntry(e, recs, evs, stored) ==
  Linked(e.seller, e.number, recs[e.trail.record].previous,
         evs[e.trail.event].previous, stored)

RegisterOK ==
  \A h \in DOMAIN recordInputs :
    recordInputs[h].previous \in Nat => recordInputs[h].previous < h

RowsOK ==
  \A i \in DOMAIN rows :
    /\ TrailOK(rows[i], recordInputs, eventInputs)
    /\ LinkedEntry(rows[i], recordInputs, eventInputs, rows)
    /\ rows[i].doc # Redacted =>
         DocOK(rows[i].doc, rows[i].trail, recordInputs)
    /\ rows[i].trail.signature # "none" <=> SigningCommand \in rows[i].under

KeysOK ==
  \A i, j \in DOMAIN rows :
    rows[i].keyed /\ rows[j].keyed /\ rows[i].seller = rows[j].seller
      /\ rows[i].number = rows[j].number => i = j

JobOK(j) ==
  /\ j.stage \in {"sign", "insert"} =>
       /\ TrailOK(j, recordInputs, eventInputs)
       /\ LinkedEntry(j, recordInputs, eventInputs, rows)
       /\ DocOK(j.doc, j.trail, recordInputs)
  /\ j.stage = "sign" => SigningCommand \in settings
  /\ j.stage = "insert" => (j.trail.signature # "none" <=> SigningCommand \in settings)
  /\ j.stage = "reply" =>
       j.row \in DOMAIN rows /\ rows[j.row].seller \in Tills

JobsOK == \A w \in Workers : JobOK(job[w])

LastOK ==
  \A s \in Tills : last[s] # 0 =>
    last[s] \in DOMAIN rows /\ rows[last[s]].seller = s

Inv ==
  /\ TypeOK /\ RegisterOK /\ RowsOK /\ KeysOK /\ JobsOK /\ LastOK

-----------------------------------------------------------------------------
(* The registers of hashes                                                 *)

(* The register after a text was hashed: it keeps every hash there was,    *)
(* and has one for the text.                                               *)
Grown(inputs, text, newInputs) ==
  /\ \A h \in DOMAIN inputs :
       h \in DOMAIN newInputs /\ newInputs[h] = inputs[h]
  /\ \A h \in DOMAIN newInputs :
       \/ h \in DOMAIN inputs
       \/ h = Len(inputs) + 1 /\ newInputs[h] = text
  /\ HashOf(newInputs, text) \in DOMAIN newInputs
  /\ newInputs[HashOf(newInputs, text)] = text

(* Hashing a text that was hashed before changes nothing; another adds one. *)
LEMMA HashedGrows ==
  ASSUME NEW S, NEW inputs \in Seq(S), NEW text \in S
  PROVE  /\ Hashed(inputs, text) \in Seq(S)
         /\ Grown(inputs, text, Hashed(inputs, text))
<1>1. CASE \E h \in DOMAIN inputs : inputs[h] = text
  BY <1>1 DEF Hashed, HashOf, Grown
<1>2. CASE ~ \E h \in DOMAIN inputs : inputs[h] = text
  <2> DEFINE new == Append(inputs, text)
  <2>1. Hashed(inputs, text) = new
    BY <1>2 DEF Hashed
  <2>2. /\ new \in Seq(S)
        /\ DOMAIN new = 1..(Len(inputs) + 1)
        /\ DOMAIN inputs = 1..Len(inputs)
        /\ \A h \in 1..Len(inputs) : new[h] = inputs[h]
        /\ new[Len(inputs) + 1] = text
        /\ Len(inputs) \in Nat
    OBVIOUS
  <2>3. \E h \in DOMAIN new : new[h] = text
    BY <2>2
  <2>4. HashOf(new, text) \in DOMAIN new /\ new[HashOf(new, text)] = text
    BY <2>3 DEF HashOf
  <2> HIDE DEF new
  <2> QED BY <2>1, <2>2, <2>4 DEF Grown
<1> QED BY <1>1, <1>2

(* What holds of an entry still holds when the registers have grown.       *)
LEMMA EntryKept ==
  ASSUME NEW e, NEW recs, NEW evs, NEW newRecs, NEW newEvs, NEW stored,
         TrailOK(e, recs, evs),
         \A h \in DOMAIN recs : h \in DOMAIN newRecs /\ newRecs[h] = recs[h],
         \A h \in DOMAIN evs : h \in DOMAIN newEvs /\ newEvs[h] = evs[h]
  PROVE  /\ TrailOK(e, newRecs, newEvs)
         /\ LinkedEntry(e, recs, evs, stored)
              => LinkedEntry(e, newRecs, newEvs, stored)
         /\ DocOK(e.doc, e.trail, recs) => DocOK(e.doc, e.trail, newRecs)
<1>1. /\ e.trail.record \in DOMAIN recs
      /\ newRecs[e.trail.record] = recs[e.trail.record]
      /\ newEvs[e.trail.event] = evs[e.trail.event]
      /\ e.trail.record \in DOMAIN newRecs
      /\ e.trail.event \in DOMAIN newEvs
  BY DEF TrailOK
<1>2. TrailOK(e, newRecs, newEvs)
  BY <1>1 DEF TrailOK
<1>3. ASSUME LinkedEntry(e, recs, evs, stored)
      PROVE  LinkedEntry(e, newRecs, newEvs, stored)
  BY <1>1, <1>3 DEF LinkedEntry
<1>4. ASSUME DocOK(e.doc, e.trail, recs)
      PROVE  DocOK(e.doc, e.trail, newRecs)
  BY <1>1, <1>4 DEF DocOK
<1> QED BY <1>2, <1>3, <1>4

(* Storing a row keeps the links of those stored before.                   *)
LEMMA LinkedKept ==
  ASSUME NEW e, NEW recs, NEW evs, NEW stored, NEW newStored,
         DOMAIN stored \subseteq DOMAIN newStored,
         \A i \in DOMAIN stored :
           /\ newStored[i].seller = stored[i].seller
           /\ newStored[i].number = stored[i].number
           /\ newStored[i].trail = stored[i].trail,
         LinkedEntry(e, recs, evs, stored)
  PROVE  LinkedEntry(e, recs, evs, newStored)
BY DEF LinkedEntry, Linked, Follows

-----------------------------------------------------------------------------
(* The steps                                                               *)

(* Previous hashes that a client may send: not given, not of this service, *)
(* or computed by it before.                                               *)
Sendable(hash, inputs) == hash \in {0, Foreign, Malformed} \cup DOMAIN inputs

(* A record links to what its request carries, which was hashed before it. *)
LEMMA GenerateKeepsInv ==
  ASSUME Inv, NEW w \in Workers, NEW seller \in Sellers,
         NEW number \in Nat \ {0}, NEW keyed \in BOOLEAN, NEW m \in Metadata,
         Sendable(m.previous, recordInputs),
         keyed <=> seller \in Tills,
         Linked(seller, number, PreviousRecordHash(m), PreviousEventHash(m),
                rows),
         Generate(w, seller, number, keyed, m),
         UNCHANGED <<settings, deploys, rows, last>>
  PROVE  Inv'
<1> DEFINE fields == RecordFields(seller, number, m)
           event  == EventFields(seller, m)
           new    == job'[w]
<1>1. /\ fields \in RecordInput
      /\ event \in EventInput
      /\ fields.seller = seller
      /\ fields.number = number
      /\ fields.previous = PreviousRecordHash(m)
      /\ event.previous = PreviousEventHash(m)
      /\ event.seller = seller
      /\ PreviousRecordHash(m) \in Previous
  BY DEF Metadata, RecordInput, EventInput, RecordFields, EventFields,
         PreviousRecordHash, PreviousEventHash, Previous
<1>2. /\ recordInputs \in Seq(RecordInput)
      /\ eventInputs \in Seq(EventInput)
      /\ recordInputs' = Hashed(recordInputs, fields)
      /\ eventInputs' = Hashed(eventInputs, event)
  BY DEF Inv, TypeOK, Generate
<1> HIDE DEF fields, event
<1>3. recordInputs' \in Seq(RecordInput) /\ Grown(recordInputs, fields, recordInputs')
  BY <1>1, <1>2, HashedGrows
<1>4. eventInputs' \in Seq(EventInput) /\ Grown(eventInputs, event, eventInputs')
  BY <1>1, <1>2, HashedGrows
<1>5. /\ DOMAIN recordInputs' \subseteq Hashes
      /\ DOMAIN eventInputs' \subseteq Hashes
      /\ DOMAIN recordInputs = 1..Len(recordInputs)
      /\ Len(recordInputs) \in Nat
  BY <1>2, <1>3, <1>4 DEF Hashes
<1>6. new =
        [stage  |-> IF SigningCommand \in settings THEN "sign" ELSE "insert",
         seller |-> seller, number |-> number, keyed |-> keyed,
         doc    |-> [huella |-> HashOf(recordInputs', fields),
                     link |-> LinkOf(m), text |-> "generated"],
         trail  |-> [record |-> HashOf(recordInputs', fields),
                     event |-> HashOf(eventInputs', event),
                     signature |-> "none"]]
  <2>1. job \in [Workers -> {Idle} \cup Replying \cup Pending]
    BY DEF Inv, TypeOK
  <2> QED BY <2>1 DEF Generate, DocumentOf, TrailOf, fields, event
<1>7. LinkOf(m) \in Link /\ LinkOf(m).previous = fields.previous
  BY <1>1 DEF LinkOf, Link, Metadata, Previous, PreviousRecordHash
<1>8. IF LinkOf(m).first
      THEN LinkOf(m).previous = 0
      ELSE LinkOf(m).named /\ LinkOf(m).previous \notin {0, Malformed}
  BY DEF LinkOf, Generate, Compliant, PreviousRecordHash, Metadata
<1>9. new \in Pending
  BY <1>3, <1>4, <1>5, <1>6, <1>7 DEF Grown, Pending, Document, Trail,
     Texts
<1>10. \A v \in Workers : v # w => job'[v] = job[v]
  BY DEF Generate, Inv, TypeOK
<1>11. TypeOK'
  <2>1. job' \in [Workers -> {Idle} \cup Replying \cup Pending]
    BY <1>9 DEF Inv, TypeOK, Generate
  <2> HIDE DEF new
  <2> QED BY <1>3, <1>4, <2>1 DEF Inv, TypeOK
<1>12. RegisterOK'
  <2>1. \A h \in DOMAIN recordInputs :
          recordInputs[h].previous \in Nat => recordInputs[h].previous < h
    BY DEF Inv, RegisterOK
  <2>2. fields.previous \in Nat => fields.previous < Len(recordInputs) + 1
    BY <1>1, <1>5, SpanishAssumption DEF Sendable, PreviousRecordHash
  <2> QED BY <1>3, <2>1, <2>2 DEF Grown, RegisterOK
<1>13. RowsOK'
  <2> SUFFICES ASSUME NEW i \in DOMAIN rows
               PROVE  /\ TrailOK(rows[i], recordInputs', eventInputs')
                      /\ LinkedEntry(rows[i], recordInputs', eventInputs', rows)
                      /\ rows[i].doc # Redacted =>
                           DocOK(rows[i].doc, rows[i].trail, recordInputs')
                      /\ rows[i].trail.signature # "none"
                           <=> SigningCommand \in rows[i].under
    BY DEF RowsOK
  <2>1. /\ TrailOK(rows[i], recordInputs, eventInputs)
        /\ LinkedEntry(rows[i], recordInputs, eventInputs, rows)
        /\ rows[i].doc # Redacted =>
             DocOK(rows[i].doc, rows[i].trail, recordInputs)
        /\ rows[i].trail.signature # "none" <=> SigningCommand \in rows[i].under
    BY DEF Inv, RowsOK
  <2> QED BY <1>3, <1>4, <2>1, EntryKept, SMTT(20) DEF Grown
<1>14. JobOK(job[w])'
  <2>1. TrailOK(new, recordInputs', eventInputs')
    BY <1>1, <1>3, <1>4, <1>6 DEF Grown, TrailOK
  <2>2. LinkedEntry(new, recordInputs', eventInputs', rows)
    BY <1>1, <1>3, <1>4, <1>6 DEF Grown, LinkedEntry
  <2>3. DocOK(new.doc, new.trail, recordInputs')
    <3> HIDE DEF new
    <3>1. /\ new.doc.huella = new.trail.record
          /\ new.doc.text = "generated" /\ new.trail.signature = "none"
          /\ new.doc.link = LinkOf(m)
          /\ new.doc.huella = HashOf(recordInputs', fields)
      BY <1>6
    <3>2. recordInputs'[new.doc.huella] = fields
      BY <1>3, <3>1 DEF Grown
    <3> QED BY <1>7, <1>8, <3>1, <3>2 DEF DocOK
  <2>4. /\ new.stage = "sign" => SigningCommand \in settings
        /\ new.stage = "insert" =>
             (new.trail.signature # "none" <=> SigningCommand \in settings)
        /\ new.stage # "reply"
    BY <1>6
  <2> QED BY <2>1, <2>2, <2>3, <2>4 DEF JobOK
<1>15. ASSUME NEW v \in Workers, v # w
       PROVE  JobOK(job[v])'
  <2>1. JobOK(job[v]) /\ job'[v] = job[v]
    BY <1>10, <1>15 DEF Inv, JobsOK
  <2>2. ASSUME job[v].stage \in {"sign", "insert"}
        PROVE  /\ TrailOK(job[v], recordInputs', eventInputs')
               /\ LinkedEntry(job[v], recordInputs', eventInputs', rows)
               /\ DocOK(job[v].doc, job[v].trail, recordInputs')
    <3>1. /\ TrailOK(job[v], recordInputs, eventInputs)
          /\ LinkedEntry(job[v], recordInputs, eventInputs, rows)
          /\ DocOK(job[v].doc, job[v].trail, recordInputs)
      BY <2>1, <2>2 DEF JobOK
    <3> QED BY <1>3, <1>4, <3>1, EntryKept DEF Grown
  <2> QED BY <2>1, <2>2 DEF JobOK
<1>16. JobsOK'
  BY <1>14, <1>15 DEF JobsOK
<1>17. KeysOK' /\ LastOK'
  BY DEF Inv, KeysOK, LastOK
<1> QED BY <1>11, <1>12, <1>13, <1>16, <1>17 DEF Inv

(* A till asks for the record after the last it was answered for.          *)
LEMMA TillAsksKeepsInv ==
  ASSUME Inv, NEW w \in Workers, NEW s \in Tills, TillAsks(w, s)
  PROVE  Inv'
<1> DEFINE number == NextNumber(s)
           m      == NextMetadata(s)
           before == rows[last[s]]
<1>1. s \in Sellers
  BY DEF Sellers
<1>2. CASE \E i \in WithKey(s, number) :
             /\ job' = [job EXCEPT ![w] = [stage |-> "reply", row |-> i]]
             /\ UNCHANGED <<recordInputs, eventInputs>>
  <2>1. PICK i \in WithKey(s, number) :
          /\ job' = [job EXCEPT ![w] = [stage |-> "reply", row |-> i]]
          /\ UNCHANGED <<recordInputs, eventInputs>>
    BY <1>2
  <2>2. UNCHANGED <<settings, deploys, rows, last, recordInputs, eventInputs>>
    BY <2>1 DEF TillAsks
  <2>3. i \in DOMAIN rows /\ rows[i].seller = s /\ i \in Nat \ {0}
    BY DEF WithKey, RowsOf, Inv, TypeOK
  <2>4. TypeOK'
    BY <2>1, <2>2, <2>3 DEF Inv, TypeOK, Replying
  <2>5. JobsOK'
    BY <2>1, <2>2, <2>3 DEF Inv, TypeOK, JobsOK, JobOK
  <2> QED BY <2>2, <2>4, <2>5
          DEF Inv, RegisterOK, RowsOK, KeysOK, LastOK
<1>3. CASE /\ WithKey(s, number) = {}
           /\ Generate(w, s, number, TRUE, m)
  <2>1. /\ last[s] # 0 =>
             /\ last[s] \in DOMAIN rows /\ before.seller = s
             /\ before \in Row
             /\ TrailOK(before, recordInputs, eventInputs)
    BY DEF Inv, TypeOK, LastOK, RowsOK
  <2>2. CASE last[s] = 0
    <3>1. /\ number = 1
          /\ m = [first |-> "true", previous |-> 0, named |-> FALSE,
                  firstEvent |-> "true", previousEvent |-> 0]
      BY <2>2 DEF NextNumber, NextMetadata
    <3>2. /\ m \in Metadata
          /\ Sendable(m.previous, recordInputs)
          /\ PreviousRecordHash(m) = 0 /\ PreviousEventHash(m) = 0
      BY <3>1 DEF Metadata, FirstMarks, Previous, Sendable,
                  PreviousRecordHash, PreviousEventHash
    <3>3. Linked(s, number, PreviousRecordHash(m), PreviousEventHash(m), rows)
      BY <3>1, <3>2 DEF Linked
    <3>4. UNCHANGED <<settings, deploys, rows, last>>
      BY DEF TillAsks
    <3>5. number \in Nat \ {0}
      BY <3>1
    <3> HIDE DEF m, number
    <3> QED BY <1>1, <1>3, <3>2, <3>3, <3>4, <3>5, GenerateKeepsInv
  <2>3. CASE last[s] # 0
    <3>1. /\ number = before.number + 1
          /\ m = [first |-> "absent", previous |-> before.trail.record,
                  named |-> TRUE, firstEvent |-> "absent",
                  previousEvent |-> before.trail.event]
      BY <2>3 DEF NextNumber, NextMetadata
    <3>2. /\ before.trail.record \in Nat /\ before.trail.event \in Nat
          /\ number \in Nat \ {0} /\ number # 1
      BY <2>1, <2>3, <3>1 DEF Row, Trail, Hashes
    <3>3. /\ m \in Metadata
          /\ Sendable(m.previous, recordInputs)
          /\ PreviousRecordHash(m) = before.trail.record
          /\ PreviousEventHash(m) = before.trail.event
      BY <2>1, <2>3, <3>1, <3>2
         DEF Metadata, FirstMarks, Previous, Sendable, TrailOK,
             PreviousRecordHash, PreviousEventHash
    <3>4. Linked(s, number, PreviousRecordHash(m), PreviousEventHash(m), rows)
      BY <2>1, <2>3, <3>1, <3>2, <3>3 DEF Linked, Follows
    <3>5. UNCHANGED <<settings, deploys, rows, last>>
      BY DEF TillAsks
    <3> HIDE DEF m, number
    <3> QED BY <1>1, <1>3, <3>2, <3>3, <3>4, <3>5, GenerateKeepsInv
  <2> QED BY <2>2, <2>3
<1> QED BY <1>2, <1>3 DEF TillAsks

(* A stray client sends any metadata it can know.                          *)
LEMMA StrayAsksKeepsInv ==
  ASSUME Inv, NEW w \in Workers, NEW s \in Strays, StrayAsks(w, s)
  PROVE  Inv'
<1>1. PICK first \in FirstMarks, firstEvent \in FirstMarks,
           named \in BOOLEAN,
           previous \in {0, Foreign, Malformed} \cup DOMAIN recordInputs,
           previousEvent \in {0, Malformed} :
        Generate(w, s, 1, FALSE,
          [first |-> first, previous |-> previous, named |-> named,
           firstEvent |-> firstEvent, previousEvent |-> previousEvent])
  BY DEF StrayAsks
<1> DEFINE number == 1
           m == [first |-> first, previous |-> previous, named |-> named,
                 firstEvent |-> firstEvent, previousEvent |-> previousEvent]
<1>2. DOMAIN recordInputs \subseteq Nat
  BY DEF Inv, TypeOK
<1>3. m \in Metadata /\ Sendable(m.previous, recordInputs)
  BY <1>2 DEF Metadata, Previous, Sendable
<1>4. s \in Sellers /\ s \notin Tills
  BY SpanishAssumption DEF Sellers
<1>5. UNCHANGED <<settings, deploys, rows, last>>
  BY DEF StrayAsks
<1>6. Linked(s, number, PreviousRecordHash(m), PreviousEventHash(m), rows)
  BY <1>4 DEF Linked
<1>7. Generate(w, s, number, FALSE, m)
  BY <1>1
<1>8. number \in Nat \ {0}
  OBVIOUS
<1> HIDE DEF m, number
<1> QED BY <1>3, <1>4, <1>5, <1>6, <1>7, <1>8, GenerateKeepsInv

(* Without its worker's job a request leaves no trace.                     *)
LEMMA DropKeepsInv ==
  ASSUME Inv, NEW w \in Workers, job' = [job EXCEPT ![w] = Idle],
         UNCHANGED <<settings, deploys, recordInputs, eventInputs, rows, last>>
  PROVE  Inv'
<1>1. TypeOK'
  BY DEF Inv, TypeOK
<1>2. JobsOK'
  <2>1. \A v \in Workers : job'[v] = job[v] \/ job'[v] = Idle
    BY DEF Inv, TypeOK
  <2>2. JobOK(Idle)'
    BY DEF JobOK, Idle
  <2>3. \A v \in Workers : JobOK(job[v])
    BY DEF Inv, JobsOK
  <2> QED BY <2>1, <2>2, <2>3 DEF JobsOK, JobOK
<1> QED BY <1>1, <1>2 DEF Inv, RegisterOK, RowsOK, KeysOK, LastOK

(* Signing changes no hash, and happens only under the command.            *)
LEMMA SignKeepsInv ==
  ASSUME Inv, NEW w \in Workers, Sign(w)
  PROVE  Inv'
<1>0. PICK text \in Texts :
        job' = [job EXCEPT ![w].stage = "insert", ![w].doc.text = text,
                          ![w].trail.signature = text]
  BY DEF Sign
<1> DEFINE old == job[w]
           new == [old EXCEPT !.stage = "insert", !.doc.text = text,
                              !.trail.signature = text]
<1>1. old \in Pending /\ old.stage = "sign"
  BY DEF Inv, TypeOK, Sign, Idle, Replying, Pending
<1>2. /\ new \in Pending
      /\ new.stage = "insert"
      /\ new.seller = old.seller /\ new.number = old.number
      /\ new.keyed = old.keyed
      /\ new.trail.record = old.trail.record
      /\ new.trail.event = old.trail.event
      /\ new.trail.signature # "none"
      /\ new.doc.text = new.trail.signature
      /\ new.doc.huella = old.doc.huella /\ new.doc.link = old.doc.link
  BY <1>1 DEF Pending, Document, Trail, Texts
<1>3. /\ job' = [job EXCEPT ![w] = new]
      /\ UNCHANGED <<settings, deploys, recordInputs, eventInputs, rows, last>>
  <2>1. job' = [job EXCEPT ![w] = new]
    BY <1>0
  <2>2. UNCHANGED <<settings, deploys, recordInputs, eventInputs, rows, last>>
    BY DEF Sign
  <2> QED BY <2>1, <2>2
<1>4. JobOK(old)
  BY DEF Inv, JobsOK
<1> HIDE DEF old, new
<1>5. TypeOK'
  BY <1>2, <1>3 DEF Inv, TypeOK
<1>6. JobOK(job[w])'
  <2>1. /\ TrailOK(new, recordInputs, eventInputs)
        /\ LinkedEntry(new, recordInputs, eventInputs, rows)
        /\ DocOK(new.doc, new.trail, recordInputs)
    BY <1>1, <1>2, <1>4 DEF JobOK, TrailOK, LinkedEntry, DocOK
  <2>2. job'[w] = new
    BY <1>3 DEF Inv, TypeOK
  <2>3. SigningCommand \in settings
    BY <1>1, <1>4 DEF JobOK
  <2> QED BY <1>2, <1>3, <2>1, <2>2, <2>3 DEF JobOK
<1>7. JobsOK'
  <2>1. \A v \in Workers : v # w => job'[v] = job[v]
    BY <1>3 DEF Inv, TypeOK
  <2>2. \A v \in Workers : JobOK(job[v])
    BY DEF Inv, JobsOK
  <2>3. ASSUME NEW v \in Workers, v # w
        PROVE  JobOK(job[v])'
    BY <1>3, <2>1, <2>2, <2>3 DEF JobOK
  <2> QED BY <1>6, <2>3 DEF JobsOK
<1> QED BY <1>3, <1>5, <1>7 DEF Inv, RegisterOK, RowsOK, KeysOK, LastOK

(* A row stores what was true of the record in the worker's hands.         *)
LEMMA StoreKeepsInv ==
  ASSUME Inv, NEW w \in Workers, Store(w)
  PROVE  Inv'
<1> DEFINE old == job[w]
           row == [seller |-> old.seller, number |-> old.number,
                   keyed |-> old.keyed, doc |-> old.doc,
                   trail |-> old.trail, under |-> settings]
           end == Len(rows) + 1
<1>1. old \in Pending /\ old.stage = "insert"
  BY DEF Inv, TypeOK, Store, Idle, Replying, Pending
<1>2. /\ row \in Row
      /\ row.seller = old.seller /\ row.number = old.number
      /\ row.keyed = old.keyed /\ row.doc = old.doc
      /\ row.trail = old.trail /\ row.under = settings
  BY <1>1 DEF Row, Pending, Inv, TypeOK
<1>3. /\ rows' = Append(rows, row)
      /\ old.keyed => WithKey(old.seller, old.number) = {}
      /\ UNCHANGED <<settings, deploys, recordInputs, eventInputs, last>>
  BY DEF Store
<1>4. /\ TrailOK(old, recordInputs, eventInputs)
      /\ LinkedEntry(old, recordInputs, eventInputs, rows)
      /\ DocOK(old.doc, old.trail, recordInputs)
      /\ old.trail.signature # "none" <=> SigningCommand \in settings
  BY <1>1 DEF Inv, JobsOK, JobOK
<1> HIDE DEF row
<1>5. /\ rows' \in Seq(Row)
      /\ DOMAIN rows = 1..Len(rows) /\ DOMAIN rows' = 1..end
      /\ \A i \in DOMAIN rows : rows'[i] = rows[i]
      /\ rows'[end] = row
      /\ end \in Nat \ {0} /\ Len(rows') = end
      /\ Len(rows) \in Nat
  BY <1>2, <1>3 DEF Inv, TypeOK
<1>6. /\ job' \in [Workers -> {Idle} \cup Replying \cup Pending]
      /\ \A v \in Workers : v # w => job'[v] = job[v]
      /\ IF old.keyed
         THEN job'[w] = [stage |-> "reply", row |-> end]
         ELSE job'[w] = Idle
  <2>1. job \in [Workers -> {Idle} \cup Replying \cup Pending]
    BY DEF Inv, TypeOK
  <2>2. job' = [job EXCEPT ![w] =
                  IF old.keyed THEN [stage |-> "reply", row |-> end] ELSE Idle]
    BY <1>5 DEF Store
  <2>3. [stage |-> "reply", row |-> end] \in Replying
    BY <1>5 DEF Replying
  <2> HIDE DEF old, end
  <2> QED BY <2>1, <2>2, <2>3
<1> HIDE DEF old, end
<1>7. TypeOK'
  BY <1>3, <1>5, <1>6 DEF Inv, TypeOK
<1>8. /\ DOMAIN rows \subseteq DOMAIN rows'
      /\ \A i \in DOMAIN rows :
           /\ rows'[i].seller = rows[i].seller
           /\ rows'[i].number = rows[i].number
           /\ rows'[i].trail = rows[i].trail
  BY <1>5 DEF end
<1>9. RowsOK'
  <2> SUFFICES ASSUME NEW i \in DOMAIN rows'
               PROVE  /\ TrailOK(rows'[i], recordInputs, eventInputs)
                      /\ LinkedEntry(rows'[i], recordInputs, eventInputs, rows')
                      /\ rows'[i].doc # Redacted =>
                           DocOK(rows'[i].doc, rows'[i].trail, recordInputs)
                      /\ rows'[i].trail.signature # "none"
                           <=> SigningCommand \in rows'[i].under
    BY <1>3 DEF RowsOK
  <2>1. CASE i \in DOMAIN rows
    <3>1. /\ TrailOK(rows[i], recordInputs, eventInputs)
          /\ LinkedEntry(rows[i], recordInputs, eventInputs, rows)
          /\ rows[i].doc # Redacted =>
               DocOK(rows[i].doc, rows[i].trail, recordInputs)
          /\ rows[i].trail.signature # "none" <=> SigningCommand \in rows[i].under
      BY <2>1 DEF Inv, RowsOK
    <3>2. LinkedEntry(rows[i], recordInputs, eventInputs, rows')
      BY <1>8, <3>1, LinkedKept
    <3> QED BY <1>5, <2>1, <3>1, <3>2
  <2>2. CASE i = end
    <3>1. TrailOK(row, recordInputs, eventInputs)
      BY <1>2, <1>4 DEF TrailOK
    <3>2. LinkedEntry(row, recordInputs, eventInputs, rows)
      BY <1>2, <1>4 DEF LinkedEntry
    <3>3. LinkedEntry(row, recordInputs, eventInputs, rows')
      BY <1>8, <3>2, LinkedKept
    <3> QED BY <1>2, <1>4, <1>5, <2>2, <3>1, <3>3
  <2> QED BY <1>5, <2>1, <2>2 DEF end
<1>10. KeysOK'
  <2>1. \A i \in DOMAIN rows :
          row.keyed => ~(/\ rows[i].keyed /\ rows[i].seller = row.seller
                         /\ rows[i].number = row.number)
    BY <1>2, <1>3 DEF WithKey, RowsOf
  <2>2. \A i, j \in DOMAIN rows :
          rows[i].keyed /\ rows[j].keyed /\ rows[i].seller = rows[j].seller
            /\ rows[i].number = rows[j].number => i = j
    BY DEF Inv, KeysOK
  <2>3. \A i \in DOMAIN rows' : i \in DOMAIN rows \/ i = end
    BY <1>5 DEF end
  <2> QED BY <1>5, <2>1, <2>2, <2>3 DEF KeysOK
<1>11. JobsOK'
  <2>1. ASSUME NEW v \in Workers, v # w
        PROVE  JobOK(job[v])'
    <3>1. job'[v] = job[v] /\ JobOK(job[v])
      BY <1>6, <2>1 DEF Inv, JobsOK
    <3>2. LinkedEntry(job[v], recordInputs, eventInputs, rows)
            => LinkedEntry(job[v], recordInputs, eventInputs, rows')
      BY <1>8, LinkedKept
    <3> QED BY <1>3, <1>8, <3>1, <3>2 DEF JobOK
  <2>2. JobOK(job[w])'
    <3>1. old.keyed => row.seller \in Tills
      BY <1>2, <1>4 DEF TrailOK
    <3> QED BY <1>5, <1>6, <3>1 DEF JobOK, Idle, end
  <2> QED BY <2>1, <2>2 DEF JobsOK
<1>12. RegisterOK' /\ LastOK'
  BY <1>3, <1>5, <1>8 DEF Inv, RegisterOK, LastOK
<1> QED BY <1>7, <1>9, <1>10, <1>11, <1>12 DEF Inv

(* The answer carries a till on to the row that was stored for it.         *)
LEMMA ReplyKeepsInv ==
  ASSUME Inv, NEW w \in Workers, Reply(w)
  PROVE  Inv'
<1> DEFINE i == job[w].row
<1>1. i \in DOMAIN rows /\ i \in Nat /\ rows[i].seller \in Tills
  <2>1. JobOK(job[w]) /\ job[w].stage = "reply"
    BY DEF Inv, JobsOK, Reply
  <2> QED BY <2>1 DEF JobOK, Inv, TypeOK
<1>2. \/ last' = [last EXCEPT ![rows[i].seller] = i]
      \/ last' = last
  BY DEF Reply
<1>3. job' = [job EXCEPT ![w] = Idle]
      /\ UNCHANGED <<settings, deploys, recordInputs, eventInputs, rows>>
  BY DEF Reply
<1> HIDE DEF i
<1>4. TypeOK'
  BY <1>1, <1>2, <1>3 DEF Inv, TypeOK
<1>5. LastOK'
  BY <1>1, <1>2, <1>3 DEF Inv, TypeOK, LastOK
<1>6. JobsOK'
  <2>1. \A v \in Workers : job'[v] = job[v] \/ job'[v] = Idle
    BY <1>3 DEF Inv, TypeOK
  <2>2. JobOK(Idle)'
    BY DEF JobOK, Idle
  <2>3. \A v \in Workers : JobOK(job[v])
    BY DEF Inv, JobsOK
  <2> QED BY <1>3, <2>1, <2>2, <2>3 DEF JobsOK, JobOK
<1> QED BY <1>3, <1>4, <1>5, <1>6 DEF Inv, RegisterOK, RowsOK, KeysOK

(* A redaction leaves the hashes in the trail, and the links.              *)
LEMMA ArchiveKeepsInv ==
  ASSUME Inv, NEW i \in DOMAIN rows, Archive(i)
  PROVE  Inv'
<1>1. /\ rows' = [rows EXCEPT ![i].doc = Redacted]
      /\ UNCHANGED <<settings, deploys, recordInputs, eventInputs, job, last>>
  BY DEF Archive
<1>2. rows[i] \in Row /\ rows \in Seq(Row)
  BY DEF Inv, TypeOK
<1> DEFINE row == [rows[i] EXCEPT !.doc = Redacted]
<1>3. /\ row \in Row
      /\ row.seller = rows[i].seller /\ row.number = rows[i].number
      /\ row.keyed = rows[i].keyed /\ row.trail = rows[i].trail
      /\ row.under = rows[i].under /\ row.doc = Redacted
  BY <1>2 DEF Row
<1>4. rows' = [rows EXCEPT ![i] = row]
  BY <1>1
<1> HIDE DEF row
<1>5. /\ rows' \in Seq(Row) /\ DOMAIN rows' = DOMAIN rows
      /\ \A j \in DOMAIN rows :
           /\ rows'[j].seller = rows[j].seller
           /\ rows'[j].number = rows[j].number
           /\ rows'[j].keyed = rows[j].keyed
           /\ rows'[j].trail = rows[j].trail
           /\ rows'[j].under = rows[j].under
           /\ rows'[j].doc = rows[j].doc \/ rows'[j].doc = Redacted
  BY <1>2, <1>3, <1>4
<1>6. TypeOK'
  BY <1>1, <1>5 DEF Inv, TypeOK
<1>7. \A e : LinkedEntry(e, recordInputs, eventInputs, rows)
               => LinkedEntry(e, recordInputs, eventInputs, rows')
  BY <1>5, LinkedKept
<1>8. RowsOK'
  <2> SUFFICES ASSUME NEW j \in DOMAIN rows
               PROVE  /\ TrailOK(rows'[j], recordInputs, eventInputs)
                      /\ LinkedEntry(rows'[j], recordInputs, eventInputs, rows')
                      /\ rows'[j].doc # Redacted =>
                           DocOK(rows'[j].doc, rows'[j].trail, recordInputs)
                      /\ rows'[j].trail.signature # "none"
                           <=> SigningCommand \in rows'[j].under
    BY <1>1, <1>5 DEF RowsOK
  <2>1. /\ TrailOK(rows[j], recordInputs, eventInputs)
        /\ LinkedEntry(rows[j], recordInputs, eventInputs, rows)
        /\ rows[j].doc # Redacted =>
             DocOK(rows[j].doc, rows[j].trail, recordInputs)
        /\ rows[j].trail.signature # "none" <=> SigningCommand \in rows[j].under
    BY DEF Inv, RowsOK
  <2>2. LinkedEntry(rows[j], recordInputs, eventInputs, rows')
    BY <1>7, <2>1
  <2>3. LinkedEntry(rows'[j], recordInputs, eventInputs, rows')
    BY <1>5, <2>2 DEF LinkedEntry
  <2>4. TrailOK(rows'[j], recordInputs, eventInputs)
    BY <1>5, <2>1 DEF TrailOK
  <2> QED BY <1>5, <2>1, <2>3, <2>4
<1>9. KeysOK'
  BY <1>5 DEF Inv, KeysOK
<1>10. JobsOK'
  BY <1>1, <1>5, <1>7 DEF Inv, JobsOK, JobOK
<1>11. RegisterOK' /\ LastOK'
  BY <1>1, <1>5 DEF Inv, RegisterOK, LastOK
<1> QED BY <1>6, <1>8, <1>9, <1>10, <1>11 DEF Inv

(* Other settings come with the end of every job: no record is half made.  *)
LEMMA DeployKeepsInv ==
  ASSUME Inv, Deploy
  PROVE  Inv'
<1>1. TypeOK'
  BY SpanishAssumption DEF Inv, TypeOK, Deploy
<1>2. JobsOK'
  BY DEF Deploy, JobsOK, JobOK, Idle
<1> QED BY <1>1, <1>2
        DEF Inv, Deploy, RegisterOK, RowsOK, KeysOK, LastOK

-----------------------------------------------------------------------------
(* The theorems                                                            *)

(* The service keeps all of it, whatever clients send (spain_sif.py:79).   *)
THEOREM AlwaysInv == Spec => []Inv
<1>1. Init => Inv
  BY SpanishAssumption
     DEF Init, Inv, TypeOK, RegisterOK, RowsOK, KeysOK, JobsOK, JobOK, LastOK,
         Idle
<1>2. Inv /\ [Next]_vars => Inv'
  <2> SUFFICES ASSUME Inv, [Next]_vars PROVE Inv'
    OBVIOUS
  <2>1. ASSUME NEW w \in Workers, NEW s \in Tills, TillAsks(w, s) PROVE Inv'
    BY <2>1, TillAsksKeepsInv
  <2>2. ASSUME NEW w \in Workers, NEW s \in Strays, StrayAsks(w, s)
        PROVE  Inv'
    BY <2>2, StrayAsksKeepsInv
  <2>3. ASSUME NEW w \in Workers, Sign(w) PROVE Inv'
    BY <2>3, SignKeepsInv
  <2>4. ASSUME NEW w \in Workers,
               SigningFails(w) \/ StoreConflicts(w) \/ LoseReply(w)
        PROVE  Inv'
    BY <2>4, DropKeepsInv DEF SigningFails, StoreConflicts, LoseReply
  <2>5. ASSUME NEW w \in Workers, Store(w) PROVE Inv'
    BY <2>5, StoreKeepsInv
  <2>6. ASSUME NEW w \in Workers, Reply(w) PROVE Inv'
    BY <2>6, ReplyKeepsInv
  <2>7. ASSUME NEW i \in DOMAIN rows, Archive(i) PROVE Inv'
    BY <2>7, ArchiveKeepsInv
  <2>8. CASE Deploy
    BY <2>8, DeployKeepsInv
  <2>9. CASE UNCHANGED vars
    BY <2>9 DEF vars, Inv, TypeOK, RegisterOK, RowsOK, KeysOK, JobsOK, JobOK,
                LastOK
  <2> QED BY <2>1, <2>2, <2>3, <2>4, <2>5, <2>6, <2>7, <2>8, <2>9 DEF Next
<1> QED BY <1>1, <1>2, PTL DEF Spec

(* The service's records, registers and jobs keep their shape.             *)
THEOREM SpanishTypeCorrect == Spec => []TypeOK
<1>1. Inv => TypeOK
  BY DEF Inv
<1> QED BY <1>1, AlwaysInv, PTL

(* Whatever metadata clients send, each stored document links to the       *)
(* record that its own hash covers, completely.                            *)
THEOREM LinksStayComplete == Spec => []LinksAreComplete
<1>1. Inv => LinksAreComplete
  BY DEF Inv, RowsOK, DocOK, LinksAreComplete, Kept
<1> QED BY <1>1, AlwaysInv, PTL

(* The audit trail names the record's own hash, also once the document is  *)
(* redacted.                                                               *)
THEOREM TrailAlwaysTells == Spec => []TrailTellsTheHash
<1>1. Inv => TrailTellsTheHash
  BY DEF Inv, RowsOK, TrailOK, DocOK, TrailTellsTheHash, Kept
<1> QED BY <1>1, AlwaysInv, PTL

(* The records of a till are one chain without gap or fork, for any number *)
(* of tills, requests in flight, records and deployments.                  *)
THEOREM TillsKeepOneChain == Spec => []ChainIsLinear
<1>1. Inv => ChainIsLinear
  <2> SUFFICES ASSUME Inv, NEW s \in Tills, NEW i \in RowsOf(s)
               PROVE  /\ \A j \in RowsOf(s) :
                           rows[j].number = rows[i].number => j = i
                      /\ IF rows[i].number = 1
                         THEN /\ recordInputs[rows[i].trail.record].previous = 0
                              /\ eventInputs[rows[i].trail.event].previous = 0
                         ELSE \E j \in {j \in RowsOf(s) :
                                       rows[j].number + 1 = rows[i].number} :
                                /\ recordInputs[rows[i].trail.record].previous
                                     = rows[j].trail.record
                                /\ eventInputs[rows[i].trail.event].previous
                                     = rows[j].trail.event
    BY DEF ChainIsLinear
  <2>1. \A j \in RowsOf(s) : rows[j].keyed /\ rows[j].seller = s
    BY DEF Inv, RowsOK, TrailOK, RowsOf
  <2>2. i \in DOMAIN rows /\ RowsOf(s) \subseteq DOMAIN rows
    BY DEF RowsOf
  <2>3. \A j \in RowsOf(s) : rows[j].number = rows[i].number => j = i
    BY <2>1, <2>2 DEF Inv, KeysOK
  <2>4. LinkedEntry(rows[i], recordInputs, eventInputs, rows)
    BY <2>2 DEF Inv, RowsOK
  <2>5. CASE rows[i].number = 1
    BY <2>1, <2>3, <2>4, <2>5 DEF LinkedEntry, Linked
  <2>6. CASE rows[i].number # 1
    <3>1. PICK j \in DOMAIN rows :
            Follows(rows[j], rows[i].number, rows[i].seller,
                    recordInputs[rows[i].trail.record].previous,
                    eventInputs[rows[i].trail.event].previous)
      BY <2>1, <2>4, <2>6 DEF LinkedEntry, Linked
    <3>2. j \in RowsOf(s)
      BY <2>1, <3>1 DEF Follows, RowsOf
    <3> QED BY <2>3, <2>6, <3>1, <3>2 DEF Follows
  <2> QED BY <2>5, <2>6
<1> QED BY <1>1, AlwaysInv, PTL

(* Following documents back from hash to hash ends.                        *)
THEOREM PredecessorsAlwaysCameFirst == Spec => []PredecessorsCameFirst
<1>1. Inv => PredecessorsCameFirst
  BY DEF Inv, RegisterOK, RowsOK, TrailOK, DocOK, PredecessorsCameFirst, Kept
<1> QED BY <1>1, AlwaysInv, PTL

(* The sif_record_signed event is there exactly under a signing command,   *)
(* and refers to the document that is stored, signed or not.               *)
THEOREM ReferencesAreOfDocuments == Spec => []ReferenceIsOfDocument
<1>1. Inv => ReferenceIsOfDocument
  BY DEF Inv, RowsOK, DocOK, ReferenceIsOfDocument, Kept
<1> QED BY <1>1, AlwaysInv, PTL

(* What is reported ready is checked, for every choice of settings.        *)
THEOREM ReadyIsAlwaysChecked == Spec => []ReadyMeansChecked
<1>1. \A c \in Countries : ProductionReady(c, settings)
                             => HasValidator(c, settings)
  <2>1. ASSUME NEW c \in Countries \ {"BE"}, ProductionReady(c, settings)
        PROVE  HasValidator(c, settings)
    <3>1. {ValidatorSetting[c]} \in Requirements(c)
      BY DEF Requirements, Countries
    <3>2. {ValidatorSetting[c]} \cap settings # {}
      BY <2>1, <3>1 DEF ProductionReady
    <3> QED BY <3>2 DEF HasValidator, ValidatorSetting
  <2>2. ~ProductionReady("BE", settings)
    BY DEF ProductionReady, Requirements
  <2> QED BY <2>1, <2>2
<1>2. \A given : ProductionReady("ES", given) /\ SigningFlag \notin given
                   => SigningCommand \in given
  <2>1. {SigningFlag, SigningCommand} \in Requirements("ES")
    BY DEF Requirements
  <2>2. ASSUME NEW given, ProductionReady("ES", given), SigningFlag \notin given
        PROVE  SigningCommand \in given
    <3>1. {SigningFlag, SigningCommand} \cap given # {}
      BY <2>1, <2>2 DEF ProductionReady
    <3> QED BY <2>2, <3>1
  <2> QED BY <2>2
<1>3. Inv => ReadyMeansChecked
  BY <1>1, <1>2 DEF Inv, RowsOK, ReadyMeansChecked
<1> QED BY <1>3, AlwaysInv, PTL

-----------------------------------------------------------------------------
(* The refinement                                                          *)

(* The rows of a till are numbered from 1, without a gap.                  *)
ChainsOK == \A s \in Tills : \E k \in Nat : NumbersOf(s) = 1..k

(* A number of a till tells its row, and a link tells its record.          *)
LEMMA RowsOfTills ==
  Inv => \A s \in Tills : \A i \in RowsOf(s) :
           /\ i \in DOMAIN rows
           /\ rows[i].seller = s
           /\ rows[i].keyed
           /\ rows[i].number \in NumbersOf(s)
           /\ \A j \in RowsOf(s) : rows[j].number = rows[i].number => j = i
           /\ LinkTo(rows[i].trail) \in [record : Hashes, event : Hashes]
           /\ ChainOf(s)[rows[i].number] = LinkTo(rows[i].trail)
<1> SUFFICES ASSUME Inv, NEW s \in Tills, NEW i \in RowsOf(s)
             PROVE  /\ i \in DOMAIN rows
                    /\ rows[i].seller = s
                    /\ rows[i].keyed
                    /\ rows[i].number \in NumbersOf(s)
                    /\ \A j \in RowsOf(s) :
                         rows[j].number = rows[i].number => j = i
                    /\ LinkTo(rows[i].trail)
                         \in [record : Hashes, event : Hashes]
                    /\ ChainOf(s)[rows[i].number] = LinkTo(rows[i].trail)
  OBVIOUS
<1>1. \A j \in RowsOf(s) :
        j \in DOMAIN rows /\ rows[j].keyed /\ rows[j].seller = s
  BY DEF Inv, RowsOK, TrailOK, RowsOf
<1>2. \A j \in RowsOf(s) : rows[j].number = rows[i].number => j = i
  BY <1>1 DEF Inv, KeysOK
<1>3. rows[i].number \in NumbersOf(s)
  BY DEF NumbersOf
<1>4. ChainOf(s)[rows[i].number] = LinkTo(rows[i].trail)
  <2>1. (CHOOSE j \in RowsOf(s) : rows[j].number = rows[i].number) = i
    BY <1>2
  <2> QED BY <1>3, <2>1 DEF ChainOf
<1>5. rows[i] \in Row
  BY <1>1 DEF Inv, TypeOK
<1>6. LinkTo(rows[i].trail) \in [record : Hashes, event : Hashes]
  BY <1>5 DEF LinkTo, Row, Trail
<1> QED BY <1>1, <1>2, <1>3, <1>4, <1>6

(* A function on 1..k is a sequence of k elements.                         *)
LEMMA FunctionIsSequence ==
  ASSUME NEW S, NEW k \in Nat, NEW c \in [1..k -> S]
  PROVE  c \in Seq(S) /\ Len(c) = k
<1>1. c \in Seq(S)
  BY SeqDef, Zenon
<1>2. Len(c) \in Nat /\ 1..k = 1..Len(c)
  BY <1>1, LenProperties
<1>3. \A n \in Nat : 1..k = 1..n => n = k
  <2> SUFFICES ASSUME NEW n \in Nat, 1..k = 1..n PROVE n = k
    OBVIOUS
  <2>1. k # 0 => k \in 1..n
    OBVIOUS
  <2>2. n # 0 => n \in 1..k
    OBVIOUS
  <2> QED BY <2>1, <2>2
<1> QED BY <1>1, <1>2, <1>3

(* So the chain of a till is a sequence, as long as its numbers go.        *)
LEMMA ChainsAreSequences ==
  Inv => \A s \in Tills : \A k \in Nat :
           NumbersOf(s) = 1..k =>
             /\ ChainOf(s) \in Seq([record : Hashes, event : Hashes])
             /\ Len(ChainOf(s)) = k
<1> SUFFICES ASSUME Inv, NEW s \in Tills, NEW k \in Nat, NumbersOf(s) = 1..k
             PROVE  /\ ChainOf(s) \in Seq([record : Hashes, event : Hashes])
                    /\ Len(ChainOf(s)) = k
  OBVIOUS
<1> DEFINE c == ChainOf(s)
<1>1. \A n \in 1..k : c[n] \in [record : Hashes, event : Hashes]
  <2> SUFFICES ASSUME NEW n \in 1..k
               PROVE  c[n] \in [record : Hashes, event : Hashes]
    OBVIOUS
  <2>1. PICK i \in RowsOf(s) : rows[i].number = n
    BY DEF NumbersOf
  <2> QED BY <2>1, RowsOfTills
<1>2. c = [n \in 1..k |-> c[n]]
  BY DEF ChainOf
<1> HIDE DEF c
<1>3. c \in [1..k -> [record : Hashes, event : Hashes]]
  BY <1>1, <1>2
<1> QED BY <1>3, FunctionIsSequence DEF c

(* What a store adds to the rows of a seller.                              *)
LEMMA StoreAdds ==
  ASSUME Inv, NEW w \in Workers, Store(w), NEW s \in Tills
  PROVE  LET end == Len(rows) + 1
         IN  /\ \A i \in RowsOf(s) : i \in RowsOf(s)' /\ rows'[i] = rows[i]
             /\ IF job[w].seller = s
                THEN /\ RowsOf(s)' = RowsOf(s) \cup {end}
                     /\ rows'[end].number = job[w].number
                     /\ rows'[end].trail = job[w].trail
                ELSE RowsOf(s)' = RowsOf(s)
<1> DEFINE row == [seller |-> job[w].seller, number |-> job[w].number,
                   keyed |-> job[w].keyed, doc |-> job[w].doc,
                   trail |-> job[w].trail, under |-> settings]
           end == Len(rows) + 1
<1>1. rows' = Append(rows, row)
  BY DEF Store
<1>2. /\ row.seller = job[w].seller
      /\ row.number = job[w].number
      /\ row.trail = job[w].trail
  OBVIOUS
<1> HIDE DEF row
<1>3. /\ DOMAIN rows = 1..Len(rows) /\ DOMAIN rows' = 1..end
      /\ Len(rows) \in Nat
      /\ \A i \in DOMAIN rows : rows'[i] = rows[i]
      /\ rows'[end] = row
  BY <1>1 DEF Inv, TypeOK
<1> QED BY <1>2, <1>3 DEF RowsOf

(* A handler that stores another record of a till found its number free,   *)
(* and the number before it stored: it is the next.                        *)
LEMMA StoreIsNext ==
  ASSUME Inv, NEW w \in Workers, Store(w), NEW s \in Tills,
         job[w].seller = s, NEW k \in Nat, NumbersOf(s) = 1..k
  PROVE  /\ job[w].number = k + 1
         /\ recordInputs[job[w].trail.record].previous
              = (IF k = 0 THEN 0 ELSE ChainOf(s)[k].record)
         /\ eventInputs[job[w].trail.event].previous
              = (IF k = 0 THEN 0 ELSE ChainOf(s)[k].event)
<1> DEFINE old == job[w]
<1>1. /\ old.stage = "insert"
      /\ old.keyed => WithKey(old.seller, old.number) = {}
  BY DEF Store
<1>2. /\ TrailOK(old, recordInputs, eventInputs)
      /\ LinkedEntry(old, recordInputs, eventInputs, rows)
      /\ old \in Pending
  BY <1>1 DEF Inv, TypeOK, JobsOK, JobOK, Idle, Replying, Pending
<1>3. old.number \in Nat \ {0}
  BY <1>2 DEF Pending
<1>4. old.number \notin 1..k
  <2>1. WithKey(s, old.number) = {}
    BY <1>1, <1>2 DEF TrailOK
  <2> QED BY <2>1, RowsOfTills DEF NumbersOf, WithKey
<1>5. CASE old.number = 1
  <2>1. k = 0
    BY <1>4, <1>5
  <2> QED BY <1>2, <1>5, <2>1 DEF LinkedEntry, Linked
<1>6. CASE old.number # 1
  <2>1. PICK j \in DOMAIN rows :
          Follows(rows[j], old.number, s,
                  recordInputs[old.trail.record].previous,
                  eventInputs[old.trail.event].previous)
    BY <1>2, <1>6 DEF LinkedEntry, Linked
  <2>2. j \in RowsOf(s) /\ rows[j].number + 1 = old.number
    BY <2>1 DEF Follows, RowsOf
  <2>3. /\ rows[j].number \in 1..k
        /\ ChainOf(s)[rows[j].number] = LinkTo(rows[j].trail)
    BY <2>2, RowsOfTills
  <2>4. rows[j].number = k /\ k # 0
    BY <1>3, <1>4, <2>2, <2>3
  <2> QED BY <2>1, <2>2, <2>3, <2>4 DEF Follows, LinkTo
<1> QED BY <1>5, <1>6

LEMMA StoreCounts ==
  ASSUME Inv, NEW w \in Workers, Store(w), NEW s \in Tills,
         NEW k \in Nat, NumbersOf(s) = 1..k
  PROVE  NumbersOf(s)' = 1..(IF job[w].seller = s THEN k + 1 ELSE k)
<1> DEFINE end == Len(rows) + 1
<1>1. \A i \in RowsOf(s) : i \in RowsOf(s)' /\ rows'[i] = rows[i]
  BY StoreAdds
<1>2. CASE job[w].seller = s
  <2>1. RowsOf(s)' = RowsOf(s) \cup {end} /\ rows'[end].number = job[w].number
    BY <1>2, StoreAdds
  <2>2. NumbersOf(s)' = NumbersOf(s) \cup {job[w].number}
    BY <1>1, <2>1 DEF NumbersOf
  <2>3. job[w].number = k + 1
    BY <1>2, StoreIsNext
  <2> QED BY <1>2, <2>2, <2>3
<1>3. CASE job[w].seller # s
  <2>1. RowsOf(s)' = RowsOf(s)
    BY <1>3, StoreAdds
  <2>2. NumbersOf(s)' = NumbersOf(s)
    BY <1>1, <2>1 DEF NumbersOf
  <2> QED BY <1>3, <2>2
<1> QED BY <1>2, <1>3

(* The lemmas on chains, of the state after a step.                        *)
LEMMA ChainsNext ==
  Inv' => \A s \in Tills :
    /\ \A i \in RowsOf(s)' :
         ChainOf(s)'[rows'[i].number] = LinkTo(rows'[i].trail)
    /\ \A k \in Nat :
         NumbersOf(s)' = 1..k =>
           /\ ChainOf(s)' \in Seq([record : Hashes, event : Hashes])
           /\ Len(ChainOf(s)') = k
<1>1. Inv => \A s \in Tills :
               /\ \A i \in RowsOf(s) :
                    ChainOf(s)[rows[i].number] = LinkTo(rows[i].trail)
               /\ \A k \in Nat :
                    NumbersOf(s) = 1..k =>
                      /\ ChainOf(s) \in Seq([record : Hashes, event : Hashes])
                      /\ Len(ChainOf(s)) = k
  BY RowsOfTills, ChainsAreSequences
<1>2. (Inv => \A s \in Tills :
                /\ \A i \in RowsOf(s) :
                     ChainOf(s)[rows[i].number] = LinkTo(rows[i].trail)
                /\ \A k \in Nat :
                     NumbersOf(s) = 1..k =>
                       /\ ChainOf(s)
                            \in Seq([record : Hashes, event : Hashes])
                       /\ Len(ChainOf(s)) = k)'
  BY <1>1, PTL
<1> QED BY <1>2

(* Rows with the numbers and trails they had are the chain they were.      *)
LEMMA SameChain ==
  ASSUME Inv, Inv', NEW s \in Tills, RowsOf(s)' = RowsOf(s),
         \A i \in RowsOf(s) :
           rows'[i].number = rows[i].number /\ rows'[i].trail = rows[i].trail
  PROVE  NumbersOf(s)' = NumbersOf(s) /\ ChainOf(s)' = ChainOf(s)
<1>1. NumbersOf(s)' = NumbersOf(s)
  BY DEF NumbersOf
<1>2. ASSUME NEW n \in NumbersOf(s)
      PROVE  ChainOf(s)'[n] = ChainOf(s)[n]
  <2>1. PICK i \in RowsOf(s) : rows[i].number = n
    BY DEF NumbersOf
  <2>2. ChainOf(s)[n] = LinkTo(rows[i].trail)
    BY <2>1, RowsOfTills
  <2>3. ChainOf(s)'[n] = LinkTo(rows'[i].trail)
    BY <2>1, ChainsNext
  <2> QED BY <2>2, <2>3
<1>3. /\ ChainOf(s) = [n \in NumbersOf(s) |-> ChainOf(s)[n]]
      /\ ChainOf(s)' = [n \in NumbersOf(s)' |-> ChainOf(s)'[n]]
  BY DEF ChainOf
<1> HIDE DEF ChainOf
<1> QED BY <1>1, <1>2, <1>3

(* An archive removes no row, no number and no link.                       *)
LEMMA ArchiveKeepsChain ==
  ASSUME Inv, Inv', NEW i \in DOMAIN rows, Archive(i), NEW s \in Tills
  PROVE  NumbersOf(s)' = NumbersOf(s) /\ ChainOf(s)' = ChainOf(s)
<1>1. /\ DOMAIN rows' = DOMAIN rows
      /\ \A j \in DOMAIN rows :
           /\ rows'[j].seller = rows[j].seller
           /\ rows'[j].number = rows[j].number
           /\ rows'[j].trail = rows[j].trail
  BY SMTT(30) DEF Archive, Inv, TypeOK, Row
<1>2. RowsOf(s)' = RowsOf(s) /\ RowsOf(s) \subseteq DOMAIN rows
  BY <1>1 DEF RowsOf
<1> QED BY <1>1, <1>2, SameChain

(* Every step but a store leaves the links of a till as they are.          *)
LEMMA OnlyStoresExtend ==
  ASSUME Inv, Inv', [Next]_vars, ~ \E w \in Workers : Store(w),
         NEW s \in Tills
  PROVE  NumbersOf(s)' = NumbersOf(s) /\ ChainOf(s)' = ChainOf(s)
<1>1. CASE \E i \in DOMAIN rows : Archive(i)
  BY <1>1, ArchiveKeepsChain
<1>2. CASE rows' = rows
  BY <1>2 DEF NumbersOf, ChainOf, RowsOf
<1>3. rows' = rows \/ \E i \in DOMAIN rows : Archive(i)
  BY DEF Next, vars, TillAsks, StrayAsks, Sign, SigningFails,
         StoreConflicts, Reply, LoseReply, Deploy
<1> QED BY <1>1, <1>2, <1>3

(* The stored records of a till are numbered 1, 2, ... without a gap,      *)
(* whatever is lost or conflicts: a till goes on to the next number only   *)
(* when it was told of the record before, and an insert under a key that   *)
(* is there is refused (invoices.py:97-111, 201-230).                      *)
THEOREM AlwaysChains == Spec => [](Inv /\ ChainsOK)
<1>1. Init => ChainsOK
  <2> SUFFICES ASSUME Init, NEW s \in Tills
               PROVE  NumbersOf(s) = 1..0
    BY DEF ChainsOK
  <2> QED BY DEF Init, NumbersOf, RowsOf
<1>2. Inv /\ Inv' /\ ChainsOK /\ [Next]_vars => ChainsOK'
  <2> SUFFICES ASSUME Inv, Inv', [Next]_vars, NEW s \in Tills, NEW k \in Nat,
                      NumbersOf(s) = 1..k
               PROVE  \E n \in Nat : NumbersOf(s)' = 1..n
    BY DEF ChainsOK
  <2>1. ASSUME NEW w \in Workers, Store(w)
        PROVE  \E n \in Nat : NumbersOf(s)' = 1..n
    BY <2>1, StoreCounts
  <2>2. CASE ~ \E w \in Workers : Store(w)
    BY <2>2, OnlyStoresExtend
  <2> QED BY <2>1, <2>2
<1> QED BY <1>1, <1>2, AlwaysInv, PTL DEF Spec

(* A register that grows keeps what it has as a prefix.                    *)
LEMMA HashedIsLonger ==
  ASSUME NEW S, NEW inputs \in Seq(S), NEW text
  PROVE  Chains!IsPrefix(inputs, Hashed(inputs, text))
<1>1. inputs \in Seq(S \cup {text})
  BY SeqMonotonic
<1>2. Chains!IsPrefix(inputs, inputs)
  BY <1>1 DEF Chains!IsPrefix
<1>3. Chains!IsPrefix(inputs, Append(inputs, text))
  BY <1>1 DEF Chains!IsPrefix
<1> QED BY <1>2, <1>3 DEF Hashed

(* A request that generates a record computes its two hashes.              *)
LEMMA GenerateComputes ==
  ASSUME Inv, NEW w, NEW seller, NEW number, NEW keyed, NEW m,
         Generate(w, seller, number, keyed, m)
  PROVE  /\ Chains!IsPrefix(recordInputs, recordInputs')
         /\ Chains!IsPrefix(eventInputs, eventInputs')
BY HashedIsLonger DEF Inv, TypeOK, Generate

(* Storing a till's record adds its link to its chain, and to no other.    *)
LEMMA StoreExtends ==
  ASSUME Inv, Inv', NEW w \in Workers, Store(w), NEW s \in Tills,
         job[w].seller = s, NEW k \in Nat, NumbersOf(s) = 1..k
  PROVE  /\ ChainOf(s)' = Append(ChainOf(s), LinkTo(job[w].trail))
         /\ \A t \in Tills : t # s => ChainOf(t)' = ChainOf(t)
<1> DEFINE c    == ChainOf(s)
           d    == ChainOf(s)'
           link == LinkTo(job[w].trail)
           S    == [record : Hashes, event : Hashes]
<1>1. c \in Seq(S) /\ Len(c) = k
  BY ChainsAreSequences
<1>2. link \in S
  <2>1. job[w] \in Pending
    BY DEF Store, Inv, TypeOK, Idle, Replying
  <2> QED BY <2>1 DEF Pending, Trail, LinkTo
<1>3. NumbersOf(s)' = 1..(k + 1)
  BY StoreCounts
<1>4. d \in Seq(S) /\ Len(d) = k + 1
  <2>1. k + 1 \in Nat
    OBVIOUS
  <2>2. \A n \in Nat : NumbersOf(s)' = 1..n =>
          ChainOf(s)' \in Seq(S) /\ Len(ChainOf(s)') = n
    BY ChainsNext
  <2> QED BY <1>3, <2>1, <2>2
<1>5. ASSUME NEW n \in 1..k
      PROVE  d[n] = c[n]
  <2>1. PICK i \in RowsOf(s) : rows[i].number = n
    BY DEF NumbersOf
  <2>2. i \in RowsOf(s)' /\ rows'[i] = rows[i]
    BY StoreAdds
  <2>3. c[n] = LinkTo(rows[i].trail)
    BY <2>1, RowsOfTills
  <2>4. d[n] = LinkTo(rows'[i].trail)
    BY <2>1, <2>2, ChainsNext
  <2> QED BY <2>2, <2>3, <2>4
<1>6. d[k + 1] = link
  <2>1. PICK i \in RowsOf(s)' :
          rows'[i].number = k + 1 /\ rows'[i].trail = job[w].trail
    <3>1. job[w].number = k + 1
      BY StoreIsNext
    <3> QED BY <3>1, StoreAdds
  <2>2. d[rows'[i].number] = LinkTo(rows'[i].trail)
    BY ChainsNext
  <2> QED BY <2>1, <2>2
<1>7. ASSUME NEW t \in Tills, t # s
      PROVE  ChainOf(t)' = ChainOf(t)
  <2>1. /\ RowsOf(t)' = RowsOf(t)
        /\ \A i \in RowsOf(t) : rows'[i] = rows[i]
    BY <1>7, StoreAdds
  <2> QED BY <2>1, SameChain
<1>8. d = Append(c, link)
  <2> HIDE DEF c, d, link, S
  <2>1. /\ Append(c, link) \in Seq(S)
        /\ Len(Append(c, link)) = k + 1
        /\ \A n \in 1..k : Append(c, link)[n] = c[n]
        /\ Append(c, link)[k + 1] = link
    BY <1>1, <1>2, AppendProperties
  <2>2. \A n \in 1..Len(d) : d[n] = Append(c, link)[n]
    BY <1>4, <1>5, <1>6, <2>1
  <2> QED BY <1>4, <2>1, <2>2, SeqEqual
<1> QED BY <1>7, <1>8

(* So a store issues the next link of the chain: it follows the tip.       *)
LEMMA StoreIssues ==
  ASSUME Inv, Inv', ChainsOK, NEW w \in Workers, Store(w), NEW s \in Tills,
         job[w].seller = s
  PROVE  Chains!Issue(s)
<1> DEFINE trail == job[w].trail
           c     == ChainOf(s)
           chain == [t \in Tills |-> ChainOf(t)]
<1>1. PICK k \in Nat : NumbersOf(s) = 1..k
  BY DEF ChainsOK
<1>2. c \in Seq([record : Hashes, event : Hashes]) /\ Len(c) = k
  BY <1>1, ChainsAreSequences
<1>3. /\ job[w].number = k + 1
      /\ recordInputs[trail.record].previous
           = (IF k = 0 THEN 0 ELSE c[k].record)
      /\ eventInputs[trail.event].previous
           = (IF k = 0 THEN 0 ELSE c[k].event)
  BY <1>1, StoreIsNext
<1>4. TrailOK(job[w], recordInputs, eventInputs)
  BY DEF Store, Inv, JobsOK, JobOK
<1>5. /\ trail.record \in DOMAIN recordInputs
      /\ trail.event \in DOMAIN eventInputs
      /\ recordInputs[trail.record].seller = s
      /\ recordInputs[trail.record].number = k + 1
      /\ eventInputs[trail.event].seller = s
  BY <1>3, <1>4 DEF TrailOK
<1>6. chain[s] = c
  OBVIOUS
<1>7. chain' = [chain EXCEPT ![s] = Append(c, LinkTo(trail))]
  BY <1>1, StoreExtends
<1>8. UNCHANGED <<recordInputs, eventInputs>>
  BY DEF Store
<1>9. c = <<>> <=> k = 0
  <2> HIDE DEF c
  <2> QED BY <1>2
<1> HIDE DEF c, trail
<1>10. Chains!Tip(s) = IF k = 0 THEN [record |-> 0, event |-> 0] ELSE c[k]
  BY <1>2, <1>6, <1>9 DEF Chains!Tip
<1>11. /\ recordInputs[trail.record] =
            [seller |-> s, number |-> Len(c) + 1,
             previous |-> Chains!Tip(s).record]
       /\ eventInputs[trail.event] =
            [seller |-> s, previous |-> Chains!Tip(s).event]
  <2>1. /\ recordInputs[trail.record] \in RecordInput
        /\ eventInputs[trail.event] \in EventInput
    BY <1>5 DEF Inv, TypeOK
  <2> QED BY <1>2, <1>3, <1>5, <1>10, <2>1 DEF RecordInput, EventInput
<1>12. chain' = [chain EXCEPT ![s] =
          Append(@, [record |-> trail.record, event |-> trail.event])]
  BY <1>6, <1>7 DEF LinkTo
<1> HIDE DEF chain
<1> QED BY <1>5, <1>6, <1>8, <1>11, <1>12 DEF Chains!Issue, chain

(* Every step maps to a step of the chains, or changes nothing in them.    *)
LEMMA StepsImplementChain ==
  Inv /\ Inv' /\ ChainsOK /\ [Next]_vars => [Chains!Next]_(Chains!registry)
<1> DEFINE chain == [s \in Tills |-> ChainOf(s)]
<1> SUFFICES ASSUME Inv, Inv', ChainsOK, [Next]_vars
             PROVE  Chains!Next \/ UNCHANGED <<recordInputs, eventInputs, chain>>
  BY DEF Chains!registry
<1>1. ASSUME NEW w \in Workers, Store(w), job[w].seller \in Tills
      PROVE  Chains!Next
  BY <1>1, StoreIssues DEF Chains!Next
<1>2. ASSUME NEW w \in Workers, Store(w), job[w].seller \notin Tills
      PROVE  UNCHANGED <<recordInputs, eventInputs, chain>>
  <2>1. ASSUME NEW s \in Tills
        PROVE  ChainOf(s)' = ChainOf(s)
    <3>1. /\ RowsOf(s)' = RowsOf(s)
          /\ \A i \in RowsOf(s) : rows'[i] = rows[i]
      BY <1>2, StoreAdds
    <3> QED BY <3>1, SameChain
  <2> QED BY <1>2, <2>1 DEF Store
<1>3. CASE ~ \E w \in Workers : Store(w)
  <2>1. UNCHANGED chain
    <3>1. ASSUME NEW s \in Tills
          PROVE  ChainOf(s)' = ChainOf(s)
      BY <1>3, OnlyStoresExtend, Zenon
    <3> QED BY <3>1
  <2>2. \/ /\ Chains!IsPrefix(recordInputs, recordInputs')
           /\ Chains!IsPrefix(eventInputs, eventInputs')
        \/ UNCHANGED <<recordInputs, eventInputs>>
    <3>1. ASSUME NEW w \in Workers, NEW s \in Tills, TillAsks(w, s)
          PROVE  \/ /\ Chains!IsPrefix(recordInputs, recordInputs')
                    /\ Chains!IsPrefix(eventInputs, eventInputs')
                 \/ UNCHANGED <<recordInputs, eventInputs>>
      BY <3>1, GenerateComputes DEF TillAsks
    <3>2. ASSUME NEW w \in Workers, NEW s \in Strays, StrayAsks(w, s)
          PROVE  /\ Chains!IsPrefix(recordInputs, recordInputs')
                 /\ Chains!IsPrefix(eventInputs, eventInputs')
      BY <3>2, GenerateComputes, Zenon DEF StrayAsks
    <3> QED BY <1>3, <3>1, <3>2, Zenon
            DEF Next, vars, Sign, SigningFails, StoreConflicts, Reply,
                LoseReply, Archive, Deploy
  <2> QED BY <2>1, <2>2 DEF Chains!Next, Chains!Compute
<1> QED BY <1>1, <1>2, <1>3

(* The audit trails of tills are the chain that RecordChain promises, for  *)
(* any number of tills, stray clients, workers and deployments             *)
(* (invoices.py:97-111, 201-230, 505-512).                                 *)
THEOREM ChainImplemented == Spec => ImplementsChain
<1>1. Init => Chains!Init
  <2> SUFFICES ASSUME Init
               PROVE  [s \in Tills |-> ChainOf(s)] = [s \in Tills |-> <<>>]
    BY DEF Init, Chains!Init
  <2> QED BY DEF Init, ChainOf, NumbersOf, RowsOf
<1>2. Inv /\ Inv' /\ ChainsOK /\ [Next]_vars
        => [Chains!Next]_(Chains!registry)
  BY StepsImplementChain
<1> QED BY <1>1, <1>2, AlwaysChains, PTL DEF Spec, ImplementsChain, Chains!Spec
=============================================================================
