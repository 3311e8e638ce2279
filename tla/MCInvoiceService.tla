--------------------------- MODULE MCInvoiceService ---------------------------
(***************************************************************************)
(* Small instances of InvoiceService: the invoices, tenants and requests   *)
(* that the runs give to it.                                               *)
(***************************************************************************)
EXTENDS InvoiceRefinement, TLC

CONSTANTS t1, t2, east, west, k1, k2, w1, w2

Plain(name) == [name |-> name, compliant |-> TRUE, spanish |-> FALSE,
                large |-> FALSE, pending |-> FALSE, sim |-> {}]

Good    == Plain("good")
Bad     == [Plain("bad") EXCEPT !.compliant = FALSE]
Large   == [Plain("large") EXCEPT !.large = TRUE]
Waiting == [Plain("waiting") EXCEPT !.pending = TRUE]
Spanish == [Plain("spanish") EXCEPT !.spanish = TRUE]

MCBodies == {Good, Bad, Large, Waiting, Spanish}

Blank == [op |-> "transform", caller |-> Admin, header |-> None, key |-> None,
          target |-> None, payload |-> None, sim |-> {}, redact |-> FALSE]

Of(body, tenant, key) == [body |-> body, tenant |-> tenant, key |-> key]

Transform(caller, payload, header) ==
  [Blank EXCEPT !.caller = caller, !.payload = payload, !.header = header]

SendId(caller, i, header, sim) ==
  [Blank EXCEPT !.op = "send", !.caller = caller, !.target = i,
                !.header = header, !.sim = sim]

SendPayload(caller, payload, header, sim) ==
  [Blank EXCEPT !.op = "send", !.caller = caller, !.payload = payload,
                !.header = header, !.sim = sim]

Archive(caller, i, redact) ==
  [Blank EXCEPT !.op = "archive", !.caller = caller, !.target = i,
                !.redact = redact]

OfficialValidate(caller, i) ==
  [Blank EXCEPT !.op = "official", !.caller = caller, !.target = i]

Webhook(i) == [Blank EXCEPT !.op = "webhook", !.target = i]

(* One region, no tenant restrictions. *)
EastHome          == [t \in Tenants |-> east]
NoFailover        == [t \in Tenants |-> None]
AllPrimary        == [r \in Regions |-> "primary"]
AllEast           == [w \in Workers |-> east]

(* Two regions: t1 may fail over to west, t2 may not. *)
TwoRegionFailover == [t \in Tenants |-> IF t = t1 THEN west ELSE None]
EastPrimary       == [r \in Regions |-> IF r = east THEN "primary" ELSE "standby"]
OnePerRegion      == [w \in Workers |-> IF w = w1 THEN east ELSE west]

Threads == Permutations(Workers)

-----------------------------------------------------------------------------
(* serial: one thread and one restart; sends by id and by payload, keyed   *)
(* and not, that are accepted, rejected and replayed, in every order with  *)
(* the archives and a webhook test, and an invoice that fails validation.  *)
(* Keyed sends are repeated.                                               *)
SerialSends ==
  {SendId(Admin, 1, k1, {"reject"}),
   SendId(Admin, 1, None, {}),
   SendPayload(Admin, Of(Large, None, None), k2, {})}

SerialRequests ==
  SerialSends \cup
  {Transform(Admin, Of(Large, None, k2), None),
   Transform(Admin, Of(Bad, None, k1), k1),
   Archive(Admin, 1, TRUE),
   Archive(Admin, 1, FALSE),
   Webhook(1)}

SerialAttempts ==
  [r \in Requests |-> IF r \in SerialSends /\ r.header # None THEN 2 ELSE 1]

(* concurrent: two threads of one process; three requests compete for the  *)
(* key k1 with two contents, one of them invalid; two sends, an official   *)
(* validation and an archive meet on one invoice; another tenant sends it  *)
(* under the key and with the content of its owner's send; and the process *)
(* may die once.                                                           *)
ConcurrentRequests ==
  {Transform(t1, Of(Good, None, k1), None),
   Transform(t1, Of(Bad, None, None), k1),
   SendPayload(t1, Of(Good, t1, None), k1, {}),
   SendId(t1, 1, k2, {"reject"}),
   Archive(t1, 1, TRUE),
   OfficialValidate(t1, 1),
   SendId(t2, 1, k2, {"reject"})}

(* failover: a process in each of two regions, either of which may be      *)
(* promoted or demoted; t1 may fail over to west, t2 may not.  Both may    *)
(* serve one keyed send.  A redacting archive, another one and a send by   *)
(* id meet on one invoice, and t2 transforms under t1's key.               *)
FailoverRequests ==
  {SendPayload(t1, Of(Spanish, None, None), k1, {}),
   Transform(t2, Of(Waiting, None, k1), None),
   SendId(Admin, 1, None, {}),
   Archive(Admin, 1, TRUE),
   Archive(Admin, 1, FALSE)}

FailoverAttempts ==
  [r \in Requests |-> IF r.op = "send" /\ r.payload # None THEN 2 ELSE 1]

(* retries: clients repeat two keyed requests until they are answered.  One *)
(* is rejected, so that its retry meets its own stored key.  A third one   *)
(* names two keys.                                                         *)
TwoKeys == [SendId(Admin, 1, k1, {}) EXCEPT !.key = k2]

RetryRequests ==
  {SendPayload(Admin, Of(Large, None, None), k1, {"reject"}),
   Transform(Admin, Of(Good, None, None), k1),
   TwoKeys}

RetryAttempts == [r \in Requests |-> IF r = TwoKeys THEN 3 ELSE 4]

Once == [r \in Requests |-> 1]

-----------------------------------------------------------------------------
(* What the runs that expect a violation need, and no more. *)
KeyedSendRequests == {SendPayload(Admin, Of(Good, None, None), k1, {})}

Twice == [r \in Requests |-> 2]

RacingRequests ==
  {Transform(Admin, Of(Good, None, None), None),
   SendId(Admin, 1, None, {}),
   Archive(Admin, 1, TRUE)}
=============================================================================
