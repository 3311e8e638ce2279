# InvoiceBridge in TLA+

A model of the invoice workflow of this repository, checked with TLC and proved
about with TLAPS. Source paths are relative to the repository; `invoices.py`
alone is `app/services/invoices.py`.

## 1. The system

A FastAPI service receives invoices as JSON, validates them against a country
profile, turns them into an XML document, hands them to a (mock) delivery
provider and keeps an audit trail. One process runs per region; its thread pool
serves requests at the same time, each with a database session of its own.

| Component | State it keeps | Operations | What makes it correct |
|---|---|---|---|
| Invoice workflow (`services/invoices.py`, `api/routes/invoices.py`) | none of its own: all in tables | `validate`, `transform`, `send`, `status`, `archive`, `official_validate`, `create_from_scratch`, reads | a key means one request; a submission is of a valid invoice; tables and trail agree; redaction is final and evidenced |
| Tables, sessions, connections (`db/models.py`, `db/session.py`) | `invoices` (unique key), `invoice_submissions` (unique key), `audit_events`, results, `tenants`, `tenant_api_keys`, `country_profiles` | insert, column-wise UPDATE, commit, rollback; a connection from the first query to the commit or the close | no two rows with one key; all or nothing of a handler; every connection comes back |
| Audit trail (`services/audit.py`, `checksum.py`) | `audit_events` | `create_audit_event` in the caller's transaction | one story with the rows |
| Providers (`services/providers/*`) | none (deterministic mocks) | `submit` | called as often as a submission says |
| Tenants and regions (`core/regions.py`, `core/config.py`, `services/tenants.py`) | `tenants`; settings, cached per process | role check, tenant's region check, create | writes in writable, allowed regions only |
| Authentication (`core/security.py`) | `tenant_api_keys` | key to admin or tenant | tenants meet only their own invoices |
| Official validation (`official_validation.py`) | result rows | run a command, 60 s at most | a result is recorded for what was validated |
| Spanish SIF (`spain_sif.py`, `spanish_sif_signing.py`) | none: the client carries the hashes from one record to the next | record and event hashes, link to the record before, signing command | a till's records are one chain; the trail refers to the document that is stored, whatever the signing command made of it |
| Country validation (`validation/*`, `country_profiles.py`) | none | header, parties, identifiers, lines, totals | accepts what the profile allows; amounts add up; slips in identifiers are noticed |
| Documents (`transform/*`) | none | XML of a valid invoice | tax groups add up to totals |
| Webhook test (`routes/webhooks.py`) | none | one audit event | |
| Readiness (`compliance.py`) | settings, cached per process | report of what is missing | what is reported ready is what the handlers use |
| Start-up, middleware, other routes | profiles at start-up | seeding, refusals by size, reports of settings | the table is complete for whoever serves |

Components interact by calls within one request, and across requests through
the tables and through what they compete for, threads and connections. What is hard is therefore what happens between two accesses
of one handler: another thread's commit, a crash, a lost key, a lost answer.
`PROJECT.json` lists these hazards at their lines.

## 2. Modules

    InvoiceData ── InvoiceService ── InvoiceProperties ┬─ InvoiceRefinement ── MCInvoiceService
                                                       │        └ INSTANCE InvoiceLedger
                                                       └─ InvoiceServiceProofs
    InvoiceServiceProofs, InvoiceRefinement ── InvoiceLedgerProofs ── InvoiceSerialProofs
    Amounts ┬─ MCAmounts
            └─ AmountsProofs
    Tenants ┬─ MCTenants
            └─ TenantsProofs
    Connections ┬─ MCConnections
                └─ ConnectionsProofs
    Readiness ── SpanishRecords ── SpanishRefinement ┬─ MCSpanishRecords
                                        │            └─ SpanishRecordsProofs
                                        └ INSTANCE RecordChain
    Identifiers ── IdentifiersProofs

- **InvoiceData**: requests, rows, events and the pure rules (`_ensure_sendable`,
  `_ensure_invoice_access`, `tenant_region_decision`, the request hashes, ...).
- **InvoiceService**: the state machine. `invoices`, `submissions` and `trail`
  are the tables; `role` the region roles; `job` what each thread is doing;
  `calls`, `attempts`, `answers` and `restarts` are histories of the
  environment (provider, clients, operator).
- **InvoiceProperties**: what must hold. **InvoiceLedger** is the abstract
  specification - keys, submissions and erasure, without threads, sessions or
  regions - and **InvoiceRefinement** the mapping of the tables to it.
- **Amounts**: the decimal arithmetic of `/create`, the validators and the tax
  groups, as a small state machine that builds an invoice line by line.
- **Tenants**: the start-up of processes that seed one database, the registration
  of tenants and the lookup of their keys, with the rows `tenants`,
  `tenant_api_keys` and `country_profiles`. `InvoiceService` takes tenants as given
  constants; the two modules share no step, since no handler of an invoice writes
  these tables.
- **Connections**: what a request holds while it is served - a thread of the
  server's pool, a connection of the database's - from the middleware to the close
  of its session. What its handler does with the tables is in the other modules.
- **SpanishRecords**: the branch of `transform` that writes Spanish records, with
  the clients that chain them, the signing command, redaction and deployments with
  other settings. `InvoiceService` has the same `transform` with its tenants,
  regions and crashes but keeps no hash of a record; here a row is what the
  chain needs of it. **Readiness** is the report of `compliance.py` and the
  choice of a validator, as operators on the settings. **RecordChain** is the abstract
  specification - a hash function and one chain of hashes per till, without requests,
  failures, redaction or deployments - and **SpanishRefinement** the mapping to it: the
  chain is read from the audit trails, which stay when a document is redacted.
- **Identifiers**: the checksums of tax identifiers, as the loops they are,
  run over what was meant and what was typed at the same time.
- The theorems: **InvoiceServiceProofs** (types, evidence, redaction, keys, tenants,
  regions), **InvoiceLedgerProofs** (the trail, the refinement of the ledger),
  **InvoiceSerialProofs** (handlers that do not overlap on an invoice),
  **AmountsProofs**, **TenantsProofs**, **ConnectionsProofs**, **SpanishRecordsProofs**
  (with the refinement of the chain), **IdentifiersProofs**.

Definitions marked *Fault* are not used by the specification: each is a
definition with a plausible bug, and putting it in place of the original breaks
a property (the `mutants` of `PROJECT.json`).

### How handlers become actions

A handler is cut where another thread's commit can come between two of its own
accesses. `job[w].at` names the next access.

| Code | Actions |
|---|---|
| any request enters | `Receive` |
| `transform` 96-111 (key lookup, replay) | `TransformReplay`, `TransformRefuse` |
| `transform` 113-117 (tenant, region, role) | `TransformAdmit`, `TransformRefuse` |
| `transform` 131-242, `_record_validation_failure` | `TransformInsert`, `TransformConflict` (unique key), `SigningFails` |
| `send` 250-266 | `SendRefuse`, `SendReplay`, `SendProceed` |
| `_resolve_invoice_for_send`, `_ensure_sendable` | `SendLoad`, or the transform actions for a send with a payload |
| `send` 274-278 | `SendReplayPrior`, `SendAdmit` |
| `send` 298 | `ProviderSubmit` |
| `send` 304-335 | `SendCommit`, `SendConflict` (unique key) |
| `archive` | `ArchiveLoad`, `ArchiveCommit` |
| `official_validate` | `OfficialLoad`, `OfficialCommit` |
| `webhook_test` | `WebhookTest` |
| the response after a commit | `Deliver` |
| a process dies or is redeployed | `Restart` |
| `lifespan`, `_seed_country_profiles` | `Start`, `SeedCheck` (one `db.get`), `SeedCommit`, `SeedConflict` (primary key) |
| `TenantService.create` | `Register` (lookup, key), `Insert`, `InsertConflict` (primary key), `Reply` |
| `require_api_key` with a tenant's key, the handler after it | `Authenticate`, `Serve` |
| an operator clears `tenants.active`; a process ends | `Deactivate`, `Crash` (`Tenants`) |
| `request_context_middleware` | `RefuseEarly`, `Arrive` |
| a dependency or endpoint starts on a thread | `TakeThread` |
| the first query of a session, or the first after a commit | `Checkout`, `PoolTimeout` |
| `require_api_key` as to its session | `Authenticated`, `Unauthorized` |
| a handler as to its session; `get_db`'s `finally` | `Commit`, `Finish`, `Close` |
| `transform` 96-137 of a Spanish invoice | `TillAsks`, `StrayAsks` (both `Generate`) |
| `sign_spanish_sif_document` | `Sign`, `SigningFails` (`SpanishRecords`) |
| `transform` 143-242 of a Spanish invoice | `Store`, `StoreConflicts`, `Reply`, `LoseReply` |
| `archive` that redacts; `get_settings` of a new process | `Archive`, `Deploy` (`SpanishRecords`) |
| `_validate_party`, one character at a time | `TypeCharacter`, `TypeSwapped`, `TypeControl`, `TypeControlFirst` |

### Modelling decisions

- **Commit is one step.** What a handler flushed is invisible to others until it
  commits (read committed), and from the first flush that another writer could
  conflict with - the insert of a key, the UPDATE of the row - it holds the lock
  until it ends. Sessions do not flush on queries (`autoflush=False`).
- **Column-wise UPDATE.** A session writes only the columns whose value it saw
  change (`Flush`). A stale row overwrites nothing it did not assign.
- **Snapshots.** A row is read once per handler and kept in the session's
  identity map: `job[w].snap`. After a commit rows expire, so a send reads the
  row that its own transform has just committed again.
- **Latest** (submission, event) is in commit order. `created_at` is taken
  at the flush, shortly before; when two sends overlap the two orders may differ, and the
  model takes one of them.
- **Restart** loses the requests of one region and their open transactions. A
  role changes only with a restart, since `get_settings` is cached for the life
  of a process.
- **Hashes** are what they are taken of: equal iff their arguments are.
- **Ids** are numbered in the order of insertion; they are random in the code,
  and nothing depends on their order.
- **Folded in.** `provider_reference` (a function of the id) and
  `validation_results` rows (always written with their event) are left out;
  `official_validation_results` rows are written with their event, which stands
  for both. An invoice body keeps what handlers tell apart: compliant, Spanish,
  over the rejection threshold, a `-PENDING` number, its `simulate_` flags.
- **Unreachable.** `mock_peppol.py:21` rejects an invoice without routing id,
  which its validator has refused (`be_peppol.py:138`).
- **Refused** stands for any 4xx: the code of a refusal is not told apart. 5xx
  answers (`Fail`) tell a client nothing definite and it may retry.
- **Threads and sessions.** Dependencies and endpoints are plain functions, each on a
  thread of its own turn: between `require_api_key` and the handler a request
  keeps its session - `get_db` is evaluated once per request - and waits for a thread
  again. How many threads and connections there are is a constant (40 and 15 by the
  defaults of the libraries). `/health/ready` opens a session without `get_db`. With SQLite
  the pool is another; the module is about the pool of a server database.
- **Record hashes** are positions in a register of what was hashed: nobody can send
  a hash that does not exist yet, unless it is one this service never computed
  (`Foreign`). `first_record` is `true`, a text, or absent, since only the JSON value
  `true` counts in all three places. Invoices that are not compliant store no
  record. The timestamp and the number's date are functions of the request, so a
  till's retry hashes the same text.
- **Settings** are the set of names that are given.
- **Signing** yields a text: signed, or the document as generated, since nobody looks at what
  the command prints or leaves. The trail's signature is the text its reference is the hash of.
- **Identifiers** are characters 0 to 35. Upper case, length and country prefix are
  what the patterns demand; the state keeps the running sum of each loop and not the
  digits, which makes all identifiers of a length one graph of small size.
- **Amounts** are integers: tenths for quantities and rates, mills for prices and
  declared amounts, cents after `money`. Addition of cents needs no rounding, so
  `money` around a sum of cents is the identity and is left out. A loop over the lines
  is a recursive function of how many of them it has seen; the dictionary of tax groups
  is the sequence of its values in the order of insertion.

## 3. Runs

| Run | Shows | Expect |
|---|---|---|
| `serial` | one thread, one restart, every order of eight requests, keyed sends made twice: an accepted invoice is not submitted again, `status` agrees with the latest submission, retries are announced, retried sends are told of one submission, what is redacted stays archived, the provider gets an invoice again under its key only after a crash | pass |
| `concurrent` | two threads, one crash, two contents (one invalid) under one key, two tenants of whom one sends the other's invoice under the other's key, an official validation that overlaps an archive: keys bind, redaction is final, tenants see their own, a recorded result is of a document that is stored or attested; `ImplementsLedger` | pass |
| `failover` | a process in each of two regions, promoted and demoted, on one database; a keyed send that both may serve, two archives, one of which redacts, a send by id, Spanish signing that can fail: regions and roles of writes, trail and submissions agree also when a send loses its key, evidence survives archives and sends in any order and overlap | pass |
| `retries` | clients repeat two keyed requests, and one that names two keys, through a crash and a lost race: liveness | pass |
| `tenants` | three processes start on one partly seeded database, one may die, and threads of two of them register two tenants and use their keys while the tenants are deactivated: the table is complete for whoever serves, a start-up loses the race at most once, keys that were told stay good, deactivation takes hold | pass |
| `connections` | a send, a `/create`, a read, a request without key and a readiness probe share two threads and two connections: no connection is lost or held twice, and every request ends, although the circle (connections held by requests that wait for threads, threads held by requests that wait for connections) is reached | pass |
| `spain` | a till that writes three records, with conflicts and lost answers, beside a client that sends anything, two requests at a time, one later deployment and one redaction: links are complete, the trail tells the hash, predecessors came first, the trail's signature is of the stored document, also when the command leaves it unsigned, readiness is kept, and the till's chain has no gap or fork; `ImplementsChain` | pass |
| `identifiers` | every tax identifier of DE, PL, RO and ES with one wrong character or two neighbours swapped: which the checksums let pass | pass |
| `amounts` | Belgian invoices at the edges of rounding, made by `/create` or stated by clients with amounts that are off | pass |
| `keyed_send_twice` | the provider gets one keyed send twice | violation |
| `accepted_twice` | one invoice, two accepted submissions | violation |
| `spanish_rates` | rate 10 refused, 20 and 40 misread | violation |

`AtMostOneAcceptedSubmission` and `RedactedImpliesArchived` hold in `serial` and
fail with two threads (`accepted_twice` is the first of them): the code is right about them only when handlers of one
invoice do not overlap, which section 4 makes a theorem. `PROJECT.json` quotes, for each violation, the sentence
of the repository that it contradicts.

Noted without a run:

- `official_validate` and the webhook route write events in a region that takes no
  writes (`docs/multi_region.md:50`), so `StandbyNeverWrites` is about the events of
  transform, send and archive.
- `archive` checks the role of its region and not the regions of the tenant
  (`invoices.py:476`; `docs/multi_region.md:51` says such writes are rejected), so
  `WrittenInAllowedRegion` is about transform and send.
- A send that is answered from an earlier submission stores its key nowhere
  (`invoices.py:276`), so the key is free for another request; `README.md:98` speaks of
  request-hash checks that reject it. `SendRetriesAgree` is what does hold, and only if
  no two sends under one key overlap: one that has looked its key up (259) and waits, while
  another submits under it, is rejected, and a third delivers the invoice, is told of the
  third's submission (275). A lock on the invoice's row would not prevent that, since
  the key is looked up before the row is known.
- `status` reports `retry_available` for a pending delivery (`invoices.py:368`) that
  `send` only replays (275).
- A record of a deployment that is ready by `SPANISH_SIF_SIGNING_CONFIGURED` alone is
  stored as generated: the flag, as `README.md:184` documents it, vouches for signing
  elsewhere. `ReadyMeansChecked` says that a record went through the command, and only
  where the flag is not given.
- The event hash of a Spanish record covers nothing of the invoice
  (`spain_sif.py:96-104`), and the predecessor's number and date, which the document
  prints, are in no hash.
- A signing command that succeeds, prints nothing and leaves the file as it was yields the
  unsigned document with a `sif_record_signed` event (`spanish_sif_signing.py:54`); so does
  one that prints its input, as the command of `tests/test_audit_trail.py:73` does. `Sign`
  takes either text, signed or as generated, and `ReferenceIsOfDocument` says what holds of both: the
  event is there exactly under a command, and its reference is of the stored document.
- A tenant that is deactivated while a request opened by its key is served gets its
  answer; `DeactivationTakesHold` is about the requests after that.
- Slips that the checksums let pass, all by the methods themselves: an NIE's X, Y, Z
  for the digit it stands for; the first letter of a CIF, which enters no sum; a
  CIF's control as digit or letter; 0 and 9 swapped in a CIF; German digits that are
  one apart swapped; Romanian slips when the remainder is 10 or 0.

### Bounds

- `MaxAttempts` - how often clients make each request: once where the property
  is about orders, twice where a retry is the point, four times in `retries`
  (three for the request that races nobody; one restart can kill two attempts and a lost race a third).
- `MaxRestarts` - one crash, or two role changes in `failover` (demotion and
  promotion).
- `MaxInvoices` - two rows. `Receive` admits a request that may insert a row
  only if there is room for it, so the bound never turns an insert into a stuck
  thread.
- `Workers` - two: every hazard listed involves two handlers. They are symmetric in
  `concurrent`.
- `ProfileCount`, `SeededBefore` - three profiles of which an earlier release left
  the middle one: two that are missing, so that a commit of some of them would
  show, on both sides of one that is found.
- `MaxKeys`, `MaxCrashes` (`Tenants`) - two keys, so two registrations race for one
  id or take one each; one crash, which can fall between commit and answer.
- `MaxLines` - two lines: enough for a rate that occurs twice and for two rates.
  Items are chosen at the half cents of extension and of tax.
- `Requests`, `Threads`, `Connections` - one request of each kind; two threads and two
  connections, so that two requests can hold all connections while two others hold
  all threads.
- `MaxNumber`, `MaxStrays`, `MaxDeploys`, `MaxArchived` (`SpanishRecords`) - three records
  of a till, so that the one in the middle can be redacted, or asked for again, while the next
  is written, with retries without limit; one record of a stray client, which may claim any
  of the till's as its predecessor; one change of settings, to ones that are
  ready by the flag or back; one redaction. The proofs have no bound.
- `Lengths` - all the lengths of Romanian payloads; the others are fixed.
- Clients stop at `MaxAttempts` and an invoice ends with its totals, so the
  runs do not check for deadlock; `ThreadsAreReleased` says that no thread is stuck.

### Fairness

`FairSpec` assumes that a thread with a request keeps running (`WF` of `Step` per
thread): it is a thread of the server's pool, its database locks are released by
transactions that end, and the subprocesses it waits for have timeouts. It
assumes that a client without a definite answer makes its request again (`WF` of
`RetryUnanswered`), within `MaxAttempts`. Nothing is assumed of `Restart`.
`Tenants` assumes that a start-up and a thread that began go on; nobody has to
start a process (the Compose files set no restart policy) or to send a request.
`Connections` assumes of each request that has arrived that it goes on when it can
(`WF` of `Progress`): commands have timeouts, the pool's wait is limited to 30 seconds.
That queues serve in order is not needed, since each request of the instance comes
once. Without the pool's timeout the property fails (the mutant of `EveryRequestEnds`).

## 4. Proofs

For all constants that satisfy the named assumptions of the modules (of `InvoiceData`
and `InvoiceService`: any numbers of tenants, regions, keys, threads, requests and
attempts; of `Amounts`: any number of lines, any quantities, prices and rates). "Apart"
is a hypothesis about the behaviour, explained below.

| Theorem | Property |
|---|---|
| `TypeCorrect` | `TypeOK` |
| `EvidenceIsKept` | `EvidenceKept` |
| `ValidatedFirst` | `OnlyValidatedIsSubmitted` |
| `RedactionStays` | `RedactionIsFinal` |
| `UniqueKeys` | `KeysAreUnique` |
| `OneTransformPerKey` | `KeyBindsOneTransform` |
| `TenantsMeetTheirOwn` | `TenantsSeeTheirOwn` |
| `RegionsAreAllowed` | `WrittenInAllowedRegion` |
| `StandbyIsQuiet` | `StandbyNeverWrites` |
| `TrailTellsOfSubmissions` | `TrailMatchesSubmissions` |
| `OfficialResultsTraceable` | `OfficialResultsAreTraceable` |
| `LedgerImplemented` | `ImplementsLedger` |
| `AcceptedOnce` (apart) | `AtMostOneAcceptedSubmission` |
| `StatusTellsOfLatest` (apart) | `StatusMatchesLatestSubmission` |
| `RetriesAnnounced` (apart) | `RetriesAreDeclared` |
| `RedactedAreArchived` (apart) | `RedactedImpliesArchived` |
| `RetriesAreToldTheSame` (apart) | `SendRetriesAgree` |
| `CrashesCostOneCall` (apart) | `RepeatsComeFromCrashes` |
| `SubmittedOnceWithoutCrash` (apart, no restart) | `KeyedSendSubmitsOnce` |
| `AmountsTypeCorrect` | `TypeOK` of `Amounts` |
| `CreateComplies` | `CreatedIsCompliant` |
| `LinesAddUp` | `DeclaredLinesAddUp` |
| `GroupsAddUp` | `BreakdownAddsUp` |
| `GroupTaxIsNear` | `GroupTaxNearRate` |
| `TenantsTypeCorrect` | `TypeOK` of `Tenants` |
| `StartUpCompletes` | `ServingIsSeeded` |
| `SecondStartUpWorks` | `RaceIsLostOnce` |
| `OneKey` | `OneKeyPerTenant` |
| `IssuedKeysStay` | `IssuedKeysAreStored` |
| `ConnectionsTypeCorrect` | `TypeOK` of `Connections` |
| `NoConnectionLeaks` | `ConnectionsAreOwned` |
| `SpanishTypeCorrect` | `TypeOK` of `SpanishRecords` |
| `LinksStayComplete` | `LinksAreComplete` |
| `TrailAlwaysTells` | `TrailTellsTheHash` |
| `TillsKeepOneChain` | `ChainIsLinear` |
| `ChainImplemented` | `ImplementsChain` |
| `PredecessorsAlwaysCameFirst` | `PredecessorsCameFirst` |
| `ReferencesAreOfDocuments` | `ReferenceIsOfDocument` |
| `ReadyIsAlwaysChecked` | `ReadyMeansChecked` |
| `SlipsNoticed` | `SlipsAreNoticed` |
| `SwapsNoticed` | `SwapsAreNoticed` |

*Types.* `TypeOK` is not inductive: that a committing thread has an invoice, or
an inserting one a payload, depends on where it stands. `TypeInv` adds `JobsOK`. The type
invariants of the other modules are proved too, so only `serial` also checks one.

*Rows.* `EvidenceKept` is not inductive either. `SafetyInv` adds what the columns
of one row say of one another (`RowsOK`) and what of a stale snapshot is still
true of the stored row (`SnapsOK`): it exists, its validation result has not
changed, and it is redacted if the snapshot is - not the converse. The lemma
`Writers` says that only three actions write rows; `Kept` says what all of them
leave. An archive that erases a payload took its evidence either of the original
or of a row that was redacted, hence attested, before.

*Keys.* `KeyInv` adds that keyed rows have a hash and that every answer given or
in flight agrees with the row that holds its key. That needs the key, tenant and
hash of a row never to change, which is `Kept` again.

*Scope.* Access, region and role are checked once and acted on later. `ScopeInv` says
of every thread past a check what the check still guarantees (`JobScoped`): the row is
its caller's, the snapshot has the tenant of the row, tenant and region were admitted,
the process may write. It lasts because no handler changes the tenant or the region of
a row (`ScopeColumns`), and because a role changes only when the process, and with it
the thread's job, ends: `Restart` with `RestartKeepsHandlers` in its place would not do.
`StandbyNeverWrites` then follows action by action, from what each adds to a trail.

*Trail.* An action that inserts a submission appends its events in the same commit, and
no other action appends such events. `TrailMatchesSubmissions` is therefore a matter of
counting: of the places of a type of event in a trail (`Places`) and of the submissions
with a delivery (`Sent`), each of which a send makes larger by one or leaves alone.
`TrailInv` adds that an invoice that does not exist has no events (`SilentBefore`), and
that a thread in an official validation works on a document that is stored or attested
(`OfficialJobsTraceable`); the stored document goes only with the archive whose event hashes it.

*Ledger.* `LedgerImplemented` takes one step at a time: `TransformInsert` registers an
invoice and its key, `SendCommit` records a submission, `ArchiveCommit` attests and
erases, and every other step leaves what the ledger sees as it was. A key is free when a row is inserted under it because the commit checks
the unique index; an erased content was attested before because of `SafetyInv`.

*Handlers apart.* Five properties are wrong when handlers overlap, and proved for behaviours in
which they do not. `HandlersApart` says that no two threads are between reading the row of
one invoice, to submit or archive it, and the end of their handler. Everything else may
overlap: reads, transforms, handlers of different invoices, official validations,
crashes. `SerialInv` says of each thread with an invoice in hand that its snapshot is the stored row and that its check
of the latest submission still holds (`FreshSnaps`); so a commit finds what was decided on,
all submissions but the latest were rejected (`AllSettled`), and retries are counted
(`AllAnnounced`). `KeysApart` says that no two sends under one key are between the lookup of the
key and the end; with it, `ToldInv` adds that a send on its way has not met its key
(`SendsMean`) and that what clients were told stays true (`SendsTold`): the submission is stored under
the key, or another one delivers the invoice and none under the key will follow. One thread is
apart from itself (`OneThreadSuffices`), which is the instance `serial`. The hypotheses say where a lock would
be needed: on the row from `SendLoad`, on the key from `SendProceed`.

*Provider calls.* `keyed_send_twice` shows that the provider can get one keyed send twice; how
often is a theorem, for behaviours that satisfy `KeysApart`. `CallsOK`: the calls of an invoice under a key
are no more than the crashes so far, or one more, and then the key is spent: a submission is stored under it,
or a thread that has called the provider for it is about to commit. A spent key stays spent unless a process
dies, because that thread finds the key free (`SendsMean`), and no thread calls under a spent key
(`CallsUnspent`). A crash loses at most one call, so each costs at most one more; without a restart
the documented property holds (`SubmittedOnceWithoutCrash`). A commit that the database
refuses for any other reason than the key is not modelled; it loses a call as a crash does.

*Amounts.* The induction over the lines is by sets: a property of a number is the set of
the numbers that have it, and the least number outside it leads to a contradiction
(`Induction`). From it follow that the recursive functions exist and keep the type of their
values (`LoopExists`, `LoopKeeps`), what one more line adds to a sum (`SumAppend`) or to one
group (`SumExcept`), and that a sum of rounded amounts is as near to the sum of the amounts as half
a cent a line (`SumsNear`). Compliance of `/create`, the sums of the lines, the sums of the
groups and the distance of a group's tax from its rate follow for any number of lines.

*Start-ups.* `SeedInv`: the table of profiles is as it was before or complete; a
start-up has found, or will insert, each profile of the prefix it has looked up,
and inserts none that was there before. So every commit completes the table, only
a complete table refuses one, and a start-up after that inserts nothing.
*Registrations.* `KeyInv` adds that a reply on its way carries a stored key.

*Connections.* That a connection out belongs to a request being served is inductive
once a request has at most one: `NeedsConnection` is false of one that has.

*Spanish records.* The registers only grow, so a hash keeps the input it stands for;
what is said of a stored row is said of the record in a worker's hands as well, and a
pending attempt of a till has the number after its last answered record, whose hashes
it carries, or is of a number that is stored already and will conflict. That, and that
a till's rows are keyed and their numbers unique, gives the chain. A new hash is larger
than every hash known when its input was made, which gives the order of predecessors.

*The chain.* `ChainImplemented` takes one step at a time again. `Store` issues the next
link of its till; a request that is hashed adds to the hash function; every other step -
signing, conflicts, lost answers, redaction, a deployment - changes neither. That a stored
record is the next link, and not any link, is `ChainsOK`: the numbers of a till's rows are
1, 2, ..., k, so that a row which is not there yet is number k + 1 (`StoreIsNext`), and its
predecessor's hashes are those of number k. `HashedIsLonger` gives each hash one input for
good. Redaction would move the chain if it were read from the documents; `Archive` with
`ArchiveWithTrail` in its place does, and fails.

*Identifiers.* The state has no digits, only what the two loops keep, and the invariant
says that after a slip they keep different things (`Apart`), unless the method allows the
slip. It is inductive since, at every place, the next digit takes different states to
different states (`SameDigit`), different digits take one state to different states
(`OtherDigit`), and so do two digits in either order (`OtherOrder`); at the end different
states pass with different control characters (`ControlTells`), and the last digit and the
control in either order do not both pass (`LastOrder`). Each rests on arithmetic modulo
11, 23 or 10 about one loop, where the exceptions of the properties come from.

*Only model-checked.* Liveness (`ThreadsAreReleased`, `RetriesConverge`,
`DeactivationTakesHold`, `EveryRequestEnds`) is out of the prover's reach, which has no rule
for fairness or ENABLED. Every invariant and action property of the passing runs has a theorem.

## 5. Not modelled

XML layout, response fields, logging, health and topology reports, the no-op rate
limiter, migrations, scripts and the site: no state that another request reads.
Presence checks of headers, parties and metadata in the validators are one Boolean,
`compliant`. `Base.metadata.create_all` is the database's. Keys have an `active` flag
and a `revoked_at` that no code writes. What a signature is, the QR payload
and the declaration of a Spanish record are text. The date of `/create` is not modelled:
it is in the number and the hash of the request, so that a retry on another day
is another request.

The model of `Tenants` also reaches a tenant whose key nobody knows: the process
dies after the commit and before the answer, a second registration answers 409,
and no route issues another key. No statement of the repository is contradicted,
so no run expects it.

## 6. Plan

1. *Done*: data, service, properties, ledger, refinement, amounts, tenants and
   start-up; connections; Spanish records, their chain and readiness; identifiers; theorems
   for every safety property of the passing runs.
2. `/create` across midnight with a key; document hashes and event ids in answers.
3. Proofs: what `FairSpec` needs besides fairness to release threads, as safety (some action
   is enabled for every thread with a request).
