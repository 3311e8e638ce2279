------------------------------- MODULE Tenants -------------------------------
(***************************************************************************)
(* Start-up of the API processes that share a database, the registration   *)
(* of tenants and the API keys that open them: app/main.py (lifespan,      *)
(* _seed_country_profiles), app/services/tenants.py, app/core/security.py. *)
(*                                                                         *)
(* Both the seeding and the registration look up before they insert and    *)
(* take no lock: only the primary keys decide between two of them.  Steps  *)
(* are cut where another transaction can commit in between.                *)
(*                                                                         *)
(* A definition marked "Fault:" is what the one after it would be with a   *)
(* plausible bug; nothing uses it.                                         *)
(***************************************************************************)
EXTENDS Naturals, FiniteSets

CONSTANTS
  Processes,     (* the API processes on the database                       *)
  Workers,       (* the threads that serve requests                         *)
  ProcessOf,     (* the process each thread belongs to                      *)
  TenantIds,     (* the tenant ids that requests mention                    *)
  NoTenant,      (* the tenant of an idle thread                            *)
  ProfileCount,  (* the length of COUNTRY_PROFILES                          *)
  SeededBefore,  (* the profiles that an earlier release left in the table  *)
  AutoCreate,    (* AUTO_CREATE_TABLES                                      *)
  MaxKeys,       (* bound: keys generated                                   *)
  MaxCrashes     (* bound: crashes of processes                             *)

(* COUNTRY_PROFILES, by position in the dictionary. *)
Profiles == 1..ProfileCount

ASSUME TenantsAssumption ==
  /\ ProcessOf \in [Workers -> Processes]
  /\ NoTenant \notin TenantIds
  /\ ProfileCount \in Nat
  /\ SeededBefore \subseteq Profiles
  /\ AutoCreate \in BOOLEAN
  /\ MaxKeys \in Nat /\ MaxCrashes \in Nat

VARIABLES
  process,    (* what each process is doing                                 *)
  checked,    (* how many profiles its start-up has looked up               *)
  missing,    (* those it did not find and will insert                      *)
  profiles,   (* table country_profiles                                     *)
  tenants,    (* table tenants: the row of each id, reduced to its state    *)
  apiKeys,    (* table tenant_api_keys                                      *)
  job,        (* what each thread is doing                                  *)
  minted,     (* history: keys generated so far                             *)
  issued,     (* history: the keys that clients were given, and for what    *)
  lost,       (* history: start-ups of each process that the insert refused *)
  crashes     (* history: crashes so far                                    *)

start == <<process, checked, missing, profiles, lost>>
vars  == <<process, checked, missing, profiles, tenants, apiKeys, job, minted,
           issued, lost, crashes>>

ApiKeys == 1..MaxKeys   \* only their hashes are stored; equal iff the keys are

KeyRow == [key : ApiKeys, tenant : TenantIds]

(* A thread registers a tenant under a new key, or serves a tenant.        *)
Idle == [at |-> "idle", tenant |-> NoTenant, key |-> 0]

Job == [at : {"insert", "reply"}, tenant : TenantIds, key : ApiKeys]
         \cup [at : {"serve"}, tenant : TenantIds, key : {0}]

TypeOK ==
  /\ process \in [Processes -> {"down", "seeding", "up"}]
  /\ checked \in [Processes -> 0..ProfileCount]
  /\ missing \in [Processes -> SUBSET Profiles]
  /\ profiles \subseteq Profiles
  /\ tenants \in [TenantIds -> {"absent", "active", "inactive"}]
  /\ apiKeys \subseteq KeyRow
  /\ job \in [Workers -> Job \cup {Idle}]
  /\ minted \in 0..MaxKeys
  /\ issued \subseteq KeyRow
  /\ lost \in [Processes -> Nat]
  /\ crashes \in 0..MaxCrashes

Init ==
  /\ process = [p \in Processes |-> "down"]
  /\ checked = [p \in Processes |-> 0]
  /\ missing = [p \in Processes |-> {}]
  /\ profiles = SeededBefore
  /\ tenants = [t \in TenantIds |-> "absent"]
  /\ apiKeys = {}
  /\ job = [w \in Workers |-> Idle]
  /\ minted = 0
  /\ issued = {}
  /\ lost = [p \in Processes |-> 0]
  /\ crashes = 0

-----------------------------------------------------------------------------
(* Start-up (lifespan).  The tables themselves are there.                  *)
Start(p) ==
  /\ process[p] = "down"
  /\ process' = [process EXCEPT ![p] = IF AutoCreate THEN "seeding" ELSE "up"]
  /\ checked' = [checked EXCEPT ![p] = 0]
  /\ missing' = [missing EXCEPT ![p] = {}]
  /\ UNCHANGED <<profiles, tenants, apiKeys, job, minted, issued, lost,
                 crashes>>

(* Fault: the seeding is taken for done at the first profile it finds. *)
SeedCheckUntilFound(p) ==
  LET c == checked[p] + 1 IN
  /\ process[p] = "seeding"
  /\ checked[p] < ProfileCount
  /\ checked' = [checked EXCEPT ![p] = IF c \in profiles THEN ProfileCount
                                                         ELSE c]
  /\ missing' = [missing EXCEPT ![p] = IF c \in profiles THEN @
                                                         ELSE @ \cup {c}]
  /\ UNCHANGED <<process, profiles, tenants, apiKeys, job, minted, issued,
                 lost, crashes>>

(* The next profile is looked up; it is added to the session if absent.    *)
SeedCheck(p) ==
  LET c == checked[p] + 1 IN
  /\ process[p] = "seeding"
  /\ checked[p] < ProfileCount
  /\ checked' = [checked EXCEPT ![p] = c]
  /\ missing' = [missing EXCEPT ![p] = IF c \in profiles THEN @
                                                         ELSE @ \cup {c}]
  /\ UNCHANGED <<process, profiles, tenants, apiKeys, job, minted, issued,
                 lost, crashes>>

(* Fault: each profile is committed on its own; a crash loses the rest.    *)
SeedCommitOne(p) ==
  /\ process[p] = "seeding"
  /\ checked[p] = ProfileCount
  /\ missing[p] \cap profiles = {}
  /\ IF missing[p] = {}
     THEN process' = [process EXCEPT ![p] = "up"] /\ UNCHANGED <<missing, profiles>>
     ELSE \E c \in missing[p] :
            /\ profiles' = profiles \cup {c}
            /\ missing' = [missing EXCEPT ![p] = @ \ {c}]
            /\ UNCHANGED process
  /\ UNCHANGED <<checked, tenants, apiKeys, job, minted, issued, lost, crashes>>

(* One commit inserts all that were missing.                               *)
SeedCommit(p) ==
  /\ process[p] = "seeding"
  /\ checked[p] = ProfileCount
  /\ missing[p] \cap profiles = {}
  /\ profiles' = profiles \cup missing[p]
  /\ process' = [process EXCEPT ![p] = "up"]
  /\ UNCHANGED <<checked, missing, tenants, apiKeys, job, minted, issued, lost,
                 crashes>>

(* Another process inserted one of them first: the primary key refuses the *)
(* commit, the exception leaves lifespan and the process ends.             *)
SeedConflict(p) ==
  /\ process[p] = "seeding"
  /\ checked[p] = ProfileCount
  /\ missing[p] \cap profiles # {}
  /\ process' = [process EXCEPT ![p] = "down"]
  /\ lost' = [lost EXCEPT ![p] = @ + 1]
  /\ UNCHANGED <<checked, missing, profiles, tenants, apiKeys, job, minted,
                 issued, crashes>>

(* A process dies: what its threads had not committed is rolled back, and  *)
(* no answer leaves it.                                                    *)
Crash(p) ==
  /\ process[p] # "down"
  /\ crashes < MaxCrashes
  /\ crashes' = crashes + 1
  /\ process' = [process EXCEPT ![p] = "down"]
  /\ job' = [w \in Workers |-> IF ProcessOf[w] = p THEN Idle ELSE job[w]]
  /\ UNCHANGED <<checked, missing, profiles, tenants, apiKeys, minted, issued,
                 lost>>

-----------------------------------------------------------------------------
(* Registration (TenantService.create), by the admin.  Looking the id up   *)
(* decides; the key is generated next.  A 409 changes nothing.             *)
Free(w) == job[w] = Idle /\ process[ProcessOf[w]] = "up"

Register(w, t) ==
  /\ Free(w)
  /\ tenants[t] = "absent"
  /\ minted < MaxKeys
  /\ minted' = minted + 1
  /\ job' = [job EXCEPT ![w] = [at |-> "insert", tenant |-> t,
                                key |-> minted + 1]]
  /\ UNCHANGED <<start, tenants, apiKeys, issued, crashes>>

(* Fault: the row is merged instead of inserted, and its orphaned key goes. *)
InsertMerged(w) ==
  LET j == job[w] IN
  /\ j.at = "insert"
  /\ tenants' = [tenants EXCEPT ![j.tenant] = "active"]
  /\ apiKeys' = {r \in apiKeys : r.tenant # j.tenant}
                  \cup {[key |-> j.key, tenant |-> j.tenant]}
  /\ job' = [job EXCEPT ![w].at = "reply"]
  /\ UNCHANGED <<start, minted, issued, crashes>>

(* Fault: a tenant that exists meanwhile gets the new key as well.         *)
InsertAnotherKey(w) ==
  LET j == job[w] IN
  /\ j.at = "insert"
  /\ tenants' = [tenants EXCEPT ![j.tenant] = "active"]
  /\ apiKeys' = apiKeys \cup {[key |-> j.key, tenant |-> j.tenant]}
  /\ job' = [job EXCEPT ![w].at = "reply"]
  /\ UNCHANGED <<start, minted, issued, crashes>>

(* Tenant and key are committed together.                                  *)
Insert(w) ==
  LET j == job[w] IN
  /\ j.at = "insert"
  /\ tenants[j.tenant] = "absent"
  /\ tenants' = [tenants EXCEPT ![j.tenant] = "active"]
  /\ apiKeys' = apiKeys \cup {[key |-> j.key, tenant |-> j.tenant]}
  /\ job' = [job EXCEPT ![w].at = "reply"]
  /\ UNCHANGED <<start, minted, issued, crashes>>

(* Another request registered the id meanwhile: the answer is a 500.       *)
InsertConflict(w) ==
  /\ job[w].at = "insert"
  /\ tenants[job[w].tenant] # "absent"
  /\ job' = [job EXCEPT ![w] = Idle]
  /\ UNCHANGED <<start, tenants, apiKeys, minted, issued, crashes>>

(* The 201 that carries the key, the only time that it is told.            *)
Reply(w) ==
  /\ job[w].at = "reply"
  /\ issued' = issued \cup {[key |-> job[w].key, tenant |-> job[w].tenant]}
  /\ job' = [job EXCEPT ![w] = Idle]
  /\ UNCHANGED <<start, tenants, apiKeys, minted, crashes>>

-----------------------------------------------------------------------------
(* Requests with a tenant's key.                                           *)

(* Fault: the tenant's own active flag is not looked at.                   *)
OpensInactive(r) == r \in apiKeys

(* _auth_context_for_key: a stored key opens its tenant while it is active. *)
Opens(r) == r \in apiKeys /\ tenants[r.tenant] = "active"

(* require_api_key: the context tells who calls for the rest of the        *)
(* request.  A 401 changes nothing.                                        *)
Authenticate(w, r) ==
  /\ Free(w)
  /\ Opens(r)
  /\ job' = [job EXCEPT ![w] = [at |-> "serve", tenant |-> r.tenant, key |-> 0]]
  /\ UNCHANGED <<start, tenants, apiKeys, minted, issued, crashes>>

(* The tenant's request is answered.  Its effects are InvoiceService's; a   *)
(* handler that loads the tenant refuses one that was deactivated since,   *)
(* the reads of invoices do not look again.                                *)
Serve(w) ==
  /\ job[w].at = "serve"
  /\ job' = [job EXCEPT ![w] = Idle]
  /\ UNCHANGED <<start, tenants, apiKeys, minted, issued, crashes>>

(* An operator clears tenants.active in the database: no route does.       *)
Deactivate(t) ==
  /\ tenants[t] = "active"
  /\ tenants' = [tenants EXCEPT ![t] = "inactive"]
  /\ UNCHANGED <<start, apiKeys, job, minted, issued, crashes>>

-----------------------------------------------------------------------------
StartUp(p) == SeedCheck(p) \/ SeedCommit(p) \/ SeedConflict(p)

Handle(w) == Insert(w) \/ InsertConflict(w) \/ Reply(w) \/ Serve(w)

Next ==
  \/ \E p \in Processes : Start(p) \/ StartUp(p) \/ Crash(p)
  \/ \E w \in Workers, t \in TenantIds : Register(w, t)
  \/ \E w \in Workers, r \in issued : Authenticate(w, r)
  \/ \E w \in Workers : Handle(w)
  \/ \E t \in TenantIds : Deactivate(t)

(* A thread that has begun a request goes on with it, and so does a        *)
(* start-up.  Nobody has to start a process or send a request.             *)
Fairness ==
  /\ \A p \in Processes : WF_vars(StartUp(p))
  /\ \A w \in Workers : WF_vars(Handle(w))

Spec == Init /\ [][Next]_vars /\ Fairness

-----------------------------------------------------------------------------
(* Every key that a client was given still opens the tenant it was given   *)
(* for, whatever registrations of the same id ran beside it                *)
(* (tenants.py:43-65): its row was never replaced.                         *)
IssuedKeysAreStored ==
  \A r \in issued : r \in apiKeys /\ tenants[r.tenant] # "absent"

(* A registered tenant has exactly one key, and an unregistered one none:  *)
(* requests that race for an id (tenants.py:31-63) leave one winner.       *)
OneKeyPerTenant ==
  /\ \A r, s \in apiKeys : r.tenant = s.tenant => r = s
  /\ \A t \in TenantIds :
       tenants[t] # "absent" <=> \E r \in apiKeys : r.tenant = t

(* A process that serves requests after an automatic start-up finds every  *)
(* profile in the table, also when several start at once or an earlier     *)
(* release had seeded some of them (main.py:103-126).                      *)
ServingIsSeeded ==
  AutoCreate => \A p \in Processes : process[p] = "up" => profiles = Profiles

(* The race of start-ups (main.py:105-126) ends a process at most once:    *)
(* because a commit inserts all that was missing, starting it again works. *)
RaceIsLostOnce == \A p \in Processes : lost[p] <= 1

(* Once a tenant is deactivated its keys stop working for good: what was   *)
(* authenticated before is finished, and nothing is served after           *)
(* (security.py:55-75).                                                     *)
DeactivationTakesHold ==
  \A t \in TenantIds :
    [](tenants[t] = "inactive" =>
         <>[](\A w \in Workers : job[w].at = "serve" => job[w].tenant # t))
=============================================================================
