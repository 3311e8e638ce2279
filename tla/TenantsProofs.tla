---------------------------- MODULE TenantsProofs ----------------------------
(***************************************************************************)
(* Theorems about Tenants, for any processes, threads, tenants, profiles   *)
(* and bounds: start-ups that race, and registrations that race.           *)
(***************************************************************************)
EXTENDS Tenants, TLAPS

(* A step is one of these actions, or leaves everything as it is. *)
LEMMA TenantsNextCases ==
  ASSUME [Next]_vars, NEW Goal,
         \A p \in Processes : Start(p) => Goal,
         \A p \in Processes : SeedCheck(p) => Goal,
         \A p \in Processes : SeedCommit(p) => Goal,
         \A p \in Processes : SeedConflict(p) => Goal,
         \A p \in Processes : Crash(p) => Goal,
         \A w \in Workers, t \in TenantIds : Register(w, t) => Goal,
         \A w \in Workers : Insert(w) => Goal,
         \A w \in Workers : InsertConflict(w) => Goal,
         \A w \in Workers : Reply(w) => Goal,
         \A w \in Workers, r \in issued : Authenticate(w, r) => Goal,
         \A w \in Workers : Serve(w) => Goal,
         \A t \in TenantIds : Deactivate(t) => Goal,
         UNCHANGED vars => Goal
  PROVE  Goal
  BY DEF Next, StartUp, Handle

-----------------------------------------------------------------------------
(* A thread's job is about a tenant, and at "insert" or "reply" also about *)
(* a generated key.                                                        *)
LEMMA JobFields ==
  ASSUME TypeOK, NEW w \in Workers
  PROVE  /\ job[w] \in Job \cup {Idle}
         /\ job[w].at \in {"insert", "reply"} =>
              /\ job[w] \in [at : {"insert", "reply"}, tenant : TenantIds,
                             key : ApiKeys]
              /\ [key |-> job[w].key, tenant |-> job[w].tenant] \in KeyRow
  BY DEF TypeOK, Job, Idle, KeyRow

(* The lookup and the seeding commit keep the types: what is missing is a  *)
(* set of profiles.                                                        *)
LEMMA SeedTypes ==
  ASSUME TypeOK, NEW p \in Processes,
         SeedCheck(p) \/ SeedCommit(p) \/ SeedConflict(p)
  PROVE  TypeOK'
<1>0. ProfileCount \in Nat /\ checked[p] \in 0..ProfileCount
      /\ missing[p] \subseteq Profiles
  BY TenantsAssumption DEF TypeOK
<1>1. CASE SeedCheck(p)
  <2>1. checked[p] + 1 \in Profiles
    BY <1>0, <1>1 DEF SeedCheck, Profiles
  <2>2. checked' \in [Processes -> 0..ProfileCount]
    BY <1>0, <1>1, <2>1 DEF SeedCheck, Profiles, TypeOK
  <2>3. missing' \in [Processes -> SUBSET Profiles]
    BY <1>0, <1>1, <2>1 DEF SeedCheck, TypeOK
  <2> QED BY <1>1, <2>2, <2>3 DEF SeedCheck, TypeOK
<1>2. CASE SeedCommit(p)
  BY <1>0, <1>2 DEF SeedCommit, TypeOK
<1>3. CASE SeedConflict(p)
  BY <1>3 DEF SeedConflict, TypeOK
<1> QED BY <1>1, <1>2, <1>3

(* A handler keeps the types: it inserts and hands out key rows.           *)
LEMMA HandlerTypes ==
  ASSUME TypeOK, NEW w \in Workers,
         \/ \E t \in TenantIds : Register(w, t)
         \/ Insert(w) \/ InsertConflict(w) \/ Reply(w) \/ Serve(w)
         \/ \E r \in issued : Authenticate(w, r)
  PROVE  TypeOK'
<1>0. Idle \in Job \cup {Idle}
  OBVIOUS
<1>1. CASE \E t \in TenantIds : Register(w, t)
  <2>1. PICK t \in TenantIds : Register(w, t)
    BY <1>1
  <2>2. minted + 1 \in ApiKeys /\ minted' \in 0..MaxKeys
    BY <2>1, TenantsAssumption DEF Register, TypeOK, ApiKeys
  <2>3. [at |-> "insert", tenant |-> t, key |-> minted + 1] \in Job
    BY <2>2 DEF Job
  <2> QED BY <2>1, <2>2, <2>3 DEF Register, start, TypeOK
<1>2. CASE Insert(w)
  <2>1. /\ job[w] \in [at : {"insert", "reply"}, tenant : TenantIds,
                       key : ApiKeys]
        /\ [key |-> job[w].key, tenant |-> job[w].tenant] \in KeyRow
    BY <1>2, JobFields DEF Insert
  <2>2. [job[w] EXCEPT !.at = "reply"] \in Job
    BY <2>1 DEF Job
  <2> QED BY <1>2, <2>1, <2>2 DEF Insert, start, TypeOK
<1>3. CASE InsertConflict(w)
  BY <1>0, <1>3 DEF InsertConflict, start, TypeOK
<1>4. CASE Reply(w)
  <2>1. [key |-> job[w].key, tenant |-> job[w].tenant] \in KeyRow
    BY <1>4, JobFields DEF Reply
  <2> QED BY <1>0, <1>4, <2>1 DEF Reply, start, TypeOK
<1>5. CASE Serve(w)
  BY <1>0, <1>5 DEF Serve, start, TypeOK
<1>6. CASE \E r \in issued : Authenticate(w, r)
  <2>1. PICK r \in issued : Authenticate(w, r)
    BY <1>6
  <2>2. r.tenant \in TenantIds
    BY DEF TypeOK, KeyRow
  <2>3. [at |-> "serve", tenant |-> r.tenant, key |-> 0] \in Job
    BY <2>2 DEF Job
  <2> QED BY <2>1, <2>3 DEF Authenticate, start, TypeOK
<1> QED BY <1>1, <1>2, <1>3, <1>4, <1>5, <1>6

(* The tables, the start-ups and the threads keep their types. *)
THEOREM TenantsTypeCorrect == Spec => []TypeOK
<1>1. Init => TypeOK
  <2> SUFFICES ASSUME Init PROVE TypeOK
    OBVIOUS
  <2>1. /\ 0 \in 0..ProfileCount /\ 0 \in 0..MaxKeys /\ 0 \in 0..MaxCrashes
        /\ SeededBefore \subseteq Profiles
    BY TenantsAssumption
  <2> QED BY <2>1 DEF Init, TypeOK
<1>2. TypeOK /\ [Next]_vars => TypeOK'
  <2> SUFFICES ASSUME TypeOK, [Next]_vars PROVE TypeOK'
    OBVIOUS
  <2>1. ASSUME NEW p \in Processes, Start(p) PROVE TypeOK'
    BY <2>1, TenantsAssumption DEF Start, TypeOK
  <2>2. ASSUME NEW p \in Processes, SeedCheck(p) PROVE TypeOK'
    BY <2>2, SeedTypes
  <2>3. ASSUME NEW p \in Processes, SeedCommit(p) PROVE TypeOK'
    BY <2>3, SeedTypes
  <2>4. ASSUME NEW p \in Processes, SeedConflict(p) PROVE TypeOK'
    BY <2>4, SeedTypes
  <2>5. ASSUME NEW p \in Processes, Crash(p) PROVE TypeOK'
    BY <2>5, TenantsAssumption DEF Crash, TypeOK
  <2>6. ASSUME NEW w \in Workers, NEW t \in TenantIds, Register(w, t)
        PROVE  TypeOK'
    BY <2>6, HandlerTypes
  <2>7. ASSUME NEW w \in Workers, Insert(w) PROVE TypeOK'
    BY <2>7, HandlerTypes
  <2>8. ASSUME NEW w \in Workers, InsertConflict(w) PROVE TypeOK'
    BY <2>8, HandlerTypes
  <2>9. ASSUME NEW w \in Workers, Reply(w) PROVE TypeOK'
    BY <2>9, HandlerTypes
  <2>10. ASSUME NEW w \in Workers, NEW r \in issued, Authenticate(w, r)
         PROVE  TypeOK'
    BY <2>10, HandlerTypes
  <2>11. ASSUME NEW w \in Workers, Serve(w) PROVE TypeOK'
    BY <2>11, HandlerTypes
  <2>12. ASSUME NEW t \in TenantIds, Deactivate(t) PROVE TypeOK'
    BY <2>12 DEF Deactivate, start, TypeOK
  <2>13. ASSUME UNCHANGED vars PROVE TypeOK'
    BY <2>13 DEF vars, TypeOK
  <2> QED
    BY <2>1, <2>2, <2>3, <2>4, <2>5, <2>6, <2>7, <2>8, <2>9, <2>10, <2>11,
       <2>12, <2>13, TenantsNextCases
<1> QED BY <1>1, <1>2, PTL DEF Spec

-----------------------------------------------------------------------------
(* Start-ups that race.  The table holds what it held before or everything: *)
(* a start-up has looked up a prefix of the profiles, found each or will   *)
(* insert it, and inserts nothing that was there from the beginning.  So a *)
(* commit completes the table, and only a completed table refuses one.     *)
StartUpOK(p) ==
  /\ missing[p] \cap SeededBefore = {}
  /\ process[p] = "seeding" => 1..checked[p] \subseteq missing[p] \cup profiles
  /\ AutoCreate /\ process[p] = "up" => profiles = Profiles
  /\ lost[p] # 0 => /\ lost[p] = 1
                    /\ profiles = Profiles
                    /\ process[p] = "seeding" => missing[p] = {}

SeedInv ==
  /\ profiles \in {SeededBefore, Profiles}
  /\ \A p \in Processes : StartUpOK(p)

StartUps == <<process, checked, missing, profiles, lost>>

(* What leaves the start-ups alone keeps their invariant. *)
LEMMA SeedStutter ==
  ASSUME SeedInv, UNCHANGED StartUps
  PROVE  SeedInv'
  BY DEF SeedInv, StartUpOK, StartUps

(* A lookup moves the prefix on by one; in a complete table it finds the    *)
(* profile.                                                                *)
LEMMA SeedCheckKeeps ==
  ASSUME TypeOK, SeedInv, NEW p \in Processes, SeedCheck(p)
  PROVE  SeedInv'
<1> DEFINE c == checked[p] + 1
<1>1. /\ c \in Profiles /\ checked[p] \in Nat
      /\ 1..c = (1..checked[p]) \cup {c}
  BY TenantsAssumption DEF SeedCheck, TypeOK, Profiles
<1>2. c \in SeededBefore => c \in profiles
  BY TenantsAssumption, <1>1 DEF SeedInv
<1>3. /\ checked'[p] = c
      /\ missing'[p] = IF c \in profiles THEN missing[p]
                                         ELSE missing[p] \cup {c}
      /\ \A q \in Processes \ {p} : /\ checked'[q] = checked[q]
                                    /\ missing'[q] = missing[q]
      /\ UNCHANGED <<process, profiles, lost>>
  BY DEF SeedCheck, TypeOK
<1>4. ASSUME NEW q \in Processes PROVE StartUpOK(q)'
  <2>1. StartUpOK(q)
    BY DEF SeedInv
  <2>2. CASE q # p
    BY <1>3, <2>1, <2>2 DEF StartUpOK
  <2>3. CASE q = p
    <3>1. (missing[p] \cap SeededBefore)' = {}
      BY <1>2, <1>3, <2>1, <2>3 DEF StartUpOK
    <3>2. (1..checked[p] \subseteq missing[p] \cup profiles)'
      BY <1>1, <1>3, <2>1, <2>3 DEF StartUpOK, SeedCheck
    <3>3. lost[p] # 0 => missing'[p] = missing[p]
      BY <1>1, <1>3, <2>1, <2>3 DEF StartUpOK
    <3> QED BY <1>3, <2>1, <2>3, <3>1, <3>2, <3>3 DEF StartUpOK
  <2> QED BY <2>2, <2>3
<1> QED BY <1>3, <1>4 DEF SeedInv

(* A commit leaves the table complete, and the process up.                 *)
LEMMA SeedCommitKeeps ==
  ASSUME TypeOK, SeedInv, NEW p \in Processes, SeedCommit(p)
  PROVE  SeedInv'
<1>1. Profiles \subseteq missing[p] \cup profiles
  BY DEF SeedCommit, SeedInv, StartUpOK, Profiles
<1>2. profiles' = Profiles
  BY <1>1 DEF SeedCommit, TypeOK
<1>3. /\ process'[p] = "up"
      /\ \A q \in Processes \ {p} : process'[q] = process[q]
      /\ UNCHANGED <<checked, missing, lost>>
  BY DEF SeedCommit, TypeOK
<1>4. ASSUME NEW q \in Processes PROVE StartUpOK(q)'
  <2>1. StartUpOK(q) /\ profiles \subseteq Profiles
    BY DEF SeedInv, TypeOK
  <2> QED BY <1>2, <1>3, <2>1 DEF StartUpOK
<1> QED BY <1>2, <1>4 DEF SeedInv

(* A refused commit met a complete table, and for the first time.          *)
LEMMA SeedConflictKeeps ==
  ASSUME TypeOK, SeedInv, NEW p \in Processes, SeedConflict(p)
  PROVE  SeedInv'
<1>1. profiles = Profiles
  BY DEF SeedConflict, SeedInv, StartUpOK
<1>2. lost[p] = 0
  BY DEF SeedConflict, SeedInv, StartUpOK
<1>3. /\ process'[p] = "down" /\ lost'[p] = 1
      /\ \A q \in Processes \ {p} : /\ process'[q] = process[q]
                                    /\ lost'[q] = lost[q]
      /\ UNCHANGED <<checked, missing, profiles>>
  BY <1>2 DEF SeedConflict, TypeOK
<1>4. ASSUME NEW q \in Processes PROVE StartUpOK(q)'
  <2>1. StartUpOK(q)
    BY DEF SeedInv
  <2> QED BY <1>1, <1>3, <2>1 DEF StartUpOK
<1> QED BY <1>1, <1>3, <1>4 DEF SeedInv

(* A start looks up nothing yet, a crash ends one process.                 *)
LEMMA StartAndCrashKeep ==
  ASSUME TypeOK, SeedInv, NEW p \in Processes, Start(p) \/ Crash(p)
  PROVE  SeedInv'
<1>1. CASE Start(p)
  <2>1. /\ process'[p] = IF AutoCreate THEN "seeding" ELSE "up"
        /\ checked'[p] = 0 /\ missing'[p] = {}
        /\ \A q \in Processes \ {p} : /\ process'[q] = process[q]
                                      /\ checked'[q] = checked[q]
                                      /\ missing'[q] = missing[q]
        /\ UNCHANGED <<profiles, lost>>
    BY <1>1 DEF Start, TypeOK
  <2>2. 1..0 = {}
    OBVIOUS
  <2>3. ASSUME NEW q \in Processes PROVE StartUpOK(q)'
    <3>1. StartUpOK(q)
      BY DEF SeedInv
    <3>2. CASE q = p
      BY <2>1, <2>2, <3>1, <3>2 DEF StartUpOK
    <3>3. CASE q # p
      BY <2>1, <3>1, <3>3 DEF StartUpOK
    <3> QED BY <3>2, <3>3
  <2> QED BY <2>1, <2>3 DEF SeedInv
<1>2. CASE Crash(p)
  <2>1. /\ process'[p] = "down"
        /\ \A q \in Processes \ {p} : process'[q] = process[q]
        /\ UNCHANGED <<checked, missing, profiles, lost>>
    BY <1>2 DEF Crash, TypeOK
  <2>2. ASSUME NEW q \in Processes PROVE StartUpOK(q)'
    <3>1. StartUpOK(q)
      BY DEF SeedInv
    <3> QED BY <2>1, <3>1 DEF StartUpOK
  <2> QED BY <2>1, <2>2 DEF SeedInv
<1> QED BY <1>1, <1>2

(* The invariant of the start-ups holds in every behaviour. *)
LEMMA SeedInvariant == Spec => []SeedInv
<1>1. Init => SeedInv
  BY DEF Init, SeedInv, StartUpOK
<1>2. TypeOK /\ SeedInv /\ [Next]_vars => SeedInv'
  <2> SUFFICES ASSUME TypeOK, SeedInv, [Next]_vars PROVE SeedInv'
    OBVIOUS
  <2>1. ASSUME NEW p \in Processes, Start(p) \/ Crash(p) PROVE SeedInv'
    BY <2>1, StartAndCrashKeep
  <2>2. ASSUME NEW p \in Processes, SeedCheck(p) PROVE SeedInv'
    BY <2>2, SeedCheckKeeps
  <2>3. ASSUME NEW p \in Processes, SeedCommit(p) PROVE SeedInv'
    BY <2>3, SeedCommitKeeps
  <2>4. ASSUME NEW p \in Processes, SeedConflict(p) PROVE SeedInv'
    BY <2>4, SeedConflictKeeps
  <2>5. ASSUME NEW w \in Workers, NEW t \in TenantIds, Register(w, t)
        PROVE  SeedInv'
    BY <2>5, SeedStutter DEF Register, start, StartUps
  <2>6. ASSUME NEW w \in Workers,
               Insert(w) \/ InsertConflict(w) \/ Reply(w) \/ Serve(w)
        PROVE  SeedInv'
    BY <2>6, SeedStutter DEF Insert, InsertConflict, Reply, Serve, start,
                             StartUps
  <2>7. ASSUME NEW w \in Workers, NEW r \in issued, Authenticate(w, r)
        PROVE  SeedInv'
    BY <2>7, SeedStutter DEF Authenticate, start, StartUps
  <2>8. ASSUME NEW t \in TenantIds, Deactivate(t) PROVE SeedInv'
    BY <2>8, SeedStutter DEF Deactivate, start, StartUps
  <2>9. ASSUME UNCHANGED vars PROVE SeedInv'
    BY <2>9, SeedStutter DEF vars, StartUps
  <2> QED
    BY <2>1, <2>2, <2>3, <2>4, <2>5, <2>6, <2>7, <2>8, <2>9, TenantsNextCases
<1> QED BY <1>1, <1>2, TenantsTypeCorrect, PTL DEF Spec

(* However many processes start on one table, whatever it held before, one *)
(* that serves after an automatic start-up finds every profile             *)
(* (main.py:103-126).                                                      *)
THEOREM StartUpCompletes == Spec => []ServingIsSeeded
<1>1. SeedInv => ServingIsSeeded
  BY DEF SeedInv, StartUpOK, ServingIsSeeded
<1> QED BY <1>1, SeedInvariant, PTL

(* A process that loses the race of start-ups does not lose it again.      *)
THEOREM SecondStartUpWorks == Spec => []RaceIsLostOnce
<1>1. TypeOK /\ SeedInv => RaceIsLostOnce
  BY DEF TypeOK, SeedInv, StartUpOK, RaceIsLostOnce
<1> QED BY <1>1, SeedInvariant, TenantsTypeCorrect, PTL

-----------------------------------------------------------------------------
(* Registrations that race.  A key on its way to its client, or with it,   *)
(* is stored.                                                              *)
RepliesAreStored ==
  \A w \in Workers :
    job[w].at = "reply" =>
      [key |-> job[w].key, tenant |-> job[w].tenant] \in apiKeys

KeyInv == OneKeyPerTenant /\ issued \subseteq apiKeys /\ RepliesAreStored

(* What leaves the keys alone, keeps tenants registered and sends no reply *)
(* keeps the invariant.                                                    *)
LEMMA KeysKept ==
  ASSUME KeyInv, UNCHANGED <<apiKeys, issued>>,
         \A t \in TenantIds : tenants'[t] = "absent" <=> tenants[t] = "absent",
         \A w \in Workers : job'[w] = job[w] \/ job'[w].at # "reply"
  PROVE  KeyInv'
  BY DEF KeyInv, OneKeyPerTenant, RepliesAreStored

(* The insert gives one key to a tenant that had none.                     *)
LEMMA InsertKeepsKeys ==
  ASSUME TypeOK, KeyInv, NEW w \in Workers, Insert(w)
  PROVE  KeyInv'
<1> DEFINE k == job[w].key
           t == job[w].tenant
           row == [key |-> k, tenant |-> t]
<1>1. /\ job[w] \in [at : {"insert", "reply"}, tenant : TenantIds, key : ApiKeys]
      /\ row \in KeyRow
  BY JobFields DEF Insert
<1>2. t \in TenantIds /\ tenants[t] = "absent"
  BY <1>1 DEF Insert
<1>3. \A r \in apiKeys : r.tenant # t
  BY <1>2 DEF KeyInv, OneKeyPerTenant
<1>4. apiKeys' = apiKeys \cup {row} /\ row.tenant = t
  BY DEF Insert
<1>5. \A u \in TenantIds :
        tenants'[u] = IF u = t THEN "active" ELSE tenants[u]
  BY <1>2 DEF Insert, TypeOK
<1>6. OneKeyPerTenant'
  <2>1. \A r, s \in apiKeys' : r.tenant = s.tenant => r = s
    BY <1>3, <1>4 DEF KeyInv, OneKeyPerTenant
  <2>2. \A u \in TenantIds :
          tenants'[u] # "absent" <=> \E r \in apiKeys' : r.tenant = u
    BY <1>4, <1>5 DEF KeyInv, OneKeyPerTenant
  <2> QED BY <2>1, <2>2 DEF OneKeyPerTenant
<1>7. RepliesAreStored'
  <2> SUFFICES ASSUME NEW v \in Workers, job'[v].at = "reply"
               PROVE  [key |-> job'[v].key, tenant |-> job'[v].tenant]
                        \in apiKeys'
    BY DEF RepliesAreStored
  <2>1. CASE v = w
    <3>1. job'[w].key = k /\ job'[w].tenant = t
      BY <1>1 DEF Insert, TypeOK
    <3> QED BY <2>1, <3>1, <1>4
  <2>2. CASE v # w
    <3>1. job'[v] = job[v]
      BY <2>2 DEF Insert, TypeOK
    <3> QED BY <3>1, <1>4 DEF KeyInv, RepliesAreStored
  <2> QED BY <2>1, <2>2
<1> QED BY <1>4, <1>6, <1>7 DEF KeyInv, Insert

(* The invariant of the keys holds in every behaviour. *)
LEMMA KeyInvariant == Spec => []KeyInv
<1>1. Init => KeyInv
  BY DEF Init, KeyInv, OneKeyPerTenant, RepliesAreStored, Idle
<1>2. TypeOK /\ KeyInv /\ [Next]_vars => KeyInv'
  <2> SUFFICES ASSUME TypeOK, KeyInv, [Next]_vars PROVE KeyInv'
    OBVIOUS
  <2>1. ASSUME NEW p \in Processes,
               \/ Start(p) \/ SeedCheck(p) \/ SeedCommit(p) \/ SeedConflict(p)
        PROVE  KeyInv'
    BY <2>1, KeysKept DEF Start, SeedCheck, SeedCommit, SeedConflict
  <2>2. ASSUME NEW p \in Processes, Crash(p) PROVE KeyInv'
    BY <2>2, KeysKept DEF Crash, Idle
  <2>3. ASSUME NEW w \in Workers, NEW t \in TenantIds, Register(w, t)
        PROVE  KeyInv'
    BY <2>3, KeysKept DEF Register, TypeOK
  <2>4. ASSUME NEW w \in Workers, Insert(w) PROVE KeyInv'
    BY <2>4, InsertKeepsKeys
  <2>5. ASSUME NEW w \in Workers, InsertConflict(w) \/ Serve(w) PROVE KeyInv'
    BY <2>5, KeysKept DEF InsertConflict, Serve, Idle, TypeOK
  <2>6. ASSUME NEW w \in Workers, Reply(w) PROVE KeyInv'
    <3>1. (issued \subseteq apiKeys)'
      BY <2>6 DEF Reply, KeyInv, RepliesAreStored
    <3>2. RepliesAreStored'
      BY <2>6 DEF Reply, KeyInv, RepliesAreStored, Idle, TypeOK
    <3> QED BY <2>6, <3>1, <3>2 DEF Reply, KeyInv, OneKeyPerTenant
  <2>7. ASSUME NEW w \in Workers, NEW r \in issued, Authenticate(w, r)
        PROVE  KeyInv'
    BY <2>7, KeysKept DEF Authenticate, TypeOK
  <2>8. ASSUME NEW t \in TenantIds, Deactivate(t) PROVE KeyInv'
    BY <2>8, KeysKept DEF Deactivate, TypeOK
  <2>9. ASSUME UNCHANGED vars PROVE KeyInv'
    BY <2>9, KeysKept DEF vars
  <2> QED
    BY <2>1, <2>2, <2>3, <2>4, <2>5, <2>6, <2>7, <2>8, <2>9, TenantsNextCases
<1> QED BY <1>1, <1>2, TenantsTypeCorrect, PTL DEF Spec

(* However requests race for a tenant id, a registered tenant has one key  *)
(* (tenants.py:31-63).                                                     *)
THEOREM OneKey == Spec => []OneKeyPerTenant
<1>1. KeyInv => OneKeyPerTenant
  BY DEF KeyInv
<1> QED BY <1>1, KeyInvariant, PTL

(* A key that a client was given is stored for as long as the tables are.  *)
THEOREM IssuedKeysStay == Spec => []IssuedKeysAreStored
<1>1. TypeOK /\ KeyInv => IssuedKeysAreStored
  BY DEF TypeOK, KeyRow, KeyInv, OneKeyPerTenant, IssuedKeysAreStored
<1> QED BY <1>1, KeyInvariant, TenantsTypeCorrect, PTL
=============================================================================
