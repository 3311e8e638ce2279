----------------------------- MODULE Connections -----------------------------
(***************************************************************************)
(* What a request holds while it is served: a thread of the server and a   *)
(* connection of the database pool (app/db/session.py, app/core/security.py, *)
(* app/main.py, app/api/routes/health.py).                                 *)
(*                                                                         *)
(* Dependencies and endpoints are plain functions: each takes a thread of  *)
(* the pool when it starts and leaves it when it returns.  A session takes *)
(* a connection at its first query and keeps it until it commits or is     *)
(* closed.  So a request whose key was looked up waits for a thread with a *)
(* connection in hand, and others wait for a connection with a thread in   *)
(* hand.                                                                   *)
(*                                                                         *)
(* A definition marked "Fault:" is what the one after it would be with a   *)
(* plausible bug; nothing uses it.                                         *)
(***************************************************************************)
EXTENDS Naturals

CONSTANTS
  Requests,     (* the requests that clients may send                       *)
  Threads,      (* the tokens of the server's thread pool                   *)
  Connections,  (* the connections that the pool may open                   *)
  Nobody,       (* the holder of a free thread or connection                *)
  Auth,         (* how a request is let in, see Auths                       *)
  Work          (* how often its handler takes up a connection: 0 if it     *)
                (* never queries, one more for each commit it goes on after *)

(* "none": a health route, without require_api_key.  "admin": the key of   *)
(* the settings.  "missing": no key.  "key": any other key, looked up in   *)
(* the database.                                                           *)
Auths == {"none", "admin", "missing", "key"}

ASSUME ConnectionsAssumption ==
  /\ Nobody \notin Requests
  /\ Auth \in [Requests -> Auths]
  /\ Work \in [Requests -> Nat]

VARIABLES
  at,      (* how far each request is                                       *)
  left,    (* what is left of its Work                                      *)
  thread,  (* the request that runs on each thread                          *)
  conn     (* the request whose session has each connection                 *)

vars == <<at, left, thread, conn>>

Queued  == {"auth", "handler"}               \* waiting for a thread
Running == {"authenticating", "handling"}    \* on a thread
Stages  == Queued \cup Running \cup {"out", "closing", "done"}

TypeOK ==
  /\ at \in [Requests -> Stages]
  /\ left \in [Requests -> Nat]
  /\ thread \in [Threads -> Requests \cup {Nobody}]
  /\ conn \in [Connections -> Requests \cup {Nobody}]

Init ==
  /\ at = [r \in Requests |-> "out"]
  /\ left = Work
  /\ thread = [t \in Threads |-> Nobody]
  /\ conn = [c \in Connections |-> Nobody]

-----------------------------------------------------------------------------
HasConnection(r) == \E c \in Connections : conn[c] = r

(* Fault: the handler opens a session of its own, apart from the one that  *)
(* the key was looked up with.                                             *)
NeedsConnectionOfItsOwn(r) ==
  \/ at[r] = "authenticating" /\ Auth[r] = "key" /\ ~HasConnection(r)
  \/ at[r] = "handling" /\ left[r] > 0

(* The next thing the request does on its thread is a query, and its       *)
(* session has no connection.  The dependency get_db is evaluated once per *)
(* request, so that require_api_key and the handler share a session.       *)
NeedsConnection(r) ==
  /\ ~HasConnection(r)
  /\ \/ at[r] = "authenticating" /\ Auth[r] = "key"
     \/ at[r] = "handling" /\ left[r] > 0

LeaveThread(r) ==
  thread' = [t \in Threads |-> IF thread[t] = r THEN Nobody ELSE thread[t]]

ReturnConnection(r) ==
  conn' = [c \in Connections |-> IF conn[c] = r THEN Nobody ELSE conn[c]]

-----------------------------------------------------------------------------
(* request_context_middleware: a request is refused for its content length *)
(* (400, 413) or goes on; the rate limiter allows it.                      *)
RefuseEarly(r) ==
  /\ at[r] = "out"
  /\ at' = [at EXCEPT ![r] = "done"]
  /\ UNCHANGED <<left, thread, conn>>

Arrive(r) ==
  /\ at[r] = "out"
  /\ at' = [at EXCEPT ![r] = IF Auth[r] = "none" THEN "handler" ELSE "auth"]
  /\ UNCHANGED <<left, thread, conn>>

(* The next function of the request gets a thread.                         *)
TakeThread(r, t) ==
  /\ at[r] \in Queued
  /\ thread[t] = Nobody
  /\ thread' = [thread EXCEPT ![t] = r]
  /\ at' = [at EXCEPT ![r] = IF @ = "auth" THEN "authenticating"
                                           ELSE "handling"]
  /\ UNCHANGED <<left, conn>>

(* The session's query gets a connection; pool_pre_ping has replaced it if *)
(* it was broken.                                                          *)
Checkout(r, c) ==
  /\ NeedsConnection(r)
  /\ conn[c] = Nobody
  /\ conn' = [conn EXCEPT ![c] = r]
  /\ UNCHANGED <<at, left, thread>>

(* Fault: the pool is configured to wait without limit.                    *)
PoolWaitsForever(r) == FALSE /\ UNCHANGED vars

(* The pool had none for 30 seconds: the query raises, the answer is a 500. *)
PoolTimeout(r) ==
  /\ NeedsConnection(r)
  /\ \A c \in Connections : conn[c] # Nobody
  /\ at' = [at EXCEPT ![r] = IF Auth[r] = "none" THEN "done" ELSE "closing"]
  /\ LeaveThread(r)
  /\ UNCHANGED <<left, conn>>

(* require_api_key returns: the handler is queued, the session goes on.    *)
Authenticated(r) ==
  /\ at[r] = "authenticating"
  /\ Auth[r] # "missing"
  /\ ~NeedsConnection(r)
  /\ at' = [at EXCEPT ![r] = "handler"]
  /\ LeaveThread(r)
  /\ UNCHANGED <<left, conn>>

(* require_api_key raises 401: no key, or one that opens nothing.          *)
Unauthorized(r) ==
  /\ at[r] = "authenticating"
  /\ Auth[r] \in {"missing", "key"}
  /\ ~NeedsConnection(r)
  /\ at' = [at EXCEPT ![r] = "closing"]
  /\ LeaveThread(r)
  /\ UNCHANGED <<left, conn>>

(* The handler commits, which gives the connection back, and goes on: the  *)
(* refresh of the committed row takes one up again.                        *)
Commit(r) ==
  /\ at[r] = "handling"
  /\ HasConnection(r)
  /\ left[r] > 1
  /\ left' = [left EXCEPT ![r] = @ - 1]
  /\ ReturnConnection(r)
  /\ UNCHANGED <<at, thread>>

(* The handler returns or raises, after whatever it did and however long   *)
(* its validator (60 s) or signing command (30 s) ran.  The session that   *)
(* /health/ready opens itself is closed before it returns.                 *)
Finish(r) ==
  /\ at[r] = "handling"
  /\ ~NeedsConnection(r)
  /\ LeaveThread(r)
  /\ IF Auth[r] = "none"
     THEN at' = [at EXCEPT ![r] = "done"] /\ ReturnConnection(r)
     ELSE at' = [at EXCEPT ![r] = "closing"] /\ UNCHANGED conn
  /\ UNCHANGED left

(* The finally of get_db, whatever happened: the session is closed.  It    *)
(* waits for no thread of the pool.                                        *)
Close(r) ==
  /\ at[r] = "closing"
  /\ at' = [at EXCEPT ![r] = "done"]
  /\ ReturnConnection(r)
  /\ UNCHANGED <<left, thread>>

-----------------------------------------------------------------------------
Progress(r) ==
  \/ \E t \in Threads : TakeThread(r, t)
  \/ \E c \in Connections : Checkout(r, c)
  \/ PoolTimeout(r)
  \/ Authenticated(r) \/ Unauthorized(r)
  \/ Commit(r) \/ Finish(r) \/ Close(r)

Next == \E r \in Requests : RefuseEarly(r) \/ Arrive(r) \/ Progress(r)

(* A request that has arrived goes on when it can.                         *)
Fairness == \A r \in Requests : WF_vars(Progress(r))

Spec == Init /\ [][Next]_vars /\ Fairness

-----------------------------------------------------------------------------
(* A connection is out only for a request that is being served - one that  *)
(* has arrived and whose session is not closed - and no request has two:   *)
(* whatever ends it, a refused key, an error, a timeout of the pool or a   *)
(* handler that commits midway, the pool gets every connection back        *)
(* (session.py:17-22, security.py:32, health.py:24-26).                    *)
ConnectionsAreOwned ==
  \A c \in Connections : conn[c] # Nobody =>
    /\ at[conn[c]] \notin {"out", "auth", "done"}
    /\ \A d \in Connections : conn[d] = conn[c] => d = c

(* Every request is answered, although requests that hold all connections  *)
(* may wait for the threads of requests that wait for connections          *)
(* (session.py:13, security.py:67-72): the timeout of the pool breaks the  *)
(* circle.                                                                 *)
EveryRequestEnds == \A r \in Requests : at[r] # "out" ~> at[r] = "done"
=============================================================================
