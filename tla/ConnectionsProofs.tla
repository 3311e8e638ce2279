-------------------------- MODULE ConnectionsProofs --------------------------
(***************************************************************************)
(* No request leaks a connection, for any numbers of requests, threads and *)
(* connections and whatever the handlers commit.                           *)
(***************************************************************************)
EXTENDS Connections, TLAPS

(* What is proved by induction: a connection's holder is told apart from   *)
(* other requests only in a state of the right types.                      *)
Inv == TypeOK /\ ConnectionsAreOwned

(* Giving a connection back leaves connections that had a holder with that *)
(* holder or nobody, and the request that gave it back with none.          *)
LEMMA Returned ==
  ASSUME TypeOK, NEW r \in Requests, ReturnConnection(r)
  PROVE  /\ conn' \in [Connections -> Requests \cup {Nobody}]
         /\ \A c \in Connections : conn'[c] # Nobody =>
              conn'[c] = conn[c] /\ conn'[c] # r
BY DEF TypeOK, ReturnConnection

(* Leaving a thread keeps the type of the threads.                         *)
LEMMA Left ==
  ASSUME TypeOK, NEW r \in Requests, LeaveThread(r)
  PROVE  thread' \in [Threads -> Requests \cup {Nobody}]
BY DEF TypeOK, LeaveThread

(* At first no request has a connection or a thread.                       *)
LEMMA InitInv == ASSUME Init PROVE Inv
BY ConnectionsAssumption
   DEF Init, Inv, TypeOK, ConnectionsAreOwned, Stages, Queued, Running

(* A step that moves one request on, and takes up or returns connections   *)
(* for it alone, keeps the invariant if it ends with the session closed.   *)
LEMMA Owned ==
  ASSUME Inv, NEW r \in Requests, NEW s \in Stages,
         at' = [at EXCEPT ![r] = s],
         \/ ReturnConnection(r)
         \/ conn' = conn /\ s \notin {"out", "auth", "done"}
         \/ conn' = conn /\ ~HasConnection(r)
  PROVE  ConnectionsAreOwned' /\ at' \in [Requests -> Stages]
<1>1. at' \in [Requests -> Stages]
  BY DEF Inv, TypeOK
<1>2. ASSUME NEW c \in Connections, conn'[c] # Nobody
      PROVE  conn'[c] = conn[c] /\ at'[conn[c]] \notin {"out", "auth", "done"}
  <2>1. CASE ReturnConnection(r)
    BY <2>1, <1>2, Returned, ConnectionsAssumption
       DEF Inv, TypeOK, ConnectionsAreOwned
  <2>2. CASE conn' = conn /\ s \notin {"out", "auth", "done"}
    BY <2>2, <1>2, ConnectionsAssumption DEF Inv, TypeOK, ConnectionsAreOwned
  <2>3. CASE conn' = conn /\ ~HasConnection(r)
    BY <2>3, <1>2, ConnectionsAssumption
       DEF Inv, TypeOK, ConnectionsAreOwned, HasConnection
  <2> QED BY <2>1, <2>2, <2>3
<1>3. ASSUME NEW c \in Connections, NEW d \in Connections,
             conn'[c] # Nobody, conn'[d] = conn'[c]
      PROVE  d = c
  <2>1. conn'[c] = conn[c] /\ conn'[d] = conn[d] /\ conn[c] # Nobody
    BY <1>2, <1>3
  <2> QED BY <2>1, <1>3 DEF Inv, ConnectionsAreOwned
<1> QED BY <1>1, <1>2, <1>3 DEF ConnectionsAreOwned

(* No step of a request leaks a connection.                                *)
LEMMA StepInv ==
  ASSUME Inv, NEW r \in Requests,
         RefuseEarly(r) \/ Arrive(r) \/ Progress(r)
  PROVE  Inv'
<1> USE DEF Stages, Queued, Running
<1>1. CASE RefuseEarly(r)
  <2>1. ~HasConnection(r)
    BY <1>1, ConnectionsAssumption
       DEF RefuseEarly, Inv, ConnectionsAreOwned, HasConnection
  <2> QED BY <1>1, <2>1, Owned DEF RefuseEarly, Inv, TypeOK
<1>2. CASE Arrive(r)
  <2>1. ~HasConnection(r)
    BY <1>2, ConnectionsAssumption
       DEF Arrive, Inv, ConnectionsAreOwned, HasConnection
  <2>2. PICK s \in {"handler", "auth"} : at' = [at EXCEPT ![r] = s]
    BY <1>2 DEF Arrive
  <2> QED BY <1>2, <2>1, <2>2, Owned DEF Arrive, Inv, TypeOK
<1>3. ASSUME NEW t \in Threads, TakeThread(r, t) PROVE Inv'
  <2>1. PICK s \in Running : at' = [at EXCEPT ![r] = s]
    BY <1>3 DEF TakeThread, Inv, TypeOK
  <2> QED BY <1>3, <2>1, Owned DEF TakeThread, Inv, TypeOK
<1>4. ASSUME NEW c \in Connections, Checkout(r, c) PROVE Inv'
  <2>1. TypeOK'
    BY <1>4 DEF Checkout, Inv, TypeOK
  <2>2. \A d \in Connections : conn[d] # r
    BY <1>4 DEF Checkout, NeedsConnection, HasConnection
  <2>3. at[r] \in Running
    BY <1>4 DEF Checkout, NeedsConnection
  <2>4. ConnectionsAreOwned'
    BY <1>4, <2>2, <2>3, ConnectionsAssumption
       DEF Checkout, Inv, TypeOK, ConnectionsAreOwned
  <2> QED BY <2>1, <2>4 DEF Inv
<1>5. CASE PoolTimeout(r)
  <2>1. ~HasConnection(r)
    BY <1>5 DEF PoolTimeout, NeedsConnection
  <2>2. PICK s \in {"done", "closing"} : at' = [at EXCEPT ![r] = s]
    BY <1>5 DEF PoolTimeout
  <2> QED BY <1>5, <2>1, <2>2, Owned, Left DEF PoolTimeout, Inv, TypeOK
<1>6. CASE Authenticated(r)
  BY <1>6, Owned, Left DEF Authenticated, Inv, TypeOK
<1>7. CASE Unauthorized(r)
  BY <1>7, Owned, Left DEF Unauthorized, Inv, TypeOK
<1>8. CASE Commit(r)
  <2>1. at' = [at EXCEPT ![r] = "handling"] /\ left' \in [Requests -> Nat]
    BY <1>8 DEF Commit, Inv, TypeOK
  <2> QED BY <1>8, <2>1, Owned, Returned DEF Commit, Inv, TypeOK
<1>9. CASE Finish(r)
  <2>1. CASE Auth[r] = "none"
    BY <1>9, <2>1, Owned, Left, Returned DEF Finish, Inv, TypeOK
  <2>2. CASE Auth[r] # "none"
    BY <1>9, <2>2, Owned, Left DEF Finish, Inv, TypeOK
  <2> QED BY <2>1, <2>2
<1>10. CASE Close(r)
  BY <1>10, Owned, Returned DEF Close, Inv, TypeOK
<1> QED
  BY <1>1, <1>2, <1>3, <1>4, <1>5, <1>6, <1>7, <1>8, <1>9, <1>10 DEF Progress

(* The invariant holds in every state the server can reach.                *)
THEOREM AlwaysInv == Spec => []Inv
<1>1. Init => Inv
  BY InitInv
<1>2. Inv /\ [Next]_vars => Inv'
  <2> SUFFICES ASSUME Inv, [Next]_vars PROVE Inv'
    OBVIOUS
  <2>1. CASE Next
    BY <2>1, StepInv DEF Next
  <2>2. CASE UNCHANGED vars
    BY <2>2 DEF vars, Inv, TypeOK, ConnectionsAreOwned
  <2> QED BY <2>1, <2>2
<1> QED BY <1>1, <1>2, PTL DEF Spec

(* Requests, threads and connections keep their types.                     *)
THEOREM ConnectionsTypeCorrect == Spec => []TypeOK
BY AlwaysInv, PTL DEF Inv

(* No connection is leaked and no request holds two.                       *)
THEOREM NoConnectionLeaks == Spec => []ConnectionsAreOwned
BY AlwaysInv, PTL DEF Inv
=============================================================================
