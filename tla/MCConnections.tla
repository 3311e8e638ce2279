---------------------------- MODULE MCConnections ----------------------------
(***************************************************************************)
(* A small instance of Connections: fewer threads and connections than     *)
(* requests, which look a key up, commit, only read, or probe.             *)
(***************************************************************************)
EXTENDS Connections

CONSTANTS send, create, stray, read, ready

MCAuth ==
  [r \in Requests |->
     IF r = ready THEN "none"
     ELSE IF r = create THEN "admin"
     ELSE IF r = stray THEN "missing" ELSE "key"]

(* A send by id and a /create commit once and read the row again.          *)
MCWork ==
  [r \in Requests |->
     IF r \in {send, create} THEN 2 ELSE IF r = stray THEN 0 ELSE 1]
=============================================================================
