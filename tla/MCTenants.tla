------------------------------ MODULE MCTenants ------------------------------
(***************************************************************************)
(* A small instance of Tenants: three processes, threads of two of them.   *)
(***************************************************************************)
EXTENDS Tenants

CONSTANTS p1, p2, p3, w1, w2

TwoProcesses == [w \in Workers |-> IF w = w1 THEN p1 ELSE p2]
=============================================================================
