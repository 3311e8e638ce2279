----------------------------- MODULE RecordChain -----------------------------
(***************************************************************************)
(* What the records of Spanish sellers promise to an auditor, with no      *)
(* requests, retries, signatures or deployments in it: the records of a    *)
(* seller are one chain that only ever grows at its end.  The hash of the  *)
(* record at place n covers the seller, n, and the hash of the record at   *)
(* place n - 1; the hash of its event covers that of the event before.     *)
(***************************************************************************)
EXTENDS Naturals, Sequences, SequencesExt

CONSTANT Sellers

VARIABLES
  records,  (* the record hashes that were computed, by their input         *)
  events,   (* the event hashes, likewise                                   *)
  chain     (* the hashes of each seller's records, from the first          *)

registry == <<records, events, chain>>

(* What the next record of a seller follows.                               *)
Tip(s) ==
  IF chain[s] = <<>> THEN [record |-> 0, event |-> 0]
  ELSE chain[s][Len(chain[s])]

Init ==
  /\ records = <<>>
  /\ events = <<>>
  /\ chain = [s \in Sellers |-> <<>>]

(* A hash stands for its input for good, whether or not a record comes of  *)
(* it.                                                                     *)
Compute ==
  /\ IsPrefix(records, records')
  /\ IsPrefix(events, events')
  /\ UNCHANGED chain

Issue(s) ==
  /\ \E r \in DOMAIN records, e \in DOMAIN events :
       /\ records[r] = [seller   |-> s,
                        number   |-> Len(chain[s]) + 1,
                        previous |-> Tip(s).record]
       /\ events[e] = [seller |-> s, previous |-> Tip(s).event]
       /\ chain' = [chain EXCEPT ![s] = Append(@, [record |-> r, event |-> e])]
  /\ UNCHANGED <<records, events>>

Next == Compute \/ \E s \in Sellers : Issue(s)

Spec == Init /\ [][Next]_registry
=============================================================================
