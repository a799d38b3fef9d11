------------------------------- MODULE Lease -------------------------------
(***************************************************************************)
(* What the lease of a cell promises (the lease half of the BlobStore      *)
(* trait, src/src/storage/blob.rs, as src/src/cell/manager.rs relies on    *)
(* it): at any time at most one node may believe that it is the writer.    *)
(*                                                                         *)
(* A grant is the instant until which a node takes itself for the holder;  *)
(* 0 is no grant.  Renewing is granting again.                             *)
(***************************************************************************)
EXTENDS Integers

CONSTANTS
    Nodes, \* the node ids: a process draws a fresh one each time it starts
    TTL    \* lease_ttl_secs

VARIABLES
    clock, \* wall-clock time, the same for all nodes
    grant  \* for each node, the end of the lease that it believes it holds

vars == <<clock, grant>>

Init ==
    /\ clock \in Nat
    /\ grant = [n \in Nodes |-> 0]

\* Only when no other node holds a lease that still runs.
Grant(n, until) ==
    /\ \A m \in Nodes \ {n} : grant[m] <= clock
    /\ grant' = [grant EXCEPT ![n] = until]
    /\ UNCHANGED clock

\* Released, given up after a renewal that failed, or lost in a crash.
Drop(n) ==
    /\ grant' = [grant EXCEPT ![n] = 0]
    /\ UNCHANGED clock

Tick ==
    /\ clock' = clock + 1
    /\ UNCHANGED grant

\* No lease runs longer than a time to live from now.
Next ==
    \/ \E n \in Nodes :
        \/ Drop(n)
        \/ \E until \in 0..(clock + TTL) : Grant(n, until)
    \/ Tick

Spec == Init /\ [][Next]_vars

Holds(n) == grant[n] > clock

\* No two nodes take themselves for the writer at the same time.
MutualExclusion ==
    \A m, n \in Nodes : Holds(m) /\ Holds(n) => m = n

=============================================================================
