--------------------------- MODULE LocalLeaseProofs ---------------------------
(***************************************************************************)
(* Proofs about LocalLease, for every set of nodes and every value of the  *)
(* bounds, with calls that fail and nodes that die between two calls.      *)
(* They assume that no two operations overlap and that acquire_lease can   *)
(* read a lease file that is there: without either MutualExclusion fails.  *)
(***************************************************************************)
EXTENDS LocalLease, TLAPS

Operations(n) ==
    \/ Acquire(n) \/ Create(n) \/ Write(n) \/ Read(n) \/ Rename(n)
    \/ Renew(n) \/ RenewRead(n) \/ RenewRename(n)
    \/ Release(n) \/ ReleaseRead(n) \/ ReleaseRemove(n)
    \/ Fault(n)

\* What the code does not see to itself.
Guarded == ~Overlap /\ ~Unreadable

Busy(n) == pc[n] \notin {"idle", "dead"}

\* What each node may take for granted between two of its calls.
NodeInv(n) ==
    /\ now[n] <= clock
    /\ held[n] > clock => file = [holder |-> n, expires_at |-> held[n]]
    /\ pc[n] \notin {"idle", "renew_read", "renew_rename"} => held[n] = 0
    /\ pc[n] = "write" => file = [creator |-> n]
    /\ pc[n] = "rename" => ~Parsable \/ Expired(n) \/ Mine(n)
    /\ pc[n] \in {"renew_rename", "release_remove"} => Mine(n)

Alone == \A m, n \in Nodes : Busy(m) /\ Busy(n) => m = n

IInv == TypeOK /\ Alone /\ \A n \in Nodes : NodeInv(n)

-----------------------------------------------------------------------------

LEMMA RecordType ==
    ASSUME TypeOK, NEW a \in Nodes
    PROVE  /\ Record(a) \in LeaseRecords
           /\ Record(a).holder = a
           /\ now[a] + TTL \in Nat
  BY TTLAssumption DEF TypeOK, Record, LeaseRecords

\* A file is empty or has a record, and what it is for one node it is for no
\* other.
LEMMA FilesApart ==
    ASSUME NEW a \in Nodes
    PROVE  [creator |-> a] \in EmptyFiles \ LeaseRecords
  BY DEF EmptyFiles, LeaseRecords

\* The ways an operation of a can change the file.
Fills(a) ==
    /\ \/ pc[a] = "write" /\ file = [creator |-> a]
       \/ pc[a] \in {"rename", "renew_rename"}
    /\ file' = Record(a)

Changes(a) ==
    \/ pc[a] = "create" /\ file = Absent /\ file' = [creator |-> a]
    \/ pc[a] = "release_remove" /\ file' = Absent
    \/ Fills(a)

\* An operation touches the locals of its own node only, and the file in one
\* of these ways only; and the node is alone with what it has begun.
LEMMA OperationFrame ==
    ASSUME TypeOK, NEW a \in Nodes, Operations(a)
    PROVE  /\ UNCHANGED clock
           /\ \A n \in Nodes \ {a} : UNCHANGED <<pc[n], now[n], held[n]>>
           /\ UNCHANGED file \/ Changes(a)
           /\ Busy(a)' =>
                 Busy(a) \/ Overlap \/ \A m \in Nodes : ~Busy(m)
<1> USE DEF TypeOK, Start, End, Continue, Believe, Busy
<1>1. CASE Acquire(a) \/ Renew(a) \/ Release(a)
  BY <1>1 DEF Acquire, Renew, Release
<1>2. CASE Create(a)
  BY <1>2 DEF Create, Changes
<1>3. CASE Write(a) \/ Rename(a) \/ RenewRename(a)
  BY <1>3 DEF Write, Rename, RenewRename, Changes, Fills
<1>4. CASE Read(a) \/ RenewRead(a) \/ ReleaseRead(a)
  BY <1>4 DEF Read, RenewRead, ReleaseRead
<1>5. CASE ReleaseRemove(a)
  BY <1>5 DEF ReleaseRemove, Changes
<1>6. CASE Fault(a)
  BY <1>6 DEF Fault, Changes, Fills
<1> QED
  BY <1>1, <1>2, <1>3, <1>4, <1>5, <1>6 DEF Operations

LEMMA AloneStays ==
    ASSUME Guarded, IInv, NEW a \in Nodes, Operations(a)
    PROVE  Alone'
<1>1. ASSUME NEW n \in Nodes \ {a} PROVE Busy(n)' <=> Busy(n)
  BY <1>1, OperationFrame DEF IInv, Busy
<1>2. Busy(a)' => \A n \in Nodes \ {a} : ~Busy(n)
  BY OperationFrame DEF IInv, Alone, Guarded
<1> QED
  BY <1>1, <1>2 DEF IInv, Alone

\* No operation changes the record of a lease that another node believes in.
LEMMA BelievedStays ==
    ASSUME IInv, NEW a \in Nodes, NEW n \in Nodes \ {a}, held[n] > clock,
           Operations(a)
    PROVE  UNCHANGED file
<1>1. /\ NodeInv(a) /\ clock \in Nat /\ now[a] \in Nat /\ held[n] \in Nat
      /\ file = [holder |-> n, expires_at |-> held[n]]
  BY DEF IInv, TypeOK, NodeInv
<1>2. file \in LeaseRecords /\ file.holder = n /\ file.expires_at > clock
  BY <1>1 DEF LeaseRecords
<1>3. file # Absent /\ file # [creator |-> a]
  BY <1>2, AbsentAssumption, FilesApart
<1>4. ~Mine(a) /\ ~Expired(a) /\ Parsable
  BY <1>1, <1>2 DEF NodeInv, Mine, Expired, Parsable
<1>5. pc[a] \notin {"rename", "renew_rename", "release_remove"}
  BY <1>1, <1>4 DEF NodeInv
<1> QED
  BY <1>3, <1>5, OperationFrame DEF IInv, Changes, Fills

\* Whatever the other nodes take for granted stays true.
LEMMA OthersInv ==
    ASSUME IInv, NEW a \in Nodes, NEW n \in Nodes \ {a}, Operations(a)
    PROVE  NodeInv(n)'
<1>1. UNCHANGED <<clock, pc[n], now[n], held[n]>>
  BY OperationFrame DEF IInv
<1>2. held[n] > clock => UNCHANGED file
  BY BelievedStays
<1>3. Busy(n) => UNCHANGED file
  <2>1. Busy(n) => ~Busy(a)
    BY DEF IInv, Alone
  <2> QED
    BY <2>1, OperationFrame DEF IInv, Busy, Changes, Fills
<1> QED
  BY <1>1, <1>2, <1>3 DEF IInv, NodeInv, Busy, Parsable, Expired, Mine

-----------------------------------------------------------------------------
(* The invariant, operation by operation, at the node that performs it.    *)

LEMMA OperationType ==
    ASSUME TypeOK, NEW a \in Nodes, Operations(a)
    PROVE  TypeOK'
<1> USE DEF TypeOK, Start, End, Continue, Believe, Steps
<1>1. /\ Record(a) \in LeaseRecords /\ now[a] + TTL \in Nat
      /\ [creator |-> a] \in EmptyFiles
  BY RecordType, FilesApart
<1>2. CASE Acquire(a) \/ Renew(a) \/ Release(a)
  BY <1>2 DEF Acquire, Renew, Release
<1>3. CASE Create(a)
  BY <1>1, <1>3 DEF Create
<1>4. CASE Write(a) \/ Rename(a) \/ RenewRename(a)
  BY <1>1, <1>4 DEF Write, Rename, RenewRename
<1>5. CASE Read(a) \/ RenewRead(a) \/ ReleaseRead(a)
  BY <1>5 DEF Read, RenewRead, ReleaseRead
<1>6. CASE ReleaseRemove(a)
  BY <1>6 DEF ReleaseRemove
<1>7. CASE Fault(a)
  BY <1>1, <1>7 DEF Fault
<1> QED
  BY <1>2, <1>3, <1>4, <1>5, <1>6, <1>7 DEF Operations

LEMMA OwnInv ==
    ASSUME Guarded, IInv, NEW a \in Nodes, Operations(a)
    PROVE  NodeInv(a)'
<1>1. NodeInv(a) /\ TypeOK
  BY DEF IInv
<1>2. /\ clock \in Nat /\ held \in [Nodes -> Nat] /\ now \in [Nodes -> Nat]
      /\ pc \in [Nodes -> Steps]
  BY <1>1 DEF TypeOK
<1>3. /\ Record(a) = [holder |-> a, expires_at |-> now[a] + TTL]
      /\ Record(a) \in LeaseRecords /\ Record(a).holder = a
  BY <1>1, RecordType DEF Record
<1> USE DEF Start, End, Continue, Believe
<1>4. CASE Acquire(a) \/ Renew(a) \/ Release(a)
  BY <1>1, <1>2, <1>4 DEF Acquire, Renew, Release, NodeInv
<1>5. CASE Create(a)
  BY <1>1, <1>2, <1>5 DEF Create, NodeInv
<1>6. CASE Write(a)
  BY <1>1, <1>2, <1>3, <1>6 DEF Write, NodeInv
<1>7. CASE Read(a)
  BY <1>1, <1>2, <1>7 DEF Read, NodeInv, Parsable, Expired, Mine, Guarded
<1>8. CASE Rename(a) \/ RenewRename(a)
  BY <1>1, <1>2, <1>3, <1>8 DEF Rename, RenewRename, NodeInv
<1>9. CASE RenewRead(a)
  BY <1>1, <1>2, <1>9 DEF RenewRead, NodeInv, Parsable, Expired, Mine
<1>10. CASE ReleaseRead(a)
  BY <1>1, <1>2, <1>10 DEF ReleaseRead, NodeInv, Parsable, Mine
<1>11. CASE ReleaseRemove(a)
  BY <1>1, <1>2, <1>11 DEF ReleaseRemove, NodeInv
<1>12. CASE Fault(a)
  BY <1>1, <1>2, <1>12 DEF Fault, NodeInv
<1> QED
  BY <1>4, <1>5, <1>6, <1>7, <1>8, <1>9, <1>10, <1>11, <1>12 DEF Operations

LEMMA InitIInv == Init => IInv
  BY DEF Init, IInv, TypeOK, Alone, Busy, NodeInv, Steps

LEMMA TickIInv == IInv /\ Tick => IInv'
<1> SUFFICES ASSUME IInv, Tick PROVE IInv'
  OBVIOUS
<1>1. clock \in Nat /\ clock' = clock + 1 /\ UNCHANGED <<file, pc, now, held>>
  BY DEF Tick, IInv, TypeOK
<1>2. TypeOK' /\ Alone'
  BY <1>1 DEF IInv, TypeOK, Alone, Busy
<1>3. ASSUME NEW n \in Nodes PROVE NodeInv(n)'
  <2>1. NodeInv(n) /\ now[n] \in Nat /\ held[n] \in Nat
    BY DEF IInv, TypeOK
  <2> QED
    BY <1>1, <2>1 DEF NodeInv, Parsable, Expired, Mine
<1> QED
  BY <1>2, <1>3 DEF IInv

LEMMA NextIInv == Guarded /\ IInv /\ [Next]_vars => IInv'
<1> SUFFICES ASSUME Guarded, IInv, [Next]_vars PROVE IInv'
  OBVIOUS
<1>1. CASE UNCHANGED vars
  BY <1>1 DEF vars, IInv, TypeOK, Alone, Busy, NodeInv, Parsable, Expired,
     Mine
<1>2. CASE Finished
  BY <1>1, <1>2 DEF Finished
<1>3. CASE Tick
  BY <1>3, TickIInv
<1>4. CASE \E a \in Nodes : Operations(a)
  <2>1. PICK a \in Nodes : Operations(a)
    BY <1>4
  <2>2. TypeOK' /\ Alone'
    BY <2>1, OperationType, AloneStays DEF IInv
  <2>3. \A n \in Nodes : NodeInv(n)'
    BY <2>1, OwnInv, OthersInv
  <2> QED
    BY <2>2, <2>3 DEF IInv
<1> QED
  BY <1>1, <1>2, <1>3, <1>4 DEF Next, Operations

-----------------------------------------------------------------------------
(* The theorems.                                                           *)

LEMMA Invariance == Guarded => (Spec => []IInv)
<1>1. ASSUME Guarded PROVE Spec => []IInv
  <2>1. IInv /\ [Next]_vars => IInv'
    BY <1>1, NextIInv
  <2> QED
    BY <2>1, InitIInv, PTL DEF Spec
<1> QED
  BY <1>1

\* Every variable keeps its type, also when operations overlap and files cannot
\* be read.
THEOREM TypesHold == Spec => []TypeOK
<1>1. Init => TypeOK
  BY InitIInv DEF IInv
<1>2. TypeOK /\ [Next]_vars => TypeOK'
  <2> SUFFICES ASSUME TypeOK, [Next]_vars PROVE TypeOK'
    OBVIOUS
  <2>1. CASE UNCHANGED vars
    BY <2>1 DEF vars, TypeOK
  <2>2. CASE Finished
    BY <2>1, <2>2 DEF Finished
  <2>3. CASE Tick
    BY <2>3 DEF Tick, TypeOK
  <2>4. CASE \E a \in Nodes : Operations(a)
    BY <2>4, OperationType
  <2> QED
    BY <2>1, <2>2, <2>3, <2>4 DEF Next, Operations
<1> QED
  BY <1>1, <1>2, PTL DEF Spec

\* The single-writer guarantee on one directory: as long as operations do not
\* overlap and acquire_lease can read the lease files that are there, no two
\* nodes believe at the same time that the cell is theirs, whatever other
\* calls fail and whatever files dead nodes leave behind.
THEOREM SingleWriter == Guarded => (Spec => []MutualExclusion)
<1>1. IInv => MutualExclusion
  BY DEF IInv, NodeInv, MutualExclusion, L!MutualExclusion, L!Holds
<1>2. ASSUME Guarded PROVE Spec => []MutualExclusion
  BY <1>1, <1>2, Invariance, PTL
<1> QED
  BY <1>2

\* Every operation grants a lease only when no other runs, gives one up, or
\* does neither.
LEMMA OperationRefines ==
    ASSUME IInv, NEW a \in Nodes, Operations(a)
    PROVE  [L!Next]_(L!vars)
<1>1. /\ clock \in Nat /\ held \in [Nodes -> Nat] /\ clock' = clock
      /\ now[a] + TTL \in Nat /\ now[a] + TTL <= clock + TTL
  <2>1. /\ TypeOK /\ NodeInv(a) /\ now[a] \in Nat /\ TTL \in Nat
        /\ clock \in Nat
    BY TTLAssumption DEF IInv, TypeOK
  <2>2. now[a] <= clock
    BY <2>1 DEF NodeInv
  <2> QED
    BY <2>1, <2>2, OperationFrame DEF TypeOK
<1>2. \/ held' = held
      \/ held' = [held EXCEPT ![a] = 0]
      \/ file' = Record(a) /\ held' = [held EXCEPT ![a] = now[a] + TTL]
  <2>1. pc[a] = "write" => file = [creator |-> a]
    BY DEF IInv, NodeInv
  <2> QED
    BY <2>1 DEF Operations, Acquire, Create, Write, Read, Rename, Renew,
       RenewRead, RenewRename, Release, ReleaseRead, ReleaseRemove, Fault,
       Believe
<1>3. CASE held' = held
  BY <1>1, <1>3 DEF L!vars
<1>4. CASE held' = [held EXCEPT ![a] = 0]
  BY <1>1, <1>4 DEF L!Next, L!Drop
<1>5. CASE file' = Record(a) /\ held' = [held EXCEPT ![a] = now[a] + TTL]
  <2>1. ASSUME NEW n \in Nodes \ {a} PROVE held[n] <= clock
    <3>1. held[n] > clock => file = [holder |-> n, expires_at |-> held[n]]
      BY DEF IInv, NodeInv
    <3>2. held[n] > clock => UNCHANGED file
      BY BelievedStays
    <3>3. file'.holder = a
      BY <1>5, RecordType DEF IInv
    <3>4. held[n] \in Nat
      BY <1>1
    <3> QED
      BY <1>1, <3>1, <3>2, <3>3, <3>4
  <2>2. L!Grant(a, now[a] + TTL)
    BY <1>1, <1>5, <2>1 DEF L!Grant
  <2>3. now[a] + TTL \in 0..(clock + TTL)
    BY <1>1, TTLAssumption
  <2> QED
    BY <2>2, <2>3 DEF L!Next
<1> QED
  BY <1>2, <1>3, <1>4, <1>5

\* The lease file implements the abstract lease, as long as operations do not
\* overlap and acquire_lease can read the lease files that are there.
THEOREM Refinement == Guarded => (Spec => LeaseSpec)
<1>1. Init => L!Init
  BY DEF Init, L!Init
<1>2. ASSUME IInv, [Next]_vars PROVE [L!Next]_(L!vars)
  <2>1. CASE UNCHANGED vars
    BY <2>1 DEF vars, L!vars
  <2>2. CASE Finished
    BY <2>1, <2>2 DEF Finished
  <2>3. CASE Tick
    BY <2>3 DEF Tick, L!Next, L!Tick
  <2>4. CASE \E a \in Nodes : Operations(a)
    BY <1>2, <2>4, OperationRefines
  <2> QED
    BY <1>2, <2>1, <2>2, <2>3, <2>4 DEF Next, Operations
<1>3. ASSUME Guarded PROVE Spec => LeaseSpec
  BY <1>1, <1>2, <1>3, Invariance, PTL DEF Spec, LeaseSpec, L!Spec
<1> QED
  BY <1>3

=============================================================================
