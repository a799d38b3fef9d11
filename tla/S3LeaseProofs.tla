---------------------------- MODULE S3LeaseProofs ----------------------------
(***************************************************************************)
(* Proofs about S3Lease, for every set of nodes and every value of the     *)
(* bounds, with faults and crashes.  They assume that a release deletes    *)
(* before the lease it read has run out: without it MutualExclusion fails. *)
(***************************************************************************)
EXTENDS S3Lease, TLAPS

Operations(n) ==
    \/ Acquire(n) \/ Create(n) \/ Get(n) \/ Update(n)
    \/ Renew(n) \/ RenewGet(n) \/ RenewUpdate(n)
    \/ Release(n) \/ ReleaseGet(n) \/ ReleaseDelete(n)
    \/ StoreFault(n) \/ Crash(n)

\* n counts on the record in the store: it believes in its lease, or it is
\* about to delete a lease of its own that still runs.
Relies(n) ==
    \/ held[n] > clock
    \/ pc[n] = "release_delete" /\ clock < seen[n].expires_at

\* What each node may take for granted between two of its requests.
NodeInv(n) ==
    /\ now[n] <= clock
    /\ held[n] > clock => obj = [holder |-> n, expires_at |-> held[n]]
    /\ pc[n] \notin {"idle", "renew_get", "renew_update"} => held[n] = 0
    /\ pc[n] = "update" =>
          /\ seen[n] \in LeaseRecords
          /\ seen[n].expires_at <= now[n] \/ seen[n].holder = n
    /\ pc[n] = "renew_update" => seen[n] \in LeaseRecords /\ seen[n].holder = n
    /\ pc[n] = "release_delete" =>
          /\ seen[n] \in LeaseRecords
          /\ seen[n].holder = n
          /\ clock < seen[n].expires_at => obj = seen[n]

IInv == TypeOK /\ \A n \in Nodes : NodeInv(n)

-----------------------------------------------------------------------------

\* Who relies on the record finds its own there, and it still runs.
LEMMA ReliedOn ==
    ASSUME IInv, NEW n \in Nodes, Relies(n)
    PROVE  /\ obj \in LeaseRecords
           /\ obj.holder = n
           /\ obj.expires_at > clock
<1>1. NodeInv(n) /\ held \in [Nodes -> Nat] /\ clock \in Nat
  BY DEF IInv, TypeOK
<1>2. CASE held[n] > clock
  <2>1. obj = [holder |-> n, expires_at |-> held[n]] /\ held[n] \in Nat
    BY <1>1, <1>2 DEF NodeInv
  <2> QED
    BY <1>2, <2>1 DEF LeaseRecords
<1>3. CASE pc[n] = "release_delete" /\ clock < seen[n].expires_at
  <2>1. obj = seen[n] /\ seen[n] \in LeaseRecords /\ seen[n].holder = n
    BY <1>1, <1>3 DEF NodeInv
  <2> QED
    BY <1>1, <1>3, <2>1 DEF LeaseRecords
<1> QED
  BY <1>2, <1>3 DEF Relies

\* The ways an operation of a can change the object.
Puts(a) ==
    /\ \/ pc[a] = "create" /\ obj = NoLease
       \/ pc[a] \in {"update", "renew_update"} /\ obj = seen[a]
    /\ obj' = Record(a)

Deletes(a) ==
    /\ pc[a] = "release_delete"
    /\ InTime(a)
    /\ obj' = NoLease

\* An operation touches the locals of its own node only, and the object in
\* one of these ways only.
LEMMA OperationFrame ==
    ASSUME TypeOK, NEW a \in Nodes, Operations(a)
    PROVE  /\ UNCHANGED clock
           /\ \A n \in Nodes \ {a} :
                UNCHANGED <<pc[n], now[n], seen[n], held[n]>>
           /\ UNCHANGED obj \/ Puts(a) \/ Deletes(a)
<1> USE DEF TypeOK, Start, End, Continue, Believe
<1>1. CASE Acquire(a) \/ Get(a) \/ Renew(a) \/ RenewGet(a) \/ Release(a)
           \/ ReleaseGet(a)
  BY <1>1 DEF Acquire, Get, Renew, RenewGet, Release, ReleaseGet
<1>2. CASE Create(a)
  BY <1>2 DEF Create, Puts
<1>3. CASE Update(a)
  BY <1>3 DEF Update, Puts
<1>4. CASE RenewUpdate(a)
  BY <1>4 DEF RenewUpdate, Puts
<1>5. CASE ReleaseDelete(a)
  BY <1>5 DEF ReleaseDelete, Deletes
<1>6. CASE StoreFault(a)
  BY <1>6 DEF StoreFault, Unheard, Puts, Deletes
<1>7. CASE Crash(a)
  BY <1>7 DEF Crash, Unheard, Puts, Deletes
<1> QED
  BY <1>1, <1>2, <1>3, <1>4, <1>5, <1>6, <1>7 DEF Operations

\* No operation changes the record while another node relies on it.
LEMMA ReliedOnStays ==
    ASSUME PromptRelease, IInv, NEW a \in Nodes, NEW n \in Nodes \ {a},
           Relies(n), Operations(a)
    PROVE  UNCHANGED obj
<1>1. /\ obj \in LeaseRecords
      /\ obj.holder = n
      /\ obj.expires_at > clock
  BY ReliedOn
<1>2. NodeInv(a) /\ clock \in Nat /\ now[a] \in Nat /\ obj.expires_at \in Nat
  BY <1>1 DEF IInv, TypeOK, LeaseRecords
<1>3. ~Puts(a)
  <2>1. obj # NoLease
    BY <1>1, NoLeaseAssumption
  <2>2. ~(pc[a] = "update" /\ obj = seen[a])
    BY <1>1, <1>2 DEF NodeInv
  <2>3. ~(pc[a] = "renew_update" /\ obj = seen[a])
    BY <1>1, <1>2 DEF NodeInv
  <2> QED
    BY <2>1, <2>2, <2>3 DEF Puts
<1>4. ~Deletes(a)
  BY <1>1, <1>2 DEF NodeInv, Deletes, InTime
<1> QED
  BY <1>3, <1>4, OperationFrame DEF IInv

\* So whatever the other nodes take for granted stays true.
LEMMA OthersInv ==
    ASSUME PromptRelease, IInv, NEW a \in Nodes, NEW n \in Nodes \ {a},
           Operations(a)
    PROVE  NodeInv(n)'
<1>1. UNCHANGED <<clock, pc[n], now[n], seen[n], held[n]>>
  BY OperationFrame DEF IInv
<1>2. Relies(n) => UNCHANGED obj
  BY ReliedOnStays
<1> QED
  BY <1>1, <1>2 DEF IInv, NodeInv, Relies

-----------------------------------------------------------------------------
(* The invariant, operation by operation, at the node that performs it.    *)

LEMMA RecordType ==
    ASSUME TypeOK, NEW a \in Nodes
    PROVE  /\ Record(a) \in LeaseRecords
           /\ Record(a).holder = a
           /\ Record(a).expires_at = now[a] + TTL
           /\ now[a] + TTL \in Nat
  BY TTLAssumption DEF TypeOK, Record, LeaseRecords

LEMMA OperationType ==
    ASSUME TypeOK, NEW a \in Nodes, Operations(a)
    PROVE  TypeOK'
<1> USE DEF TypeOK, Start, End, Continue, Believe, Steps
<1>1. Record(a) \in LeaseRecords /\ now[a] + TTL \in Nat
  BY RecordType
<1>2. CASE Acquire(a)
  BY <1>2 DEF Acquire
<1>3. CASE Create(a)
  BY <1>1, <1>3 DEF Create
<1>4. CASE Get(a)
  BY <1>4 DEF Get
<1>5. CASE Update(a)
  BY <1>1, <1>5 DEF Update
<1>6. CASE Renew(a)
  BY <1>6 DEF Renew
<1>7. CASE RenewGet(a)
  BY <1>7 DEF RenewGet
<1>8. CASE RenewUpdate(a)
  BY <1>1, <1>8 DEF RenewUpdate
<1>9. CASE Release(a)
  BY <1>9 DEF Release
<1>10. CASE ReleaseGet(a)
  BY <1>10 DEF ReleaseGet
<1>11. CASE ReleaseDelete(a)
  BY <1>11 DEF ReleaseDelete
<1>12. CASE StoreFault(a)
  BY <1>1, <1>12 DEF StoreFault, Unheard
<1>13. CASE Crash(a)
  BY <1>1, <1>13 DEF Crash, Unheard
<1> QED
  BY <1>2, <1>3, <1>4, <1>5, <1>6, <1>7, <1>8, <1>9, <1>10, <1>11, <1>12,
     <1>13 DEF Operations

LEMMA OwnInv ==
    ASSUME IInv, NEW a \in Nodes, Operations(a)
    PROVE  NodeInv(a)'
<1>1. NodeInv(a) /\ TypeOK
  BY DEF IInv
<1>2. /\ clock \in Nat /\ held \in [Nodes -> Nat] /\ now \in [Nodes -> Nat]
      /\ pc \in [Nodes -> Steps]
      /\ seen \in [Nodes -> LeaseRecords \cup {NoLease}]
      /\ obj \in LeaseRecords \cup {NoLease}
  BY <1>1 DEF TypeOK
<1> USE DEF Start, End, Continue, Believe
<1>3. CASE Acquire(a)
  BY <1>1, <1>2, <1>3 DEF Acquire, NodeInv
<1>4. CASE Create(a)
  BY <1>1, <1>2, <1>4 DEF Create, NodeInv, Record
<1>5. CASE Get(a)
  BY <1>1, <1>2, <1>5 DEF Get, Takeable, NodeInv
<1>6. CASE Update(a)
  BY <1>1, <1>2, <1>6 DEF Update, NodeInv, Record
<1>7. CASE Renew(a)
  BY <1>1, <1>2, <1>7 DEF Renew, NodeInv
<1>8. CASE RenewGet(a)
  BY <1>1, <1>2, <1>8 DEF RenewGet, Renewable, Mine, NodeInv
<1>9. CASE RenewUpdate(a)
  BY <1>1, <1>2, <1>9 DEF RenewUpdate, NodeInv, Record
<1>10. CASE Release(a)
  BY <1>1, <1>2, <1>10 DEF Release, NodeInv
<1>11. CASE ReleaseGet(a)
  BY <1>1, <1>2, <1>11 DEF ReleaseGet, Mine, NodeInv
<1>12. CASE ReleaseDelete(a)
  BY <1>1, <1>2, <1>12 DEF ReleaseDelete, NodeInv
<1>13. CASE StoreFault(a)
  BY <1>1, <1>2, <1>13 DEF StoreFault, NodeInv
<1>14. CASE Crash(a)
  BY <1>1, <1>2, <1>14 DEF Crash, NodeInv
<1> QED
  BY <1>3, <1>4, <1>5, <1>6, <1>7, <1>8, <1>9, <1>10, <1>11, <1>12, <1>13,
     <1>14 DEF Operations

LEMMA InitIInv == Init => IInv
  BY DEF Init, IInv, TypeOK, NodeInv, Steps

LEMMA TickIInv == IInv /\ Tick => IInv'
<1> SUFFICES ASSUME IInv, Tick PROVE IInv'
  OBVIOUS
<1>1. clock \in Nat /\ clock' = clock + 1 /\ UNCHANGED <<obj, pc, now, seen, held>>
  BY DEF Tick, IInv, TypeOK
<1>2. TypeOK'
  BY <1>1 DEF IInv, TypeOK
<1>3. ASSUME NEW n \in Nodes PROVE NodeInv(n)'
  <2>1. /\ NodeInv(n)
        /\ now[n] \in Nat /\ held[n] \in Nat
        /\ seen[n] \in LeaseRecords => seen[n].expires_at \in Nat
    BY DEF IInv, TypeOK, LeaseRecords
  <2> QED
    BY <1>1, <2>1 DEF NodeInv
<1> QED
  BY <1>2, <1>3 DEF IInv

LEMMA NextIInv == PromptRelease /\ IInv /\ [Next]_vars => IInv'
<1> SUFFICES ASSUME PromptRelease, IInv, [Next]_vars PROVE IInv'
  OBVIOUS
<1>1. CASE UNCHANGED vars
  BY <1>1 DEF vars, IInv, TypeOK, NodeInv
<1>2. CASE Finished
  BY <1>1, <1>2 DEF Finished
<1>3. CASE Tick
  BY <1>3, TickIInv
<1>4. CASE \E a \in Nodes : Operations(a)
  <2>1. PICK a \in Nodes : Operations(a)
    BY <1>4
  <2>2. TypeOK'
    BY <2>1, OperationType DEF IInv
  <2>3. \A n \in Nodes : NodeInv(n)'
    BY <2>1, OwnInv, OthersInv
  <2> QED
    BY <2>2, <2>3 DEF IInv
<1> QED
  BY <1>1, <1>2, <1>3, <1>4 DEF Next, Operations

-----------------------------------------------------------------------------
(* The theorems.                                                           *)

LEMMA Invariance == PromptRelease => (Spec => []IInv)
<1>1. ASSUME PromptRelease PROVE Spec => []IInv
  <2>1. IInv /\ [Next]_vars => IInv'
    BY <1>1, NextIInv
  <2> QED
    BY <2>1, InitIInv, PTL DEF Spec
<1> QED
  BY <1>1

\* What a node believes of its lease is on record as long as it runs.
THEOREM BeliefStaysRecorded == PromptRelease => (Spec => []BeliefIsRecorded)
<1>1. IInv => BeliefIsRecorded
  BY DEF IInv, NodeInv, BeliefIsRecorded
<1>2. ASSUME PromptRelease PROVE Spec => []BeliefIsRecorded
  BY <1>1, <1>2, Invariance, PTL
<1> QED
  BY <1>2

\* The single-writer guarantee: whatever the interleaving of the requests,
\* their failures, the crashes and the pauses between them, no two nodes
\* believe at the same time that the cell is theirs.
THEOREM SingleWriter == PromptRelease => (Spec => []MutualExclusion)
<1>1. IInv => MutualExclusion
  BY DEF IInv, NodeInv, MutualExclusion, L!MutualExclusion, L!Holds
<1>2. ASSUME PromptRelease PROVE Spec => []MutualExclusion
  BY <1>1, <1>2, Invariance, PTL
<1> QED
  BY <1>2

\* Every operation grants a lease only when no other runs, gives one up, or
\* does neither.
LEMMA OperationRefines ==
    ASSUME PromptRelease, IInv, NEW a \in Nodes, Operations(a)
    PROVE  [L!Next]_(L!vars)
<1>1. /\ clock \in Nat /\ held \in [Nodes -> Nat] /\ clock' = clock
      /\ NodeInv(a) /\ now[a] + TTL \in Nat /\ now[a] + TTL <= clock + TTL
  <2>1. /\ TypeOK /\ NodeInv(a) /\ now[a] \in Nat /\ TTL \in Nat
        /\ clock \in Nat
    BY TTLAssumption DEF IInv, TypeOK
  <2>2. now[a] <= clock
    BY <2>1 DEF NodeInv
  <2> QED
    BY <2>1, <2>2, OperationFrame DEF TypeOK
<1>2. \/ held' = held
      \/ held' = [held EXCEPT ![a] = 0]
      \/ Puts(a) /\ held' = [held EXCEPT ![a] = now[a] + TTL]
  BY DEF Operations, Acquire, Create, Get, Update, Renew, RenewGet,
         RenewUpdate, Release, ReleaseGet, ReleaseDelete, StoreFault, Crash,
         Believe, Puts
<1>3. CASE held' = held
  BY <1>1, <1>3 DEF L!vars
<1>4. CASE held' = [held EXCEPT ![a] = 0]
  BY <1>1, <1>4 DEF L!Next, L!Drop
<1>5. CASE Puts(a) /\ held' = [held EXCEPT ![a] = now[a] + TTL]
  <2>1. ASSUME NEW n \in Nodes \ {a} PROVE held[n] <= clock
    <3>1. held[n] > clock => obj \in LeaseRecords /\ obj.holder = n
                             /\ obj.expires_at > clock /\ Relies(n)
      BY ReliedOn DEF Relies
    <3>2. held[n] > clock => UNCHANGED obj
      BY <3>1, ReliedOnStays
    <3>3. obj' = Record(a) /\ Record(a).holder = a
      BY <1>5, RecordType DEF Puts, IInv
    <3> QED
      BY <1>1, <3>1, <3>2, <3>3
  <2>2. L!Grant(a, now[a] + TTL)
    BY <1>1, <1>5, <2>1 DEF L!Grant
  <2>3. now[a] + TTL \in 0..(clock + TTL)
    BY <1>1, TTLAssumption
  <2> QED
    BY <2>2, <2>3 DEF L!Next
<1> QED
  BY <1>2, <1>3, <1>4, <1>5

\* The protocol implements the abstract lease.
THEOREM Refinement == PromptRelease => (Spec => LeaseSpec)
<1>1. Init => L!Init
  BY DEF Init, L!Init
<1>2. ASSUME PromptRelease, IInv, [Next]_vars PROVE [L!Next]_(L!vars)
  <2>1. CASE UNCHANGED vars
    BY <2>1 DEF vars, L!vars
  <2>2. CASE Finished
    BY <2>1, <2>2 DEF Finished
  <2>3. CASE Tick
    BY <2>3 DEF Tick, L!Next, L!Tick
  <2>4. CASE \E a \in Nodes : Operations(a)
    BY <1>2, <2>4, OperationRefines
  <2> QED
    BY <1>2, <2>1, <2>2, <2>3, <2>4 DEF Next, Operations
<1>3. ASSUME PromptRelease PROVE Spec => LeaseSpec
  <2>1. IInv /\ [Next]_vars => [L!Next]_(L!vars)
    BY <1>2, <1>3
  <2> QED
    BY <1>1, <1>3, <2>1, Invariance, PTL DEF Spec, LeaseSpec, L!Spec
<1> QED
  BY <1>3

\* Every variable keeps its type, whenever a release deletes.
THEOREM TypesHold == Spec => []TypeOK
<1>1. Init => TypeOK
  BY InitIInv DEF IInv
<1>2. TypeOK /\ [Next]_vars => TypeOK'
  <2> SUFFICES ASSUME TypeOK, [Next]_vars PROVE TypeOK'
    OBVIOUS
  <2>1. CASE UNCHANGED vars
    BY <2>1 DEF vars, TypeOK
  <2>2. CASE Finished
    BY <2>1, <2>2 DEF Finished
  <2>3. CASE Tick
    BY <2>3 DEF Tick, TypeOK
  <2>4. CASE \E a \in Nodes : Operations(a)
    BY <2>4, OperationType
  <2> QED
    BY <2>1, <2>2, <2>3, <2>4 DEF Next, Operations
<1> QED
  BY <1>1, <1>2, PTL DEF Spec

\* A record that still runs is written over by its own holder only: what was
\* read of it may be as old as one likes, the ETag and the clock that was read
\* before it say enough.
THEOREM RunningRecordStays == PromptRelease => (Spec => TakenOnlyWhenExpired)
<1> DEFINE Stays == obj # NoLease /\ obj' # NoLease /\ obj.expires_at > clock
                      => obj'.holder = obj.holder
<1>1. ASSUME IInv, NEW a \in Nodes, Operations(a), obj # NoLease,
             obj' # NoLease, obj.expires_at > clock
      PROVE  obj'.holder = obj.holder
  <2>1. /\ NodeInv(a) /\ TypeOK
        /\ clock \in Nat /\ now[a] \in Nat
        /\ obj \in LeaseRecords /\ obj.expires_at \in Nat
    BY <1>1 DEF IInv, TypeOK, LeaseRecords
  <2>2. CASE Puts(a)
    <3>1. obj = seen[a] /\ pc[a] \in {"update", "renew_update"}
      BY <1>1, <2>2 DEF Puts
    <3>2. seen[a].holder = a
      BY <1>1, <2>1, <3>1 DEF NodeInv
    <3>3. obj' = Record(a) /\ Record(a).holder = a
      BY <2>1, <2>2, RecordType DEF Puts
    <3> QED
      BY <3>1, <3>2, <3>3
  <2>3. CASE Deletes(a)
    BY <1>1, <2>3 DEF Deletes
  <2> QED
    BY <1>1, <2>1, <2>2, <2>3, OperationFrame
<1>2. IInv /\ [Next]_vars => [Stays]_vars
  BY <1>1 DEF Next, Operations, Tick, Finished, vars
<1>3. ASSUME PromptRelease PROVE Spec => [][Stays]_vars
  BY <1>2, <1>3, Invariance, PTL DEF Spec
<1> QED
  BY <1>3 DEF TakenOnlyWhenExpired

=============================================================================
