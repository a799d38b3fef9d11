------------------------------ MODULE S3Lease ------------------------------
(***************************************************************************)
(* The lease of one cell in an object store (S3BlobStore in                *)
(* src/src/storage/blob.rs): acquire_lease, renew_lease and release_lease  *)
(* as the sequences of store requests that they are.  Each request is one  *)
(* action, so the requests of the nodes interleave, time passes between    *)
(* them, and any of them may fail, before or after it took effect.         *)
(*                                                                         *)
(* A lease object's ETag is a function of its content, so the model        *)
(* compares contents.  A node runs one lease operation at a time: what its *)
(* manager may overlap is not modelled here.                               *)
(***************************************************************************)
EXTENDS Integers

CONSTANTS
    Nodes, TTL,
    NoLease,       \* the lease object does not exist
    MaxClock,      \* bound: the last instant
    StoreFaults,   \* TRUE: a store request may fail
    Crashes,       \* TRUE: a node may die
    PromptRelease  \* TRUE: a release deletes before the lease it read ends

ASSUME TTLAssumption == TTL \in Nat \ {0}

ASSUME BoundsAssumption ==
    /\ MaxClock \in Nat
    /\ StoreFaults \in BOOLEAN
    /\ Crashes \in BOOLEAN
    /\ PromptRelease \in BOOLEAN

VARIABLES
    clock, \* Utc::now(), the same on every node
    obj,   \* the object lease_obj_path(key): NoLease or a LeaseRecord
    pc,    \* for each node, the store request that it sends next
    now,   \* for each node, the time it read when its operation began
    seen,  \* for each node, the LeaseRecord that it has got
    held   \* for each node, the end of the lease it believes it holds, or 0

vars == <<clock, obj, pc, now, seen, held>>

LeaseRecords == [holder : Nodes, expires_at : Nat]

ASSUME NoLeaseAssumption == NoLease \notin LeaseRecords

Steps == {"idle", "create", "get", "update", "renew_get", "renew_update",
          "release_get", "release_delete", "dead"}

TypeOK ==
    /\ clock \in Nat
    /\ obj \in LeaseRecords \cup {NoLease}
    /\ pc \in [Nodes -> Steps]
    /\ now \in [Nodes -> Nat]
    /\ seen \in [Nodes -> LeaseRecords \cup {NoLease}]
    /\ held \in [Nodes -> Nat]

\* Mutant of Record: the time to live is subtracted.
RecordInThePast(n) == [holder |-> n, expires_at |-> now[n] - TTL]

\* The record that n writes: it counts from the time it began.
Record(n) == [holder |-> n, expires_at |-> now[n] + TTL]

Init ==
    /\ clock = 0
    /\ obj = NoLease
    /\ pc = [n \in Nodes |-> "idle"]
    /\ now = [n \in Nodes |-> 0]
    /\ seen = [n \in Nodes |-> NoLease]
    /\ held = [n \in Nodes |-> 0]

Believe(n, until) == held' = [held EXCEPT ![n] = until]

\* An operation begins by reading the clock, and ends with its locals gone.
Start(n, step) ==
    /\ pc[n] = "idle"
    /\ now' = [now EXCEPT ![n] = clock]
    /\ pc' = [pc EXCEPT ![n] = step]

End(n, step) ==
    /\ pc' = [pc EXCEPT ![n] = step]
    /\ now' = [now EXCEPT ![n] = 0]
    /\ seen' = [seen EXCEPT ![n] = NoLease]

\* A get answers, and the operation goes on to its next request.
Continue(n, step) ==
    /\ pc' = [pc EXCEPT ![n] = step]
    /\ seen' = [seen EXCEPT ![n] = obj]
    /\ UNCHANGED now

-----------------------------------------------------------------------------
(* acquire_lease, called when the cell is not active on the node.          *)

Acquire(n) ==
    /\ held[n] = 0
    /\ Start(n, "create")
    /\ UNCHANGED <<clock, obj, seen, held>>

\* Mutant of Create: a put that overwrites.
CreateOverwrites(n) ==
    /\ pc[n] = "create"
    /\ obj' = Record(n)
    /\ Believe(n, now[n] + TTL)
    /\ End(n, "idle")
    /\ UNCHANGED clock

\* PutMode::Create: If-None-Match.
Create(n) ==
    /\ pc[n] = "create"
    /\ \/ /\ obj = NoLease
          /\ obj' = Record(n)
          /\ Believe(n, now[n] + TTL)
          /\ End(n, "idle")
       \/ /\ obj # NoLease
          /\ pc' = [pc EXCEPT ![n] = "get"]
          /\ UNCHANGED <<obj, held, now, seen>>
    /\ UNCHANGED clock

Mine(n) == obj # NoLease /\ obj.holder = n

\* Mutant of Takeable: the lease of another is taken before its last instant.
TakeableOffByOne(n) ==
    /\ obj # NoLease
    /\ obj.expires_at <= now[n] + 1 \/ obj.holder = n

\* The record there is n's own, or it had run out when the operation began.
Takeable(n) ==
    /\ obj # NoLease
    /\ obj.expires_at <= now[n] \/ obj.holder = n

Get(n) ==
    /\ pc[n] = "get"
    /\ \/ Takeable(n) /\ Continue(n, "update")
       \/ ~Takeable(n) /\ End(n, "idle")
    /\ UNCHANGED <<clock, obj, held>>

\* Mutant of Update: a put without If-Match.
UpdateBlindly(n) ==
    /\ pc[n] = "update"
    /\ obj' = Record(n)
    /\ Believe(n, now[n] + TTL)
    /\ End(n, "idle")
    /\ UNCHANGED clock

\* PutMode::Update: If-Match the ETag that was got.
Update(n) ==
    /\ pc[n] = "update"
    /\ \/ /\ obj = seen[n]
          /\ obj' = Record(n)
          /\ Believe(n, now[n] + TTL)
       \/ /\ obj # seen[n]
          /\ UNCHANGED <<obj, held>>
    /\ End(n, "idle")
    /\ UNCHANGED clock

-----------------------------------------------------------------------------
(* renew_lease, called by renew_active_leases for an active cell: unless   *)
(* it returns true the manager drops and fences the cell.                  *)

Renew(n) ==
    /\ held[n] # 0
    /\ Start(n, "renew_get")
    /\ UNCHANGED <<clock, obj, seen, held>>

Renewable(n) == Mine(n) /\ obj.expires_at > now[n]

RenewGet(n) ==
    /\ pc[n] = "renew_get"
    /\ \/ /\ Renewable(n)
          /\ Continue(n, "renew_update")
          /\ UNCHANGED held
       \/ /\ ~Renewable(n)
          /\ Believe(n, 0)
          /\ End(n, "idle")
    /\ UNCHANGED <<clock, obj>>

\* Mutant of RenewUpdate: a failed precondition is taken for success.
RenewUpdateAnyway(n) ==
    /\ pc[n] = "renew_update"
    /\ obj' = IF obj = seen[n] THEN Record(n) ELSE obj
    /\ Believe(n, now[n] + TTL)
    /\ End(n, "idle")
    /\ UNCHANGED clock

RenewUpdate(n) ==
    /\ pc[n] = "renew_update"
    /\ \/ /\ obj = seen[n]
          /\ obj' = Record(n)
          /\ Believe(n, now[n] + TTL)
       \/ /\ obj # seen[n]
          /\ Believe(n, 0)
          /\ UNCHANGED obj
    /\ End(n, "idle")
    /\ UNCHANGED clock

-----------------------------------------------------------------------------
(* release_lease, the last step of evict_cell, of an active cell or not.   *)

Release(n) ==
    /\ Start(n, "release_get")
    /\ Believe(n, 0)
    /\ UNCHANGED <<clock, obj, seen>>

ReleaseGet(n) ==
    /\ pc[n] = "release_get"
    /\ \/ Mine(n) /\ Continue(n, "release_delete")
       \/ ~Mine(n) /\ End(n, "idle")
    /\ UNCHANGED <<clock, obj, held>>

\* The delete has no condition: it takes whatever object is there by then.
InTime(n) == PromptRelease => clock < seen[n].expires_at

ReleaseDelete(n) ==
    /\ pc[n] = "release_delete"
    /\ InTime(n)
    /\ obj' = NoLease
    /\ End(n, "idle")
    /\ UNCHANGED <<clock, held>>

-----------------------------------------------------------------------------
(* What can go wrong.                                                      *)

\* The store took the request or it did not; the node never hears.
Unheard(n) ==
    \/ UNCHANGED obj
    \/ /\ \/ pc[n] = "create" /\ obj = NoLease
          \/ pc[n] \in {"update", "renew_update"} /\ obj = seen[n]
       /\ obj' = Record(n)
    \/ /\ pc[n] = "release_delete"
       /\ InTime(n)
       /\ obj' = NoLease

\* The request fails.  A failed acquire is no lease, a failed renewal fences,
\* a failed release is ignored.
StoreFault(n) ==
    /\ StoreFaults
    /\ pc[n] \notin {"idle", "dead"}
    /\ Unheard(n)
    /\ Believe(n, 0)
    /\ End(n, "idle")
    /\ UNCHANGED clock

\* The node dies; its id is never used again.
Crash(n) ==
    /\ Crashes
    /\ pc[n] # "dead"
    /\ Unheard(n)
    /\ Believe(n, 0)
    /\ End(n, "dead")
    /\ UNCHANGED clock

Tick ==
    /\ clock < MaxClock
    /\ clock' = clock + 1
    /\ UNCHANGED <<obj, pc, now, seen, held>>

\* The bound on time is reached: no deadlock.
Finished ==
    /\ clock = MaxClock
    /\ UNCHANGED vars

-----------------------------------------------------------------------------

Next ==
    \/ \E n \in Nodes :
        \/ Acquire(n)
        \/ Create(n)
        \/ Get(n)
        \/ Update(n)
        \/ Renew(n)
        \/ RenewGet(n)
        \/ RenewUpdate(n)
        \/ Release(n)
        \/ ReleaseGet(n)
        \/ ReleaseDelete(n)
        \/ StoreFault(n)
        \/ Crash(n)
    \/ Tick
    \/ Finished

Spec == Init /\ [][Next]_vars

-----------------------------------------------------------------------------
(* What the protocol guarantees.                                           *)

L == INSTANCE Lease WITH grant <- held

\* No two nodes believe at the same time that the cell is theirs to write.
MutualExclusion == L!MutualExclusion

\* The protocol is a lease in the sense of the abstract specification.
LeaseSpec == L!Spec

\* A lease that a node believes in is the one on record, to the instant, until
\* it ends: nobody else's request replaces or removes it before.
BeliefIsRecorded ==
    \A n \in Nodes :
        held[n] > clock => obj = [holder |-> n, expires_at |-> held[n]]

\* A record that still runs is written over by its own holder only, whatever
\* was read how long ago.
TakenOnlyWhenExpired ==
    [][obj # NoLease /\ obj' # NoLease /\ obj.expires_at > clock =>
          obj'.holder = obj.holder]_vars

=============================================================================
