------------------------------ MODULE LocalLease ------------------------------
(***************************************************************************)
(* The lease of one cell in a directory (LocalBlobStore in                 *)
(* src/src/storage/blob.rs).  Each action is one file system call.  The    *)
(* nodes are processes that share the directory.                           *)
(*                                                                         *)
(* Creating the lease file and writing the record into it are two calls:   *)
(* in between, the file is there and empty.  Replacing it is the rename of *)
(* a temporary file, on no condition.                                      *)
(***************************************************************************)
EXTENDS Integers

CONSTANTS
    Nodes, TTL,
    Absent,      \* there is no lease file
    MaxClock,    \* bound: the last instant
    Faults,      \* TRUE: a call may fail, a node may die
    Unreadable,  \* TRUE: acquire_lease may fail to read a lease file
    Overlap      \* TRUE: the operations of different nodes may overlap

ASSUME TTLAssumption == TTL \in Nat \ {0}

ASSUME BoundsAssumption ==
    /\ MaxClock \in Nat
    /\ Faults \in BOOLEAN
    /\ Unreadable \in BOOLEAN
    /\ Overlap \in BOOLEAN

VARIABLES
    clock, \* Utc::now(), the same on every node
    file,  \* the file lease_path(key): Absent, empty, or with a record
    pc,    \* for each node, the file system call it makes next
    now,   \* for each node, the time it read when its operation began
    held   \* for each node, the end of the lease it believes it holds, or 0

vars == <<clock, file, pc, now, held>>

LeaseRecords == [holder : Nodes, expires_at : Nat]

\* An empty file, which its creator has open and is about to write.
EmptyFiles == [creator : Nodes]

ASSUME AbsentAssumption == Absent \notin LeaseRecords \cup EmptyFiles

Steps == {"idle", "create", "write", "read", "rename",
          "renew_read", "renew_rename", "release_read", "release_remove",
          "dead"}

TypeOK ==
    /\ clock \in Nat
    /\ file \in LeaseRecords \cup EmptyFiles \cup {Absent}
    /\ pc \in [Nodes -> Steps]
    /\ now \in [Nodes -> Nat]
    /\ held \in [Nodes -> Nat]

\* Mutant of Record: the time to live is subtracted.
RecordInThePast(n) == [holder |-> n, expires_at |-> now[n] - TTL]

Record(n) == [holder |-> n, expires_at |-> now[n] + TTL]

Init ==
    /\ clock = 0
    /\ file = Absent
    /\ pc = [n \in Nodes |-> "idle"]
    /\ now = [n \in Nodes |-> 0]
    /\ held = [n \in Nodes |-> 0]

Believe(n, until) == held' = [held EXCEPT ![n] = until]

Start(n, step) ==
    /\ pc[n] = "idle"
    /\ Overlap \/ \A m \in Nodes : pc[m] \in {"idle", "dead"}
    /\ now' = [now EXCEPT ![n] = clock]
    /\ pc' = [pc EXCEPT ![n] = step]

Continue(n, step) ==
    /\ pc' = [pc EXCEPT ![n] = step]
    /\ UNCHANGED now

End(n, step) ==
    /\ pc' = [pc EXCEPT ![n] = step]
    /\ now' = [now EXCEPT ![n] = 0]

Parsable == file \in LeaseRecords

Mine(n) == Parsable /\ file.holder = n

Expired(n) == Parsable /\ file.expires_at <= now[n]

-----------------------------------------------------------------------------
(* acquire_lease                                                           *)

Acquire(n) ==
    /\ held[n] = 0
    /\ Start(n, "create")
    /\ UNCHANGED <<clock, file, held>>

\* O_CREAT | O_EXCL.  Whatever error it ends with, the file is read next.
Create(n) ==
    /\ pc[n] = "create"
    /\ \/ /\ file = Absent
          /\ file' = [creator |-> n]
          /\ Continue(n, "write")
       \/ /\ file # Absent \/ Faults
          /\ Continue(n, "read")
          /\ UNCHANGED file
    /\ UNCHANGED <<clock, held>>

\* The record goes into the file that n created.  If another has been renamed
\* over it or it was removed, nobody will read it, but n is told true.
Write(n) ==
    /\ pc[n] = "write"
    /\ file' = IF file = [creator |-> n] THEN Record(n) ELSE file
    /\ Believe(n, now[n] + TTL)
    /\ End(n, "idle")
    /\ UNCHANGED clock

\* Mutant of Read: the record is not looked at.
ReadIgnored(n) ==
    /\ pc[n] = "read"
    /\ Continue(n, "rename")
    /\ UNCHANGED <<clock, file, held>>

\* A file that is gone, or has no record in it, denies nobody, and neither
\* does one that cannot be read: the error is taken for a file without one.
Read(n) ==
    /\ pc[n] = "read"
    /\ \/ /\ Parsable /\ ~Expired(n) /\ ~Mine(n)
          /\ End(n, "idle")
       \/ /\ ~Parsable \/ Expired(n) \/ Mine(n) \/ Unreadable
          /\ Continue(n, "rename")
    /\ UNCHANGED <<clock, file, held>>

Rename(n) ==
    /\ pc[n] = "rename"
    /\ file' = Record(n)
    /\ Believe(n, now[n] + TTL)
    /\ End(n, "idle")
    /\ UNCHANGED clock

-----------------------------------------------------------------------------
(* renew_lease                                                             *)

Renew(n) ==
    /\ held[n] # 0
    /\ Start(n, "renew_read")
    /\ UNCHANGED <<clock, file, held>>

RenewRead(n) ==
    /\ pc[n] = "renew_read"
    /\ \/ /\ Mine(n) /\ ~Expired(n)
          /\ Continue(n, "renew_rename")
          /\ UNCHANGED held
       \/ /\ ~Mine(n) \/ Expired(n)
          /\ Believe(n, 0)
          /\ End(n, "idle")
    /\ UNCHANGED <<clock, file>>

RenewRename(n) ==
    /\ pc[n] = "renew_rename"
    /\ file' = Record(n)
    /\ Believe(n, now[n] + TTL)
    /\ End(n, "idle")
    /\ UNCHANGED clock

-----------------------------------------------------------------------------
(* release_lease                                                           *)

Release(n) ==
    /\ Start(n, "release_read")
    /\ Believe(n, 0)
    /\ UNCHANGED <<clock, file>>

ReleaseRead(n) ==
    /\ pc[n] = "release_read"
    /\ \/ Mine(n) /\ Continue(n, "release_remove")
       \/ ~Mine(n) /\ End(n, "idle")
    /\ UNCHANGED <<clock, file, held>>

ReleaseRemove(n) ==
    /\ pc[n] = "release_remove"
    /\ file' = Absent
    /\ End(n, "idle")
    /\ UNCHANGED <<clock, held>>

-----------------------------------------------------------------------------

\* The operation ends with an error or with its request, or the node dies.  An
\* empty lease file may be left behind, or the record of a node that was told
\* of an error.  Not every call that fails ends the operation: see Create and
\* Read.
Fault(n) ==
    /\ Faults
    /\ pc[n] # "dead"
    /\ \/ pc[n] # "idle" /\ End(n, "idle")
       \/ End(n, "dead")
    /\ \/ UNCHANGED file
       \/ /\ pc[n] = "write" /\ file = [creator |-> n]
          /\ file' = Record(n)
    /\ Believe(n, 0)
    /\ UNCHANGED clock

Tick ==
    /\ clock < MaxClock
    /\ clock' = clock + 1
    /\ UNCHANGED <<file, pc, now, held>>

\* The bound on time is reached: no deadlock.
Finished ==
    /\ clock = MaxClock
    /\ UNCHANGED vars

Next ==
    \/ \E n \in Nodes :
        \/ Acquire(n)
        \/ Create(n)
        \/ Write(n)
        \/ Read(n)
        \/ Rename(n)
        \/ Renew(n)
        \/ RenewRead(n)
        \/ RenewRename(n)
        \/ Release(n)
        \/ ReleaseRead(n)
        \/ ReleaseRemove(n)
        \/ Fault(n)
    \/ Tick
    \/ Finished

Spec == Init /\ [][Next]_vars

-----------------------------------------------------------------------------

L == INSTANCE Lease WITH grant <- held

\* As long as no two operations overlap and every file that is there can be
\* read, the lease file is a lease in the sense of the abstract specification:
\* also when a node dies and leaves an empty file behind.
LeaseSpec == L!Spec

\* README: "atomic OS filesystem locks. Prevents split-brain across nodes."
MutualExclusion == L!MutualExclusion

=============================================================================
