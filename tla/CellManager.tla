----------------------------- MODULE CellManager -----------------------------
(***************************************************************************)
(* The managers of several nodes and one cell (src/src/cell/manager.rs,    *)
(* with the timers of src/src/main.rs): a request activates the cell under *)
(* the lease, from the local file or from the snapshot; a backup writes    *)
(* the snapshot; an eviction backs up, stops the actor and releases the    *)
(* lease; the renewal timer fences an actor whose lease it cannot renew.   *)
(*                                                                         *)
(* The cell is reduced to its log, a sequence of event numbers, so that    *)
(* event_sequence is its length.  The actor of CellActor is reduced to     *)
(* running or not; a handle outlives the entry of active_cells, and the    *)
(* actor with it.  The lease is the one of module Lease with the time left *)
(* out: it ends when the code lets it.                                     *)
(*                                                                         *)
(* What the code leaves to luck is a member of Allowed:                    *)
(*   "store"    a lease request or a put fails, before or after its effect *)
(*   "read"     a read of the snapshot fails                               *)
(*   "crash"    a process dies; its disk survives, its node_id does not    *)
(*   "late"     the lease of a cell in the map ends although the renewal   *)
(*              timer attends to it                                        *)
(*   "slow"     the lease ends under an activation, or under an actor that *)
(*              is out of the map (being evicted, say): nobody renews it   *)
(*   "tardy"    the lease ends, or an eviction releases it, while a backup *)
(*              is under way on the node                                   *)
(*   "overlap"  a request and an eviction overlap on a node, or either of  *)
(*              them and the end of an actor that is no longer in the map  *)
(*   "drop"     the client of an eviction disconnects, which ends it       *)
(*   "recreate" create_cell names a cell that exists                       *)
(*   "foreign"  a node backs up a cell that is not active on it            *)
(***************************************************************************)
EXTENDS Integers, Sequences, FiniteSets

CONSTANTS
    Nodes,
    Allowed,   \* see above
    NoOne,     \* the lease is on record for nobody
    Ghost,     \* the lease is on record for a process that is dead
    Absent,    \* no such file or object
    Torn,      \* a file that a download has not finished
    Tasks,     \* bound: calls of backup_cell and evict_cell at a time, in all
    MaxEvents, \* bound: events appended in all
    MaxActors  \* bound: actors spawned in all

ASSUME NodesAssumption ==
    /\ NoOne \notin Nodes
    /\ Ghost \notin Nodes
    /\ NoOne # Ghost

ASSUME FilesAssumption ==
    /\ Absent \notin Seq(Nat) \cup Nat
    /\ Torn \notin Seq(Nat)
    /\ Absent # Torn

ASSUME BoundsAssumption == MaxEvents \in Nat /\ MaxActors \in Nat

VARIABLES
    lease,   \* the holder on record
    blob,    \* cells/<id>.db, the log that it holds
    meta,    \* cells/<id>.meta.json, its event_sequence
    file,    \* for each node, the log in its local database
    map,     \* active_cells: the actor that the entry is a handle of, or 0
    running, \* for each node, the actors whose threads run
    doomed,  \* those of them that have a Fence or Shutdown in the mailbox
    client,  \* the actor that the node's requests in progress have a handle of
    act,     \* get_or_activate or create_cell in progress, or "idle"; it holds
             \* the write lock of active_cells
    job,     \* the calls of backup_cell and evict_cell in progress
    fencing, \* renew_active_leases: the actor in to_fence, or 0
    spawned, \* actors spawned so far; they are numbered
    events,  \* events appended so far; they are numbered
    latest,  \* history: the log after the last write that was acknowledged
    clean    \* history: no node has taken the lease when neither its disk nor
             \* the snapshot held all that was acknowledged, and no
             \* restore has cut off an event

store == <<lease, blob, meta>>
vars == <<lease, blob, meta, file, map, running, doomed, client, act, job,
          fencing, spawned, events, latest, clean>>

Logs == Seq(Nat)

\* A job of n on its way to pc; an eviction has removed the entry of actor.
Job(n, call, pc, actor) ==
    [node |-> n, call |-> call, pc |-> pc, actor |-> actor, via |-> 0,
     bytes |-> <<>>, seq |-> 0]

NoJob == Job(NoOne, "none", "none", 0)

\* The steps of get_or_activate ("spawn" included) and of create_cell.
Acts == {"idle", "acquire", "look", "fetch", "spawn", "create", "new", "insert"}

BackupSteps == {"bytes", "meta", "put", "putmeta"}

Jobs ==
    [node  : Nodes \cup {NoOne},
     call  : {"none", "backup_cell", "evict_cell"},
     pc    : BackupSteps \cup {"none", "stop", "release"},
     actor : Nat,
     via   : Nat,
     bytes : Logs,
     seq   : Nat]

Evicts(n, t) == job[t].node = n /\ job[t].call = "evict_cell"

BacksUp(n, t) == job[t].node = n /\ job[t].pc \in BackupSteps

\* Somebody on n has a handle of actor a.
Handled(n, a) ==
    \/ a \in {map[n], client[n], fencing[n]}
    \/ \E t \in Tasks : job[t].node = n /\ a \in {job[t].actor, job[t].via}

\* A backup by way of the handle in the map keeps the read lock until it has
\* the bytes and the meta.
ReadLocked(n) ==
    \E t \in Tasks : job[t].node = n /\ job[t].pc = "meta" /\ job[t].via # 0

\* The locks of active_cells, as far as this cell goes.
CanRead(n) == act[n] = "idle"
CanWrite(n) == act[n] = "idle" /\ ~ReadLocked(n)

Init ==
    /\ lease = NoOne
    /\ blob = Absent
    /\ meta = Absent
    /\ file = [n \in Nodes |-> Absent]
    /\ map = [n \in Nodes |-> 0]
    /\ running = [n \in Nodes |-> {}]
    /\ doomed = [n \in Nodes |-> {}]
    /\ client = [n \in Nodes |-> 0]
    /\ act = [n \in Nodes |-> "idle"]
    /\ job = [t \in Tasks |-> NoJob]
    /\ fencing = [n \in Nodes |-> 0]
    /\ spawned = 0
    /\ events = 0
    /\ latest = <<>>
    /\ clean = TRUE

\* No actor runs that the map does not know, and no eviction or fencing is
\* under way.  The code waits for none of this.
Quiet(n) ==
    /\ running[n] \subseteq {map[n]}
    /\ \A t \in Tasks : ~Evicts(n, t)
    /\ fencing[n] \in {0, map[n]}

\* The snapshot holds all that was acknowledged.
Saved ==
    \/ latest = <<>>
    \/ blob = latest /\ meta = Len(latest)

-----------------------------------------------------------------------------
(* get_or_activate and create_cell, on behalf of a request.                *)

\* The fast path: the request gets a clone of the handle.
Find(n) ==
    /\ CanRead(n)
    /\ client[n] = 0
    /\ map[n] # 0
    /\ client' = [client EXCEPT ![n] = map[n]]
    /\ UNCHANGED <<store, file, map, running, doomed, act, job, fencing,
                   spawned, events, latest, clean>>

\* The slow path takes the write lock.
Activate(n) ==
    /\ CanWrite(n)
    /\ client[n] = 0
    /\ map[n] = 0
    /\ spawned < MaxActors
    /\ Quiet(n) \/ "overlap" \in Allowed
    /\ \/ act' = [act EXCEPT ![n] = "acquire"]
       \/ /\ latest = <<>> \/ "recreate" \in Allowed
          /\ act' = [act EXCEPT ![n] = "create"]
    /\ UNCHANGED <<store, file, map, running, doomed, client, job, fencing,
                   spawned, events, latest, clean>>

\* The request fails, and the lock is free.  The lease is not given back.
Bail(n) == act' = [act EXCEPT ![n] = "idle"]

\* The lease goes to n.
Grant(n) ==
    /\ lease \in {NoOne, n}
    /\ lease' = n
    /\ clean' = (clean /\ (Saved \/ file[n] = latest))

\* acquire_lease; create_cell looks at no snapshot, and is meant for a cell
\* that nobody has written.
Acquire(n) ==
    /\ act[n] \in {"acquire", "create"}
    /\ \/ /\ Grant(n)
          /\ act[n] = "create" => latest = <<>> \/ "recreate" \in Allowed
          /\ act' = [act EXCEPT ![n] =
                         IF act[n] = "acquire" THEN "look" ELSE "new"]
       \/ /\ lease \notin {NoOne, n} \/ "store" \in Allowed
          /\ Bail(n)
          /\ UNCHANGED <<lease, clean>>
       \/ /\ "store" \in Allowed
          /\ Grant(n)
          /\ Bail(n)
    /\ UNCHANGED <<blob, meta, file, map, running, doomed, client, job,
                   fencing, spawned, events, latest>>

\* Mutant of ShouldDownload: a local file that cannot be read is kept.
ShouldDownloadReadable(n) ==
    \/ file[n] = Absent /\ blob # Absent
    \/ file[n] \in Logs /\ meta # Absent /\ meta > Len(file[n])

\* The snapshot's event_sequence against the local one; a local file that
\* cannot be read loses.
ShouldDownload(n) ==
    \/ file[n] = Absent /\ blob # Absent
    \/ file[n] # Absent /\ meta # Absent
          /\ (file[n] = Torn \/ meta > Len(file[n]))

\* A read that fails counts as a snapshot that does not exist.
Look(n) ==
    /\ act[n] = "look"
    /\ \/ act' = [act EXCEPT ![n] = IF ShouldDownload(n) THEN "fetch"
                                    ELSE "spawn"]
       \/ /\ "read" \in Allowed
          /\ act' = [act EXCEPT ![n] = "spawn"]
    /\ UNCHANGED <<store, file, map, running, doomed, client, job, fencing,
                   spawned, events, latest, clean>>

\* get, then fs::write over the local file.
Fetch(n) ==
    /\ act[n] = "fetch"
    /\ \/ /\ blob # Absent
          /\ file' = [file EXCEPT ![n] = blob]
          /\ act' = [act EXCEPT ![n] = "spawn"]
       \/ /\ blob = Absent \/ "read" \in Allowed
          /\ Bail(n)
          /\ UNCHANGED file
    /\ UNCHANGED <<store, map, running, doomed, client, job, fencing, spawned,
                   events, latest, clean>>

\* CellActor::spawn opens the file, or makes an empty one.  A file cut short
\* may be an empty database to SQLite.  With get_or_activate the map gets the
\* handle at once; create_cell keeps it, and waits for the answer to set_kv.
Spawn(n) ==
    /\ act[n] \in {"spawn", "new"}
    /\ spawned < MaxActors
    /\ spawned' = spawned + 1
    /\ file' = [file EXCEPT ![n] = IF @ \in {Absent, Torn} THEN <<>> ELSE @]
    /\ running' = [running EXCEPT ![n] = @ \cup {spawned + 1}]
    /\ client' = [client EXCEPT ![n] = spawned + 1]
    /\ \/ /\ act[n] = "spawn"
          /\ map' = [map EXCEPT ![n] = spawned + 1]
          /\ act' = [act EXCEPT ![n] = "idle"]
       \/ /\ act[n] = "new"
          /\ act' = [act EXCEPT ![n] = "insert"]
          /\ UNCHANGED map
    /\ UNCHANGED <<store, doomed, job, fencing, events, latest, clean>>

\* The end of create_cell.
Insert(n) ==
    /\ act[n] = "insert"
    /\ map' = [map EXCEPT ![n] = client[n]]
    /\ act' = [act EXCEPT ![n] = "idle"]
    /\ UNCHANGED <<store, file, running, doomed, client, job, fencing, spawned,
                   events, latest, clean>>

\* Any step of it may fail, or the client disconnect.  A download may be cut
\* short, spawn may have made the file, and the actor that create_cell does
\* not come to insert runs on until it finds its mailbox closed.
GiveUp(n) ==
    /\ act[n] # "idle"
    /\ Bail(n)
    /\ client' = [client EXCEPT ![n] = 0]
    /\ \/ UNCHANGED file
       \/ /\ act[n] = "fetch"
          /\ file' = [file EXCEPT ![n] = Torn]
       \/ /\ act[n] \in {"spawn", "new"} /\ file[n] = Absent
          /\ file' = [file EXCEPT ![n] = <<>>]
    /\ UNCHANGED <<store, map, running, doomed, job, fencing, spawned, events,
                   latest, clean>>

-----------------------------------------------------------------------------
(* The cell at work.                                                       *)

\* The log of n becomes log, and the client is told so; who waits for the
\* lock has no handle.  Any number of writes may be queued ahead of the Fence
\* or Shutdown.
Write(n, log) ==
    /\ events < MaxEvents
    /\ act[n] = "idle"
    /\ client[n] \in running[n]
    /\ events' = events + 1
    /\ file' = [file EXCEPT ![n] = log]
    /\ latest' = log
    /\ UNCHANGED <<store, map, running, doomed, client, act, job, fencing,
                   spawned>>

AppendEvent(n) ==
    /\ Write(n, Append(file[n], events + 1))
    /\ UNCHANGED clean

\* The log is cut back to the checkpoint and gets the event rewound.
RestoreCheckpoint(n) ==
    /\ client[n] \in running[n]
    /\ \E i \in 0..Len(file[n]) :
        /\ Write(n, Append(SubSeq(file[n], 1, i), events + 1))
        /\ clean' = (clean /\ i = Len(file[n]))

\* The requests of n are answered, or find the mailbox closed.
Drop(n) ==
    /\ act[n] = "idle"
    /\ client[n] # 0
    /\ client' = [client EXCEPT ![n] = 0]
    /\ UNCHANGED <<store, file, map, running, doomed, act, job, fencing,
                   spawned, events, latest, clean>>

\* The thread handles Fence or Shutdown, or finds the mailbox closed because
\* no handle is left.
ActorEnds(n, a) ==
    /\ a \in running[n]
    /\ \/ a \in doomed[n]
       \/ ~Handled(n, a)
    /\ running' = [running EXCEPT ![n] = @ \ {a}]
    /\ doomed' = [doomed EXCEPT ![n] = @ \ {a}]
    /\ UNCHANGED <<store, file, map, client, act, job, fencing, spawned,
                   events, latest, clean>>

-----------------------------------------------------------------------------
(* backup_cell and evict_cell.                                             *)

\* The first thing evict_cell does is to take the cell out of the map.
StartEvict(n, t) ==
    /\ job[t] = NoJob
    /\ CanWrite(n)
    /\ Quiet(n) \/ "overlap" \in Allowed
    /\ map' = [map EXCEPT ![n] = 0]
    /\ \E pc \in {"bytes", "release"} :
        /\ pc = "release" <=> map[n] = 0
        /\ job' = [job EXCEPT ![t] = Job(n, "evict_cell", pc, map[n])]
    /\ UNCHANGED <<store, file, running, doomed, client, act, fencing, spawned,
                   events, latest, clean>>

\* Backups wait for nobody: not for each other, nor for an eviction.
StartBackup(n, t) ==
    /\ job[t] = NoJob
    /\ map[n] # 0 \/ "foreign" \in Allowed
    /\ job' = [job EXCEPT ![t] = Job(n, "backup_cell", "bytes", 0)]
    /\ UNCHANGED <<store, file, map, running, doomed, client, act, fencing,
                   spawned, events, latest, clean>>

At(n, t, pc) == job[t].node = n /\ job[t].pc = pc

\* The backup is over, and with an error evict_cell goes on all the same.
BackedUp(t) ==
    job' = [job EXCEPT ![t] = IF @.call = "evict_cell"
                              THEN Job(@.node, "evict_cell", "stop", @.actor)
                              ELSE NoJob]

\* Flush the WAL and take the bytes: by way of the handle in the map and the
\* actor's mailbox, or on a second connection to the file.  (There fs::read
\* comes last, but finds what was flushed: later writes are in the WAL.)
TakeBytes(n, t) ==
    /\ At(n, t, "bytes")
    /\ CanRead(n)
    /\ IF file[n] \in Logs
       THEN job' = [job EXCEPT ![t] = [@ EXCEPT !.pc    = "meta",
                                                !.via   = map[n],
                                                !.bytes = file[n]]]
       ELSE BackedUp(t)
    /\ UNCHANGED <<store, file, map, running, doomed, client, act, fencing,
                   spawned, events, latest, clean>>

\* The actor answers, or the second connection can read the file.
MetaReadable(n, t) ==
    /\ job[t].via \in running[n] \cup {0}
    /\ file[n] \in Logs

\* Mutant of TakeMeta: the sequence of the last event, counted from 0.
TakeMetaFromZero(n, t) ==
    /\ At(n, t, "meta")
    /\ IF MetaReadable(n, t)
       THEN job' = [job EXCEPT ![t] = [@ EXCEPT !.pc  = "put",
                                                !.via = 0,
                                                !.seq = Len(file[n]) - 1]]
       ELSE BackedUp(t)
    /\ UNCHANGED <<store, file, map, running, doomed, client, act, fencing,
                   spawned, events, latest, clean>>

\* The event_sequence is read after the bytes.  By way of the handle that is
\* a message of its own, and the read lock is held meanwhile.
TakeMeta(n, t) ==
    /\ At(n, t, "meta")
    /\ IF MetaReadable(n, t)
       THEN job' = [job EXCEPT ![t] = [@ EXCEPT !.pc  = "put",
                                                !.via = 0,
                                                !.seq = Len(file[n])]]
       ELSE BackedUp(t)
    /\ UNCHANGED <<store, file, map, running, doomed, client, act, fencing,
                   spawned, events, latest, clean>>

\* Under no lock, and whoever has the lease by now.
Put(n, t) ==
    /\ At(n, t, "put")
    /\ \/ /\ blob' = job[t].bytes
          /\ job' = [job EXCEPT ![t] = [@ EXCEPT !.pc    = "putmeta",
                                                 !.bytes = <<>>]]
       \/ /\ "store" \in Allowed
          /\ blob' \in {blob, job[t].bytes}
          /\ BackedUp(t)
    /\ UNCHANGED <<lease, meta, file, map, running, doomed, client, act,
                   fencing, spawned, events, latest, clean>>

PutMeta(n, t) ==
    /\ At(n, t, "putmeta")
    /\ \/ meta' = job[t].seq
       \/ "store" \in Allowed /\ UNCHANGED meta
    /\ BackedUp(t)
    /\ UNCHANGED <<lease, blob, file, map, running, doomed, client, act,
                   fencing, spawned, events, latest, clean>>

\* Mutant of Stop: the message is lost.
StopUnheard(n, t) ==
    /\ At(n, t, "stop")
    /\ job' = [job EXCEPT ![t].pc = "release"]
    /\ UNCHANGED <<store, file, map, running, doomed, client, act, fencing,
                   spawned, events, latest, clean>>

\* handle.shutdown: the message is queued ...
Stop(n, t) ==
    /\ At(n, t, "stop")
    /\ doomed' = [doomed EXCEPT ![n] = @ \cup ({job[t].actor} \cap running[n])]
    /\ job' = [job EXCEPT ![t].pc = "release"]
    /\ UNCHANGED <<store, file, map, running, client, act, fencing, spawned,
                   events, latest, clean>>

\* No backup of n is under way, unless one may be when the lease goes.
NoneTardy(n) == "tardy" \in Allowed \/ \A t \in Tasks : ~BacksUp(n, t)

\* Mutant of Release: it does not wait for the actor.
ReleaseAtOnce(n, t) ==
    /\ At(n, t, "release")
    /\ NoneTardy(n)
    /\ \/ lease' = IF lease = n THEN NoOne ELSE lease
       \/ "store" \in Allowed /\ UNCHANGED lease
    /\ job' = [job EXCEPT ![t] = NoJob]
    /\ UNCHANGED <<blob, meta, file, map, running, doomed, client, act,
                   fencing, spawned, events, latest, clean>>

\* ... and answered; then the lease is released, if it is still this node's.
Release(n, t) ==
    /\ At(n, t, "release")
    /\ job[t].actor \notin running[n]
    /\ NoneTardy(n)
    /\ \/ lease' = IF lease = n THEN NoOne ELSE lease
       \/ "store" \in Allowed /\ UNCHANGED lease
    /\ job' = [job EXCEPT ![t] = NoJob]
    /\ UNCHANGED <<blob, meta, file, map, running, doomed, client, act,
                   fencing, spawned, events, latest, clean>>

\* The client of the request disconnects.
DropJob(n, t) ==
    /\ job[t].node = n
    /\ Evicts(n, t) => "drop" \in Allowed
    /\ job' = [job EXCEPT ![t] = NoJob]
    /\ UNCHANGED <<store, file, map, running, doomed, client, act, fencing,
                   spawned, events, latest, clean>>

-----------------------------------------------------------------------------
(* The renewal timer, time and crashes.                                    *)

\* renew_active_leases, under the read lock: the lease is another's, or the
\* store does not answer.  A renewal that succeeds changes nothing here.
RenewFails(n) ==
    /\ CanRead(n)
    /\ map[n] # 0
    /\ fencing[n] = 0
    /\ lease # n \/ "store" \in Allowed
    /\ fencing' = [fencing EXCEPT ![n] = map[n]]
    /\ UNCHANGED <<store, file, map, running, doomed, client, act, job,
                   spawned, events, latest, clean>>

\* Mutant of Fence: it takes the cell out of the map and leaves it at that.
FenceRemovesOnly(n) ==
    /\ fencing[n] # 0
    /\ CanWrite(n)
    /\ map' = [map EXCEPT ![n] = 0]
    /\ fencing' = [fencing EXCEPT ![n] = 0]
    /\ UNCHANGED <<store, file, running, doomed, client, act, job, spawned,
                   events, latest, clean>>

\* Then, under the write lock, the cell is taken out of the map, whatever
\* its entry is by now, and the actor that was collected is fenced.
Fence(n) ==
    /\ fencing[n] # 0
    /\ CanWrite(n)
    /\ map' = [map EXCEPT ![n] = 0]
    /\ doomed' = [doomed EXCEPT ![n] = @ \cup ({fencing[n]} \cap running[n])]
    /\ fencing' = [fencing EXCEPT ![n] = 0]
    /\ UNCHANGED <<store, file, running, client, act, job, spawned, events,
                   latest, clean>>

\* The renewal timer looks at the map alone: not at an activation that has the
\* lease, nor at an actor whose entry is removed, or not made yet.
Unrenewed(n) == act[n] # "idle" \/ ~(running[n] \subseteq {map[n]})

\* The lease runs out: of a dead process, or of one that has nothing of the
\* cell any more, or by bad luck.
Expire ==
    /\ lease # NoOne
    /\ lease \in Nodes =>
        /\ map[lease] # 0 => "late" \in Allowed
        /\ Unrenewed(lease) => "slow" \in Allowed
        /\ NoneTardy(lease)
    /\ lease' = NoOne
    /\ UNCHANGED <<blob, meta, file, map, running, doomed, client, act, job,
                   fencing, spawned, events, latest, clean>>

\* The process dies and starts again with a new node_id.  A download that it
\* was in the middle of leaves a torn file.
Crash(n) ==
    /\ "crash" \in Allowed
    /\ lease' = IF lease = n THEN Ghost ELSE lease
    /\ \/ UNCHANGED file
       \/ act[n] = "fetch" /\ file' = [file EXCEPT ![n] = Torn]
    /\ map' = [map EXCEPT ![n] = 0]
    /\ running' = [running EXCEPT ![n] = {}]
    /\ doomed' = [doomed EXCEPT ![n] = {}]
    /\ client' = [client EXCEPT ![n] = 0]
    /\ act' = [act EXCEPT ![n] = "idle"]
    /\ job' = [t \in Tasks |-> IF job[t].node = n THEN NoJob ELSE job[t]]
    /\ fencing' = [fencing EXCEPT ![n] = 0]
    /\ UNCHANGED <<blob, meta, spawned, events, latest, clean>>

-----------------------------------------------------------------------------

JobStep(n, t) ==
    \/ StartEvict(n, t) \/ StartBackup(n, t) \/ TakeBytes(n, t)
    \/ TakeMeta(n, t) \/ Put(n, t) \/ PutMeta(n, t) \/ Stop(n, t)
    \/ Release(n, t) \/ DropJob(n, t)

Step(n) ==
    \/ Find(n) \/ Activate(n) \/ Acquire(n) \/ Look(n) \/ Fetch(n) \/ Spawn(n)
    \/ Insert(n) \/ GiveUp(n)
    \/ AppendEvent(n) \/ RestoreCheckpoint(n) \/ Drop(n)
    \/ \E a \in running[n] : ActorEnds(n, a)
    \/ \E t \in Tasks : JobStep(n, t)
    \/ RenewFails(n) \/ Fence(n) \/ Crash(n)

Next == Expire \/ \E n \in Nodes : Step(n)

Spec == Init /\ [][Next]_vars

\* Requests, jobs and threads that have begun are carried on, and the RwLock
\* of tokio is fair.  Nothing has to begin.
Fairness ==
    /\ \A n \in Nodes :
        /\ WF_act(Acquire(n) \/ Look(n) \/ Fetch(n) \/ Spawn(n) \/ Insert(n)
                       \/ GiveUp(n))
        /\ WF_running(\E a \in running[n] : ActorEnds(n, a))
    /\ \A t \in Tasks :
        /\ SF_job(TakeBytes(job[t].node, t))
        /\ WF_job(\/ TakeMeta(job[t].node, t) \/ Put(job[t].node, t)
                   \/ PutMeta(job[t].node, t) \/ Stop(job[t].node, t)
                   \/ Release(job[t].node, t))

FairSpec == Spec /\ Fairness

-----------------------------------------------------------------------------
(* What the managers guarantee.                                            *)

TypeOK ==
    /\ lease \in Nodes \cup {NoOne, Ghost}
    /\ blob \in Logs \cup {Absent}
    /\ meta \in Nat \cup {Absent}
    /\ file \in [Nodes -> Logs \cup {Absent, Torn}]
    /\ map \in [Nodes -> Nat]
    /\ running \in [Nodes -> SUBSET (Nat \ {0})]
    /\ doomed \in [Nodes -> SUBSET Nat]
    /\ client \in [Nodes -> Nat]
    /\ act \in [Nodes -> Acts]
    /\ job \in [Tasks -> Jobs]
    /\ fencing \in [Nodes -> Nat]
    /\ spawned \in 0..MaxActors
    /\ events \in 0..MaxEvents
    /\ latest \in Logs
    /\ clean \in BOOLEAN

\* At most one actor of the cell runs in the whole cluster, whatever fails and
\* whoever dies: not while an eviction stops one, as long as it does so within
\* the time to live, and not after a fence.
SingleWriter ==
    \A m, n \in Nodes : \A a \in running[m], b \in running[n] :
        m = n /\ a = b

\* An actor that runs is in the map, where the renewal timer finds it, or an
\* eviction holds it, or create_cell is about to insert it, or its end is on
\* the way: the message is in its mailbox, or the mailbox is closed.  None is
\* left to itself.
Accounted ==
    \A n \in Nodes : \A a \in running[n] :
        \/ a = map[n]
        \/ \E t \in Tasks : Evicts(n, t) /\ job[t].actor = a
        \/ act[n] = "insert" /\ a = client[n]
        \/ a \in doomed[n]
        \/ ~Handled(n, a)

\* An actor anywhere runs on all that was acknowledged, as long as every node
\* that took the lease could find that, on its own disk or in the snapshot:
\* the right one of the two is taken.  A restore is left out: it takes the
\* event_sequence back, and an older snapshot passes for a newer one.
RunningIsCurrent ==
    clean => \A n \in Nodes : running[n] # {} => file[n] = latest

\* No backup and no eviction waits for ever: not for the lock, which requests
\* take again and again, nor for an actor that does not stop.
EveryJobEnds ==
    \A t \in Tasks : []<>(job[t] = NoJob)

-----------------------------------------------------------------------------
(* What the documentation says of the managers and the code does not do.   *)

\* README: "Atomic single-writer CAS leases.  Prevents split-brain across
\* nodes."  Two nodes never run the cell at a time.
NoSplitBrain ==
    \A m, n \in Nodes : running[m] # {} /\ running[n] # {} => m = n

\* docs/api.md, of an eviction: "Flush WAL, push backup to BlobStore, terminate
\* in-memory actor, and release distributed lease."  When nobody holds the
\* lease, the snapshot has all that was acknowledged.
FreeMeansSaved == lease = NoOne => Saved

=============================================================================
