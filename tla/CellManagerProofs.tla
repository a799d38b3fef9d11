-------------------------- MODULE CellManagerProofs --------------------------
(***************************************************************************)
(* Proofs about CellManager, for every set of nodes, however many backups  *)
(* and evictions are under way, and every value of the bounds: a cell has  *)
(* at most one writer, none is left to itself, and the one there is has    *)
(* the newest state.  Each theorem names the members of Allowed that it    *)
(* assumes away.                                                           *)
(***************************************************************************)
EXTENDS CellManager, SequenceTheorems, TLAPS

\* What the threads of a node need: nothing overlaps an eviction.
Orderly == "overlap" \notin Allowed

\* What the single writer needs besides: the lease of a cell in the map does
\* not end, as it is renewed in time, and neither does that of a cell which is
\* being activated or evicted, although nobody renews it.
Timely == Orderly /\ "late" \notin Allowed /\ "slow" \notin Allowed

\* What the newest state needs.
Careful == Allowed \subseteq {"store", "crash", "drop"}

AtMostOne(n) == \A a, b \in running[n] : a = b

\* The entry of the map is a handle of an actor that runs on.
MapRuns(n) == map[n] # 0 => map[n] \in running[n] /\ map[n] \notin doomed[n]

Doomed(n) == doomed[n] \subseteq running[n]

\* Who activates the cell has the node to himself.
ActivatesAlone(n) ==
    act[n] # "idle" =>
        /\ map[n] = 0
        /\ fencing[n] = 0
        /\ \A t \in Tasks : ~Evicts(n, t)
        /\ doomed[n] = {}
        /\ running[n] = IF act[n] = "insert" THEN {client[n]} ELSE {}

\* The entry that a fence removes is that of the actor that it stops.
FencesMapped(n) == fencing[n] # 0 => map[n] \in {0, fencing[n]}

EvictsAlone(n) ==
    \A t \in Tasks :
        /\ Evicts(n, t) => map[n] = 0 /\ running[n] \subseteq {job[t].actor}
        /\ At(n, t, "stop") \/ At(n, t, "release") => Evicts(n, t)

\* The handles that jobs have: that of an eviction, and that of the map as
\* long as the read lock is held.
JobHandles(n) ==
    \A t \in Tasks :
        job[t].node = n =>
            /\ ~Evicts(n, t) => job[t].actor = 0
            /\ job[t].via # 0 => job[t].pc = "meta" /\ job[t].via = map[n]

FileOpen(n) == running[n] # {} => file[n] \in Logs

NodeInv(n) ==
    /\ FileOpen(n)
    /\ AtMostOne(n)
    /\ MapRuns(n)
    /\ Doomed(n)
    /\ ActivatesAlone(n)
    /\ FencesMapped(n)
    /\ EvictsAlone(n)
    /\ JobHandles(n)

IInv == TypeOK /\ \A n \in Nodes : NodeInv(n)

\* A node that runs the cell, or is about to, has the lease on record.
Holds(n) ==
    running[n] # {} \/ act[n] \in {"look", "fetch", "spawn", "new", "insert"}
        => lease = n

Leased == \A n \in Nodes : Holds(n)

AccountedAt(n) ==
    \A a \in running[n] :
        \/ a = map[n]
        \/ \E t \in Tasks : Evicts(n, t) /\ job[t].actor = a
        \/ act[n] = "insert" /\ a = client[n]
        \/ a \in doomed[n]
        \/ ~Handled(n, a)

-----------------------------------------------------------------------------
(* What a job does to its record.                                          *)

LEMMA JobRecords ==
    /\ NoJob \in Jobs
    /\ \A n \in Nodes, call \in {"backup_cell", "evict_cell"},
          pc \in {"bytes", "stop", "release"}, v \in Nat :
            Job(n, call, pc, v) \in Jobs
    /\ \A j \in Jobs, v \in Nat, b \in Logs :
        /\ [j EXCEPT !.pc = "meta", !.via = v, !.bytes = b] \in Jobs
        /\ [j EXCEPT !.pc = "put", !.via = 0, !.seq = v] \in Jobs
    /\ \A j \in Jobs :
        /\ [j EXCEPT !.pc = "putmeta", !.bytes = <<>>] \in Jobs
        /\ [j EXCEPT !.pc = "release"] \in Jobs
<1>1. <<>> \in Logs
  BY DEF Logs
<1> QED
  BY <1>1 DEF Jobs, Job, NoJob, BackupSteps

\* The steps of a backup, be it that of an eviction.
BackupStep(a, t) == TakeBytes(a, t) \/ TakeMeta(a, t) \/ Put(a, t) \/ PutMeta(a, t)

\* What becomes of job j when its backup is over.
After(j) ==
    IF j.call = "evict_cell" THEN Job(j.node, "evict_cell", "stop", j.actor)
    ELSE NoJob

\* k is job j of node a one step of the backup later.
Continues(a, j, k) ==
    /\ k.node = j.node /\ k.call = j.call /\ k.actor = j.actor
    /\ \/ k.pc = "meta" /\ k.via = map[a] /\ k.bytes = file[a] /\ k.seq = j.seq
       \/ k.pc = "put" /\ k.via = 0 /\ k.bytes = j.bytes /\ k.seq = Len(file[a])
       \/ k.pc = "putmeta" /\ k.via = j.via /\ k.bytes = <<>> /\ k.seq = j.seq

LEMMA BackupGoesOn ==
    ASSUME TypeOK, NEW a \in Nodes, NEW t \in Tasks, BackupStep(a, t)
    PROVE  /\ job[t].node = a /\ job[t].pc \in BackupSteps
           /\ \E k \in Jobs :
                /\ job' = [job EXCEPT ![t] = k]
                /\ k = After(job[t]) \/ Continues(a, job[t], k)
                /\ k.pc = "meta" => job[t].pc = "bytes" /\ file[a] \in Logs
                /\ k.pc = "put" => job[t].pc = "meta" /\ file[a] \in Logs
                /\ k.pc = "putmeta" => job[t].pc = "put"
<1>1. /\ job \in [Tasks -> Jobs] /\ job[t] \in Jobs /\ map[a] \in Nat
      /\ job[t].actor \in Nat
  BY DEF TypeOK, Jobs
<1>2. job[t].node = a /\ job[t].pc \in BackupSteps
  BY DEF BackupStep, TakeBytes, TakeMeta, Put, PutMeta, At, BackupSteps
<1>3. ASSUME BackedUp(t)
      PROVE  /\ job' = [job EXCEPT ![t] = After(job[t])]
             /\ After(job[t]) \in Jobs
             /\ After(job[t]).pc \notin {"meta", "put", "putmeta"}
  <2>1. job' = [job EXCEPT ![t] = After(job[t])]
    BY <1>1, <1>3 DEF BackedUp, After
  <2>2. After(job[t]) \in Jobs
    BY <1>1, <1>2, JobRecords DEF After
  <2>3. After(job[t]).pc \notin {"meta", "put", "putmeta"}
    BY DEF After, Job, NoJob
  <2> QED
    BY <2>1, <2>2, <2>3
<1>4. CASE TakeBytes(a, t) /\ ~BackedUp(t)
  <2> DEFINE k == [job[t] EXCEPT !.pc = "meta", !.via = map[a],
                                 !.bytes = file[a]]
  <2>1. job' = [job EXCEPT ![t] = k] /\ file[a] \in Logs
          /\ job[t].pc = "bytes"
    BY <1>1, <1>4 DEF TakeBytes, At
  <2>2. k \in Jobs
    BY <1>1, <2>1, JobRecords
  <2>3. Continues(a, job[t], k) /\ k.pc = "meta"
    BY <1>1 DEF Continues, Jobs
  <2> HIDE DEF k
  <2> QED
    BY <1>2, <2>1, <2>2, <2>3
<1>5. CASE TakeMeta(a, t) /\ ~BackedUp(t)
  <2> DEFINE k == [job[t] EXCEPT !.pc = "put", !.via = 0,
                                 !.seq = Len(file[a])]
  <2>1. job' = [job EXCEPT ![t] = k] /\ file[a] \in Logs
          /\ job[t].pc = "meta"
    BY <1>1, <1>5 DEF TakeMeta, At, MetaReadable
  <2>2. k \in Jobs
    <3>1. Len(file[a]) \in Nat /\ <<>> \in Logs
      BY <2>1 DEF Logs
    <3> QED
      BY <1>1, <3>1, JobRecords
  <2>3. Continues(a, job[t], k) /\ k.pc = "put"
    BY <1>1 DEF Continues, Jobs
  <2> HIDE DEF k
  <2> QED
    BY <1>2, <2>1, <2>2, <2>3
<1>6. CASE Put(a, t) /\ ~BackedUp(t)
  <2> DEFINE k == [job[t] EXCEPT !.pc = "putmeta", !.bytes = <<>>]
  <2>1. job' = [job EXCEPT ![t] = k] /\ job[t].pc = "put"
    BY <1>1, <1>6 DEF Put, At
  <2>2. k \in Jobs
    BY <1>1, JobRecords
  <2>3. Continues(a, job[t], k) /\ k.pc = "putmeta"
    BY <1>1 DEF Continues, Jobs
  <2> HIDE DEF k
  <2> QED
    BY <1>2, <2>1, <2>2, <2>3
<1>7. CASE BackedUp(t)
  BY <1>2, <1>3, <1>7
<1> QED
  BY <1>4, <1>5, <1>6, <1>7 DEF BackupStep, PutMeta

\* A step of a job changes no other job.
LEMMA JobFrame ==
    ASSUME TypeOK, NEW a \in Nodes, NEW t \in Tasks, JobStep(a, t)
    PROVE  /\ job[t] = NoJob \/ job[t].node = a
           /\ \E k \in Jobs :
                /\ job' = [job EXCEPT ![t] = k]
                /\ k.node \in {a, NoOne}
<1>1. job \in [Tasks -> Jobs] /\ job[t] \in Jobs /\ map[a] \in Nat
  BY DEF TypeOK
<1>2. NoJob.node = NoOne /\ NoJob \in Jobs
  BY JobRecords DEF NoJob, Job
<1>3. CASE StartEvict(a, t) \/ StartBackup(a, t)
  <2>1. PICK call \in {"backup_cell", "evict_cell"},
             pc \in {"bytes", "stop", "release"}, v \in Nat :
            job' = [job EXCEPT ![t] = Job(a, call, pc, v)]
    <3>1. CASE StartEvict(a, t)
      BY <1>1, <3>1 DEF StartEvict
    <3>2. CASE StartBackup(a, t)
      BY <1>1, <3>2 DEF StartBackup
    <3> QED
      BY <1>3, <3>1, <3>2
  <2>2. Job(a, call, pc, v) \in Jobs
    BY JobRecords
  <2>3. Job(a, call, pc, v).node = a
    BY DEF Job
  <2>4. job[t] = NoJob
    BY <1>3 DEF StartEvict, StartBackup
  <2> QED
    BY <2>1, <2>2, <2>3, <2>4
<1>4. CASE BackupStep(a, t)
  <2>1. PICK k \in Jobs :
            /\ job' = [job EXCEPT ![t] = k]
            /\ k = After(job[t]) \/ Continues(a, job[t], k)
    BY <1>4, BackupGoesOn
  <2>2. job[t].node = a
    BY <1>4, BackupGoesOn
  <2>3. After(job[t]).node \in {a, NoOne}
    BY <2>2 DEF After, Job, NoJob
  <2> QED
    BY <2>1, <2>2, <2>3 DEF Continues
<1>5. CASE Stop(a, t)
  <2>1. /\ job' = [job EXCEPT ![t] = [job[t] EXCEPT !.pc = "release"]]
        /\ job[t].node = a
    BY <1>1, <1>5 DEF Stop, At
  <2>2. [job[t] EXCEPT !.pc = "release"] \in Jobs
    BY <1>1, JobRecords
  <2>3. [job[t] EXCEPT !.pc = "release"].node = a
    BY <1>1, <2>1 DEF Jobs
  <2> QED
    BY <2>1, <2>2, <2>3
<1>6. CASE Release(a, t) \/ DropJob(a, t)
  BY <1>2, <1>6 DEF Release, DropJob, At
<1> QED
  BY <1>3, <1>4, <1>5, <1>6 DEF JobStep, BackupStep

-----------------------------------------------------------------------------
(* A step of one node and the others.                                      *)

\* A step that changes nothing of a job or of the lease.
Plain(a) ==
    \/ Find(a) \/ Activate(a) \/ Look(a) \/ Fetch(a) \/ Spawn(a) \/ Insert(a)
    \/ GiveUp(a) \/ AppendEvent(a) \/ RestoreCheckpoint(a) \/ Drop(a)
    \/ \E b \in running[a] : ActorEnds(a, b)
    \/ RenewFails(a) \/ Fence(a)

LEMMA StepKinds ==
    ASSUME NEW a \in Nodes
    PROVE  Step(a) <=> \/ Plain(a) \/ Acquire(a) \/ Crash(a)
                       \/ \E t \in Tasks : JobStep(a, t)
  BY DEF Step, Plain

LEMMA PlainFrame ==
    ASSUME NEW a \in Nodes, Plain(a)
    PROVE  UNCHANGED <<job, store>>
<1> USE DEF store
<1>1. CASE Find(a) \/ Activate(a) \/ Look(a) \/ Fetch(a) \/ Spawn(a)
           \/ Insert(a) \/ GiveUp(a) \/ Drop(a)
  BY <1>1 DEF Find, Activate, Look, Fetch, Spawn, Insert, GiveUp, Drop
<1>2. CASE AppendEvent(a) \/ RestoreCheckpoint(a)
  BY <1>2 DEF AppendEvent, RestoreCheckpoint, Write
<1>3. CASE \E b \in running[a] : ActorEnds(a, b)
  BY <1>3 DEF ActorEnds
<1>4. CASE RenewFails(a) \/ Fence(a)
  BY <1>4 DEF RenewFails, Fence
<1> QED
  BY <1>1, <1>2, <1>3, <1>4 DEF Plain

\* It leaves their jobs alone ...
LEMMA OtherJobs ==
    ASSUME TypeOK, NEW a \in Nodes, Step(a), NEW n \in Nodes \ {a},
           NEW t \in Tasks, job[t].node = n \/ job'[t].node = n
    PROVE  job'[t] = job[t]
<1>1. job \in [Tasks -> Jobs] /\ NoJob.node = NoOne
  BY DEF TypeOK, NoJob, Job
<1>2. CASE Plain(a) \/ Acquire(a)
  BY <1>2, PlainFrame DEF Acquire
<1>3. CASE Crash(a)
  BY <1>1, <1>3, NodesAssumption DEF Crash
<1>4. ASSUME NEW u \in Tasks, JobStep(a, u)
      PROVE  job'[t] = job[t]
  <2>1. PICK k \in Jobs : job' = [job EXCEPT ![u] = k] /\ k.node \in {a, NoOne}
    BY <1>4, JobFrame
  <2>2. job[u].node \in {a, NoOne}
    BY <1>1, <1>4, JobFrame
  <2> QED
    BY <1>1, <2>1, <2>2, NodesAssumption
<1> QED
  BY <1>2, <1>3, <1>4, StepKinds

\* ... and their threads, maps and requests, and takes the lease of none.
LEMMA StepFrame ==
    ASSUME TypeOK, NEW a \in Nodes, Step(a)
    PROVE  /\ \A n \in Nodes \ {a} :
                /\ UNCHANGED <<file[n], map[n], running[n], doomed[n],
                               client[n], act[n], fencing[n]>>
                /\ lease = n => lease' = n
           /\ \/ UNCHANGED lease
              \/ lease \in {NoOne, a} /\ lease' \in {a, NoOne, Ghost}
<1> USE DEF TypeOK, store, Bail
<1>1. CASE Find(a) \/ Activate(a) \/ Look(a) \/ Fetch(a) \/ Spawn(a)
           \/ Insert(a) \/ GiveUp(a) \/ Drop(a)
  BY <1>1 DEF Find, Activate, Look, Fetch, Spawn, Insert, GiveUp, Drop
<1>2. CASE Acquire(a)
  BY <1>2, NodesAssumption DEF Acquire, Grant
<1>3. CASE AppendEvent(a) \/ RestoreCheckpoint(a)
  BY <1>3 DEF AppendEvent, RestoreCheckpoint, Write
<1>4. CASE \E b \in running[a] : ActorEnds(a, b)
  BY <1>4 DEF ActorEnds
<1>5. ASSUME NEW t \in Tasks,
             \/ StartEvict(a, t) \/ StartBackup(a, t) \/ TakeBytes(a, t)
             \/ TakeMeta(a, t) \/ Stop(a, t) \/ DropJob(a, t)
      PROVE  /\ UNCHANGED <<file, running, client, act, fencing, lease>>
             /\ \A n \in Nodes \ {a} : UNCHANGED <<map[n], doomed[n]>>
  BY <1>5 DEF StartEvict, StartBackup, TakeBytes, TakeMeta, Stop, DropJob
<1>6. ASSUME NEW t \in Tasks, Put(a, t) \/ PutMeta(a, t)
      PROVE  UNCHANGED <<file, map, running, doomed, client, act, fencing,
                         lease>>
  BY <1>6 DEF Put, PutMeta
<1>7. ASSUME NEW t \in Tasks, Release(a, t)
      PROVE  /\ UNCHANGED <<file, map, running, doomed, client, act, fencing>>
             /\ UNCHANGED lease \/ (lease = a /\ lease' = NoOne)
  BY <1>7 DEF Release
<1>8. CASE RenewFails(a) \/ Fence(a)
  BY <1>8 DEF RenewFails, Fence
<1>9. CASE Crash(a)
  BY <1>9, NodesAssumption DEF Crash
<1>10. CASE \E t \in Tasks : JobStep(a, t)
  BY <1>5, <1>6, <1>7, <1>10, NodesAssumption DEF JobStep
<1> QED
  BY <1>1, <1>2, <1>3, <1>4, <1>8, <1>9, <1>10 DEF Step

LEMMA OthersInv ==
    ASSUME IInv, NEW a \in Nodes, NEW n \in Nodes \ {a}, Step(a)
    PROVE  /\ NodeInv(n)'
           /\ Holds(n) => Holds(n)'
           /\ AccountedAt(n) => AccountedAt(n)'
<1>1. /\ UNCHANGED <<file[n], map[n], running[n], doomed[n], client[n], act[n],
                     fencing[n]>>
      /\ lease = n => lease' = n
  BY StepFrame DEF IInv
<1>2. \A t \in Tasks :
          job[t].node = n \/ job'[t].node = n => job'[t] = job[t]
  BY OtherJobs DEF IInv
<1>3. NodeInv(n)
  BY DEF IInv
<1>4. NodeInv(n)'
  BY <1>1, <1>2, <1>3 DEF NodeInv, FileOpen, AtMostOne, MapRuns, Doomed,
     ActivatesAlone, FencesMapped, EvictsAlone, JobHandles, Evicts, At
<1>5. AccountedAt(n) => AccountedAt(n)'
  BY <1>1, <1>2 DEF AccountedAt, Evicts, Handled
<1> QED
  BY <1>1, <1>4, <1>5 DEF Holds

-----------------------------------------------------------------------------
(* Types.                                                                  *)

\* The log of a writer after its next write.
LEMMA WrittenLog ==
    ASSUME IInv, NEW a \in Nodes, AppendEvent(a) \/ RestoreCheckpoint(a)
    PROVE  /\ act[a] = "idle" /\ running[a] # {} /\ file[a] \in Logs
           /\ \E log \in Logs : Write(a, log)
<1>1. file[a] \in Logs /\ events \in Nat /\ running[a] # {} /\ act[a] = "idle"
  BY BoundsAssumption DEF AppendEvent, RestoreCheckpoint, Write, IInv, TypeOK,
     NodeInv, FileOpen
<1>2. CASE AppendEvent(a)
  <2>1. Append(file[a], events + 1) \in Logs
    BY <1>1 DEF Logs
  <2> QED
    BY <1>1, <1>2, <2>1 DEF AppendEvent
<1>3. CASE RestoreCheckpoint(a)
  <2>1. PICK i \in 0..Len(file[a]) :
            Write(a, Append(SubSeq(file[a], 1, i), events + 1))
    BY <1>3 DEF RestoreCheckpoint
  <2>2. SubSeq(file[a], 1, i) \in Logs
    BY <1>1, <2>1, SubSeqProperties DEF Logs
  <2>3. Append(SubSeq(file[a], 1, i), events + 1) \in Logs
    BY <1>1, <2>2 DEF Logs
  <2> QED
    BY <1>1, <2>1, <2>3
<1> QED
  BY <1>2, <1>3

LEMMA StoreTypes ==
    ASSUME IInv, NEW a \in Nodes, Step(a)
    PROVE  /\ lease' \in Nodes \cup {NoOne, Ghost}
           /\ blob' \in Logs \cup {Absent}
           /\ meta' \in Nat \cup {Absent}
<1>1. /\ lease \in Nodes \cup {NoOne, Ghost}
      /\ blob \in Logs \cup {Absent}
      /\ meta \in Nat \cup {Absent}
      /\ \A t \in Tasks : job[t].bytes \in Logs /\ job[t].seq \in Nat
  BY DEF IInv, TypeOK, Jobs
<1>2. CASE Plain(a)
  BY <1>1, <1>2, PlainFrame DEF store
<1>3. CASE Acquire(a) \/ Crash(a)
  BY <1>1, <1>3 DEF Acquire, Grant, Crash
<1>4. ASSUME NEW t \in Tasks, JobStep(a, t)
      PROVE  /\ lease' \in {lease, NoOne}
             /\ blob' \in {blob, job[t].bytes}
             /\ meta' \in {meta, job[t].seq}
  BY <1>4 DEF JobStep, StartEvict, StartBackup, TakeBytes, TakeMeta, Put,
     PutMeta, Stop, Release, DropJob, store
<1> QED
  BY <1>1, <1>2, <1>3, <1>4, StepKinds

LEMMA LogTypes ==
    ASSUME IInv, NEW a \in Nodes, Step(a)
    PROVE  /\ file' \in [Nodes -> Logs \cup {Absent, Torn}]
           /\ latest' \in Logs
           /\ events' \in 0..MaxEvents
           /\ clean' \in BOOLEAN
<1>1. /\ file \in [Nodes -> Logs \cup {Absent, Torn}]
      /\ latest \in Logs
      /\ events \in 0..MaxEvents
      /\ clean \in BOOLEAN
      /\ blob \in Logs \cup {Absent}
      /\ MaxEvents \in Nat
      /\ <<>> \in Logs
  BY BoundsAssumption DEF IInv, TypeOK, Logs
<1>2. CASE AppendEvent(a) \/ RestoreCheckpoint(a)
  <2>1. PICK log \in Logs : Write(a, log)
    BY <1>2, WrittenLog
  <2>2. clean' \in BOOLEAN
    BY <1>1, <1>2 DEF AppendEvent, RestoreCheckpoint
  <2> QED
    BY <1>1, <2>1, <2>2 DEF Write
<1>3. CASE Fetch(a) \/ Spawn(a) \/ GiveUp(a) \/ Crash(a)
  BY <1>1, <1>3 DEF Fetch, Spawn, GiveUp, Crash
<1>4. CASE Find(a) \/ Activate(a) \/ Acquire(a) \/ Look(a) \/ Insert(a)
           \/ Drop(a) \/ RenewFails(a) \/ Fence(a)
           \/ \E b \in running[a] : ActorEnds(a, b)
  BY <1>1, <1>4 DEF Find, Activate, Acquire, Grant, Look, Insert, Drop,
     RenewFails, Fence, ActorEnds
<1>5. ASSUME NEW t \in Tasks, JobStep(a, t)
      PROVE  UNCHANGED <<file, latest, events, clean>>
  BY <1>5 DEF JobStep, StartEvict, StartBackup, TakeBytes, TakeMeta, Put,
     PutMeta, Stop, Release, DropJob
<1> QED
  BY <1>1, <1>2, <1>3, <1>4, <1>5 DEF Step

LEMMA JobTypes ==
    ASSUME IInv, NEW a \in Nodes, Step(a)
    PROVE  job' \in [Tasks -> Jobs]
<1>1. job \in [Tasks -> Jobs] /\ TypeOK
  BY DEF IInv, TypeOK
<1>2. CASE Plain(a) \/ Acquire(a)
  BY <1>1, <1>2, PlainFrame DEF Acquire
<1>3. CASE Crash(a)
  BY <1>1, <1>3, JobRecords DEF Crash
<1>4. ASSUME NEW t \in Tasks, JobStep(a, t)
      PROVE  job' \in [Tasks -> Jobs]
  BY <1>1, <1>4, JobFrame
<1> QED
  BY <1>2, <1>3, <1>4, StepKinds

LEMMA ThreadTypes ==
    ASSUME IInv, NEW a \in Nodes, Step(a)
    PROVE  /\ map' \in [Nodes -> Nat]
           /\ running' \in [Nodes -> SUBSET (Nat \ {0})]
           /\ doomed' \in [Nodes -> SUBSET Nat]
           /\ client' \in [Nodes -> Nat]
           /\ act' \in [Nodes -> Acts]
           /\ fencing' \in [Nodes -> Nat]
           /\ spawned' \in 0..MaxActors
<1> DEFINE Typed ==
    /\ map \in [Nodes -> Nat]
    /\ running \in [Nodes -> SUBSET (Nat \ {0})]
    /\ doomed \in [Nodes -> SUBSET Nat]
    /\ client \in [Nodes -> Nat]
    /\ act \in [Nodes -> Acts]
    /\ fencing \in [Nodes -> Nat]
    /\ spawned \in 0..MaxActors
<1>1. Typed /\ MaxActors \in Nat
  BY BoundsAssumption DEF IInv, TypeOK
<1>2. SUFFICES Typed'
  OBVIOUS
<1>3. CASE Find(a) \/ Drop(a)
  BY <1>1, <1>3 DEF Find, Drop
<1>4. CASE Activate(a)
  BY <1>1, <1>4 DEF Activate, Acts
<1>5. CASE Acquire(a)
  BY <1>1, <1>5 DEF Acquire, Grant, Bail, Acts
<1>6. CASE Look(a)
  BY <1>1, <1>6 DEF Look, Acts
<1>7. CASE Fetch(a)
  BY <1>1, <1>7 DEF Fetch, Bail, Acts
<1>8. CASE Spawn(a)
  <2>1. spawned + 1 \in Nat \ {0} /\ spawned + 1 \in 0..MaxActors
    BY <1>1, <1>8 DEF Spawn
  <2> QED
    BY <1>1, <1>8, <2>1 DEF Spawn, Acts
<1>9. CASE Insert(a)
  BY <1>1, <1>9 DEF Insert, Acts
<1>10. CASE GiveUp(a)
  BY <1>1, <1>10 DEF GiveUp, Bail, Acts
<1>11. CASE \E b \in running[a] : ActorEnds(a, b)
  BY <1>1, <1>11 DEF ActorEnds
<1>12. CASE RenewFails(a) \/ Fence(a)
  BY <1>1, <1>12 DEF RenewFails, Fence
<1>13. CASE Crash(a)
  BY <1>1, <1>13 DEF Crash, Acts
<1>14. ASSUME NEW t \in Tasks, JobStep(a, t)
       PROVE  Typed'
  <2>1. CASE StartEvict(a, t)
    BY <1>1, <2>1 DEF StartEvict
  <2>2. CASE Stop(a, t)
    BY <1>1, <2>2 DEF Stop
  <2>3. CASE ~StartEvict(a, t) /\ ~Stop(a, t)
    <3>1. UNCHANGED <<map, running, doomed, client, act, fencing, spawned>>
      BY <1>14, <2>3 DEF JobStep, StartBackup, TakeBytes, TakeMeta, Put,
         PutMeta, Release, DropJob
    <3> QED
      BY <1>1, <3>1
  <2> QED
    BY <2>1, <2>2, <2>3
<1>15. CASE AppendEvent(a) \/ RestoreCheckpoint(a)
  <2>1. UNCHANGED <<map, running, doomed, client, act, fencing, spawned>>
    BY <1>15 DEF AppendEvent, RestoreCheckpoint, Write
  <2> QED
    BY <1>1, <2>1
<1> QED
  BY <1>3, <1>4, <1>5, <1>6, <1>7, <1>8, <1>9, <1>10, <1>11, <1>12, <1>13,
     <1>14, <1>15 DEF Step

LEMMA StepTypes ==
    ASSUME IInv, NEW a \in Nodes, Step(a)
    PROVE  TypeOK'
  BY StoreTypes, LogTypes, JobTypes, ThreadTypes DEF TypeOK

LEMMA ExpireTypes ==
    ASSUME TypeOK, Expire
    PROVE  TypeOK'
  BY DEF TypeOK, Expire

-----------------------------------------------------------------------------
(* The node that takes the step.                                           *)

LEMMA ActivationInv ==
    ASSUME Orderly, IInv, NEW a \in Nodes,
           \/ Find(a) \/ Activate(a) \/ Acquire(a) \/ Look(a) \/ Fetch(a)
           \/ Spawn(a) \/ Insert(a) \/ GiveUp(a) \/ Drop(a)
    PROVE  NodeInv(a)'
<1>1. /\ NodeInv(a)
      /\ file \in [Nodes -> Logs \cup {Absent, Torn}]
      /\ map \in [Nodes -> Nat]
      /\ running \in [Nodes -> SUBSET (Nat \ {0})]
      /\ doomed \in [Nodes -> SUBSET Nat]
      /\ client \in [Nodes -> Nat]
      /\ act \in [Nodes -> Acts]
      /\ job \in [Tasks -> Jobs]
      /\ fencing \in [Nodes -> Nat]
      /\ blob \in Logs \cup {Absent}
      /\ spawned \in Nat
      /\ "overlap" \notin Allowed
      /\ <<>> \in Logs
  BY BoundsAssumption DEF IInv, TypeOK, Orderly, Logs
<1> USE <1>1
     DEF NodeInv, FileOpen, AtMostOne, MapRuns, Doomed, ActivatesAlone,
     FencesMapped, EvictsAlone, JobHandles, Evicts, At, Bail
<1>2. CASE Find(a) \/ Drop(a)
  BY <1>2 DEF Find, Drop, CanRead
<1>3. CASE Activate(a)
  BY <1>3 DEF Activate, Quiet, CanWrite
<1>4. CASE Acquire(a)
  BY <1>4 DEF Acquire
<1>5. CASE Look(a)
  BY <1>5 DEF Look
<1>6. CASE Fetch(a)
  BY <1>6 DEF Fetch
<1>7. CASE Spawn(a)
  BY <1>7 DEF Spawn
<1>8. CASE Insert(a)
  BY <1>8 DEF Insert
<1>9. CASE GiveUp(a)
  BY <1>9 DEF GiveUp
<1> QED
  BY <1>2, <1>3, <1>4, <1>5, <1>6, <1>7, <1>8, <1>9

LEMMA ThreadInv ==
    ASSUME IInv, NEW a \in Nodes,
           \/ AppendEvent(a) \/ RestoreCheckpoint(a)
           \/ \E b \in running[a] : ActorEnds(a, b)
           \/ RenewFails(a) \/ Fence(a) \/ Crash(a)
    PROVE  NodeInv(a)'
<1>1. /\ NodeInv(a)
      /\ file \in [Nodes -> Logs \cup {Absent, Torn}]
      /\ map \in [Nodes -> Nat]
      /\ running \in [Nodes -> SUBSET (Nat \ {0})]
      /\ doomed \in [Nodes -> SUBSET Nat]
      /\ act \in [Nodes -> Acts]
      /\ job \in [Tasks -> Jobs]
      /\ fencing \in [Nodes -> Nat]
  BY DEF IInv, TypeOK
<1> USE <1>1
     DEF NodeInv, FileOpen, AtMostOne, MapRuns, Doomed, ActivatesAlone,
     FencesMapped, EvictsAlone, JobHandles, Evicts, At
<1>2. CASE AppendEvent(a) \/ RestoreCheckpoint(a)
  <2>1. PICK log \in Logs : Write(a, log)
    BY <1>2, WrittenLog
  <2> QED
    BY <2>1 DEF Write
<1>3. CASE \E b \in running[a] : ActorEnds(a, b)
  <2>1. PICK b \in running[a] : ActorEnds(a, b)
    BY <1>3
  <2>2. act[a] = "insert" => b \notin running[a]
    BY <2>1 DEF ActorEnds, Handled
  <2>3. b # map[a]
    BY <2>1 DEF ActorEnds, Handled
  <2> QED
    BY <2>1, <2>2, <2>3 DEF ActorEnds
<1>4. CASE RenewFails(a)
  BY <1>4 DEF RenewFails, CanRead
<1>5. CASE Fence(a)
  BY <1>5 DEF Fence, CanWrite, ReadLocked
<1>6. CASE Crash(a)
  <2>1. \A t \in Tasks : job'[t].node # a
    <3>1. NoJob.node # a
      BY NodesAssumption DEF NoJob, Job
    <3> QED
      BY <1>6, <3>1 DEF Crash
  <2> QED
    BY <1>6, <2>1 DEF Crash
<1> QED
  BY <1>2, <1>3, <1>4, <1>5, <1>6

LEMMA JobInv ==
    ASSUME Orderly, IInv, NEW a \in Nodes, NEW t \in Tasks, JobStep(a, t)
    PROVE  NodeInv(a)'
<1>1. /\ NodeInv(a) /\ TypeOK
      /\ map \in [Nodes -> Nat]
      /\ running \in [Nodes -> SUBSET (Nat \ {0})]
      /\ doomed \in [Nodes -> SUBSET Nat]
      /\ job \in [Tasks -> Jobs]
      /\ job[t] \in Jobs
      /\ "overlap" \notin Allowed
  BY DEF IInv, TypeOK, Orderly
<1>2. NoJob.node # a /\ NoJob.call # "evict_cell"
  BY NodesAssumption DEF NoJob, Job
<1> USE <1>1
     DEF NodeInv, FileOpen, AtMostOne, MapRuns, Doomed, ActivatesAlone,
     FencesMapped, EvictsAlone, JobHandles, Evicts, At
<1>3. CASE StartEvict(a, t)
  BY <1>3 DEF StartEvict, Quiet, CanWrite, ReadLocked, Job
<1>4. CASE StartBackup(a, t)
  BY <1>4 DEF StartBackup, Job
<1>5. CASE BackupStep(a, t)
  <2>1. PICK k \in Jobs :
            /\ job' = [job EXCEPT ![t] = k]
            /\ k = After(job[t]) \/ Continues(a, job[t], k)
            /\ k.pc = "meta" => job[t].pc = "bytes" /\ file[a] \in Logs
            /\ k.pc = "put" => job[t].pc = "meta" /\ file[a] \in Logs
            /\ k.pc = "putmeta" => job[t].pc = "put"
    BY <1>5, BackupGoesOn
  <2>2. job[t].node = a
    BY <1>5, BackupGoesOn
  <2>3. UNCHANGED <<file, map, running, doomed, client, act, fencing>>
    BY <1>5 DEF BackupStep, TakeBytes, TakeMeta, Put, PutMeta
  <2>4. \/ k = NoJob /\ ~Evicts(a, t)
        \/ /\ k.node = a /\ k.call = job[t].call /\ k.actor = job[t].actor
           /\ k.pc \in {"stop", "release"} => Evicts(a, t)
           /\ k.via # 0 => k.pc = "meta" /\ k.via = map[a]
    <3>1. CASE k = After(job[t])
      BY <2>2, <3>1 DEF After, Job
    <3>2. CASE Continues(a, job[t], k)
      BY <2>1, <2>2, <3>2 DEF Continues
    <3> QED
      BY <2>1, <3>1, <3>2
  <2> QED
    BY <1>2, <2>1, <2>2, <2>3, <2>4
<1>6. CASE Stop(a, t)
  BY <1>6 DEF Stop, Jobs
<1>7. CASE Release(a, t)
  BY <1>2, <1>7 DEF Release
<1>8. CASE DropJob(a, t)
  BY <1>2, <1>8 DEF DropJob
<1> QED
  BY <1>3, <1>4, <1>5, <1>6, <1>7, <1>8 DEF JobStep, BackupStep

LEMMA ExpireInv ==
    ASSUME IInv, NEW n \in Nodes, Expire
    PROVE  NodeInv(n)' /\ (AccountedAt(n) => AccountedAt(n)')
<1>1. NodeInv(n)
  BY DEF IInv
<1> QED
  BY <1>1 DEF Expire, NodeInv, FileOpen, AtMostOne, MapRuns, Doomed,
     ActivatesAlone, FencesMapped, EvictsAlone, JobHandles, Evicts, At,
     AccountedAt, Handled


-----------------------------------------------------------------------------
(* No actor left to itself.                                                *)

\* An actor that no job is stopping at the moment keeps what accounts for it.
LEMMA JobAccounts ==
    ASSUME Orderly, "drop" \notin Allowed, IInv, NEW a \in Nodes,
           NEW t \in Tasks, JobStep(a, t), AccountedAt(a)
    PROVE  AccountedAt(a)'
<1>1. /\ NodeInv(a) /\ TypeOK
      /\ map \in [Nodes -> Nat]
      /\ running \in [Nodes -> SUBSET (Nat \ {0})]
      /\ doomed \in [Nodes -> SUBSET Nat]
      /\ job \in [Tasks -> Jobs]
      /\ job[t] \in Jobs
      /\ "overlap" \notin Allowed
  BY DEF IInv, TypeOK, Orderly
<1>2. NoJob.node # a /\ NoJob.call # "evict_cell"
  BY NodesAssumption DEF NoJob, Job
<1> USE <1>1 DEF AccountedAt, Handled, Evicts
<1>3. CASE StartEvict(a, t)
  BY <1>2, <1>3 DEF StartEvict, Quiet, Job
<1>4. CASE StartBackup(a, t)
  BY <1>2, <1>4 DEF StartBackup, Job
<1>5. CASE BackupStep(a, t)
  <2>1. PICK k \in Jobs :
            /\ job' = [job EXCEPT ![t] = k]
            /\ k = After(job[t]) \/ Continues(a, job[t], k)
            /\ k.pc = "meta" => job[t].pc = "bytes" /\ file[a] \in Logs
            /\ k.pc = "put" => job[t].pc = "meta" /\ file[a] \in Logs
            /\ k.pc = "putmeta" => job[t].pc = "put"
    BY <1>5, BackupGoesOn
  <2>2. job[t].node = a
    BY <1>5, BackupGoesOn
  <2>3. UNCHANGED <<map, running, doomed, client, act, fencing>>
    BY <1>5 DEF BackupStep, TakeBytes, TakeMeta, Put, PutMeta
  <2>4. \/ k = NoJob /\ ~Evicts(a, t)
        \/ /\ k.node = a /\ k.call = job[t].call /\ k.actor = job[t].actor
           /\ k.via \in {0, map[a]}
    <3>1. CASE k = After(job[t])
      BY <2>2, <3>1 DEF After, Job
    <3>2. CASE Continues(a, job[t], k)
      <4>1. job[t].via \in {0, map[a]}
        BY <2>2 DEF NodeInv, JobHandles
      <4> QED
        BY <2>2, <3>2, <4>1 DEF Continues
    <3> QED
      BY <2>1, <3>1, <3>2
  <2> QED
    BY <1>2, <2>1, <2>2, <2>3, <2>4
<1>6. CASE Stop(a, t)
  BY <1>6 DEF Stop, Jobs
<1>7. CASE Release(a, t)
  BY <1>2, <1>7 DEF Release
<1>8. CASE DropJob(a, t)
  BY <1>2, <1>8 DEF DropJob, NodeInv, JobHandles
<1> QED
  BY <1>3, <1>4, <1>5, <1>6, <1>7, <1>8 DEF JobStep, BackupStep

LEMMA StepAccounts ==
    ASSUME Orderly, "drop" \notin Allowed, IInv, NEW a \in Nodes, Step(a),
           AccountedAt(a)
    PROVE  AccountedAt(a)'
<1>1. /\ NodeInv(a)
      /\ map \in [Nodes -> Nat]
      /\ running \in [Nodes -> SUBSET (Nat \ {0})]
      /\ doomed \in [Nodes -> SUBSET Nat]
      /\ client \in [Nodes -> Nat]
      /\ act \in [Nodes -> Acts]
      /\ job \in [Tasks -> Jobs]
      /\ fencing \in [Nodes -> Nat]
      /\ "overlap" \notin Allowed
  BY DEF IInv, TypeOK, Orderly
<1> USE <1>1 DEF AccountedAt, Handled, Evicts, Bail
<1>2. CASE Find(a) \/ Drop(a)
  BY <1>2 DEF Find, Drop, CanRead
<1>3. CASE Activate(a)
  BY <1>3 DEF Activate, Quiet
<1>4. CASE Acquire(a) \/ Look(a) \/ Fetch(a)
  <2>1. running[a] = {} /\ UNCHANGED running
    BY <1>4 DEF Acquire, Look, Fetch, NodeInv, ActivatesAlone
  <2> QED
    BY <2>1
<1>5. CASE Spawn(a)
  <2>1. running'[a] = {spawned + 1}
    BY <1>5 DEF Spawn, NodeInv, ActivatesAlone
  <2>2. map'[a] = spawned + 1 \/ (act'[a] = "insert" /\ client'[a] = spawned + 1)
    BY <1>5 DEF Spawn
  <2> QED
    BY <2>1, <2>2
<1>6. CASE Insert(a)
  BY <1>6 DEF Insert, NodeInv, ActivatesAlone
<1>7. CASE GiveUp(a)
  <2>1. \A t \in Tasks : job[t].node = a => job[t].actor = 0 /\ job[t].via = 0
    BY <1>7 DEF GiveUp, NodeInv, ActivatesAlone, JobHandles
  <2>2. map[a] = 0 /\ fencing[a] = 0
    BY <1>7 DEF GiveUp, NodeInv, ActivatesAlone
  <2> QED
    BY <1>7, <2>1, <2>2 DEF GiveUp
<1>8. CASE AppendEvent(a) \/ RestoreCheckpoint(a)
  BY <1>8 DEF AppendEvent, RestoreCheckpoint, Write
<1>9. CASE \E b \in running[a] : ActorEnds(a, b)
  BY <1>9 DEF ActorEnds
<1>10. CASE RenewFails(a)
  BY <1>10 DEF RenewFails
<1>11. CASE Fence(a)
  BY <1>11 DEF Fence, NodeInv, FencesMapped
<1>12. CASE Crash(a)
  BY <1>12 DEF Crash
<1> QED
  BY <1>2, <1>3, <1>4, <1>5, <1>6, <1>7, <1>8, <1>9, <1>10, <1>11, <1>12,
     JobAccounts DEF Step

-----------------------------------------------------------------------------
(* One writer.                                                             *)

LEMMA StepLeased ==
    ASSUME Orderly, IInv, NEW a \in Nodes, Step(a), Holds(a)
    PROVE  Holds(a)'
<1>1. /\ NodeInv(a)
      /\ running \in [Nodes -> SUBSET (Nat \ {0})]
      /\ act \in [Nodes -> Acts]
      /\ job \in [Tasks -> Jobs]
  BY DEF IInv, TypeOK
<1> USE <1>1 DEF Holds, Bail
<1>2. CASE Plain(a)
  <2>1. UNCHANGED lease
    BY <1>2, PlainFrame DEF store
  <2>2. CASE \/ Find(a) \/ Activate(a) \/ Look(a) \/ Fetch(a) \/ Spawn(a)
             \/ Insert(a) \/ GiveUp(a) \/ Drop(a)
    BY <2>1, <2>2 DEF Find, Activate, Look, Fetch, Spawn, Insert, GiveUp, Drop
  <2>3. CASE AppendEvent(a) \/ RestoreCheckpoint(a)
    BY <2>1, <2>3 DEF AppendEvent, RestoreCheckpoint, Write
  <2>4. CASE \/ \E b \in running[a] : ActorEnds(a, b)
             \/ RenewFails(a) \/ Fence(a)
    BY <2>1, <2>4 DEF ActorEnds, RenewFails, Fence
  <2> QED
    BY <1>2, <2>2, <2>3, <2>4 DEF Plain
<1>3. CASE Acquire(a)
  <2>1. running[a] = {} /\ UNCHANGED running
    BY <1>3 DEF Acquire, NodeInv, ActivatesAlone
  <2> QED
    BY <1>3, <2>1 DEF Acquire, Grant
<1>4. CASE Crash(a)
  BY <1>4 DEF Crash
<1>5. ASSUME NEW t \in Tasks, JobStep(a, t)
      PROVE  Holds(a)'
  <2>1. UNCHANGED <<running, act>>
    BY <1>5 DEF JobStep, StartEvict, StartBackup, TakeBytes, TakeMeta, Put,
       PutMeta, Stop, Release, DropJob
  <2>2. CASE Release(a, t)
    BY <2>1, <2>2 DEF Release, NodeInv, ActivatesAlone, EvictsAlone
  <2>3. CASE ~Release(a, t)
    <3>1. UNCHANGED lease
      BY <1>5, <2>3 DEF JobStep, StartEvict, StartBackup, TakeBytes, TakeMeta,
         Put, PutMeta, Stop, DropJob, store
    <3> QED
      BY <2>1, <3>1
  <2> QED
    BY <2>2, <2>3
<1> QED
  BY <1>2, <1>3, <1>4, <1>5, StepKinds

\* The lease runs out under nobody who runs the cell, or is about to.
LEMMA ExpireLeased ==
    ASSUME Timely, IInv, NEW n \in Nodes, Expire, Holds(n)
    PROVE  Holds(n)'
<1>1. running[n] \subseteq Nat \ {0}
  BY DEF IInv, TypeOK
<1> QED
  BY <1>1, NodesAssumption DEF Expire, Timely, Unrenewed, Holds

-----------------------------------------------------------------------------

LEMMA InitInv == Init => IInv
<1> SUFFICES ASSUME Init PROVE IInv
  OBVIOUS
<1>1. TypeOK
  <2>1. <<>> \in Logs
    BY DEF Logs
  <2>2. NoJob \in Jobs
    BY JobRecords
  <2> QED
    BY <2>1, <2>2, BoundsAssumption DEF Init, TypeOK, Acts
<1>2. ASSUME NEW n \in Nodes
      PROVE  NodeInv(n)
  BY <1>2, NodesAssumption DEF Init, NodeInv, FileOpen, AtMostOne, MapRuns,
     Doomed, ActivatesAlone, FencesMapped, EvictsAlone, JobHandles, Evicts, At,
     NoJob, Job
<1> QED
  BY <1>1, <1>2 DEF IInv

LEMMA NextInv ==
    ASSUME Orderly, IInv, [Next]_vars
    PROVE  IInv'
<1>1. CASE UNCHANGED vars
  BY <1>1 DEF vars, IInv, TypeOK, NodeInv, FileOpen, AtMostOne, MapRuns,
     Doomed, ActivatesAlone, FencesMapped, EvictsAlone, JobHandles, Evicts, At,
     store
<1>2. CASE Expire
  BY <1>2, ExpireTypes, ExpireInv DEF IInv
<1>3. ASSUME NEW a \in Nodes, Step(a)
      PROVE  IInv'
  <2>1. TypeOK'
    BY <1>3, StepTypes
  <2>2. NodeInv(a)'
    BY <1>3, ActivationInv, ThreadInv, JobInv DEF Step
  <2>3. \A n \in Nodes \ {a} : NodeInv(n)'
    BY <1>3, OthersInv
  <2> QED
    BY <2>1, <2>2, <2>3 DEF IInv
<1> QED
  BY <1>1, <1>2, <1>3 DEF Next

\* As long as nothing overlaps an eviction, the invariant is inductive.
LEMMA Inductive ==
    ASSUME Orderly
    PROVE  Spec => []IInv
<1>1. Init => IInv
  BY InitInv
<1>2. IInv /\ [Next]_vars => IInv'
  BY NextInv
<1> QED
  BY <1>1, <1>2, PTL DEF Spec

\* Every variable keeps its type, whatever fails, as long as nothing overlaps
\* an eviction.
THEOREM TypesHold ==
    ASSUME Orderly
    PROVE  Spec => []TypeOK
<1>1. IInv => TypeOK
  BY DEF IInv
<1> QED
  BY <1>1, Inductive, PTL

\* No actor is out of the reach of the renewal timer, an eviction or a fence,
\* whatever becomes of the lease, as long as every eviction is carried to its
\* end and nothing overlaps it.
THEOREM NoneForgotten ==
    ASSUME Orderly, "drop" \notin Allowed
    PROVE  Spec => []Accounted
<1> DEFINE All == \A n \in Nodes : AccountedAt(n)
<1>1. Init => All
  BY DEF Init, AccountedAt
<1>2. ASSUME IInv, All, [Next]_vars
      PROVE  All'
  <2>1. CASE UNCHANGED vars
    BY <1>2, <2>1 DEF vars, AccountedAt, Evicts, Handled
  <2>2. CASE Expire
    BY <1>2, <2>2, ExpireInv
  <2>3. ASSUME NEW a \in Nodes, Step(a)
        PROVE  All'
    BY <1>2, <2>3, StepAccounts, OthersInv
  <2> QED
    BY <1>2, <2>1, <2>2, <2>3 DEF Next
<1>3. All => Accounted
  BY DEF AccountedAt, Accounted
<1> HIDE DEF All
<1> QED
  BY <1>1, <1>2, <1>3, Inductive, PTL DEF Spec

\* A node that runs the cell, or is about to, has the lease on record.
LEMMA LeaseHeld ==
    ASSUME Timely
    PROVE  Spec => []Leased
<1>1. Orderly
  BY DEF Timely
<1>2. Init => Leased
  BY DEF Init, Leased, Holds
<1>3. ASSUME IInv, Leased, [Next]_vars
      PROVE  Leased'
  <2>1. CASE UNCHANGED vars
    BY <1>3, <2>1 DEF vars, store, Leased, Holds
  <2>2. CASE Expire
    BY <1>3, <2>2, ExpireLeased DEF Leased
  <2>3. ASSUME NEW a \in Nodes, Step(a)
        PROVE  Leased'
    BY <1>1, <1>3, <2>3, StepLeased, OthersInv DEF Leased
  <2> QED
    BY <1>3, <2>1, <2>2, <2>3 DEF Next
<1> QED
  BY <1>1, <1>2, <1>3, Inductive, PTL DEF Spec

\* At most one actor of the cell runs in the whole cluster, whichever store
\* requests fail, processes die and clients disconnect, and whatever backups
\* are under way: as long as nothing overlaps an eviction, the lease of a cell
\* in the map is renewed in time, and activations, evictions and the ends of
\* fenced actors take less than the time to live, since nobody renews the
\* lease meanwhile.
THEOREM OneWriter ==
    ASSUME Timely
    PROVE  Spec => []SingleWriter
<1>1. IInv /\ Leased => SingleWriter
  BY DEF IInv, NodeInv, Leased, Holds, AtMostOne, SingleWriter
<1> QED
  BY <1>1, Inductive, LeaseHeld, PTL DEF Timely

-----------------------------------------------------------------------------
(* The newest state.                                                       *)

\* No file is ahead of what was acknowledged, or beside it.
NotAhead(f) ==
    f \in Logs => Len(f) <= Len(latest) /\ (Len(f) = Len(latest) => f = latest)

\* The node has all that was acknowledged, or need not have it.
HasAll(n) == file[n] = latest \/ (latest = <<>> /\ file[n] \in {Absent, Torn})

\* The holder of the lease can find all that was acknowledged.
Kept == \A n \in Nodes : lease = n => HasAll(n) \/ Saved

\* A backup of a node takes place under its lease, from the newest state,
\* even when the cell is evicted beside it.
Backs(n) ==
    \A t \in Tasks :
        BacksUp(n, t) =>
            /\ lease = n
            /\ file[n] = latest
            /\ job[t].seq <= Len(latest)
            /\ NotAhead(job[t].bytes)

\* An activation ends in the newest state.
Activates(n) ==
    /\ act[n] = "fetch" => Saved /\ file[n] # latest
    /\ act[n] \in {"spawn", "new"} => HasAll(n)
    /\ running[n] # {} => file[n] = latest

StoreInv ==
    /\ NotAhead(blob)
    /\ meta # Absent => meta <= Len(latest)
    /\ Kept
    /\ \A n \in Nodes : NotAhead(file[n])

CurrentInv == clean => StoreInv /\ \A n \in Nodes : Backs(n) /\ Activates(n)

\* What the steps below start from.
Now ==
    /\ IInv
    /\ Leased
    /\ StoreInv
    /\ \A n \in Nodes : Backs(n) /\ Activates(n)

Later == StoreInv' /\ \A n \in Nodes : Backs(n)' /\ Activates(n)'

LEMMA CarefulIsTimely == Careful => Timely
  BY DEF Careful, Timely, Orderly

LEMMA NothingYet ==
    ASSUME latest = <<>>, NEW f \in Logs, NotAhead(f)
    PROVE  f = latest
<1>1. Len(f) \in Nat /\ Len(latest) = 0
  BY DEF Logs
<1> QED
  BY <1>1 DEF NotAhead

LEMMA EmptyNotAhead ==
    ASSUME latest \in Logs
    PROVE  NotAhead(<<>>)
<1>1. Len(latest) \in Nat /\ Len(<<>>) = 0 /\ (Len(latest) = 0 => latest = <<>>)
  BY DEF Logs
<1> QED
  BY <1>1 DEF NotAhead

\* A job that backs up nothing more concerns no node; one that has not
\* changed concerns its own.
LEMMA BacksFrame ==
    ASSUME Now, NEW n \in Nodes, UNCHANGED <<latest, file[n]>>,
           lease = n => lease' = n,
           \A t \in Tasks : job'[t] = job[t] \/ job'[t].pc \notin BackupSteps
    PROVE  Backs(n)'
  BY DEF Now, Backs, BacksUp, NotAhead

\* Steps that leave the store, the files and the log alone.
LEMMA QuietSteps ==
    ASSUME Careful, Now, NEW a \in Nodes,
           UNCHANGED <<store, file, latest>>,
           \/ Find(a) \/ Activate(a) \/ Insert(a) \/ Drop(a) \/ RenewFails(a)
           \/ Fence(a) \/ \E b \in running[a] : ActorEnds(a, b)
           \/ \E t \in Tasks : Stop(a, t) \/ DropJob(a, t)
    PROVE  Later
<1>1. StoreInv'
  BY DEF Now, StoreInv, Kept, NotAhead, HasAll, Saved, store
<1>2. job \in [Tasks -> Jobs] /\ act \in [Nodes -> Acts]
        /\ running \in [Nodes -> SUBSET (Nat \ {0})]
  BY DEF Now, IInv, TypeOK
<1>3. \A t \in Tasks : job'[t] = job[t] \/ job'[t].pc \notin BackupSteps
  <2>1. CASE \E t \in Tasks : Stop(a, t)
    <3>1. PICK t \in Tasks : Stop(a, t)
      BY <2>1
    <3>2. [job[t] EXCEPT !.pc = "release"].pc = "release"
      BY <1>2 DEF Jobs
    <3> QED
      BY <1>2, <3>1, <3>2 DEF Stop, BackupSteps
  <2>2. CASE \E t \in Tasks : DropJob(a, t)
    BY <1>2, <2>2 DEF DropJob, NoJob, Job, BackupSteps
  <2>3. CASE ~\E t \in Tasks : Stop(a, t) \/ DropJob(a, t)
    BY <2>3 DEF Find, Activate, Insert, Drop, RenewFails, Fence, ActorEnds
  <2> QED
    BY <2>1, <2>2, <2>3
<1>4. ASSUME NEW n \in Nodes
      PROVE  Backs(n)'
  BY <1>3, BacksFrame DEF store
<1>5. ASSUME NEW n \in Nodes
      PROVE  Activates(n)'
  <2>1. /\ act'[n] = act[n] \/ act'[n] \in {"acquire", "create", "idle"}
        /\ running'[n] \subseteq running[n]
    BY <1>2 DEF Find, Activate, Insert, Drop, RenewFails, Fence, ActorEnds,
       Stop, DropJob
  <2> QED
    BY <2>1 DEF Now, Activates, HasAll, Saved, store
<1> QED
  BY <1>1, <1>4, <1>5 DEF Later

\* A job begins.
LEMMA StartSteps ==
    ASSUME Careful, Now, NEW a \in Nodes, NEW t \in Tasks,
           StartEvict(a, t) \/ StartBackup(a, t)
    PROVE  Later
<1>1. UNCHANGED <<store, file, latest, act, running>>
  BY DEF StartEvict, StartBackup
<1>2. StoreInv'
  BY <1>1 DEF Now, StoreInv, Kept, NotAhead, HasAll, Saved, store
<1>3. ASSUME NEW n \in Nodes
      PROVE  Activates(n)'
  BY <1>1 DEF Now, Activates, HasAll, Saved, store
<1>4. PICK k \in Jobs :
          /\ job' = [job EXCEPT ![t] = k]
          /\ k.pc \in BackupSteps => map[a] # 0
          /\ k.node = a /\ k.seq = 0 /\ k.bytes = <<>>
  <2>1. map[a] \in Nat
    BY DEF Now, IInv, TypeOK
  <2>2. CASE StartEvict(a, t)
    <3>1. PICK pc \in {"bytes", "release"} :
              /\ pc = "release" <=> map[a] = 0
              /\ job' = [job EXCEPT ![t] = Job(a, "evict_cell", pc, map[a])]
      BY <2>2 DEF StartEvict
    <3>2. Job(a, "evict_cell", pc, map[a]) \in Jobs
      BY <2>1, JobRecords
    <3> QED
      BY <3>1, <3>2 DEF Job, BackupSteps
  <2>3. CASE StartBackup(a, t)
    <3>1. /\ map[a] # 0
          /\ job' = [job EXCEPT ![t] = Job(a, "backup_cell", "bytes", 0)]
      BY <2>3 DEF StartBackup, Careful
    <3>2. Job(a, "backup_cell", "bytes", 0) \in Jobs
      BY <2>1, JobRecords
    <3> QED
      BY <3>1, <3>2 DEF Job
  <2> QED
    BY <2>2, <2>3
<1>5. ASSUME NEW n \in Nodes
      PROVE  Backs(n)'
  <2>1. /\ job \in [Tasks -> Jobs] /\ latest \in Logs /\ Len(latest) \in Nat
        /\ Backs(n)
    BY DEF Now, IInv, TypeOK, Logs
  <2>2. map[a] # 0 => lease = a /\ file[a] = latest
    BY DEF Now, IInv, NodeInv, MapRuns, Leased, Holds, Activates
  <2>3. 0 <= Len(latest) /\ NotAhead(<<>>)
    BY <2>1, EmptyNotAhead
  <2>4. ASSUME NEW u \in Tasks, BacksUp(n, u)'
        PROVE  /\ lease = n /\ file[n] = latest
               /\ job'[u].seq <= Len(latest) /\ NotAhead(job'[u].bytes)
    <3>1. CASE u = t
      BY <1>4, <2>1, <2>2, <2>3, <2>4, <3>1 DEF BacksUp
    <3>2. CASE u # t
      BY <1>4, <2>1, <2>4, <3>2 DEF BacksUp, Backs
    <3> QED
      BY <3>1, <3>2
  <2> QED
    BY <1>1, <2>4 DEF Backs, NotAhead, store
<1> QED
  BY <1>2, <1>3, <1>5 DEF Later

\* A job takes what it puts, from the newest state, or puts what was taken
\* there, and the node keeps that.
LEMMA BackupSaves ==
    ASSUME Careful, Now, NEW a \in Nodes, NEW t \in Tasks, BackupStep(a, t)
    PROVE  Later
<1>1. PICK k \in Jobs :
          /\ job' = [job EXCEPT ![t] = k]
          /\ k = After(job[t]) \/ Continues(a, job[t], k)
          /\ k.pc = "meta" => job[t].pc = "bytes" /\ file[a] \in Logs
          /\ k.pc = "put" => job[t].pc = "meta" /\ file[a] \in Logs
          /\ k.pc = "putmeta" => job[t].pc = "put"
  BY BackupGoesOn DEF Now, IInv
<1>2. /\ BacksUp(a, t)
      /\ lease = a /\ file[a] = latest
      /\ job[t].seq <= Len(latest)
      /\ NotAhead(job[t].bytes)
      /\ latest \in Logs /\ Len(latest) \in Nat /\ Len(latest) <= Len(latest)
      /\ job \in [Tasks -> Jobs] /\ job[t] \in Jobs
  <2>1. BacksUp(a, t)
    BY BackupGoesOn DEF Now, IInv, BacksUp
  <2> QED
    BY <2>1 DEF Now, Backs, IInv, TypeOK, Logs
<1>3. /\ UNCHANGED <<lease, file, latest, act, running>>
      /\ blob' \in {blob, job[t].bytes}
      /\ meta' \in {meta, job[t].seq}
  BY DEF BackupStep, TakeBytes, TakeMeta, Put, PutMeta, store
<1>4. StoreInv'
  <2>1. NotAhead(blob)' /\ (meta # Absent => meta <= Len(latest))'
    BY <1>2, <1>3 DEF Now, StoreInv, NotAhead
  <2>2. Kept'
    BY <1>2, <1>3, NodesAssumption DEF Kept, HasAll
  <2>3. ASSUME NEW n \in Nodes
        PROVE  NotAhead(file[n])'
    BY <1>3 DEF Now, StoreInv, NotAhead
  <2> QED
    BY <2>1, <2>2, <2>3 DEF StoreInv
<1>5. ASSUME NEW n \in Nodes
      PROVE  Activates(n)'
  <2>1. Holds(n) /\ Activates(n)
    BY DEF Now, Leased
  <2> QED
    BY <1>2, <1>3, <2>1 DEF Holds, Activates, HasAll
<1>6. ASSUME NEW n \in Nodes
      PROVE  Backs(n)'
  <2>1. k.pc \in BackupSteps => k.node = a /\ k.seq <= Len(latest)
                                /\ NotAhead(k.bytes)
    <3>1. CASE k = After(job[t])
      BY <3>1 DEF After, Job, NoJob, BackupSteps
    <3>2. CASE Continues(a, job[t], k)
      BY <1>2, <3>2, EmptyNotAhead DEF Continues, NotAhead, BacksUp
    <3> QED
      BY <1>1, <3>1, <3>2
  <2>2. Backs(n)
    BY DEF Now
  <2>3. ASSUME NEW u \in Tasks, BacksUp(n, u)'
        PROVE  /\ lease = n /\ file[n] = latest
               /\ job'[u].seq <= Len(latest) /\ NotAhead(job'[u].bytes)
    <3>1. CASE u = t
      BY <1>1, <1>2, <2>1, <2>3, <3>1 DEF BacksUp
    <3>2. CASE u # t
      BY <1>1, <1>2, <2>2, <2>3, <3>2 DEF BacksUp, Backs
    <3> QED
      BY <3>1, <3>2
  <2> QED
    BY <1>3, <2>3 DEF Backs, NotAhead
<1> QED
  BY <1>4, <1>5, <1>6 DEF Later

\* acquire_lease, by a node that can find everything.
LEMMA AcquireSteps ==
    ASSUME Careful, Now, NEW a \in Nodes, Acquire(a), clean'
    PROVE  Later
<1>1. /\ UNCHANGED <<blob, meta, file, latest, running, job>>
      /\ \/ lease' = lease
         \/ /\ lease \in {NoOne, a} /\ lease' = a
            /\ HasAll(a) \/ Saved
      /\ act \in [Nodes -> Acts]
  BY DEF Acquire, Grant, HasAll, Now, IInv, TypeOK
<1>2. StoreInv'
  BY <1>1, NodesAssumption
     DEF Now, StoreInv, Kept, NotAhead, HasAll, Saved
<1>3. ASSUME NEW n \in Nodes
      PROVE  Backs(n)'
  BY <1>1, BacksFrame, NodesAssumption
<1>4. ASSUME NEW n \in Nodes \ {a}
      PROVE  Activates(n)'
  <2>1. act'[n] = act[n]
    BY StepFrame DEF Now, IInv, Step
  <2> QED
    BY <1>1, <2>1 DEF Now, Activates, HasAll, Saved
<1>5. Activates(a)'
  <2>1. /\ act'[a] \in {"idle", "look", "new"}
        /\ act'[a] = "new" => latest = <<>>
    BY <1>1 DEF Acquire, Grant, Bail, Careful
  <2>2. latest = <<>> => HasAll(a)
    BY NothingYet DEF HasAll, Now, StoreInv, IInv, TypeOK
  <2>3. running[a] # {} => file[a] = latest
    BY DEF Now, Activates
  <2> QED
    BY <1>1, <2>1, <2>2, <2>3 DEF Activates, HasAll
<1> QED
  BY <1>2, <1>3, <1>4, <1>5 DEF Later

\* What is on disk and what is in the snapshot decide rightly which to take.
LEMMA LookSteps ==
    ASSUME Careful, Now, NEW a \in Nodes, Look(a)
    PROVE  Later
<1>1. /\ UNCHANGED <<lease, blob, meta, file, latest, running, job>>
      /\ act \in [Nodes -> Acts]
      /\ file[a] \in Logs \cup {Absent, Torn}
      /\ blob \in Logs \cup {Absent} /\ meta \in Nat \cup {Absent}
      /\ latest \in Logs /\ Len(latest) \in Nat
      /\ Absent \notin Logs \cup Nat /\ Torn \notin Logs /\ Absent # Torn
  BY FilesAssumption DEF Look, Now, IInv, TypeOK, store, Logs
<1>2. StoreInv'
  BY <1>1 DEF Now, StoreInv, Kept, NotAhead, HasAll, Saved
<1>3. ASSUME NEW n \in Nodes
      PROVE  Backs(n)'
  BY <1>1, BacksFrame
<1>4. ASSUME NEW n \in Nodes \ {a}
      PROVE  Activates(n)'
  <2>1. act'[n] = act[n]
    BY StepFrame DEF Now, IInv, Step
  <2> QED
    BY <1>1, <2>1 DEF Now, Activates, HasAll, Saved
<1>5. Activates(a)'
  <2>1. /\ NotAhead(file[a])
        /\ meta # Absent => meta <= Len(latest)
        /\ HasAll(a) \/ Saved
        /\ running[a] # {} => file[a] = latest
    BY DEF Now, StoreInv, Kept, Leased, Holds, Look, Activates
  <2>2. CASE ShouldDownload(a)
    <3>1. file[a] # latest
      BY <1>1, <2>1, <2>2 DEF ShouldDownload
    <3>2. Saved
      BY <2>1, <3>1 DEF HasAll, Saved
    <3>3. act'[a] = "fetch"
      BY <1>1, <2>2 DEF Look, Careful
    <3> QED
      BY <1>1, <2>1, <3>1, <3>2, <3>3 DEF Activates, Saved
  <2>3. CASE ~ShouldDownload(a)
    <3>1. HasAll(a)
      <4>1. CASE latest = <<>>
        BY <1>1, <2>1, <4>1, NothingYet DEF HasAll
      <4>2. CASE latest # <<>> /\ Saved
        <5>1. blob = latest /\ meta = Len(latest)
          BY <4>2 DEF Saved
        <5>2. file[a] \in Logs /\ Len(file[a]) \in Nat
                /\ ~(Len(latest) > Len(file[a]))
          BY <1>1, <2>3, <5>1 DEF ShouldDownload, Logs
        <5> QED
          BY <1>1, <2>1, <5>2 DEF NotAhead, HasAll
      <4> QED
        BY <2>1, <4>1, <4>2
    <3>2. act'[a] = "spawn"
      BY <1>1, <2>3 DEF Look, Careful
    <3> QED
      BY <1>1, <2>1, <3>1, <3>2 DEF Activates, HasAll
  <2> QED
    BY <2>2, <2>3
<1> QED
  BY <1>2, <1>3, <1>4, <1>5 DEF Later

\* The local file changes while nothing runs on it and nothing backs it up.
LEMMA FileSteps ==
    ASSUME Careful, Now, NEW a \in Nodes, Fetch(a) \/ Spawn(a) \/ GiveUp(a)
    PROVE  Later
<1>1. /\ UNCHANGED <<lease, blob, meta, latest, job>>
      /\ file \in [Nodes -> Logs \cup {Absent, Torn}]
      /\ running \in [Nodes -> SUBSET (Nat \ {0})]
      /\ act \in [Nodes -> Acts]
      /\ blob \in Logs \cup {Absent}
      /\ latest \in Logs
      /\ Absent \notin Logs \cup Nat /\ Torn \notin Logs /\ Absent # Torn
      /\ NodeInv(a) /\ Backs(a) /\ Activates(a) /\ NotAhead(file[a])
  BY FilesAssumption
     DEF Fetch, Spawn, GiveUp, Now, StoreInv, IInv, TypeOK, store, Logs
<1>2. \A n \in Nodes \ {a} : UNCHANGED <<file[n], act[n], running[n]>>
  BY StepFrame DEF Now, IInv, Step
<1>3. \/ UNCHANGED file
      \/ file'[a] = latest
      \/ file'[a] = Torn /\ Saved /\ file[a] # latest
  <2>1. CASE Fetch(a)
    <3>1. act[a] = "fetch" => Saved /\ NotAhead(blob)
      BY <1>1 DEF Activates, Now, StoreInv
    <3> QED
      BY <1>1, <2>1, <3>1, NothingYet DEF Fetch, Saved
  <2>2. CASE Spawn(a)
    BY <1>1, <2>2 DEF Spawn, Activates, HasAll
  <2>3. CASE GiveUp(a)
    BY <1>1, <2>3 DEF GiveUp, Activates, HasAll
  <2> QED
    BY <2>1, <2>2, <2>3
<1>4. StoreInv'
  <2>1. NotAhead(blob)' /\ (meta # Absent => meta <= Len(latest))'
    BY <1>1 DEF Now, StoreInv, NotAhead
  <2>2. ASSUME NEW n \in Nodes
        PROVE  NotAhead(file[n])' /\ (HasAll(n) => HasAll(n)' \/ Saved)
    <3>1. NotAhead(file[n]) /\ NotAhead(latest)
      BY DEF Now, StoreInv, NotAhead
    <3> QED
      BY <1>1, <1>2, <1>3, <3>1 DEF NotAhead, HasAll
  <2>3. Kept'
    BY <1>1, <2>2 DEF Now, StoreInv, Kept, Saved
  <2> QED
    BY <2>1, <2>2, <2>3 DEF StoreInv
<1>5. ASSUME NEW n \in Nodes
      PROVE  Backs(n)'
  <2>1. Backs(n)
    BY DEF Now
  <2>2. CASE n # a
    BY <1>1, <1>2, <2>2, BacksFrame
  <2>3. CASE n = a
    BY <1>1, <1>3, <2>1, <2>3 DEF Backs, BacksUp, NotAhead
  <2> QED
    BY <2>2, <2>3
<1>6. ASSUME NEW n \in Nodes \ {a}
      PROVE  Activates(n)'
  <2>1. Activates(n)
    BY DEF Now
  <2> QED
    BY <1>1, <1>2, <2>1 DEF Activates, HasAll, Saved
<1>7. Activates(a)'
  <2>1. CASE Fetch(a)
    <3>1. /\ act'[a] = "idle" \/ (act'[a] = "spawn" /\ file'[a] = blob
                                    /\ blob # Absent)
          /\ running[a] = {} /\ running' = running
          /\ act[a] = "fetch"
      BY <1>1, <2>1 DEF Fetch, Bail, NodeInv, ActivatesAlone
    <3>2. act'[a] = "spawn" => file'[a] = latest
      <4>1. Saved /\ NotAhead(blob)
        BY <1>1, <3>1 DEF Activates, Now, StoreInv
      <4> QED
        BY <1>1, <3>1, <4>1, NothingYet DEF Saved
    <3> QED
      BY <1>1, <3>1, <3>2 DEF Activates, HasAll
  <2>2. CASE Spawn(a)
    <3>1. file'[a] = latest
      BY <1>1, <2>2 DEF Spawn, Activates, HasAll
    <3>2. act'[a] \in {"idle", "insert"}
      BY <1>1, <2>2 DEF Spawn
    <3> QED
      BY <1>1, <3>1, <3>2 DEF Activates
  <2>3. CASE GiveUp(a)
    <3>1. act'[a] = "idle" /\ running' = running
      BY <1>1, <2>3 DEF GiveUp, Bail
    <3>2. running[a] # {} => act[a] = "insert" /\ file[a] = latest
      BY <1>1, <2>3 DEF GiveUp, NodeInv, ActivatesAlone, Activates
    <3>3. act[a] = "insert" => file' = file
      BY <2>3 DEF GiveUp
    <3> QED
      BY <1>1, <3>1, <3>2, <3>3 DEF Activates
  <2> QED
    BY <2>1, <2>2, <2>3
<1> QED
  BY <1>4, <1>5, <1>6, <1>7 DEF Later

\* The writer has the newest state, and makes the next one from it.
LEMMA WriteSteps ==
    ASSUME Careful, Now, NEW a \in Nodes,
           AppendEvent(a) \/ RestoreCheckpoint(a), clean'
    PROVE  Later
<1>1. /\ running[a] # {} /\ file[a] \in Logs /\ act[a] = "idle"
      /\ file \in [Nodes -> Logs \cup {Absent, Torn}]
      /\ events \in Nat /\ latest \in Logs
  BY WrittenLog, BoundsAssumption DEF Now, IInv, TypeOK
<1>2. Write(a, Append(file[a], events + 1))
  <2>1. CASE AppendEvent(a)
    BY <2>1 DEF AppendEvent
  <2>2. CASE RestoreCheckpoint(a)
    BY <1>1, <2>2, SubSeqFull DEF RestoreCheckpoint, Logs
  <2> QED
    BY <2>1, <2>2
<1>3. /\ UNCHANGED <<lease, blob, meta, act, job, running>>
      /\ file' = [file EXCEPT ![a] = Append(file[a], events + 1)]
      /\ latest' = Append(file[a], events + 1)
  BY <1>2 DEF Write, store
<1>4. lease = a /\ file[a] = latest
  BY <1>1 DEF Now, Leased, Holds, Activates
<1>5. /\ file'[a] = latest' /\ \A n \in Nodes \ {a} : file'[n] = file[n]
      /\ latest' \in Logs
      /\ Len(latest) \in Nat /\ Len(latest') = Len(latest) + 1
  BY <1>1, <1>3, <1>4 DEF Logs
<1>6. ASSUME NEW f, NotAhead(f)
      PROVE  f \in Logs => /\ Len(f) <= Len(latest')
                           /\ Len(f) = Len(latest') => f = latest'
  BY <1>5, <1>6 DEF NotAhead, Logs
<1>7. StoreInv'
  <2>1. NotAhead(blob)' /\ (meta # Absent => meta <= Len(latest))'
    <3>1. NotAhead(blob) /\ meta \in Nat \cup {Absent}
            /\ (meta # Absent => meta <= Len(latest))
      BY DEF Now, StoreInv, IInv, TypeOK
    <3>2. NotAhead(blob)'
      BY <1>3, <1>6, <3>1 DEF NotAhead
    <3> QED
      BY <1>3, <1>5, <3>1, <3>2
  <2>2. Kept'
    BY <1>3, <1>4, <1>5, NodesAssumption DEF Kept, HasAll
  <2>3. ASSUME NEW n \in Nodes
        PROVE  NotAhead(file[n])'
    <3>1. CASE n = a
      BY <1>5, <3>1 DEF NotAhead, Logs
    <3>2. CASE n # a
      <4>1. NotAhead(file[n]) /\ file'[n] = file[n]
        BY <1>5, <3>2 DEF Now, StoreInv
      <4> QED
        BY <1>6, <4>1 DEF NotAhead
    <3> QED
      BY <3>1, <3>2
  <2> QED
    BY <2>1, <2>2, <2>3 DEF StoreInv
<1>8. ASSUME NEW n \in Nodes
      PROVE  Backs(n)'
  <2>1. ASSUME NEW t \in Tasks, BacksUp(n, t)
        PROVE  /\ n = a
               /\ job[t].seq <= Len(latest')
               /\ NotAhead(job[t].bytes)
    <3>1. /\ lease = n /\ job[t].seq <= Len(latest)
          /\ NotAhead(job[t].bytes) /\ job[t].seq \in Nat
      BY <2>1 DEF Now, Backs, IInv, TypeOK, Jobs
    <3> QED
      BY <1>4, <1>5, <3>1
  <2> QED
    BY <1>3, <1>4, <1>5, <1>6, <2>1 DEF Backs, BacksUp, NotAhead
<1>9. ASSUME NEW n \in Nodes
      PROVE  Activates(n)'
  <2>1. Holds(n)
    BY DEF Now, Leased
  <2> QED
    BY <1>1, <1>3, <1>4, <1>5, <2>1 DEF Holds, Activates
<1> QED
  BY <1>7, <1>8, <1>9 DEF Later

\* The lease is released when no backup of the node is under way, and nothing
\* else changes.
LEMMA ReleaseSteps ==
    ASSUME Careful, Now, NEW a \in Nodes, NEW t \in Tasks, Release(a, t)
    PROVE  Later
<1>1. /\ UNCHANGED <<blob, meta, file, latest, act, running>>
      /\ job' = [job EXCEPT ![t] = NoJob]
      /\ lease' = lease \/ (lease = a /\ lease' = NoOne)
      /\ \A u \in Tasks : ~BacksUp(a, u)
      /\ job \in [Tasks -> Jobs]
  BY DEF Release, NoneTardy, Careful, Now, IInv, TypeOK
<1>2. StoreInv'
  BY <1>1, NodesAssumption DEF Now, StoreInv, Kept, NotAhead, HasAll, Saved
<1>3. ASSUME NEW n \in Nodes
      PROVE  Backs(n)'
  <2>1. NoJob.pc \notin BackupSteps
    BY DEF NoJob, Job, BackupSteps
  <2>2. CASE n = a
    BY <1>1, <2>1, <2>2 DEF Backs, BacksUp
  <2>3. CASE n # a
    BY <1>1, <2>1, <2>3, BacksFrame
  <2> QED
    BY <2>2, <2>3
<1>4. ASSUME NEW n \in Nodes
      PROVE  Activates(n)'
  BY <1>1 DEF Now, Activates, HasAll, Saved
<1> QED
  BY <1>2, <1>3, <1>4 DEF Later

\* The lease of a dead process stays on record until it runs out, whatever it
\* leaves on its disk.
LEMMA CrashSteps ==
    ASSUME Careful, Now, NEW a \in Nodes, Crash(a)
    PROVE  Later
<1>1. /\ UNCHANGED <<blob, meta, latest>>
      /\ lease' = IF lease = a THEN Ghost ELSE lease
      /\ file' = file \/ file' = [file EXCEPT ![a] = Torn]
      /\ running' = [running EXCEPT ![a] = {}]
      /\ act' = [act EXCEPT ![a] = "idle"]
      /\ job' = [t \in Tasks |-> IF job[t].node = a THEN NoJob ELSE job[t]]
      /\ TypeOK
      /\ Torn \notin Logs
  BY FilesAssumption DEF Crash, Now, IInv, Logs
<1>2. StoreInv'
  <2>1. NotAhead(blob)' /\ (meta # Absent => meta <= Len(latest))'
    BY <1>1 DEF Now, StoreInv, NotAhead
  <2>2. Kept'
    BY <1>1, NodesAssumption
       DEF Now, StoreInv, Kept, HasAll, Saved, TypeOK
  <2>3. ASSUME NEW n \in Nodes
        PROVE  NotAhead(file[n])'
    BY <1>1 DEF Now, StoreInv, NotAhead, TypeOK
  <2> QED
    BY <2>1, <2>2, <2>3 DEF StoreInv
<1>3. ASSUME NEW n \in Nodes
      PROVE  Backs(n)'
  <2>1. NoJob.pc \notin BackupSteps
    BY DEF NoJob, Job, BackupSteps
  <2>2. CASE n = a
    BY <1>1, <2>1, <2>2 DEF Backs, BacksUp
  <2>3. CASE n # a
    BY <1>1, <2>1, <2>3, BacksFrame DEF TypeOK
  <2> QED
    BY <2>2, <2>3
<1>4. ASSUME NEW n \in Nodes
      PROVE  Activates(n)'
  <2>1. CASE n = a
    BY <1>1, <2>1 DEF TypeOK, Activates
  <2>2. CASE n # a
    BY <1>1, <2>2 DEF TypeOK, Now, Activates, HasAll, Saved
  <2> QED
    BY <2>1, <2>2
<1> QED
  BY <1>2, <1>3, <1>4 DEF Later

\* No lease runs out under a backup.
LEMMA ExpireSteps ==
    ASSUME Careful, Now, Expire
    PROVE  Later
<1>1. /\ UNCHANGED <<blob, meta, file, latest, act, running, job>>
      /\ lease' = NoOne
      /\ \A n \in Nodes : lease = n => \A t \in Tasks : ~BacksUp(n, t)
  BY DEF Expire, NoneTardy, Careful
<1>2. StoreInv'
  BY <1>1, NodesAssumption DEF Now, StoreInv, Kept, NotAhead, HasAll, Saved
<1>3. ASSUME NEW n \in Nodes
      PROVE  Backs(n)' /\ Activates(n)'
  BY <1>1 DEF Now, Backs, BacksUp, Activates, NotAhead, HasAll, Saved
<1> QED
  BY <1>2, <1>3 DEF Later

LEMMA CurrentNext ==
    ASSUME Careful, IInv, Leased, CurrentInv, [Next]_vars
    PROVE  CurrentInv'
<1>1. CASE UNCHANGED vars
  BY <1>1 DEF vars, store, CurrentInv, StoreInv, Backs, BacksUp, Activates,
     Kept, NotAhead, HasAll, Saved
<1>2. SUFFICES ASSUME Next, clean'
               PROVE  Later
  BY <1>1 DEF CurrentInv, Later
<1>3. CASE Expire
  <2>1. clean
    BY <1>2, <1>3 DEF Expire
  <2> QED
    BY <1>3, <2>1, ExpireSteps DEF Now, CurrentInv
<1>4. ASSUME NEW a \in Nodes, Step(a)
      PROVE  Later
  <2>1. clean
    <3>1. clean \in BOOLEAN
      BY DEF IInv, TypeOK
    <3>2. CASE Acquire(a) \/ RestoreCheckpoint(a)
      BY <1>2, <3>1, <3>2 DEF Acquire, Grant, RestoreCheckpoint
    <3>3. CASE ~(Acquire(a) \/ RestoreCheckpoint(a))
      BY <1>2, <1>4, <3>3 DEF Step, JobStep, Find, Activate, Look, Fetch,
         Spawn, Insert, GiveUp, AppendEvent, Drop, ActorEnds, StartEvict,
         StartBackup, TakeBytes, TakeMeta, Put, PutMeta, Stop, Release,
         DropJob, RenewFails, Fence, Crash
    <3> QED
      BY <3>2, <3>3
  <2>2. Now
    BY <2>1 DEF Now, CurrentInv
  <2>3. CASE \/ Find(a) \/ Activate(a) \/ Insert(a) \/ Drop(a)
             \/ RenewFails(a) \/ Fence(a)
             \/ \E b \in running[a] : ActorEnds(a, b)
    <3>1. UNCHANGED <<store, file, latest>>
      BY <2>3 DEF Find, Activate, Insert, Drop, RenewFails, Fence, ActorEnds
    <3> QED
      BY <2>2, <2>3, <3>1, QuietSteps
  <2>4. ASSUME NEW t \in Tasks, JobStep(a, t)
        PROVE  Later
    <3>1. CASE Stop(a, t) \/ DropJob(a, t)
      <4>1. UNCHANGED <<store, file, latest>>
        BY <3>1 DEF Stop, DropJob
      <4> QED
        BY <2>2, <3>1, <4>1, QuietSteps
    <3> QED
      BY <2>2, <2>4, <3>1, StartSteps, BackupSaves, ReleaseSteps
         DEF JobStep, BackupStep
  <2>5. CASE Acquire(a) \/ Look(a)
    BY <1>2, <2>2, <2>5, AcquireSteps, LookSteps
  <2>6. CASE Fetch(a) \/ Spawn(a) \/ GiveUp(a)
    BY <2>2, <2>6, FileSteps
  <2>7. CASE AppendEvent(a) \/ RestoreCheckpoint(a)
    BY <1>2, <2>2, <2>7, WriteSteps
  <2>8. CASE Crash(a)
    BY <2>2, <2>8, CrashSteps
  <2> QED
    BY <1>4, <2>3, <2>4, <2>5, <2>6, <2>7, <2>8 DEF Step
<1> QED
  BY <1>2, <1>3, <1>4 DEF Next

\* As long as a node that takes the lease can find it at all, an actor anywhere
\* in the cluster runs on all that was acknowledged, whatever store requests
\* fail, processes die and evictions are cut short, and whatever backups are
\* under way beside each other and beside an eviction: provided the lease does
\* not go, by running out or by that eviction, before they are over.
THEOREM NewestState ==
    ASSUME Careful
    PROVE  Spec => []RunningIsCurrent
<1>1. Init => CurrentInv
  <2>1. SUFFICES ASSUME Init
                 PROVE  StoreInv /\ \A n \in Nodes : Backs(n) /\ Activates(n)
    BY DEF CurrentInv
  <2>2. Absent \notin Logs /\ latest = <<>>
    BY <2>1, FilesAssumption DEF Init, Logs
  <2> QED
    BY <2>1, <2>2, NodesAssumption DEF Init, StoreInv, Backs, BacksUp,
       BackupSteps, Activates, Kept, NotAhead, HasAll, Saved, NoJob, Job
<1>2. Timely /\ Orderly
  BY CarefulIsTimely DEF Timely
<1>3. Spec => []IInv /\ []Leased
  BY <1>2, Inductive, LeaseHeld
<1>4. IInv /\ Leased /\ CurrentInv /\ [Next]_vars => CurrentInv'
  BY CurrentNext
<1>5. CurrentInv => RunningIsCurrent
  BY DEF CurrentInv, Activates, RunningIsCurrent
<1> QED
  BY <1>1, <1>3, <1>4, <1>5, PTL DEF Spec

=============================================================================
