# A verification project for cellz

cellz keeps one SQLite database per *cell* (a session, a workflow instance), owned by an
actor thread, and moves cells between nodes by way of snapshots in a blob store and a
single-writer lease. This directory holds TLA+ models of the code under `src/src/`, the TLC
configurations that check them, and TLAPS proofs of what matters most. File and line
references are to the repository.

## 1. Inventory

| Component | Source | State | Operations | Module |
| --- | --- | --- | --- | --- |
| Cell database | `cell/db.rs` | tables `cell_meta`, `events`, `messages`, `kv_state`, `checkpoints` | append (one or a batch), set_kv, create and restore checkpoint, status, reads | `CellDb` |
| Cell actor, handle | `cell/actor.rs` | mailbox (128), reply channels, broadcast bus (256), `last_active` | 16 message kinds, spawn, fence, shutdown | `CellActor`, `AtomicCell` (abstract), `CellRefinement` |
| Lease contract | `storage/blob.rs:8-29` | who holds until when | acquire, renew, release | `Lease` (abstract) |
| S3 lease | `storage/blob.rs:259-387` | one object with an ETag | conditional puts, get, delete | `S3Lease` |
| Local lease | `storage/blob.rs:88-168` | one file | create_new, write, read, rename, remove | `LocalLease` |
| Cell manager | `cell/manager.rs`, timers in `main.rs:62-82` | `active_cells` behind an RwLock | get_or_activate, create, backup, evict, renew_active_leases, evict_idle_cells | `CellManager`, `IdleEviction` |
| Snapshots | `storage/blob.rs` get/put/exists, `manager.rs:76-112,163-188` | `cells/<id>.db`, `cells/<id>.meta.json`, the local file | backup, download | `CellManager` |
| Event streams | `api/ws.rs` | a broadcast receiver, `max_seen_seq` | SSE with history, WebSocket | `EventStream` |
| REST handlers, router | `api/handlers.rs`, `server.rs` | none that changes | activate, then one handle call each | partly: the requests of `CellManager` and the clients of `CellActor` |
| Configuration, errors, entry points | `config.rs`, `error.rs`, `lib.rs` | none that changes | | not modelled |

How they interact. An HTTP handler asks the manager for a `CellHandle` (activating the cell,
which takes the lease, perhaps downloads the snapshot, and spawns the actor thread), sends one
message into the actor's mailbox and awaits a oneshot reply. The actor runs messages one at a
time, each against SQLite, broadcasts the records of an append, then replies. Streams subscribe
to the broadcast bus through the handle. Two timers run beside the requests: every 20 seconds
the manager renews the leases of its active cells and fences those it cannot renew; every 60
seconds it evicts the idle ones. Nodes share only the blob store.

What is hard here, and what makes each component correct:

- *database*: a restore moves the counter backwards, or, to a stale checkpoint, forwards, and is
  two transactions; the log, the counter and the projection `messages` must stay in step through
  failures, and sequences that are given out again must never collide.
- *actor*: callers come and go while their messages are queued; the actor may end with a full
  mailbox. Answers must be true, reach their own call, and never fail to come. The bus must be
  the commits, in order.
- *lease*: requests of several nodes interleave, stall across the expiry and lose their answers;
  at no instant may two nodes believe.
- *manager*: the steps of activation, eviction and renewal interleave with each other and with
  writes on handles that outlive the map entry; the snapshot is two puts; any of them may fail and
  any node die. One actor may run in the cluster, none may be left to itself, and an activated cell
  must have what was acknowledged.
- *streams*: subscribe, query, filter, while the actor commits, ends or dies; a limit of 500 and a
  bus of 256; sequences that go back. Over all its connections a client that resumes must receive
  each event once, in order, and miss none that the code could have given it.

Everything in the code that is hard to test is listed, line by line, under `hazards` in
`PROJECT.json`, with the properties that cover it.

## 2. Modules

### CellDb
The database of one cell as a record with one field per table. Each operator is what one SQLite
transaction of `CellDb` does to it. Payloads, turn ids, labels and times are abstracted; a row's
uuid is `<<token, n>>`, the n-th row that the request `token` wrote. `events.sequence` is a
PRIMARY KEY, so an append whose sequences are taken fails (`PrimaryKeysFree`): that it never is
taken is a property, not an assumption.

### CellActor
The actor thread and the tasks that call it. State: the database; the mailbox; what the thread is
doing (`phase`, `current`); the bus of this incarnation; per client, its call. Actions:

| Action | Code |
| --- | --- |
| `Call`, `Enqueue`, `Return` | a `CellHandle` method: build the message, `tx.send().await` until there is room, `rx.await` |
| `Abandon` | the future is dropped at an await (client disconnects); the message stays queued |
| `ExecAppend`, `ExecSetKv`, `ExecCheckpoint`, `ExecQuery` | one arm of `run`: the transaction, or its failure |
| `ExecRestore`, `AppendRewound` | `restore_checkpoint`, its two transactions |
| `Broadcast`, `Reply` | `event_bus.send` of one record; `reply.send` |
| `ExecStop` | Fence and Shutdown: the status, then the thread ends and the queue is dropped |
| `HandlesDropped` | `blocking_recv` returns None |
| `Crash`, `Spawn` | the process dies; `CellActor::spawn` on the same file |

Three history variables exist for the properties only: `commits` (every row ever committed, in
order), `born` (how many there were when this incarnation started) and `torn` (a restore has ended
between its two transactions, by the failure of the second or a crash, so that rows are gone and no
row says so). `get_events` stands for every
request that only reads: they run in the same place and change nothing; with `DbFaults` they may fail, as any of these
calls of SQLite, and a backup's `fs::read`, may. GetIdleDuration,
CheckpointWal and Backup also change nothing that the model keeps. Appending one event is a batch of one.

### AtomicCell, CellRefinement
`AtomicCell` is what a cell promises to whoever holds a handle: a request has its effect as a whole, at one instant
between its call and its answer, in an order that is the same for all. It has no mailbox, no transactions and
no reply channels. Of the database it keeps the keys, the checkpoints and, in place of the table `events`, the
history, to which every request only appends; what a reader gets is `Log`, the events that no later
`rewound` takes back. Per client it has a call, `called`, `taken` (it has had its effect, or was refused) and
then `answered`, or `lost` with its process. `orphans` are the requests that nobody waits for and that may still have
their effect: those of callers that gave up, and a fence, which is answered when it is sent. When a cell stops, whatever is
pending has no effect at any later time. `intact` says that no restore has been cut in two; without it
the contract promises neither the sequences of an append nor the rows of a read, because the code
does not keep them.

`CellRefinement` maps `CellActor` to it. The instant of a request is its transaction, and of a restore its
second one: until then the request is pending and the history as it was. An answer that the actor has in hand makes its
call `taken`. What the mailbox holds and what the actor has half handled, with nobody waiting, are the orphans.
`Broadcast`, the first half of a restore and an `Enqueue` other than of a fence are steps that `AtomicCell` does not see.

### Lease, S3Lease, LocalLease
`Lease` is the contract: a node may be granted the lease, for at most a time to live from now,
only while no other node holds one that runs. `S3Lease` and `LocalLease` are the two protocols,
one action per store request or file system call, the clock ticking between any two. `held[n]` is
the end of the lease that the manager of n believes in: set by an acquire or a renewal that
returned true, cleared by a release, by a renewal that did not return true (the manager fences the
cell), by a crash. Both are mapped to `Lease` by `grant <- held`.

A store request may fail before or after it took effect (`StoreFault`), and a node may die after
any request (`Crash`). In `LocalLease` a call that fails, or a node that dies before it, ends the operation (`Fault`), and
what was being written may be in the file all the same. Two calls of `acquire_lease` are different. Whatever error
`create_new` ends with, the file is read next (`Create`); and a read that fails is no error either: `fs::read(..).ok()`
(blob.rs:116) makes of it a cell without a lease, and the node renames its own record over the one it could not read (`Read`,
with `Unreadable`).

Three constants name the conditions under which the protocols are correct:
- `PromptRelease`: the unconditional delete of `release_lease` happens before the lease it read
  ends. Nothing in the code enforces it; without it the property fails (`S3LeaseLateRelease`).
- `Overlap = FALSE`: operations of different nodes do not overlap in time. Nothing in the code
  enforces this either; with overlap two nodes acquire (`LocalLeaseRace`).
- `Unreadable = FALSE`: a lease file that is there can be read when it is acquired. With a read that fails, and no overlap at
  all, TLC finds two nodes that believe in the lease after 8 states (the finding at blob.rs:116).

### EventStream
One client that follows a cell, composed with the whole of `CellActor` and one task that writes
(`Writer`); the task that serves the stream asks for the history as the client `Reader`.

| Action | Code |
| --- | --- |
| `Connect` | `handle.subscribe()`, then `get_events` is sent (SSE with a position), in this order |
| `Replay` | the answer: `history` and `max_seen_seq`; an error is an empty history |
| `DeliverHistory`, `DeliverLive`, `FilterOut` | `history_stream.chain(live_stream)` and its filter |
| `Lag` | the receiver yields `Lagged`: SSE goes on, a WebSocket ends |
| `StreamEnds`, `Disconnect` | the bus is closed and drained; the client goes away, at any moment |
| `Publish`, `ActorEnds`, `ProcessDies` | `Broadcast`, the actor's end and `Crash`, with what they do to the receiver |
| `Elsewhere` | every other step of `CellActor` |

`received` is what the client has got over all its connections; it comes back naming the last sequence
of it (`lastId`), as a browser's EventSource does. A WebSocket looks at no position. `lossy` is a history
variable: an SSE receiver has lagged, or a history query failed or was cut short by its limit. The position that a client
first names (`FirstPositions`) may be any, one that the log has not reached too; a negative one is as good as 0.

### CellManager
The managers of several nodes, their actors, and one cell. A cell is its log, a sequence of event numbers; a
file, a snapshot and `latest` (the log after the last acknowledged write) are such sequences, and
`event_sequence` is their length. The actor of `CellActor` is reduced to running or not: what
it promises of each write is proved there. The lease is that of `Lease` without the clock: it ends when the
code lets it. In the map the timer renews it; for an activation, and for an actor outside the map, nobody does.

| Action | Code (`manager.rs`) |
| --- | --- |
| `Find` | the fast path of `get_or_activate`: a clone of the handle |
| `Activate`, `Acquire`, `Look`, `Fetch`, `Spawn` | the slow path, under the write lock: the lease, the decision by `event_sequence`, the download over the local file, `CellActor::spawn` and the entry; `create_cell` skips the snapshot |
| `Insert` | the end of `create_cell`, which awaits the answer to `set_kv` between spawning the actor and making the entry |
| `GiveUp` | any step of these fails, or the client disconnects; the lease is kept, a download may leave a torn file, and the actor that `create_cell` has spawned runs on, outside the map, until it finds its mailbox closed |
| `AppendEvent`, `RestoreCheckpoint`, `Drop` | a request with a handle writes, or ends; the handle may have outlived the map entry |
| `ActorEnds` | the thread handles Fence or Shutdown, or no handle is left |
| `StartEvict`, `StartBackup` | `evict_cell` takes the cell out of the map; `backup_cell`. Each task of `Tasks` is one call at a time: backups wait neither for each other nor for an eviction |
| `TakeBytes`, `TakeMeta`, `Put`, `PutMeta` | the bytes, then the sequence, by way of the mailbox or on a second connection; the two puts |
| `Stop`, `Release` | `handle.shutdown`, then `release_lease` |
| `DropJob` | the client of a backup or an eviction disconnects |
| `RenewFails`, `Fence` | `renew_active_leases` collects the cells it could not renew, then, in a second lock scope, removes them by id and fences the collected handles |
| `Expire`, `Crash` | the lease runs out; a process dies and comes back with a new `node_id` |

What the code leaves to luck is a member of the constant `Allowed`, so that each run and each theorem names
what it assumes. What each member breaks was found with TLC, on instances of the size of the runs:

| Member | What it allows | What it breaks |
| --- | --- | --- |
| `store` | a lease request or a put fails, before or after its effect | nothing |
| `crash` | a process dies at any step; its disk survives | nothing |
| `read` | a read of the snapshot fails, and counts as none | `RunningIsCurrent` |
| `late` | the lease of a cell in the map ends although the renewal timer attends to it | `SingleWriter`, `RunningIsCurrent` |
| `slow` | the lease ends under an activation, or under an actor that is outside the map: being evicted, fenced, or left by a `create_cell` that gave up. The timer renews what is in the map and nothing else (manager.rs:254), so this needs only that one of them outlasts the time to live | `SingleWriter`, `RunningIsCurrent` |
| `tardy` | a backup is still under way when the node's lease ends or an eviction releases it | `RunningIsCurrent`: the late put overwrites a newer snapshot (23 states, with no other member) |
| `overlap` | a request and an eviction overlap on a node, or either and the end of an actor that has left the map; or two evictions | `SingleWriter`, `Accounted`, `RunningIsCurrent` |
| `drop` | the client of an eviction disconnects, which ends the eviction | `Accounted` |
| `recreate` | `create_cell` names a cell that exists | `RunningIsCurrent` |
| `foreign` | a node backs up a cell that is not active on it | `RunningIsCurrent` |

`clean` is a history variable: no node has yet taken the lease when neither its own disk nor the snapshot
held all that was acknowledged, and no restore has cut off an event. When `clean` is false the activation
could not have found the newest state (what a node wrote after its last backup stays on its disk when it
crashes, when an eviction's backup fails, or when the write falls between that backup and the shutdown), or
could not tell it (a restore takes `event_sequence` back, and an older snapshot passes for newer:
the finding at manager.rs:96).

### IdleEviction
Time, one cell, the 60-second timer and `last_active`. `EvictIdleCells` asks the actor how long it has been
idle; the question is a message, and every message resets the clock that it asks for. An eviction is one
step here; what it is made of is in `CellManager`.

## 3. Runs

| Run | Expect | Checks | Instance |
| --- | --- | --- | --- |
| `ActorFaults` | pass | `TypeOK`, `LogBelowCounter`, `RepliesMatchCalls`, `MessagesFollowCommits`, `BusFollowsCommits`, `FailureMeansNothing`, `AckMeansDone`, `EveryCallReturns`, `AtomicSpec` | 2 clients, 3 requests, mailbox of 1, failing transactions, crashes, 1 respawn, fairness |
| `ActorHistory` | pass | `LogIsReplay`, `AckMeansDone`, `HolesComeFromStaleCheckpoints`, `AtomicSpec` | 1 client, 5 requests, failing transactions, crashes, 1 respawn |
| `S3LeaseFaults` | pass | `TypeOK`, `MutualExclusion`, `BeliefIsRecorded`, `LeaseSpec`, `TakenOnlyWhenExpired` | 3 nodes, time to live 2, clock to 5, store faults, crashes |
| `LocalLeaseSerial` | pass | `TypeOK`, `LeaseSpec` | 3 nodes, time to live 2, clock to 5, faults, no overlap, readable files |
| `Streams` | pass | `StreamTypeOK`, `NeverTwice`, `GapsHaveCauses` | SSE and WebSocket, 2 connections, 4 requests with checkpoint, restore and shutdown, crashes, 1 respawn; first positions none, 0 and 2; limit of 4, bus of 2 |
| `ManagerFaults` | pass | `TypeOK`, `SingleWriter`, `Accounted`, `RunningIsCurrent`, `EveryJobEnds` | 2 nodes, 2 jobs at a time, 2 activations, 1 write, `Allowed = {"store", "crash"}`, fairness |
| `StreamShutdown` | violation | `Lossless` | README.md:29; a failed history query becomes an empty history |
| `S3LeaseLateRelease` | violation | `MutualExclusion` | README.md:27; release deletes a lease that is no longer its own |
| `LocalLeaseRace` | violation | `MutualExclusion` | README.md:27; create and write are two calls |
| `ManagerOverlap` | violation | `NoSplitBrain` | README.md:27; an eviction releases the lease under a new activation of its own node |
| `ManagerEvict` | violation | `FreeMeansSaved` | docs/api.md:288; the actor takes writes while the eviction's backup is already read |
| `IdleNever` | violation | `IdleMeansEvicted` | docs/architecture.md:97; asking for the idle time resets it |

What the actor's properties say, beside types. `LogBelowCounter`: numbering never meets a number
that is taken. `MessagesFollowCommits`: the projection is the full history of message events,
restores notwithstanding. `LogIsReplay`: whoever applies the commits and drops, at each
`rewound`, the rows from its sequence on, has the table `events`, except during a restore and
after one was cut in two. `HolesComeFromStaleCheckpoints`: the one way to a hole.
`BusFollowsCommits`: subscribers are sent the requested records, once, in commit order.
`RepliesMatchCalls`, `AckMeansDone`, `FailureMeansNothing`: answers find their calls and are
true, both ways; a read is the log of one instant between call and answer (not claimed once `torn`: a
checkpoint, an append, a restore that is cut, and a read are enough to refute it). `EveryCallReturns`: answers come,
also when the actor ends or the process dies under the caller. `AtomicSpec`: all of this is as if each request
were one step of `AtomicCell`, so that no order of two callers, no caller that gives up and no end of the actor shows
itself in what another caller is told. Two clients with the faults are in `ActorFaults`, the
long histories with several restores in `ActorHistory`.

What the streams' properties say. `NeverTwice`: over all connections no record comes twice, whatever is
lost. `GapsHaveCauses`: of a cell that was never restored, what the client has received is a stretch of
the commits without gap or disorder, from the position it first named on, unless one of four things has
happened: its receiver lagged, a history query failed or was cut short by the limit, it is a WebSocket that
has connected a second time, or the cell was restored. So no order of subscription, query, broadcast and
commit, and no reconnect, crash or respawn opens a gap by itself. Each of the four does. `StreamShutdown` shows the failed query; with `Lossless` in
place of `GapsHaveCauses` TLC finds the others: a limit smaller than what is missed (the
default of 500, ws.rs:47), a bus smaller than what commits between two reads (256, actor.rs:290;
ws.rs:83 drops the `Lagged` without a word), and a WebSocket, which ignores both positions that README.md:29 names.
After a restore the filter of ws.rs:72 also takes out records that the client never got, since
their sequences were given out before; the comment at ws.rs:66 calls it a deduplication filter.

What the manager's properties say. `SingleWriter`: at most one actor of the cell runs in the
cluster. `Accounted`: an actor that runs is in the map, where the timer finds it, or an eviction holds it, or `create_cell` is
about to insert it, or its end is on the way: a message in its mailbox, or no handle left. `RunningIsCurrent`: it runs on all that was acknowledged, as long
as `clean`. `EveryJobEnds`: no backup and no eviction waits for ever.

Bounds, and why they are enough. A mailbox of one slot makes a sender wait as soon as one message
is queued; two clients suffice for one to be handled, the other queued, and the first to have
given up and called again. Three requests reach append - checkpoint - restore, and every request
before or behind a fence; five reach two checkpoints and two restores in the wrong order, the
first situation with a stale checkpoint and rows on both sides of it. A history limit of 2 is
exceeded within these. Batches are one projected event, a mixed pair, and none. One respawn is
enough for state that survives one (the database) and state that does not (bus, mailbox). For the
leases, a time to live of 2 ticks leaves an instant strictly inside a lease; a clock of 5 lets a
lease be taken, renewed, run out, be taken by another and run out again; three nodes let a third
profit from the disorder of two. For the streams, two connections let a client resume, also to a
respawned actor; a batch of two
commits at once and is broadcast in two steps, so that a connection or a crash falls in between; a bus of two lags
and a limit of four is exceeded within the requests. A first position
of 2 is ahead of the log when the client comes early. For the manager, two activations let a cell go to the other node, and two
jobs are a backup beside another, or beside an eviction; one write is enough to tell an old file from a new one, and
the run also checks liveness. The theorems of `CellManagerProofs` are about every bound. Nodes are symmetric in the S3 protocol, and symmetry is used there only, in
a run of invariants and of properties of steps, which name no node. The bounds on requests, respawns and time end each
behaviour; `Finished` marks those ends.

Fairness.
- `ActorFaults`: `WF(ActorStep)`: the thread does not block except on an empty mailbox, and the
  operating system schedules it; SQLite's busy timeout makes a blocked transaction fail rather
  than wait. `SF(Enqueue(c))`: tokio's mpsc gives its permits out in the order of the waiters, so
  whoever waits for room gets it although the room comes and goes. Nothing is assumed of clients or of crashes.
- `ManagerFaults`: an activation, a job and an actor that has to end go on (weak fairness); `TakeBytes`
  waits for a lock that requests take again and again, and tokio's RwLock is fair (strong
  fairness). Nothing has to begin, and nothing is assumed of the timers.
- `IdleNever`: time passes and the timer task is scheduled (weak fairness of `Tick` and `EvictIdleCells`). Without the reset of
  `last_active` in `EvictIdleCells`, `IdleMeansEvicted` holds.

## 4. Proofs

TLC checks each property on a small instance; the theorems here hold for every value of the constants that
the ASSUMEs of the modules admit. All safety properties that the passing runs check are proved.

`CellActorProofs`, for every number of clients, every set of batches and every bound:

- `TypeCorrect`: `Spec => []TypeOK`;
- `LogStaysBelowCounter`: `Spec => []LogBelowCounter`;
- `RepliesFindTheirCalls`: `Spec => []RepliesMatchCalls`.

The inductive invariant is `IInv`: `TypeOK`, `LogBelowCounter` and `RepliesMatchCalls`, to which two facts
are added that neither property says. `Resting`: in the phases in which nothing is handled,
`current` is empty, so a message taken from the queue is the only holder of its reply channel; and
after the thread has ended the mailbox is empty, so no orphan is left in it. `IsFiniteSet(db.messages)`:
the next rowid is a cardinality, a natural number only of a finite set. Lemmas first give the type and the bound of
each database operator; then one lemma for the actions of callers, of the actor and of the end of an
incarnation shows the step; each conjunct is a step of its own.

The second part of the module is about the history of commits. Its lemma `LogSteps` says that a step of the actor does one of
four things to the history: nothing, append a batch, append `rewound`, or truncate.

- `HolesHaveOneCause`: `Spec => HolesComeFromStaleCheckpoints`, from `LogSteps` and the contiguity of a batch.
- `LogReplays`: `Spec => []LogIsReplay`. The property says nothing during a restore, so it is not inductive;
  `Replayed` adds what holds there: the table is the replay up to the checkpoint's sequence.
- `BusFollows`: `Spec => []BusFollowsCommits`. `Follows` states it of two sequences, so that
  it can be carried over an append (`FollowsAppend`) and over a `rewound` (`FollowsSkip`); `BusInv` adds
  that the actor has nothing left to send while it waits for a message.
- `MessagesFollow`: `Spec => []MessagesFollowCommits`. Row numbers are cardinalities; the lemmas `ProjectedGrow` and
  `RowsCount` count what a batch adds.

`CellAnswerProofs` builds on them.

- `FailuresWriteNothing`: `Spec => []FailureMeansNothing`. `TokenInv` says where the token of a request can be:
  issued before, and once in the mailbox or, after that, in the actor's hand or the database; a request that is
  still being sent, or was answered with an error, is in none of them.
- `AnswersAreTrue`: `Spec => []AckMeansDone`. `Acked` adds to the answers that were given those in the
  actor's hand; `StepKeeps` says that no step takes back what an answer rests on, the commits growing
  only at their end; a read is true by `Replayed`.

`CellAtomicProofs` shows the refinement, step by step, for every batch, history limit and mailbox size, with failing
transactions, crashes and respawns:

- `ActorIsAtomic`: `Spec => AtomicSpec`.

The initial states are mapped to the initial state; then each action of `CellActor` has a lemma that names
the step of `AtomicCell` that it is, or that it is none. The mapping sees the mailbox only by way of `Unheard`, so that a message
leaves the orphans when it is received needs that its token is in the queue once, which is `TokenInv`; `HandlerTakes`
(for the arms of `run`) and `RewindTakes` (for the second transaction of a restore) state it once for all. That a read gets
`Log` is `Replayed`. What is new in the invariant is `AtomInv`: an actor between the two transactions of a restore holds one,
of a checkpoint that it has truncated to (`Midway`); what it has in hand to answer is no fence and no shutdown, and an error brings no
rows (`HandAnswers`); the counter is the last sequence of the history, so that the next append is in turn
(`Counted`); and every row was committed (`Committed`).

`S3LeaseProofs`, for every number of nodes and time to live:

- `TypesHold`: `Spec => []TypeOK`, with no further assumption;
- `BeliefStaysRecorded`, `SingleWriter`, `RunningRecordStays`, `Refinement`: under `PromptRelease`,
  `Spec` implies `[]BeliefIsRecorded`, `[]MutualExclusion`, `TakenOnlyWhenExpired` and `LeaseSpec`.

`MutualExclusion` follows from `BeliefIsRecorded`, since there is only one object; that one is
inductive with what each node has in hand between its requests: the record that it read is its own, or had run
out by the time it read the clock; a conditional put then succeeds only where nobody believes.
Each step of `Next` is then shown to be `Grant`, `Drop`, `Tick` or a stutter.

`LocalLeaseProofs`, for every set of nodes and every bound, with nodes that die between two calls and calls that fail, other than the read of `acquire_lease`:

- `TypesHold`: `Spec => []TypeOK`, whatever overlaps or cannot be read;
- `SingleWriter`, `Refinement`: under `Guarded`, that is, without `Overlap` and without `Unreadable`, `Spec` implies
  `[]MutualExclusion` and `LeaseSpec`. Both halves of the assumption are needed: `LocalLeaseRace` shows it of the
  first, the finding at blob.rs:116 of the second.

The invariant says that the operations are `Alone`, that a lease which is believed and runs is the record in the file,
and that what a node has read of the file still holds when it writes, renames or removes it. No
operation then changes a record that another node believes in (`BelievedStays`).

`CellManagerProofs`, for every set of nodes, any number of backups and evictions at a time, and every bound. Each theorem
assumes some members of `Allowed` away, and nothing else:

- `TypesHold`: under `Orderly` (no `overlap`), `Spec => []TypeOK`;
- `NoneForgotten`: under `Orderly` and without `drop`, `Spec => []Accounted`, whatever becomes of the lease;
- `OneWriter`: under `Timely` (`Orderly`, no `late` and no `slow`), `Spec => []SingleWriter`. So it is not enough that
  renewals are in time: an activation, an eviction and the end of a fenced actor must each take less than the time
  to live, since nobody renews the lease meanwhile. The code puts no bound on any of them;
- `NewestState`: under `Careful` (`Allowed` is within `{"store", "crash", "drop"}`), `Spec => []RunningIsCurrent`. `Careful`
  also leaves out a backup that is under way when the lease of its node goes (`tardy`).

The table of section 2 says what becomes of the properties without these assumptions.

`IInv` is what a node keeps within itself: it has at most one actor, which the entry of the map, if there is one, is a handle of; an
activation and an eviction are alone (`ActivatesAlone`, `EvictsAlone`); the fencing in progress is of the entry or of a cell
that has left the map; and of the jobs only an eviction has a handle of its own (`JobHandles`). `Accounted` is
inductive beside it. `SingleWriter` speaks of two nodes and needs the lease: wherever an actor
runs, or an activation is past `Acquire`, the lease is on record for that node (`Holds`), so there is at most one such node.

`NewestState` needs what the files hold while nothing runs: `CurrentInv`, as long as `clean`, says that the
node on record has everything or the snapshot does (`Kept`); that no file, snapshot or meta is ahead of
`latest`, and that one of its length is the same (`StoreInv`, `NotAhead`), though snapshot and meta are put one
after the other; that each backup in progress takes place under the lease, on the newest file (`Backs`), however many
there are; and that an activation takes the right one of file and snapshot (`Activates`).

`EventStreamProofs` builds on `IInv` and `LogSteps`, for every batch, history limit and size of the bus:

- `StreamTypesHold`: `StreamSpec => []StreamTypeOK`;
- `NothingTwice`: `StreamSpec => []NeverTwice`.

Two records with one sequence are possible: a restore gives sequences out again, so `NeverTwice` does
not follow from `max_seen_seq` alone. `StreamInv` rests on the order of the commits instead. The
writer's requests have fresh tokens, so no two commits are the same record (`Precedes` orders them); in
the log, the sequences ascend in the order of the commits, and a sequence that is given out again is no longer
there; what has been sent is a first part of the commits. Everything that was received, or is in the
history or the receiver, is `Settled`, that is, committed and sent or past sending. What was received and
is still in the log lies at or below the last received sequence, so the history, in ascending order above it, brings nothing again; the receiver holds records in the order of the commits; and each record received precedes
what is still to come or lies at or below `max_seen_seq`, which filters it out.

`EventGapProofs` builds on `StreamInv`:

- `GapsExplained`: `StreamSpec => []GapsHaveCauses`.

The argument is about the runs in which nothing has opened a gap (`Whole`); that a step cannot lead back into them is a
lemma of its own (`WholeBefore`). There the log is `Plain`: the n-th commit has the sequence n, and no checkpoint lies ahead, so
positions and sequences are the same numbers. The answer to the history query `Covers` the commits from the client's position
up to a commit m that is not older than the question, or none if the client names a position ahead of it. The receiver was subscribed before the question, so it holds a stretch of the
commits (`Tuned`) from an `a` that is at most m: the two meet or overlap (`Joins`), and `max_seen_seq = m` filters out the
overlap and nothing else. For a client that does not replay, the receiver goes on where the client is. So what is
delivered next has the sequence after `lastId` (`PassesNext`), and `received` stays a stretch (`RunInv`).

The assumptions are the ASSUMEs of the modules: names are apart (`Nobody`, `NoLease`, `NoValue`,
`NoOne`, `Absent` and such stand for nothing else), bounds and positions are naturals, the time to live is positive, and
(`BatchesAssumption`) no client appends an event `rewound` of its own. The last is not the code's: it takes any `event_type`
(docs/architecture.md:42-45, handlers.rs:84-129), and the log of a cell whose clients use this one does not tell their events from
restores, so that a replay of it means nothing. What is checked and proved of the actor is claimed for clients that leave it alone.
TLC evaluates the assumptions in every run.

Only model-checked: liveness (`EveryCallReturns`, `EveryJobEnds`), which is out of this prover's reach.

## 5. What the models assume

- One wall clock for all nodes. The code compares expiry times that one node wrote with the clock of another; a
  skew shortens or lengthens leases and is not modelled.
- A process may die at any step; the operating system does not. With `synchronous = NORMAL` a
  power cut could lose the last commits of the WAL.
- In the lease modules a node runs one lease operation at a time for a cell, and draws a fresh id at each start
  (`manager.rs:32`). What the manager overlaps is in `CellManager`, where `Allowed` names it.
- ETags are a function of the content of the lease object: two records with the same holder and the same
  expiry are the same object version.
- A lease counts as believed until it ends. That the manager acts on the end only at its next
  renewal is `late` in `CellManager`; that nobody renews it during an activation or an eviction is `slow`.
- Opening an existing database succeeds in `CellActor` (in `CellManager` it may fail: `GiveUp`). It leaves the status as the
  last shutdown or fence wrote it (`suspended`; `ON CONFLICT(id) DO UPDATE`, db.rs:126, writes `updated_at` alone), although docs/architecture.md:96 calls a cell whose actor runs `Active`.
- A client that resumes names the last sequence that it received. The handle that `sse_events_stream`
  works with is of a running actor; that the actor ends at any moment after is modelled.
- A backup reads a consistent file, and a crash leaves the file as the last commit left it, unless a download is under way.

### Not modelled

- A snapshot whose bytes are torn, because the second connection of a backup checkpoints the WAL while
  `fs::read` runs; and a `-wal` file that a crash leaves beside a database that a download then replaces.
- The rest of an `fs::write` whose future was dropped: tokio goes on with it on another thread, beside a
  later activation. `GiveUp` leaves a torn file and stops there.
- The second connection of a backup reads `event_sequence` before the bytes, but finds the bytes as they were
  flushed; that SQLite checkpoints by itself in between, and the bytes are the newer of the two, is not modelled.
- Several cells, which share the lock of `active_cells` and wait for each other's activations but nothing else.
- `list_cells` and the other reads of the manager; `delete` of the blob store, which has no caller.
- Routing, formatting, configuration, error types and entry points: nothing there changes state.
- SQLite, tokio and the object store themselves: taken at their documented behaviour.

## 6. Plan

Done, in this order: `CellDb` and `CellActor`; `Lease`, `S3Lease` and its refinement; `LocalLease`;
`EventStream`; `CellManager` over lease and snapshot; `IdleEviction`; `AtomicCell` and the refinement; the
proofs of section 4.

Left:

1. An abstract reader with one position in `commits`, and `EventStream` shown to implement it where
   nothing is `lossy`; `RunInv` and `Joins` are most of the argument.
2. `CellManager` with the clock of `Lease`, so that `late` becomes a delay of the renewal timer, and `slow` and `tardy`
   durations of an activation, an eviction and a put.
