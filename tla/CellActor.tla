------------------------------ MODULE CellActor ------------------------------
(***************************************************************************)
(* The actor of one cell (src/src/cell/actor.rs): a thread that owns the   *)
(* database and takes messages from a bounded mailbox, and the CellHandle  *)
(* through which any number of tokio tasks send it requests and await the  *)
(* replies.                                                                *)
(*                                                                         *)
(* A task runs one request at a time.  Between two of its steps the other  *)
(* tasks and the actor take theirs, so the model has one action for each   *)
(* point at which somebody else can observe or disturb a request: the      *)
(* call, the send into the mailbox, the transaction, each broadcast, the   *)
(* reply.  Restoring a checkpoint is two transactions, hence two actions.  *)
(***************************************************************************)
EXTENDS CellDb

CONSTANTS
    Clients,      \* the tasks that hold a clone of the CellHandle
    Nobody,       \* in place of a client: nobody awaits this reply
    NoRequest,    \* in place of a request
    Batches,      \* the event_type lists that clients append
    MailboxCap,   \* capacity of the mailbox, 128 in the code
    HistoryLimit, \* the limit a get_events request without one gets
    MaxToken,     \* bound: requests that are made in all
    MaxSpawns,    \* bound: times the cell is spawned again
    DbFaults,     \* TRUE: a transaction may fail and roll back, or a read fail
    Crashes       \* TRUE: the process may die at any step

ASSUME ClientsAssumption == Nobody \notin Clients

\* No client appends an event "rewound" of its own.  The code would accept it,
\* as it validates no event names; but then the log itself does not tell such
\* an event from a restore, and LogIsReplay claims nothing about it.
ASSUME BatchesAssumption == Batches \subseteq Seq(EventTypes \ {Rewound})

ASSUME BoundsAssumption ==
    /\ MailboxCap \in Nat \ {0}
    /\ HistoryLimit \in Nat
    /\ MaxToken \in Nat
    /\ MaxSpawns \in Nat
    /\ DbFaults \in BOOLEAN
    /\ Crashes \in BOOLEAN

VARIABLES
    db,        \* the cell's database
    mailbox,   \* the queue of [request, reply]
    phase,     \* what the actor thread is about to do
    current,   \* the message being handled, and what is left to do for it
    bus,       \* what this incarnation has broadcast, in order
    calls,     \* for each client, the request it has made and its fate
    nextToken, \* the next fresh request token
    spawns,    \* how often the cell has been spawned again
    commits,   \* history: every event row ever committed, in commit order
    born,      \* history: Len(commits) when this incarnation was spawned
    torn       \* history: a restore ended between its two transactions

vars == <<db, mailbox, phase, current, bus, calls, nextToken, spawns,
          commits, born, torn>>

Requests ==
         [op : {"append"}, token : Nat, types : Batches]
    \cup [op : {"set_kv"}, token : Nat, key : Keys, value : Values]
    \cup [op : {"checkpoint"}, token : Nat]
    \cup [op : {"restore"}, token : Nat, id : Nat]
    \cup [op : {"get_events"}, token : Nat, since : Nat]
    \cup [op : {"fence", "shutdown"}, token : Nat]

\* "recv": in blocking_recv.  "rewind": between the two transactions of a
\* restore.  "answer": broadcasting, then replying.  "stopped": the thread
\* has ended and the mailbox is closed.
Phases == {"recv", "rewind", "answer", "stopped"}

\* "sending" awaits room in the mailbox, "waiting" awaits the reply; "ok" and
\* "err" are the answers a caller sees, "lost" is a caller that died.
Fates == {"idle", "sending", "waiting", "ok", "err", "lost"}

NoCall == [fate |-> "idle", request |-> NoRequest, asked |-> 0, rows |-> {}]

CallRecords ==
    {NoCall} \cup [fate    : Fates \ {"idle"},
                   request : Requests,
                   asked   : Nat,
                   rows    : SUBSET EventRecords]

Mails == [request : Requests, reply : Clients \cup {Nobody}]

Idle == [request |-> NoRequest, reply |-> Nobody, target |-> 0,
         outcome |-> "ok", rows |-> {}, out |-> <<>>]

Running == phase # "stopped"

\* The requests a client can make now.  It names a checkpoint that it knows
\* from a listing, or one that does not exist (0 is nobody's token).
Offered ==
         {[op |-> "append", token |-> nextToken, types |-> b] : b \in Batches}
    \cup {[op |-> "set_kv", token |-> nextToken, key |-> k, value |-> v] :
              k \in Keys, v \in Values}
    \cup {[op |-> "checkpoint", token |-> nextToken]}
    \cup {[op |-> "restore", token |-> nextToken, id |-> i] :
              i \in {0} \cup {cp.id : cp \in db.checkpoints}}
    \cup {[op |-> "get_events", token |-> nextToken, since |-> s] :
              s \in 0..db.event_sequence}
    \cup {[op |-> o, token |-> nextToken] : o \in {"fence", "shutdown"}}

\* Mutant of Orphaned: the callers whose message was queued are forgotten.
OrphanedSendersOnly ==
    [c \in Clients |->
        IF calls[c].fate = "sending" THEN [calls[c] EXCEPT !.fate = "err"]
        ELSE calls[c]]

\* The fates of the calls when the actor, and the mailbox with it, is gone:
\* a pending send or reply becomes an error.  fence and shutdown return
\* nothing, so to their callers the closed mailbox is success.
Orphaned ==
    [c \in Clients |->
        IF calls[c].fate \notin {"sending", "waiting"} THEN calls[c]
        ELSE [calls[c] EXCEPT !.fate =
                 IF calls[c].request.op \in {"fence", "shutdown"}
                 THEN "ok" ELSE "err"]]

Init ==
    /\ db = EmptyDb
    /\ mailbox = <<>>
    /\ phase = "recv"
    /\ current = Idle
    /\ bus = <<>>
    /\ calls = [c \in Clients |-> NoCall]
    /\ nextToken = 1
    /\ spawns = 0
    /\ commits = <<>>
    /\ born = 0
    /\ torn = FALSE

-----------------------------------------------------------------------------
(* CellHandle: the side of the callers.                                    *)

Call(c) ==
    /\ calls[c].fate = "idle"
    /\ nextToken <= MaxToken
    /\ \E r \in Offered :
        calls' = [calls EXCEPT ![c] =
            [fate    |-> IF Running THEN "sending"
                         ELSE IF r.op \in {"fence", "shutdown"} THEN "ok"
                         ELSE "err",
             request |-> r,
             asked   |-> Len(commits),
             rows    |-> {}]]
    /\ nextToken' = nextToken + 1
    /\ UNCHANGED <<db, mailbox, phase, current, bus, spawns, commits,
                   born, torn>>

\* Mutant of Enqueue: an unbounded channel.
EnqueueUnbounded(c) ==
    /\ Running
    /\ calls[c].fate = "sending"
    /\ mailbox' = Append(mailbox, [request |-> calls[c].request, reply |-> c])
    /\ calls' = [calls EXCEPT ![c].fate = "waiting"]
    /\ UNCHANGED <<db, phase, current, bus, nextToken, spawns, commits,
                   born, torn>>

\* tx.send finds room.  A fence has no reply to wait for.
Enqueue(c) ==
    /\ Running
    /\ calls[c].fate = "sending"
    /\ Len(mailbox) < MailboxCap
    /\ LET fence == calls[c].request.op = "fence"
       IN  /\ mailbox' = Append(mailbox,
                  [request |-> calls[c].request,
                   reply   |-> IF fence THEN Nobody ELSE c])
           /\ calls' = [calls EXCEPT ![c].fate =
                            IF fence THEN "ok" ELSE "waiting"]
    /\ UNCHANGED <<db, phase, current, bus, nextToken, spawns, commits,
                   born, torn>>

\* The caller has its answer and forgets the call.
Return(c) ==
    /\ calls[c].fate \in {"ok", "err", "lost"}
    /\ calls' = [calls EXCEPT ![c] = NoCall]
    /\ UNCHANGED <<db, mailbox, phase, current, bus, nextToken, spawns,
                   commits, born, torn>>

\* Mutant of Abandon: the queued message keeps the caller's reply channel.
AbandonKeepsReply(c) ==
    /\ calls[c].fate \in {"sending", "waiting"}
    /\ calls' = [calls EXCEPT ![c] = NoCall]
    /\ UNCHANGED <<db, mailbox, phase, current, bus, nextToken, spawns,
                   commits, born, torn>>

\* The caller's future is dropped, as when an HTTP client disconnects.  A
\* message that is in the mailbox stays there.
Abandon(c) ==
    /\ calls[c].fate \in {"sending", "waiting"}
    /\ calls' = [calls EXCEPT ![c] = NoCall]
    /\ mailbox' = [i \in DOMAIN mailbox |->
           IF mailbox[i].reply = c THEN [mailbox[i] EXCEPT !.reply = Nobody]
           ELSE mailbox[i]]
    /\ current' = IF current.reply = c THEN [current EXCEPT !.reply = Nobody]
                  ELSE current
    /\ UNCHANGED <<db, phase, bus, nextToken, spawns, commits, born, torn>>

-----------------------------------------------------------------------------
(* CellActor::run: one message at a time.                                  *)

\* The thread takes the next message, and it is an op.
Receive(op) ==
    /\ phase = "recv"
    /\ mailbox # <<>>
    /\ Head(mailbox).request.op = op
    /\ mailbox' = Tail(mailbox)

\* The handler's result: what is still to be broadcast, and the reply.
Answer(outcome, rows, out) ==
    /\ phase' = "answer"
    /\ current' = [request |-> Head(mailbox).request,
                   reply   |-> Head(mailbox).reply,
                   target  |-> 0,
                   outcome |-> outcome, rows |-> rows, out |-> out]

\* A transaction that fails leaves nothing behind.
Fail ==
    /\ Answer("err", {}, <<>>)
    /\ UNCHANGED <<db, commits>>

\* AppendEvent and AppendEventsBatch: all of the batch or nothing.  An empty
\* batch opens no transaction.
ExecAppend ==
    /\ Receive("append")
    /\ LET r       == Head(mailbox).request
           records == NewRecords(db, r.token, r.types)
       IN  \/ /\ PrimaryKeysFree(db, Len(r.types))
              /\ db' = AppendEvents(db, r.token, r.types)
              /\ commits' = commits \o records
              /\ Answer("ok", Range(records), records)
           \/ /\ \/ ~PrimaryKeysFree(db, Len(r.types))
                 \/ DbFaults /\ r.types # <<>>
              /\ Fail
    /\ UNCHANGED <<bus, calls, nextToken, spawns, born, torn>>

ExecSetKv ==
    /\ Receive("set_kv")
    /\ LET r == Head(mailbox).request
       IN  \/ /\ db' = SetKv(db, r.key, r.value)
              /\ Answer("ok", {}, <<>>)
              /\ UNCHANGED commits
           \/ DbFaults /\ Fail
    /\ UNCHANGED <<bus, calls, nextToken, spawns, born, torn>>

ExecCheckpoint ==
    /\ Receive("checkpoint")
    /\ \/ /\ db' = CreateCheckpoint(db, Head(mailbox).request.token)
          /\ Answer("ok", {}, <<>>)
          /\ UNCHANGED commits
       \/ DbFaults /\ Fail
    /\ UNCHANGED <<bus, calls, nextToken, spawns, born, torn>>

\* get_events, and with it every request that only reads: get_messages,
\* get_meta, get_kv, list_kv, export, and backup of the flushed file.
ExecQuery ==
    /\ Receive("get_events")
    /\ \/ /\ Answer("ok",
                    GetEvents(db, Head(mailbox).request.since, HistoryLimit),
                    <<>>)
          /\ UNCHANGED <<db, commits>>
       \/ DbFaults /\ Fail
    /\ UNCHANGED <<bus, calls, nextToken, spawns, born, torn>>

\* restore_checkpoint: look the checkpoint up and truncate to it ...
ExecRestore ==
    /\ Receive("restore")
    /\ LET r == Head(mailbox).request
       IN  \/ \E cp \in db.checkpoints :
                /\ cp.id = r.id
                /\ db' = Truncate(db, cp.sequence)
                /\ phase' = "rewind"
                /\ current' = [Idle EXCEPT !.request = r,
                                           !.reply   = Head(mailbox).reply,
                                           !.target  = cp.sequence]
                /\ UNCHANGED commits
           \/ /\ DbFaults \/ \A cp \in db.checkpoints : cp.id # r.id
              /\ Fail
    /\ UNCHANGED <<bus, calls, nextToken, spawns, born, torn>>

\* ... then, in a second transaction, append the event "rewound".  Nothing
\* sends it to the bus.  When it fails, so does the request: the truncation
\* stays.
AppendRewound ==
    /\ phase = "rewind"
    /\ LET token   == current.request.token
           records == NewRecords(db, token, <<Rewound>>)
       IN  \/ /\ PrimaryKeysFree(db, 1)
              /\ db' = AppendEvents(db, token, <<Rewound>>)
              /\ commits' = commits \o records
              /\ current' = [current EXCEPT !.rows = Range(records)]
              /\ UNCHANGED torn
           \/ /\ DbFaults \/ ~PrimaryKeysFree(db, 1)
              /\ current' = [current EXCEPT !.outcome = "err"]
              /\ torn' = TRUE
              /\ UNCHANGED <<db, commits>>
    /\ phase' = "answer"
    /\ UNCHANGED <<mailbox, bus, calls, nextToken, spawns, born>>

\* Mutant of Broadcast: of a batch only the first record is sent.
BroadcastFirstOnly ==
    /\ phase = "answer"
    /\ current.out # <<>>
    /\ bus' = Append(bus, Head(current.out))
    /\ current' = [current EXCEPT !.out = <<>>]
    /\ UNCHANGED <<db, mailbox, phase, calls, nextToken, spawns, commits,
                   born, torn>>

\* event_bus.send, one record at a time.
Broadcast ==
    /\ phase = "answer"
    /\ current.out # <<>>
    /\ bus' = Append(bus, Head(current.out))
    /\ current' = [current EXCEPT !.out = Tail(@)]
    /\ UNCHANGED <<db, mailbox, phase, calls, nextToken, spawns, commits,
                   born, torn>>

\* Mutant of Reply: the result of the database is not looked at.
ReplyAlwaysOk ==
    /\ phase = "answer"
    /\ current.out = <<>>
    /\ calls' = [c \in Clients |->
           IF current.reply = c
           THEN [calls[c] EXCEPT !.fate = "ok", !.rows = current.rows]
           ELSE calls[c]]
    /\ phase' = "recv"
    /\ current' = Idle
    /\ UNCHANGED <<db, mailbox, bus, nextToken, spawns, commits, born, torn>>

\* reply.send, whose failure is ignored when the caller is gone.
Reply ==
    /\ phase = "answer"
    /\ current.out = <<>>
    /\ calls' = [c \in Clients |->
           IF current.reply = c
           THEN [calls[c] EXCEPT !.fate = current.outcome,
                                 !.rows = current.rows]
           ELSE calls[c]]
    /\ phase' = "recv"
    /\ current' = Idle
    /\ UNCHANGED <<db, mailbox, bus, nextToken, spawns, commits, born, torn>>

-----------------------------------------------------------------------------
(* The end of an incarnation, and the next one.                            *)

\* Mutant of ThreadEnds: the queue outlives the thread.
ThreadEndsQueueKept ==
    /\ phase' = "stopped"
    /\ current' = Idle
    /\ UNCHANGED <<mailbox, bus, nextToken, spawns, commits, born>>

\* The thread ends: the receiver of the mailbox is dropped with every
\* message in it.  What was broadcast remains with the subscribers, but the
\* next incarnation has a bus of its own.
ThreadEnds ==
    /\ phase' = "stopped"
    /\ mailbox' = <<>>
    /\ current' = Idle
    /\ UNCHANGED <<bus, nextToken, spawns, commits, born>>

\* Fence and Shutdown set the status, ignoring an error, and break.
ExecStop ==
    /\ phase = "recv"
    /\ mailbox # <<>>
    /\ Head(mailbox).request.op \in {"fence", "shutdown"}
    /\ \/ db' = UpdateStatus(db, "suspended")
       \/ DbFaults /\ db' = db
    /\ calls' = Orphaned
    /\ ThreadEnds
    /\ UNCHANGED torn

\* blocking_recv returns None: every handle is dropped, the queue is empty.
HandlesDropped ==
    /\ phase = "recv"
    /\ mailbox = <<>>
    /\ \A c \in Clients : calls[c].fate = "idle"
    /\ ThreadEnds
    /\ UNCHANGED <<db, calls, torn>>

\* The process dies.  The transactions it has committed survive it, the one
\* it was in is rolled back; the callers in the process die with it.
Crash ==
    /\ Crashes
    /\ Running
    /\ calls' = [c \in Clients |->
           IF calls[c].fate \in {"sending", "waiting"}
           THEN [calls[c] EXCEPT !.fate = "lost"] ELSE calls[c]]
    /\ ThreadEnds
    /\ torn' = (torn \/ phase = "rewind")
    /\ UNCHANGED db

\* CellActor::spawn on the database that is there: init_schema leaves the
\* status of an existing row alone.
Spawn ==
    /\ phase = "stopped"
    /\ spawns < MaxSpawns
    /\ phase' = "recv"
    /\ bus' = <<>>
    /\ born' = Len(commits)
    /\ spawns' = spawns + 1
    /\ UNCHANGED <<db, mailbox, current, calls, nextToken, commits, torn>>

\* Every bound is used up and nothing is under way: no deadlock.
Finished ==
    /\ nextToken > MaxToken
    /\ phase = "stopped"
    /\ spawns = MaxSpawns
    /\ \A c \in Clients : calls[c].fate = "idle"
    /\ UNCHANGED vars

-----------------------------------------------------------------------------

ActorStep ==
    \/ ExecAppend
    \/ ExecSetKv
    \/ ExecCheckpoint
    \/ ExecQuery
    \/ ExecRestore
    \/ AppendRewound
    \/ Broadcast
    \/ Reply
    \/ ExecStop

ClientStep(c) ==
    \/ Call(c)
    \/ Enqueue(c)
    \/ Return(c)
    \/ Abandon(c)

Next ==
    \/ \E c \in Clients : ClientStep(c)
    \/ ActorStep
    \/ HandlesDropped
    \/ Crash
    \/ Spawn
    \/ Finished

Spec == Init /\ [][Next]_vars

\* The thread is scheduled, and the permits of a tokio mpsc channel are given
\* out in the order they were asked for, so a sender is not overtaken forever.
Fairness ==
    /\ WF_vars(ActorStep)
    /\ \A c \in Clients : SF_vars(Enqueue(c))

FairSpec == Spec /\ Fairness

-----------------------------------------------------------------------------
(* What the actor guarantees.                                              *)

\* The type invariant.  The mailbox never exceeds its capacity.
TypeOK ==
    /\ db \in Databases
    /\ mailbox \in Seq(Mails)
    /\ Len(mailbox) <= MailboxCap
    /\ phase \in Phases
    /\ current \in [request : Requests \cup {NoRequest},
                    reply   : Clients \cup {Nobody},
                    target  : Nat,
                    outcome : {"ok", "err"},
                    rows    : SUBSET EventRecords,
                    out     : Seq(EventRecords)]
    /\ bus \in Seq(EventRecords)
    /\ phase = "rewind" => current.request \in Requests
    /\ calls \in [Clients -> CallRecords]
    /\ nextToken \in Nat
    /\ spawns \in Nat
    /\ commits \in Seq(EventRecords)
    /\ born \in Nat
    /\ torn \in BOOLEAN

\* The reply channels of c: it waits exactly while one message, queued or being
\* handled, is its request and holds its reply channel.
OneReply(c) ==
    /\ calls[c].fate = "waiting" =>
           \/ current.reply = c
           \/ \E i \in DOMAIN mailbox : mailbox[i].reply = c
    /\ current.reply = c =>
           /\ calls[c].fate = "waiting"
           /\ calls[c].request = current.request
           /\ \A i \in DOMAIN mailbox : mailbox[i].reply # c
    /\ \A i \in DOMAIN mailbox : mailbox[i].reply = c =>
           /\ calls[c].fate = "waiting"
           /\ calls[c].request = mailbox[i].request
           /\ \A j \in DOMAIN mailbox : mailbox[j].reply = c => j = i

\* No answer goes to the wrong call, and no caller waits for an answer that
\* nobody holds: also when it gave up one call and has made the next, or when
\* the actor ended with messages in its queue.
RepliesMatchCalls == \A c \in Clients : OneReply(c)

\* Every event row lies at or below event_sequence, whatever was appended,
\* restored or rolled back before: no append can meet a sequence that is
\* taken, so the PRIMARY KEY of events never refuses one.
LogBelowCounter ==
    \A e \in db.events : e.sequence \in 1..db.event_sequence

\* The rows that a reader of the first n commits has if it drops, at each
\* "rewound", every row it holds from that sequence on.
LogAfter(n) ==
    {commits[i] : i \in {k \in 1..n :
        \A j \in (k + 1)..n :
            ~ /\ commits[j].type = Rewound
              /\ commits[j].sequence <= commits[k].sequence}}

\* The log is what its history says: outside the two transactions of a
\* restore, a consumer that applies "rewound" rebuilds the table events from
\* the stream of commits.  Nothing vanishes unmarked, and nothing that a
\* restore deleted comes back, through failed transactions, crashes and
\* restarts: unless one of them has cut a restore in two.
LogIsReplay ==
    phase # "rewind" /\ ~torn => db.events = LogAfter(Len(commits))

\* The message events among the first n commits.
Projected(n) == {k \in 1..n : commits[k].type \in MessageTypes}

\* The projection is the whole history: the n-th message event ever committed
\* is the n-th row of messages, whether it came alone or in a batch and
\* whether or not a restore has deleted its event since.
MessagesFollowCommits ==
    db.messages =
        {[rowid |-> Cardinality(Projected(k)), id |-> commits[k].id] :
         k \in Projected(Len(commits))}

\* The commits of this incarnation, up to the n-th of all, that requests asked
\* for: everything but the events "rewound".
Requested(n) == {k \in (born + 1)..n : commits[k].type # Rewound}

\* Subscribers of this incarnation are sent exactly the requested records it
\* commits, once each and in commit order: the n-th of these is the n-th sent.
\* While it runs, it owes them only the records that it still holds in its
\* hand.
BusFollowsCommits ==
    Running =>
        LET sent == bus \o current.out
        IN  /\ Len(sent) = Cardinality(Requested(Len(commits)))
            /\ \A k \in Requested(Len(commits)) :
                  sent[Cardinality(Requested(k))] = commits[k]

\* The effect that the answer "ok" of the request r, asked when there were n
\* commits and answered with rows, promises.
Done(r, n, rows) ==
    CASE r.op = "append" ->
            \E m \in n..(Len(commits) - Len(r.types)) :
                /\ rows = {commits[m + i] : i \in DOMAIN r.types}
                /\ \A i \in DOMAIN r.types :
                    /\ commits[m + i].id = <<r.token, i>>
                    /\ commits[m + i].type = r.types[i]
                    /\ commits[m + i].sequence = commits[m + 1].sequence + i - 1
      [] r.op = "set_kv"     -> db.kv[r.key] # NoValue
      [] r.op = "checkpoint" -> \E cp \in db.checkpoints : cp.id = r.token
      [] r.op = "restore"    ->
            \E m \in (n + 1)..Len(commits) :
                /\ rows = {commits[m]}
                /\ commits[m].type = Rewound
                /\ commits[m].id = <<r.token, 1>>
      [] r.op = "get_events" ->
            \/ torn
            \/ \E m \in n..Len(commits) :
                  rows = EventsAfter(LogAfter(m), r.since, HistoryLimit)
      [] OTHER -> TRUE

\* An answer "ok" is true: the request took effect as a whole, at one instant
\* between the call and the answer.  A batch is contiguous in the log, a read
\* is the log of such an instant: never torn, never older than the call.  A
\* restore that was cut in two leaves a log of no instant.
AckMeansDone ==
    \A c \in Clients :
        calls[c].fate = "ok" =>
            Done(calls[c].request, calls[c].asked, calls[c].rows)

\* An answer "err" is true as well: the request has written nothing, and it
\* never will, so the caller may send it again.  A restore is excepted.
FailureMeansNothing ==
    \A c \in Clients :
        calls[c].fate = "err" =>
            LET t == calls[c].request.token
            IN  /\ \A i \in DOMAIN commits : commits[i].id[1] # t
                /\ \A m \in DOMAIN mailbox : mailbox[m].request.token # t
                /\ \A cp \in db.checkpoints : cp.id # t

\* The sequences of the log have no hole.
Contiguous(d) == {e.sequence : e \in d.events} = 1..d.event_sequence

\* A hole appears in the log in one way only: a restore to a checkpoint that
\* lies ahead of event_sequence, which an earlier restore has taken back.
HolesComeFromStaleCheckpoints ==
    [][Contiguous(db) /\ ~Contiguous(db') =>
          \E cp \in db.checkpoints :
              /\ cp.sequence > db.event_sequence
              /\ db'.event_sequence = cp.sequence]_vars

\* Every caller is answered: it finds room and gets its reply, or the actor
\* ends and it gets an error.  Nobody waits on a mailbox that nobody reads.
EveryCallReturns ==
    \A c \in Clients :
        calls[c].fate \in {"sending", "waiting"}
            ~> calls[c].fate \notin {"sending", "waiting"}

=============================================================================
