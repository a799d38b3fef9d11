---------------------------- MODULE EventGapProofs ----------------------------
(***************************************************************************)
(* Proofs about EventStream, for every value of its constants: unless the  *)
(* receiver lags, a history fails or is cut short, a WebSocket reconnects  *)
(* or the cell is restored, the client misses nothing.                     *)
(***************************************************************************)
EXTENDS EventStreamProofs

-----------------------------------------------------------------------------
(* The invariant.                                                          *)

\* Nothing has opened a gap.
Whole ==
    /\ NeverRestored
    /\ ~lossy
    /\ kind = "ws" => connects <= 1

\* Of a log that was never restored the n-th commit has the sequence n, and
\* no checkpoint lies ahead.
Plain ==
    /\ db.event_sequence = Len(commits)
    /\ \A i \in DOMAIN commits : commits[i].sequence = i
    /\ \A cp \in db.checkpoints : cp.sequence <= Len(commits)

PlainInv == NeverRestored => Plain

FirstInv == connects = 0 => received = <<>> /\ conn = "off"

\* What the client has goes up to lastId without a gap.
RunInv ==
    received # <<>> =>
        /\ \A k \in DOMAIN received :
              received[k].sequence = (lastId - Len(received)) + k
        /\ kind = "sse" /\ url # NoSince => lastId - Len(received) = url

\* A stretch of the commits.
Stretch(lo, hi) == {commits[i] : i \in (lo + 1)..hi}

\* The rows are the log after the client's position, up to a commit that is
\* not older than the question.
Covers(rows) ==
    Cardinality(rows) # HistoryLimit =>
        \E m \in calls[Reader].asked..Len(commits) : rows = Stretch(Since, m)

AskRun ==
    conn = "asking" =>
        /\ calls[Reader].asked <= Len(commits)
        /\ calls[Reader].fate = "ok" => Covers(calls[Reader].rows)
        /\ phase = "answer" /\ current.reply = Reader /\ current.outcome = "ok"
             => Covers(current.rows)

\* The history goes on where the client is, up to maxSeen.
HistoryRun ==
    history # <<>> =>
        /\ Since # NoSince
        /\ \A i \in DOMAIN history : history[i].sequence = Since + i
        /\ maxSeen = Since + Len(history)

\* Where the client is; a WebSocket does not heed ?since=.
Place == IF kind = "sse" THEN Since ELSE lastId

\* Where it will be when it has the history.
Reach == IF history = <<>> THEN Place ELSE maxSeen

\* The receiver, whose first record has the sequence a + 1, goes on there; of
\* what lies before it filters out the rest.
Joins(a) ==
    /\ conn = "asking" => a <= calls[Reader].asked
    /\ conn = "open" /\ Reach # NoSince =>
          \/ a = Reach /\ (kind = "sse" => maxSeen <= Reach)
          \/ a < Reach /\ kind = "sse" /\ maxSeen = Reach

\* The receiver holds a stretch of the commits, and as long as the actor runs
\* it goes up to the last that was sent.
Tuned(a) ==
    /\ \A i \in DOMAIN rx : rx[i].sequence = a + i
    /\ attached => a + Len(rx) = Sent

LiveRun == ~lagged => \E a \in Nat : Tuned(a) /\ Joins(a)

WholeInv == Whole => RunInv /\ AskRun /\ HistoryRun /\ LiveRun

GapInv == PlainInv /\ FirstInv /\ WholeInv

-----------------------------------------------------------------------------
(* The log that was never restored.                                        *)

LEMMA NeverRestoredBefore ==
    ASSUME ActorInv, Moves, NeverRestored'
    PROVE  NeverRestored
<1>1. ASSUME NEW i \in DOMAIN commits
      PROVE  commits[i] \in db.events /\ commits[i].type # Rewound
  <2>1. i \in DOMAIN commits' /\ commits'[i] = commits[i]
    BY CommitsStay
  <2>2. commits[i] \in Range(commits')
    BY <2>1 DEF Range
  <2>3. commits[i] \in db'.events /\ commits[i].type # Rewound
    BY <2>2 DEF NeverRestored
  <2> QED
    BY <2>3, NoRowReturns
<1> QED
  BY <1>1 DEF NeverRestored, Range

\* What a step never takes back.
LEMMA StreamOnwards ==
    ASSUME [StreamNext]_allVars
    PROVE  /\ UNCHANGED <<kind, url>>
           /\ lossy => lossy'
           /\ connects' = connects \/ Connect
<1>1. CASE UNCHANGED allVars
  BY <1>1 DEF allVars, streamVars
<1>2. CASE Connect
  BY <1>2 DEF Connect
<1>3. CASE Replay
  BY <1>3 DEF Replay
<1>4. CASE DeliverHistory \/ DeliverLive \/ FilterOut
  BY <1>4 DEF DeliverHistory, DeliverLive, FilterOut, Yields
<1>5. CASE Lag \/ StreamEnds \/ Disconnect \/ ProcessDies
  BY <1>5 DEF Lag, StreamEnds, Disconnect, ProcessDies, Hangup
<1>6. CASE Publish \/ ActorEnds
  BY <1>6 DEF Publish, ActorEnds
<1>7. CASE Elsewhere
  BY <1>7 DEF Elsewhere, streamVars
<1> QED
  BY <1>1, <1>2, <1>3, <1>4, <1>5, <1>6, <1>7 DEF StreamNext

LEMMA WholeBefore ==
    ASSUME ActorInv, StreamTypeOK, [StreamNext]_allVars, Moves, Whole'
    PROVE  Whole
<1>1. NeverRestored
  BY NeverRestoredBefore DEF Whole
<1>2. connects \in Nat /\ (connects' = connects \/ connects' = connects + 1)
  <2>1. connects \in Nat
    BY StreamAssumption DEF StreamTypeOK
  <2>2. Connect => connects' = connects + 1
    BY DEF Connect
  <2> QED
    BY <2>1, <2>2, StreamOnwards
<1>3. kind = "ws" => connects <= 1
  BY <1>2, StreamOnwards DEF Whole
<1> QED
  BY <1>1, <1>3, StreamOnwards DEF Whole

\* A step creates a checkpoint at the counter, or none.
LEMMA CheckpointStep ==
    ASSUME ActorInv, Moves, NEW cp \in db'.checkpoints
    PROVE  cp \in db.checkpoints \/ cp.sequence = db.event_sequence
<1>1. db \in Databases
  BY DEF ActorInv, IInv, TypeOK
<1>2. CASE UNCHANGED db
  BY <1>2
<1>3. CASE \/ UNCHANGED vars \/ Connect \/ Call(Writer) \/ Enqueue(Writer)
           \/ Return(Writer) \/ Enqueue(Reader) \/ Return(Reader)
           \/ Abandon(Reader)
  BY <1>2, <1>3 DEF vars, Connect, Call, Enqueue, Return, Abandon
<1>4. CASE ExecQuery \/ Broadcast \/ Reply \/ Spawn \/ HandlesDropped \/ Crash
  BY <1>2, <1>4
  DEF ExecQuery, Fail, Broadcast, Reply, Spawn, HandlesDropped, Crash
<1>5. CASE ExecAppend \/ AppendRewound
  BY <1>1, <1>2, <1>5
  DEF ExecAppend, AppendRewound, Fail, AppendEvents, Databases
<1>6. CASE ExecCheckpoint
  BY <1>1, <1>2, <1>6 DEF ExecCheckpoint, Fail, CreateCheckpoint, Databases
<1>7. CASE ExecStop
  BY <1>1, <1>2, <1>7 DEF ExecStop, UpdateStatus, Databases
<1>8. CASE ExecRestore
  BY <1>1, <1>2, <1>8 DEF ExecRestore, Fail, Truncate, Databases
<1> QED
  BY <1>3, <1>4, <1>5, <1>6, <1>7, <1>8 DEF Moves, Goes

\* Where the cut takes no commit away, it moves nothing.
LEMMA CutKeeps ==
    ASSUME ActorInv, Plain, NEW cp \in db.checkpoints, Cuts(cp.sequence),
           NeverRestored'
    PROVE  db'.event_sequence = db.event_sequence
<1> DEFINE n == Len(commits)
<1>1. /\ db \in Databases /\ commits \in Seq(EventRecords) /\ n \in Nat
      /\ DOMAIN commits = 1..n
  BY DEF ActorInv, IInv, TypeOK
<1>2. cp.sequence \in Nat /\ cp.sequence <= n /\ db.event_sequence = n
  BY <1>1 DEF Plain, Databases, Checkpoints
<1>3. /\ db'.event_sequence = cp.sequence /\ commits' = commits
      /\ \A e \in db'.events : e.sequence <= cp.sequence
  BY <1>1 DEF Cuts, Truncate, Databases
<1>4. n # 0 => n <= cp.sequence
  <2> SUFFICES ASSUME n # 0 PROVE n <= cp.sequence
    OBVIOUS
  <2>1. n \in DOMAIN commits /\ commits[n].sequence = n
    BY <1>1 DEF Plain
  <2>2. commits[n] \in db'.events
    BY <1>3, <2>1 DEF NeverRestored, Range
  <2> QED
    BY <1>3, <2>1, <2>2
<1> QED
  BY <1>1, <1>2, <1>3, <1>4

LEMMA PlainKept ==
    ASSUME ActorInv, Moves, PlainInv
    PROVE  PlainInv'
<1> SUFFICES ASSUME NeverRestored' PROVE Plain'
  BY DEF PlainInv
<1>1. /\ Plain /\ db \in Databases /\ Len(commits) \in Nat
      /\ DOMAIN commits = 1..Len(commits)
      /\ Len(commits') \in Nat /\ Len(commits) <= Len(commits')
      /\ DOMAIN commits' = 1..Len(commits')
      /\ \A i \in DOMAIN commits : commits'[i] = commits[i]
      /\ \A cp \in db.checkpoints : cp.sequence \in Nat
  <2>1. db \in Databases
    BY DEF ActorInv, IInv, TypeOK
  <2>2. \A cp \in db.checkpoints : cp.sequence \in Nat
    BY <2>1 DEF Databases, Checkpoints
  <2> QED
    BY <2>1, <2>2, NeverRestoredBefore, CommitsStay DEF PlainInv
<1>2. ASSUME NEW cp \in db'.checkpoints
      PROVE  cp.sequence <= Len(commits')
  <2>1. CASE cp \in db.checkpoints
    BY <1>1, <2>1 DEF Plain
  <2>2. CASE cp.sequence = db.event_sequence
    BY <1>1, <2>2 DEF Plain
  <2> QED
    BY <2>1, <2>2, CheckpointStep
<1>3. CASE db'.event_sequence = db.event_sequence /\ commits' = commits
  BY <1>1, <1>2, <1>3 DEF Plain
<1>4. CASE \E cp \in db.checkpoints : Cuts(cp.sequence)
  BY <1>1, <1>3, <1>4, CutKeeps DEF Cuts
<1>5. CASE \E t \in Nat, ts \in Seq(EventTypes) : Appends(t, ts)
  <2>1. PICK t \in Nat, ts \in Seq(EventTypes) : Appends(t, ts)
    BY <1>5
  <2> DEFINE n == Len(commits)
             m == Len(ts)
  <2>2. /\ m \in Nat /\ Len(commits') = n + m
        /\ \A i \in 1..Len(commits') : i \notin 1..n =>
              commits'[i].sequence = db.event_sequence + (i - n)
    BY <2>1, Grown
  <2>3. db'.event_sequence = db.event_sequence + m
    BY <2>1, EventsGrow DEF ActorInv
  <2> HIDE DEF n, m
  <2>4. n \in Nat /\ db.event_sequence = n /\ n = Len(commits)
    BY <1>1 DEF Plain, n
  <2>5. ASSUME NEW i \in 1..Len(commits') PROVE commits'[i].sequence = i
    <3>1. CASE i \in 1..n
      BY <1>1, <2>4, <3>1 DEF Plain
    <3>2. CASE i \notin 1..n
      BY <2>2, <2>4, <2>5, <3>2
    <3> QED
      BY <3>1, <3>2
  <2> QED
    BY <1>1, <1>2, <2>2, <2>3, <2>4, <2>5 DEF Plain
<1>6. CASE StillLog
  BY <1>3, <1>6 DEF StillLog
<1> QED
  BY <1>4, <1>5, <1>6, AppendLog, RewoundLog, LogChange

-----------------------------------------------------------------------------
(* What was sent, and what the client was answered.                        *)

\* Only a broadcast moves the last that was sent, and a "rewound", which is
\* not broadcast.
LEMMA SentStays ==
    ASSUME ActorInv, NeverRestored', StreamTypeOK,
           Elsewhere \/ Connect \/ Replay \/ UNCHANGED vars
    PROVE  Sent' = Sent
<1>1. /\ commits \in Seq(EventRecords) /\ current \in Currents
      /\ phase # "answer" => current.out = <<>>
  BY DEF ActorInv, IInv, TypeOK, Currents, OutInv
<1>2. ASSUME UNCHANGED <<commits, current>> PROVE Sent' = Sent
  BY <1>2 DEF Sent
<1>3. ASSUME UNCHANGED commits, current.out = <<>>, current'.out = <<>>
      PROVE  Sent' = Sent
  BY <1>3 DEF Sent
<1>4. CASE Connect \/ Replay \/ UNCHANGED vars
  BY <1>2, <1>4 DEF Connect, Replay, vars
<1>5. CASE \/ Call(Writer) \/ Enqueue(Writer) \/ Return(Writer)
           \/ Enqueue(Reader) \/ Return(Reader) \/ Spawn \/ Finished
  BY <1>2, <1>5 DEF Call, Enqueue, Return, Spawn, Finished, vars
<1>6. CASE ExecQuery \/ ExecCheckpoint \/ ExecRestore
  <2>1. /\ phase = "recv" /\ UNCHANGED commits
        /\ (\E o, rows : Answer(o, rows, <<>>)) \/ current'.out = <<>>
    BY <1>6 DEF ExecQuery, ExecCheckpoint, ExecRestore, Receive, Fail, Idle
  <2> QED
    BY <1>1, <1>3, <2>1 DEF Answer
<1>7. CASE Reply
  BY <1>3, <1>7 DEF Reply, Idle
<1>8. CASE ExecAppend
  <2> DEFINE r == Head(mailbox).request
             records == NewRecords(db, r.token, r.types)
  <2>1. current.out = <<>> /\ phase = "recv" /\ mailbox # <<>> /\ r.op = "append"
    BY <1>1, <1>8 DEF ExecAppend, Receive
  <2>2. CASE Fail
    BY <1>3, <2>1, <2>2 DEF Fail, Answer
  <2>3. CASE ~Fail
    <3>1. commits' = commits \o records /\ current'.out = records
      BY <1>8, <2>3, AppendSucceeds DEF Answer
    <3>2. records \in Seq(EventRecords)
      <4>1. r.token \in Nat /\ r.types \in Seq(EventTypes) /\ db \in Databases
        BY <2>1, MailboxHead, RequestType DEF ActorInv, IInv, TypeOK
      <4> QED
        BY <4>1, NewRecordsType
    <3> HIDE DEF records
    <3>3. /\ Len(commits') = Len(commits) + Len(records)
          /\ Len(records) \in Nat /\ Len(commits) \in Nat
      BY <1>1, <3>1, <3>2
    <3> QED
      BY <2>1, <3>1, <3>3 DEF Sent
  <2> QED
    BY <2>2, <2>3
<1>9. CASE AppendRewound
  <2>1. current.out = <<>> /\ current'.out = current.out
    BY <1>1, <1>9 DEF AppendRewound, Currents
  <2>2. CASE UNCHANGED commits
    BY <1>3, <2>1, <2>2
  <2>3. CASE ~UNCHANGED commits
    <3> DEFINE t == current.request.token
    <3>1. Appends(t, <<Rewound>>) /\ t \in Nat /\ <<Rewound>> \in Seq(EventTypes)
      <4>1. t \in Nat
        BY <1>9, RequestType DEF AppendRewound, ActorInv, IInv, TypeOK
      <4>2. Appends(t, <<Rewound>>)
        <5>1. phase' = "answer" /\ UNCHANGED born
          BY <1>9 DEF AppendRewound
        <5> QED
          BY <1>9, <2>3, <5>1 DEF AppendRewound, Appends
      <4> QED
        BY <4>1, <4>2, EventTypesAssumption
    <3> HIDE DEF t
    <3>2. /\ Len(commits) \in Nat /\ commits' \in Seq(EventRecords)
          /\ Len(<<Rewound>>) = 1 /\ <<Rewound>>[1] = Rewound
          /\ Len(commits') = Len(commits) + Len(<<Rewound>>)
          /\ \A i \in 1..Len(<<Rewound>>) :
                commits'[Len(commits) + i].type = <<Rewound>>[i]
      BY <3>1, CommitsGrow DEF ActorInv
    <3>3. commits'[Len(commits) + 1].type = Rewound
      BY <3>2
    <3>4. Len(commits) + 1 \in DOMAIN commits'
      BY <3>2
    <3> QED
      BY <3>3, <3>4 DEF NeverRestored, Range
  <2> QED
    BY <2>2, <2>3
<1> QED
  BY <1>4, <1>5, <1>6, <1>7, <1>8, <1>9 DEF Elsewhere

LEMMA KeptAsked ==
    ASSUME NEW k \in CallRecords, NEW f, NEW rs
    PROVE  /\ [k EXCEPT !.fate = f].asked = k.asked
           /\ [k EXCEPT !.fate = f, !.rows = rs].asked = k.asked
  BY DEF CallRecords, NoCall

\* What becomes of the call of the reader while others go on.
LEMMA ReaderOk ==
    ASSUME ActorInv, Goes, calls[Reader].request.op = "get_events"
    PROVE  /\ calls'[Reader].asked = calls[Reader].asked
           /\ calls'[Reader].fate = "ok" =>
                \/ /\ calls[Reader].fate = "ok"
                   /\ calls'[Reader].rows = calls[Reader].rows
                \/ /\ phase = "answer" /\ current.reply = Reader
                   /\ current.outcome = "ok"
                   /\ calls'[Reader].rows = current.rows
<1> DEFINE call == calls[Reader]
<1>1. /\ calls \in [Clients -> CallRecords] /\ Reader \in Clients
      /\ Writer \in Clients /\ Writer # Reader /\ call \in CallRecords
  BY TasksAssumption DEF ActorInv, IInv, TypeOK
<1>2. CASE calls'[Reader] = call
  BY <1>2
<1>3. CASE \/ ExecAppend \/ ExecQuery \/ ExecCheckpoint \/ ExecRestore
           \/ AppendRewound \/ Broadcast \/ Spawn \/ UNCHANGED vars
  BY <1>2, <1>3 DEF ExecAppend, ExecQuery, ExecCheckpoint, ExecRestore,
                    AppendRewound, Broadcast, Spawn, vars
<1>4. CASE Call(Writer) \/ Enqueue(Writer) \/ Return(Writer)
  BY <1>1, <1>2, <1>4 DEF Call, Enqueue, Return
<1>5. CASE Enqueue(Reader)
  <2>1. calls' = [calls EXCEPT ![Reader].fate = "waiting"]
    BY <1>5 DEF Enqueue
  <2>2. calls'[Reader] = [call EXCEPT !.fate = "waiting"]
    BY <1>1, <2>1
  <2> QED
    BY <1>1, <2>2, OtherFate, KeptAsked
<1>6. CASE Reply
  <2>1. phase = "answer"
    BY <1>6 DEF Reply
  <2>2. calls'[Reader] = IF current.reply = Reader
                  THEN [call EXCEPT !.fate = current.outcome,
                                        !.rows = current.rows]
                  ELSE call
    BY <1>1, <1>6 DEF Reply
  <2> QED
    BY <1>1, <1>2, <2>1, <2>2, OtherFate, KeptAsked
<1>7. CASE ExecStop \/ HandlesDropped \/ Crash
  <2>1. \/ calls'[Reader] = call
        \/ calls'[Reader] = [call EXCEPT !.fate = "err"]
        \/ calls'[Reader] = [call EXCEPT !.fate = "lost"]
    BY <1>1, <1>7 DEF ExecStop, Orphaned, HandlesDropped, Crash
  <2>2. ASSUME NEW f \in {"err", "lost"}, calls'[Reader] = [call EXCEPT !.fate = f]
        PROVE  calls'[Reader].asked = call.asked /\ calls'[Reader].fate # "ok"
    <3>1. calls'[Reader].asked = call.asked
      BY <1>1, <2>2, KeptAsked
    <3>2. calls'[Reader].fate = f
      BY <1>1, <2>2, OtherFate
    <3> QED
      BY <3>1, <3>2
  <2> QED
    BY <1>2, <2>1, <2>2
<1> QED
  BY <1>3, <1>4, <1>5, <1>6, <1>7 DEF Goes

\* What the actor has in its hand for the reader.
LEMMA ReaderHand ==
    ASSUME ActorInv, Goes, phase' = "answer", current'.reply = Reader
    PROVE  \/ /\ phase = "answer" /\ current.reply = Reader
              /\ current'.rows = current.rows
              /\ current'.outcome = current.outcome
           \/ current'.outcome = "err"
           \/ /\ UNCHANGED <<db, commits>>
              /\ current'.rows = GetEvents(db, calls[Reader].request.since,
                                           HistoryLimit)
<1>1. /\ TypeOK /\ current \in Currents /\ Reader \in Clients
      /\ Reader # Writer /\ Reader # Nobody
  BY TasksAssumption, ClientsAssumption DEF ActorInv, IInv, TypeOK, Currents
<1>2. CASE UNCHANGED <<phase, current>>
  BY <1>2
<1>3. CASE \/ UNCHANGED vars \/ Call(Writer) \/ Enqueue(Writer)
           \/ Return(Writer) \/ Enqueue(Reader)
  BY <1>2, <1>3 DEF vars, Call, Enqueue, Return
<1>4. CASE AppendRewound
  <2>1. current.reply = Writer /\ current'.reply = current.reply
    BY <1>1, <1>4 DEF AppendRewound, ActorInv, Queue, Currents
  <2> QED
    BY <1>1, <2>1
<1>5. CASE Broadcast
  BY <1>1, <1>5 DEF Broadcast, Currents
<1>6. CASE ExecAppend \/ ExecQuery \/ ExecCheckpoint \/ ExecRestore
  <2> DEFINE r == Head(mailbox).request
  <2>1. mailbox # <<>> /\ current'.reply = Head(mailbox).reply
    <3>1. CASE ExecAppend \/ ExecQuery \/ ExecCheckpoint
      BY <3>1 DEF ExecAppend, ExecQuery, ExecCheckpoint, Receive, Answer, Fail
    <3>2. CASE ExecRestore
      BY <3>2 DEF ExecRestore, Receive, Answer, Fail
    <3> QED
      BY <1>6, <3>1, <3>2
  <2>2. 1 \in DOMAIN mailbox /\ mailbox[1] = Head(mailbox)
    BY <1>1, <2>1, HeadOfMailbox
  <2>3. OneReply(Reader)
    BY <1>1 DEF ActorInv, IInv, RepliesMatchCalls
  <2>4. calls[Reader].request = r /\ calls[Reader].fate = "waiting"
    BY <2>1, <2>2, <2>3 DEF OneReply
  <2>5. r.op = "get_events"
    BY <2>4 DEF ActorInv, Queue
  <2>6. ExecQuery
    BY <1>6, <2>5 DEF ExecAppend, ExecCheckpoint, ExecRestore, Receive
  <2> QED
    BY <2>4, <2>6 DEF ExecQuery, Fail, Answer
<1>7. CASE Reply \/ ExecStop \/ HandlesDropped \/ Crash \/ Spawn
  BY <1>7 DEF Reply, ExecStop, HandlesDropped, Crash, ThreadEnds, Spawn
<1> QED
  BY <1>3, <1>4, <1>5, <1>6, <1>7 DEF Goes

-----------------------------------------------------------------------------
(* The history.                                                            *)

LEMMA StretchCount ==
    ASSUME ActorInv, Plain, NEW lo \in Nat, NEW hi \in lo..Len(commits)
    PROVE  /\ IsFiniteSet(Stretch(lo, hi))
           /\ Cardinality(Stretch(lo, hi)) = hi - lo
<1> DEFINE S == (lo + 1)..hi
           f == [i \in S |-> commits[i]]
<1>1. /\ DOMAIN commits = 1..Len(commits) /\ Len(commits) \in Nat
      /\ hi \in Nat /\ lo <= hi
  BY DEF ActorInv, IInv, TypeOK
<1>2. \A i \in S : i \in DOMAIN commits
  BY <1>1
<1>3. \A i, j \in S : f[i] = f[j] => i = j
  BY <1>2 DEF Plain
<1>4. Stretch(lo, hi) = {f[i] : i \in S}
  BY DEF Stretch
<1>5. IsFiniteSet(S) /\ Cardinality(S) = hi - lo
  <2>1. lo + 1 \in Int /\ hi \in Int
    BY <1>1
  <2> QED
    <3>1. /\ IsFiniteSet((lo + 1)..hi)
          /\ Cardinality((lo + 1)..hi)
                = IF lo + 1 > hi THEN 0 ELSE hi - (lo + 1) + 1
      BY <2>1, FS_Interval
    <3>2. (IF lo + 1 > hi THEN 0 ELSE hi - (lo + 1) + 1) = hi - lo
      BY <1>1
    <3> QED
      BY <3>1, <3>2
<1> HIDE DEF S
<1>6. f \in [S -> Stretch(lo, hi)]
  BY <1>4
<1>7. \A x \in Stretch(lo, hi) : \E i \in S : f[i] = x
  BY <1>4
<1> HIDE DEF f
<1>8. f \in Surjection(S, Stretch(lo, hi)) /\ f \in Injection(S, Stretch(lo, hi))
  BY <1>3, <1>6, <1>7 DEF Surjection, Injection, IsInjective
<1> QED
  BY <1>5, <1>8, FS_Surjection

\* The log that was never restored is the stretch of all commits.
LEMMA WholeLog ==
    ASSUME ActorInv, NeverRestored, Plain
    PROVE  /\ DOMAIN commits = 1..Len(commits) /\ Len(commits) \in Nat
           /\ \A e : e \in db.events <=>
                 \E i \in 1..Len(commits) : e = commits[i]
           /\ \A i \in 1..Len(commits) : commits[i].sequence = i
<1>1. DOMAIN commits = 1..Len(commits) /\ Len(commits) \in Nat
  BY DEF ActorInv, IInv, TypeOK
<1> QED
  BY <1>1 DEF ActorInv, LogInv, NeverRestored, Plain, Range

\* An answer with fewer rows than the limit is all that lies after.
LEMMA QueryCovers ==
    ASSUME ActorInv, NeverRestored, Plain, NEW since \in Nat,
           Cardinality(GetEvents(db, since, HistoryLimit)) # HistoryLimit
    PROVE  GetEvents(db, since, HistoryLimit) = Stretch(since, Len(commits))
<1> DEFINE n == Len(commits)
           rows == GetEvents(db, since, HistoryLimit)
<1>1. /\ n \in Nat /\ since \in Nat /\ HistoryLimit \in Nat
      /\ \A e : e \in db.events <=> \E i \in 1..n : e = commits[i]
      /\ \A i \in 1..n : commits[i].sequence = i
  BY WholeLog, BoundsAssumption
<1>2. ASSUME NEW i \in (since + 1)..n
      PROVE  /\ {f \in db.events : /\ f.sequence > since
                                   /\ f.sequence <= commits[i].sequence}
                  = Stretch(since, i)
             /\ Cardinality(Stretch(since, i)) = i - since
  <2>1. i \in 1..n /\ i \in since..n /\ commits[i].sequence = i
    BY <1>1
  <2>2. ASSUME NEW f
        PROVE  f \in db.events /\ f.sequence > since /\ f.sequence <= i
                 <=> f \in Stretch(since, i)
    <3>1. ASSUME f \in db.events, f.sequence > since, f.sequence <= i
          PROVE  f \in Stretch(since, i)
      <4>1. PICK k \in 1..n : f = commits[k] /\ f.sequence = k
        BY <1>1, <3>1
      <4>2. k \in (since + 1)..i
        BY <1>1, <3>1, <4>1
      <4> QED
        BY <4>1, <4>2 DEF Stretch
    <3>2. ASSUME f \in Stretch(since, i)
          PROVE  f \in db.events /\ f.sequence > since /\ f.sequence <= i
      <4>1. PICK k \in (since + 1)..i : f = commits[k]
        BY <3>2 DEF Stretch
      <4>2. k \in 1..n /\ k > since /\ k <= i
        BY <1>1, <2>1
      <4> QED
        BY <1>1, <4>1, <4>2
    <3> QED
      BY <3>1, <3>2
  <2> QED
    BY <2>1, <2>2, StretchCount
<1>3. \A e : e \in rows <=> \E i \in (since + 1)..n :
                 e = commits[i] /\ i - since <= HistoryLimit
  <2>1. ASSUME NEW e \in rows
        PROVE  \E i \in (since + 1)..n :
                  e = commits[i] /\ i - since <= HistoryLimit
    <3>1. /\ e \in db.events /\ e.sequence > since
          /\ Cardinality({f \in db.events : /\ f.sequence > since
                                            /\ f.sequence <= e.sequence})
                <= HistoryLimit
      BY DEF GetEvents, EventsAfter
    <3>2. PICK i \in 1..n : e = commits[i] /\ e.sequence = i
      BY <1>1, <3>1
    <3>3. i \in (since + 1)..n
      BY <1>1, <3>1, <3>2
    <3> QED
      BY <1>2, <3>1, <3>2, <3>3
  <2>2. ASSUME NEW i \in (since + 1)..n, i - since <= HistoryLimit
        PROVE  commits[i] \in rows
    <3>1. i \in 1..n /\ commits[i] \in db.events /\ commits[i].sequence > since
      BY <1>1
    <3>2. Cardinality({f \in db.events : /\ f.sequence > since
                                /\ f.sequence <= commits[i].sequence})
              <= HistoryLimit
      BY <1>2, <2>2
    <3> QED
      BY <3>1, <3>2 DEF GetEvents, EventsAfter
  <2> QED
    BY <2>1, <2>2
<1>4. CASE HistoryLimit <= n - since
  <2> DEFINE hi == since + HistoryLimit
  <2>1. hi \in since..n /\ hi - since = HistoryLimit
    BY <1>1, <1>4
  <2>2. \A i : i \in (since + 1)..n /\ i - since <= HistoryLimit
              <=> i \in (since + 1)..hi
    BY <1>1, <1>4
  <2> HIDE DEF hi, rows, n
  <2>3. rows = Stretch(since, hi)
    BY <1>3, <2>2 DEF Stretch
  <2> QED
    BY <1>1, <2>1, <2>3, StretchCount DEF rows, n
<1>5. CASE ~(HistoryLimit <= n - since)
  <2>1. \A i \in (since + 1)..n : i - since <= HistoryLimit
    BY <1>1, <1>5
  <2> HIDE DEF rows
  <2>2. \A e : e \in rows <=> \E i \in (since + 1)..n : e = commits[i]
    BY <1>3, <2>1
  <2> QED
    BY <2>2 DEF Stretch, rows
<1> QED
  BY <1>4, <1>5

LEMMA StretchInOrder ==
    ASSUME ActorInv, Plain, NEW lo \in Nat, NEW hi \in lo..Len(commits),
           NEW h, h = InOrder(Stretch(lo, hi))
    PROVE  /\ DOMAIN h = 1..(hi - lo) /\ hi - lo \in Nat
           /\ \A i \in DOMAIN h : h[i].sequence = lo + i
<1> DEFINE rows == Stretch(lo, hi)
           R(r) == Cardinality({s \in rows : s.sequence <= r.sequence})
<1>1. /\ DOMAIN commits = 1..Len(commits) /\ Len(commits) \in Nat
      /\ hi \in Nat /\ lo <= hi /\ hi - lo \in Nat
      /\ \A i \in 1..Len(commits) : commits[i].sequence = i
  BY DEF ActorInv, IInv, TypeOK, Plain
<1>2. ASSUME NEW k \in (lo + 1)..hi
      PROVE  /\ commits[k] \in rows /\ commits[k].sequence = k
             /\ R(commits[k]) = k - lo
  <2>1. k \in 1..Len(commits) /\ k \in lo..Len(commits)
    BY <1>1
  <2>2. \A i \in (lo + 1)..hi : commits[i].sequence = i
    BY <1>1
  <2>3. {s \in rows : s.sequence <= k} = Stretch(lo, k)
    <3>1. ASSUME NEW s \in rows, s.sequence <= k PROVE s \in Stretch(lo, k)
      <4>1. PICK i \in (lo + 1)..hi : s = commits[i]
        BY DEF Stretch
      <4>2. i \in (lo + 1)..k
        BY <1>1, <2>2, <3>1, <4>1
      <4> QED
        BY <4>1, <4>2 DEF Stretch
    <3>2. ASSUME NEW s \in Stretch(lo, k) PROVE s \in rows /\ s.sequence <= k
      <4>1. PICK i \in (lo + 1)..k : s = commits[i]
        BY DEF Stretch
      <4>2. i \in (lo + 1)..hi /\ i <= k
        BY <1>1
      <4> QED
        BY <2>2, <4>1, <4>2 DEF Stretch
    <3> QED
      BY <3>1, <3>2
  <2>4. Cardinality(Stretch(lo, k)) = k - lo
    BY <2>1, StretchCount
  <2> QED
    BY <2>2, <2>3, <2>4 DEF Stretch
<1>3. Cardinality(rows) = hi - lo
  BY StretchCount
<1>4. h = [i \in 1..(hi - lo) |-> CHOOSE r \in rows : R(r) = i]
  BY <1>3 DEF InOrder
<1>5. ASSUME NEW i \in 1..(hi - lo)
      PROVE  (CHOOSE r \in rows : R(r) = i).sequence = lo + i
  <2>1. lo + i \in (lo + 1)..hi /\ (lo + i) - lo = i
    BY <1>1
  <2>2. \E r \in rows : R(r) = i
    BY <1>2, <2>1
  <2>3. ASSUME NEW r \in rows, R(r) = i PROVE r.sequence = lo + i
    <3>1. PICK k \in (lo + 1)..hi : r = commits[k]
      BY DEF Stretch
    <3>2. k - lo = i /\ r.sequence = k
      BY <1>2, <2>3, <3>1
    <3> QED
      BY <1>1, <3>2
  <2> HIDE DEF rows, R
  <2> QED
    BY <2>2, <2>3
<1> HIDE DEF rows, R
<1> QED
  BY <1>1, <1>4, <1>5

-----------------------------------------------------------------------------
(* The steps.                                                              *)

LEMMA FirstKept ==
    ASSUME StreamTypeOK, FirstInv, [StreamNext]_allVars
    PROVE  FirstInv'
<1>1. connects \in Nat /\ (Connect => connects' = connects + 1)
  BY StreamAssumption DEF StreamTypeOK, Connect
<1> SUFFICES ASSUME connects' = 0 PROVE received' = <<>> /\ conn' = "off"
  BY DEF FirstInv
<1>3. connects = 0 /\ received = <<>> /\ conn = "off" /\ ~Connect
  <2>1. connects = 0 /\ ~Connect
    BY <1>1, StreamOnwards
  <2> QED
    BY <2>1 DEF FirstInv
<1>4. CASE UNCHANGED allVars \/ Elsewhere \/ Publish \/ ActorEnds
  BY <1>3, <1>4 DEF allVars, streamVars, Elsewhere, Publish, ActorEnds
<1>5. CASE ProcessDies
  BY <1>3, <1>5 DEF ProcessDies, Hangup
<1> QED
  BY <1>3, <1>4, <1>5 DEF StreamNext, Replay, DeliverHistory, DeliverLive,
          FilterOut, Yields, Lag, StreamEnds, Disconnect

\* What follows where the client is leaves no gap.
LEMMA RunGrows ==
    ASSUME StreamTypeOK, RunInv, lastId = NoSince <=> received = <<>>,
           NEW r \in EventRecords, Deliver(r), UNCHANGED <<kind, url>>,
           Place # NoSince => r.sequence = Place + 1
    PROVE  RunInv'
<1>1. /\ received \in Seq(EventRecords) /\ received' = Append(received, r)
      /\ lastId' = r.sequence /\ r.sequence \in Nat
      /\ {url, lastId} \subseteq Nat \cup {NoSince} /\ kind \in {"sse", "ws"}
  BY StreamAssumption DEF StreamTypeOK, Deliver, EventRecords
<1>2. /\ Len(received) \in Nat /\ Len(received') = Len(received) + 1
      /\ DOMAIN received' = 1..(Len(received) + 1)
      /\ received'[Len(received) + 1] = r
      /\ \A k \in 1..Len(received) : received'[k] = received[k]
  BY <1>1
<1>3. CASE received = <<>>
  <2>1. lastId = NoSince /\ Len(received) = 0 /\ DOMAIN received' = {1}
    BY <1>2, <1>3
  <2>2. kind = "sse" /\ url # NoSince => r.sequence = url + 1
    BY <2>1 DEF Place, Since
  <2>3. received'[1].sequence = (lastId' - Len(received')) + 1
    BY <1>1, <1>2, <2>1
  <2>4. kind' = "sse" /\ url' # NoSince => lastId' - Len(received') = url'
    BY <1>1, <1>2, <2>1, <2>2
  <2> QED
    BY <2>1, <2>3, <2>4 DEF RunInv
<1>4. CASE received # <<>>
  <2>1. lastId # NoSince /\ lastId \in Nat /\ r.sequence = lastId + 1
    BY <1>1, <1>4 DEF Place, Since
  <2>2. lastId' - Len(received') = lastId - Len(received)
    BY <1>1, <1>2, <2>1
  <2>3. ASSUME NEW k \in DOMAIN received'
        PROVE  received'[k].sequence = (lastId - Len(received)) + k
    <3>1. CASE k \in 1..Len(received)
      BY <1>1, <1>2, <1>4, <3>1 DEF RunInv
    <3>2. CASE k = Len(received) + 1
      BY <1>2, <2>1, <3>2
    <3> QED
      BY <1>2, <3>1, <3>2
  <2> QED
    BY <1>4, <2>2, <2>3 DEF RunInv
<1> QED
  BY <1>3, <1>4

\* An answer goes on covering what it covered.
LEMMA CoversStays ==
    ASSUME ActorInv, Moves, UNCHANGED <<url, lastId>>, Since \in Nat,
           calls'[Reader].asked = calls[Reader].asked,
           NEW rows, Covers(rows)
    PROVE  Covers(rows)'
<1> SUFFICES ASSUME Cardinality(rows) # HistoryLimit
             PROVE  \E m \in calls'[Reader].asked..Len(commits') :
                       rows = Stretch(Since, m)'
  BY DEF Covers
<1>1. PICK m \in calls[Reader].asked..Len(commits) : rows = Stretch(Since, m)
  BY DEF Covers
<1>2. Since' = Since
  BY DEF Since
<1>3. /\ Len(commits) \in Nat /\ Len(commits') \in Nat
      /\ Len(commits) <= Len(commits')
      /\ \A i \in 1..Len(commits) : commits'[i] = commits[i]
  BY CommitsStay
<1>4. \A i \in (Since + 1)..m : i \in 1..Len(commits)
  BY <1>1, <1>3
<1>5. Stretch(Since, m)' = Stretch(Since, m)
  BY <1>2, <1>3, <1>4 DEF Stretch
<1>6. m \in calls'[Reader].asked..Len(commits')
  BY <1>1, <1>3
<1> QED
  BY <1>1, <1>2, <1>5, <1>6

\* What the client is promised before the step.
Before ==
    /\ StreamInv
    /\ Whole
    /\ Plain
    /\ FirstInv
    /\ RunInv
    /\ AskRun
    /\ HistoryRun

LEMMA AskKept ==
    ASSUME Before, [StreamNext]_allVars, Moves
    PROVE  AskRun'
<1> SUFFICES ASSUME conn' = "asking" PROVE AskRun'
  BY DEF AskRun
<1>1. /\ ActorInv /\ TypeOK /\ Reader \in Clients
      /\ calls \in [Clients -> CallRecords] /\ OneReply(Reader)
      /\ Len(commits) \in Nat /\ Len(commits') \in Nat
      /\ Len(commits) <= Len(commits')
  BY CommitsStay, TasksAssumption
  DEF Before, StreamInv, ActorInv, IInv, TypeOK, RepliesMatchCalls
<1>2. CASE Connect
  <2>1. /\ UNCHANGED <<phase, current, commits>>
        /\ calls' = [calls EXCEPT ![Reader] =
              [fate |-> "sending", request |-> Question,
               asked |-> Len(commits), rows |-> {}]]
    BY <1>2 DEF Connect, Question
  <2>2. calls'[Reader].fate = "sending" /\ calls'[Reader].asked = Len(commits)
    BY <1>1, <2>1
  <2>3. current.reply # Reader
    BY <1>1, <1>2 DEF Connect, OneReply
  <2> QED
    BY <1>1, <2>1, <2>2, <2>3 DEF AskRun
<1>3. CASE ~Connect
  <2>1. conn = "asking" /\ Goes /\ UNCHANGED <<url, lastId>>
    BY <1>3, StillAsking
  <2>2. /\ Since # NoSince /\ calls[Reader].request = Question
        /\ calls[Reader].asked <= Len(commits)
    BY <2>1 DEF Before, StreamInv, AsksInv, AskRun
  <2>3. Since \in Nat
    BY <2>2 DEF Before, StreamInv, ClientInv, StreamTypeOK, Since
  <2>4. /\ calls[Reader].request.op = "get_events"
        /\ calls[Reader].request.since = Since
    BY <2>2 DEF Question
  <2>5. calls'[Reader].asked = calls[Reader].asked
    BY <1>1, <2>1, <2>4, ReaderOk
  <2>6. ASSUME NEW rows, Covers(rows) PROVE Covers(rows)'
    BY <1>1, <2>1, <2>3, <2>5, <2>6, CoversStays
  <2>7. calls'[Reader].fate = "ok" => Covers(calls'[Reader].rows)
    BY <1>1, <2>1, <2>4, ReaderOk DEF Before, AskRun
  <2>8. ASSUME phase' = "answer", current'.reply = Reader,
               current'.outcome = "ok"
        PROVE  Covers(current'.rows)
    <3>1. CASE /\ phase = "answer" /\ current.reply = Reader
               /\ current'.rows = current.rows
               /\ current'.outcome = current.outcome
      BY <2>1, <2>8, <3>1 DEF Before, AskRun
    <3>2. CASE current'.rows = GetEvents(db, Since, HistoryLimit)
      <4>1. Cardinality(current'.rows) # HistoryLimit =>
                current'.rows = Stretch(Since, Len(commits))
        BY <1>1, <2>3, <3>2, QueryCovers DEF Before, Whole
      <4>2. calls[Reader].asked \in Nat
        BY <1>1 DEF CallRecords, NoCall
      <4>3. Len(commits) \in calls[Reader].asked..Len(commits)
        BY <1>1, <2>2, <4>2
      <4> QED
        BY <2>3, <4>1, <4>3 DEF Covers
    <3> QED
      BY <1>1, <2>1, <2>4, <2>8, <3>1, <3>2, ReaderHand
  <2>9. calls'[Reader].fate = "ok" => Covers(calls[Reader].rows)'
    BY <2>6, <2>7
  <2>10. phase' = "answer" /\ current'.reply = Reader /\ current'.outcome = "ok"
            => Covers(current.rows)'
    BY <2>6, <2>8
  <2>11. calls'[Reader].asked <= Len(commits')
    <3>1. calls[Reader].asked \in Nat
      BY <1>1 DEF CallRecords, NoCall
    <3> QED
      BY <1>1, <2>2, <2>5, <3>1
  <2> QED
    BY <2>9, <2>10, <2>11 DEF AskRun
<1> QED
  BY <1>2, <1>3

\* The history is what the client misses, up to a commit that is not older
\* than the question.
LEMMA ReplayRun ==
    ASSUME Before, Replay, ~lossy'
    PROVE  \E m \in Nat :
              /\ calls[Reader].asked <= m
              /\ Since \in Nat /\ Since <= m
              /\ maxSeen' = m
              /\ history' = <<>> <=> Since = m
              /\ Len(history') = m - Since
              /\ \A i \in DOMAIN history' : history'[i].sequence = Since + i
<1> DEFINE rows == calls[Reader].rows
<1>1. /\ conn = "asking" /\ Since # NoSince /\ ActorInv /\ Plain
      /\ calls[Reader].asked \in Nat
  <2>1. calls[Reader] \in CallRecords
    BY TasksAssumption DEF Before, StreamInv, ActorInv, IInv, TypeOK
  <2> QED
    BY <2>1 DEF Replay, Before, StreamInv, AsksInv, CallRecords, NoCall
<1>2. Since \in Nat /\ Len(commits) \in Nat
  BY <1>1 DEF Before, StreamInv, ClientInv, StreamTypeOK, Since, ActorInv, IInv,
     TypeOK
<1>3. calls[Reader].fate = "ok" /\ Cardinality(rows) # HistoryLimit
  BY DEF Replay, CutShort
<1>4. PICK c \in calls[Reader].asked..Len(commits) : rows = Stretch(Since, c)
  BY <1>1, <1>3 DEF Before, AskRun, Covers
<1> DEFINE m == IF Since <= c THEN c ELSE Since
<1>5. /\ m \in Nat /\ Since <= m /\ calls[Reader].asked <= m
      /\ rows = Stretch(Since, m)
      /\ Since # m => m \in Since..Len(commits)
  <2>1. CASE Since <= c
    BY <1>1, <1>2, <1>4, <2>1
  <2>2. CASE ~(Since <= c)
    <3>1. \A i : i \notin (Since + 1)..c /\ i \notin (Since + 1)..Since
      BY <1>1, <1>2, <1>4, <2>2
    <3>2. Stretch(Since, c) = {} /\ Stretch(Since, Since) = {}
      BY <3>1 DEF Stretch
    <3> QED
      BY <1>1, <1>2, <1>4, <2>2, <3>2
  <2> QED
    BY <2>1, <2>2
<1> HIDE DEF m
<1>6. /\ history' = InOrder(Stretch(Since, m))
      /\ maxSeen' = IF rows = {} THEN Since ELSE Last(history').sequence
  BY <1>5 DEF Replay
<1>7. /\ DOMAIN history' = 1..(m - Since) /\ m - Since \in Nat
      /\ \A i \in DOMAIN history' : history'[i].sequence = Since + i
  <2>1. CASE Since # m
    BY <1>1, <1>2, <1>5, <1>6, <2>1, StretchInOrder
  <2>2. CASE Since = m
    <3>1. \A i : i \notin (Since + 1)..m
      BY <1>2, <1>5, <2>2
    <3>2. Stretch(Since, m) = {} /\ Cardinality({}) = 0
      BY <3>1, FS_EmptySet DEF Stretch
    <3>3. DOMAIN history' = 1..0
      BY <1>6, <3>2 DEF InOrder
    <3> QED
      BY <1>2, <2>2, <3>3
  <2> QED
    BY <2>1, <2>2
<1>8. history' \in Seq(EventRecords)
  BY HistoryReplayed DEF Before
<1>9. Len(history') = m - Since
  BY <1>7, <1>8
<1>10. history' = <<>> <=> Since = m
  BY <1>2, <1>5, <1>8, <1>9
<1>11. maxSeen' = m
  <2>1. CASE Since = m
    <3>1. \A i : i \notin (Since + 1)..m
      BY <1>5, <2>1
    <3>2. rows = {}
      BY <1>5, <3>1 DEF Stretch
    <3> QED
      BY <1>6, <2>1, <3>2
  <2>2. CASE Since # m
    <3>1. m \in (Since + 1)..m /\ m - Since \in 1..(m - Since)
      BY <1>2, <1>5, <2>2
    <3>2. rows # {}
      BY <1>5, <3>1 DEF Stretch
    <3>3. Last(history') = history'[m - Since]
      BY <1>9 DEF Last
    <3>4. Last(history').sequence = Since + (m - Since)
      BY <1>7, <3>1, <3>3
    <3> QED
      BY <1>2, <1>5, <1>6, <3>2, <3>4
  <2> QED
    BY <2>1, <2>2
<1> QED
  BY <1>2, <1>5, <1>7, <1>9, <1>10, <1>11

\* The client takes the next record of its history.
LEMMA HistoryStep ==
    ASSUME Before, DeliverHistory
    PROVE  /\ Since \in Nat /\ Since' = Since + 1
           /\ lastId' = Since + 1
           /\ Head(history).sequence = Since + 1
           /\ \A i \in DOMAIN history' : history'[i].sequence = Since' + i
           /\ maxSeen' = Since' + Len(history')
           /\ UNCHANGED maxSeen
<1>1. /\ HistoryRun /\ history \in Seq(EventRecords)
      /\ {url, lastId} \subseteq Nat \cup {NoSince} /\ maxSeen \in Nat
  BY DEF Before, StreamInv, ClientInv, StreamTypeOK
<1>2. /\ history # <<>> /\ history' = Tail(history)
      /\ lastId' = Head(history).sequence /\ maxSeen' = maxSeen
  BY DEF DeliverHistory, Deliver
<1>3. /\ Head(history) = history[1] /\ 1 \in DOMAIN history
      /\ history[1].sequence \in Nat /\ Len(history) \in Nat
      /\ Len(history') = Len(history) - 1
      /\ \A i \in DOMAIN history' :
            i \in Nat /\ i + 1 \in DOMAIN history /\ history'[i] = history[i + 1]
  BY <1>1, <1>2, Rest
<1>4. Since \in Nat
  BY <1>1, <1>2 DEF HistoryRun, Since
<1>5. lastId' = Since + 1
  BY <1>1, <1>2, <1>3 DEF HistoryRun
<1>6. Since' = Since + 1
  BY <1>4, <1>5, StreamAssumption DEF Since
<1>7. maxSeen' = Since' + Len(history')
  BY <1>1, <1>2, <1>3, <1>4, <1>6 DEF HistoryRun
<1>8. ASSUME NEW i \in DOMAIN history'
      PROVE  history'[i].sequence = Since' + i
  <2>1. history[i + 1].sequence = Since + (i + 1) /\ i \in Nat
    BY <1>1, <1>2, <1>3 DEF HistoryRun
  <2> QED
    BY <1>3, <1>4, <1>6, <2>1
<1> QED
  BY <1>2, <1>3, <1>4, <1>5, <1>6, <1>7, <1>8

LEMMA HistoryKept ==
    ASSUME Before, [StreamNext]_allVars, ~lossy'
    PROVE  HistoryRun'
<1>1. /\ HistoryRun /\ history \in Seq(EventRecords)
      /\ history # <<>> => conn = "open" /\ kind = "sse"
      /\ {url, lastId} \subseteq Nat \cup {NoSince} /\ maxSeen \in Nat
  BY DEF Before, StreamInv, ClientInv, ConnInv, StreamTypeOK
<1>2. ASSUME UNCHANGED <<history, maxSeen, url, lastId>> PROVE HistoryRun'
  BY <1>1, <1>2 DEF HistoryRun, Since
<1>3. ASSUME history' = <<>> PROVE HistoryRun'
  BY <1>3 DEF HistoryRun
<1>4. CASE UNCHANGED allVars \/ Elsewhere \/ Publish \/ ActorEnds
  BY <1>2, <1>4 DEF allVars, streamVars, Elsewhere, Publish, ActorEnds
<1>5. CASE Connect
  BY <1>1, <1>3, <1>5 DEF Connect
<1>6. CASE Replay
  <2>1. Since' = Since
    BY <1>6 DEF Replay, Since
  <2>2. PICK m \in Nat :
              /\ Since \in Nat /\ maxSeen' = m
              /\ Len(history') = m - Since
              /\ \A i \in DOMAIN history' : history'[i].sequence = Since + i
    BY <1>6, ReplayRun
  <2>3. maxSeen' = Since' + Len(history') /\ Since' # NoSince
    BY <2>1, <2>2, StreamAssumption
  <2> QED
    BY <2>1, <2>2, <2>3 DEF HistoryRun
<1>7. CASE DeliverHistory
  <2>1. /\ Since' = Since + 1 /\ Since \in Nat
        /\ \A i \in DOMAIN history' : history'[i].sequence = Since' + i
        /\ maxSeen' = Since' + Len(history')
    BY <1>7, HistoryStep
  <2> QED
    BY <2>1, StreamAssumption DEF HistoryRun
<1>8. CASE DeliverLive \/ FilterOut
  BY <1>3, <1>8 DEF DeliverLive, FilterOut, Yields
<1>9. CASE Lag \/ StreamEnds \/ Disconnect \/ ProcessDies
  BY <1>2, <1>3, <1>9 DEF Lag, StreamEnds, Disconnect, ProcessDies, Hangup
<1> QED
  BY <1>4, <1>5, <1>6, <1>7, <1>8, <1>9 DEF StreamNext

\* A step that moves nothing of the client keeps how the receiver joins.
LEMMA JoinsKept ==
    ASSUME Before, [StreamNext]_allVars,
           UNCHANGED <<conn, history, maxSeen, kind, url, lastId>>,
           NEW a \in Nat, Joins(a)
    PROVE  Joins(a)'
<1>1. /\ Reach' = Reach
      /\ ActorInv
  BY DEF Reach, Place, Since, Before, StreamInv
<1>2. conn' = "asking" => a <= calls'[Reader].asked
  <2> SUFFICES ASSUME conn' = "asking" PROVE a <= calls'[Reader].asked
    OBVIOUS
  <2>1. conn = "asking" /\ ~Connect
    BY DEF Connect
  <2>2. Goes
    BY <2>1, StillAsking
  <2>3. calls[Reader].request.op = "get_events"
    BY <2>1 DEF Before, StreamInv, AsksInv, Question
  <2>4. calls'[Reader].asked = calls[Reader].asked
    BY <1>1, <2>2, <2>3, ReaderOk
  <2> QED
    BY <2>1, <2>4 DEF Joins
<1> QED
  BY <1>1, <1>2 DEF Joins

LEMMA LiveStill ==
    ASSUME Before, LiveRun, [StreamNext]_allVars,
           UNCHANGED <<conn, rx, lagged, history, maxSeen, kind, url, lastId>>,
           attached' => attached /\ Sent' = Sent
    PROVE  LiveRun'
<1> SUFFICES ASSUME ~lagged' PROVE \E a \in Nat : Tuned(a)' /\ Joins(a)'
  BY DEF LiveRun
<1>1. PICK a \in Nat : Tuned(a) /\ Joins(a)
  BY DEF LiveRun
<1>2. Tuned(a)'
  BY <1>1 DEF Tuned
<1> QED
  BY <1>1, <1>2, JoinsKept

\* A receiver of a client that is not connected.
LEMMA LiveOff ==
    ASSUME Hangup
    PROVE  LiveRun'
<1>1. Tuned(0)' /\ Joins(0)'
  BY DEF Hangup, Tuned, Joins
<1> QED
  BY <1>1 DEF LiveRun

LEMMA LiveConnect ==
    ASSUME Before, Connect, Whole', Sent' = Sent
    PROVE  LiveRun'
<1>1. /\ rx' = <<>> /\ history' = <<>> /\ attached'
      /\ conn' = IF Replays THEN "asking" ELSE "open"
      /\ UNCHANGED <<kind, url, lastId>>
  BY DEF Connect, Before, StreamInv, ConnInv
<1>2. Sent \in Nat /\ Sent <= Len(commits)
  BY OutKept DEF Before, StreamInv, Moves
<1>3. Tuned(Sent)'
  BY <1>1, <1>2 DEF Tuned
<1>4. conn' = "asking" => Sent <= calls'[Reader].asked
  <2> SUFFICES ASSUME conn' = "asking" PROVE Sent <= calls'[Reader].asked
    OBVIOUS
  <2>1. /\ Replays /\ Reader \in Clients
        /\ calls \in [Clients -> CallRecords]
    BY <1>1, TasksAssumption DEF Before, StreamInv, ActorInv, IInv, TypeOK
  <2>2. calls'[Reader].asked = Len(commits)
    BY <2>1 DEF Connect
  <2> QED
    BY <1>2, <2>2
<1>5. conn' = "open" => Reach' = NoSince
  <2> SUFFICES ASSUME ~Replays PROVE Place = NoSince
    BY <1>1 DEF Reach, Place, Since
  <2>1. CASE kind = "sse"
    BY <2>1 DEF Replays, Place
  <2>2. CASE kind = "ws"
    <3>1. connects \in Nat /\ connects + 1 <= 1
      BY <2>2, StreamAssumption
      DEF Connect, Whole, Before, StreamInv, ClientInv, StreamTypeOK
    <3>2. connects = 0
      BY <3>1
    <3> QED
      BY <2>2, <3>2
      DEF Before, FirstInv, StreamInv, ClientInv, ReceivedInv, Place
  <2> QED
    BY <2>1, <2>2, StreamAssumption
    DEF Before, StreamInv, ClientInv, StreamTypeOK
<1>6. Joins(Sent)'
  BY <1>4, <1>5 DEF Joins
<1> QED
  BY <1>2, <1>3, <1>6 DEF LiveRun

LEMMA LiveReplay ==
    ASSUME Before, LiveRun, Replay, ~lossy', Sent' = Sent
    PROVE  LiveRun'
<1> SUFFICES ASSUME ~lagged' PROVE \E a \in Nat : Tuned(a)' /\ Joins(a)'
  BY DEF LiveRun
<1>1. /\ conn = "asking" /\ kind = "sse" /\ conn' = "open"
      /\ UNCHANGED <<rx, lagged, attached, kind, url, lastId>>
  BY DEF Replay, Before, StreamInv, AsksInv
<1>2. PICK a \in Nat : Tuned(a) /\ Joins(a)
  BY <1>1 DEF LiveRun
<1>3. Tuned(a)'
  BY <1>1, <1>2 DEF Tuned
<1>4. PICK m \in Nat :
            /\ calls[Reader].asked <= m
            /\ maxSeen' = m
            /\ history' = <<>> <=> Since = m
  BY ReplayRun
<1>5. Reach' = m
  BY <1>1, <1>4 DEF Reach, Place, Since
<1>6. a <= m
  <2>1. calls[Reader].asked \in Nat
    <3>1. calls[Reader] \in CallRecords
      BY TasksAssumption DEF Before, StreamInv, ActorInv, IInv, TypeOK
    <3> QED
      BY <3>1 DEF CallRecords, NoCall
  <2>2. a <= calls[Reader].asked
    BY <1>1, <1>2 DEF Joins
  <2> QED
    BY <1>4, <2>1, <2>2
<1>7. (a = m /\ maxSeen' <= m) \/ a < m
  BY <1>4, <1>6
<1>8. Joins(a)'
  BY <1>1, <1>4, <1>5, <1>7 DEF Joins
<1> QED
  BY <1>3, <1>8

LEMMA LiveHistory ==
    ASSUME Before, LiveRun, DeliverHistory
    PROVE  LiveRun'
<1> SUFFICES ASSUME ~lagged' PROVE \E a \in Nat : Tuned(a)' /\ Joins(a)'
  BY DEF LiveRun
<1>1. /\ conn = "open" /\ conn' = "open" /\ kind = "sse" /\ history # <<>>
      /\ UNCHANGED <<rx, lagged, attached, kind, vars>>
  BY DEF DeliverHistory, Before, StreamInv, ConnInv
<1>2. Sent' = Sent
  BY <1>1 DEF Sent, vars
<1>3. PICK a \in Nat : Tuned(a) /\ Joins(a)
  BY <1>1 DEF LiveRun
<1>4. Tuned(a)'
  BY <1>1, <1>2, <1>3 DEF Tuned
<1>5. /\ Since' \in Nat /\ maxSeen' = Since' + Len(history')
      /\ UNCHANGED maxSeen
  BY HistoryStep
<1>6. Reach = maxSeen /\ Reach' = maxSeen
  BY <1>1, <1>5 DEF Reach, Place
<1>7. Joins(a)'
  BY <1>1, <1>3, <1>5, <1>6 DEF Joins
<1> QED
  BY <1>4, <1>7

\* What the receiver yields next.
LEMMA YieldsNext ==
    ASSUME Before, Yields, NEW a \in Nat, Tuned(a)
    PROVE  /\ Head(rx) \in EventRecords
           /\ Head(rx).sequence = a + 1
           /\ Tuned(a + 1)'
<1>1. /\ rx \in Seq(EventRecords) /\ rx # <<>> /\ rx' = Tail(rx)
      /\ UNCHANGED <<attached, vars>>
  BY DEF Yields, Before, StreamInv, ClientInv, StreamTypeOK
<1>2. /\ 1 \in DOMAIN rx /\ Head(rx) = rx[1] /\ rx[1] \in EventRecords
      /\ Len(rx') = Len(rx) - 1 /\ Len(rx) \in Nat
      /\ \A i \in DOMAIN rx' :
            i \in Nat /\ i + 1 \in DOMAIN rx /\ rx'[i] = rx[i + 1]
  BY <1>1, Rest
<1>3. Sent' = Sent
  BY <1>1 DEF Sent, vars
<1>4. ASSUME NEW i \in DOMAIN rx' PROVE rx'[i].sequence = (a + 1) + i
  <2>1. rx[i + 1].sequence = a + (i + 1) /\ i \in Nat
    BY <1>2 DEF Tuned
  <2> QED
    BY <1>2, <2>1
<1>5. attached' => (a + 1) + Len(rx') = Sent'
  BY <1>1, <1>2, <1>3 DEF Tuned
<1>6. Head(rx).sequence = a + 1
  BY <1>2 DEF Tuned
<1> QED
  BY <1>2, <1>4, <1>5, <1>6 DEF Tuned

\* What passes the filter is the next record.
LEMMA PassesNext ==
    ASSUME Before, DeliverLive, NEW a \in Nat, Tuned(a), Joins(a)
    PROVE  Place # NoSince => Head(rx).sequence = Place + 1
<1>1. /\ conn = "open" /\ history = <<>> /\ Passes(Head(rx))
      /\ Head(rx).sequence = a + 1
      /\ {url, lastId} \subseteq Nat \cup {NoSince} /\ maxSeen \in Nat
  BY YieldsNext
  DEF DeliverLive, Yields, Before, StreamInv, ClientInv, StreamTypeOK
<1> SUFFICES ASSUME Place # NoSince PROVE a = Place
  BY <1>1
<1>2. Reach = Place /\ Place \in Nat
  BY <1>1 DEF Reach, Place, Since
<1>3. CASE a < Reach /\ kind = "sse" /\ maxSeen = Reach
  BY <1>1, <1>2, <1>3 DEF Passes
<1> QED
  BY <1>1, <1>2, <1>3 DEF Joins

LEMMA LiveDeliver ==
    ASSUME Before, LiveRun, DeliverLive
    PROVE  LiveRun'
<1> SUFFICES ASSUME ~lagged' PROVE \E a \in Nat : Tuned(a)' /\ Joins(a)'
  BY DEF LiveRun
<1>1. /\ Yields /\ Passes(Head(rx)) /\ conn' = "open" /\ history' = <<>>
      /\ lastId' = Head(rx).sequence /\ ~lagged
      /\ UNCHANGED <<kind, maxSeen>> /\ maxSeen \in Nat
  BY DEF DeliverLive, Deliver, Yields, Before, StreamInv, ClientInv, StreamTypeOK
<1>2. PICK a \in Nat : Tuned(a) /\ Joins(a)
  BY <1>1 DEF LiveRun
<1>3. Head(rx).sequence = a + 1 /\ Tuned(a + 1)'
  BY <1>1, <1>2, YieldsNext
<1>4. Reach' = a + 1
  BY <1>1, <1>3, StreamAssumption DEF Reach, Place, Since
<1>5. kind' = "sse" => maxSeen' <= a + 1
  BY <1>1, <1>3 DEF Passes
<1>6. Joins(a + 1)'
  BY <1>1, <1>4, <1>5 DEF Joins
<1> QED
  BY <1>3, <1>6

LEMMA LiveFilter ==
    ASSUME Before, LiveRun, FilterOut
    PROVE  LiveRun'
<1> SUFFICES ASSUME ~lagged' PROVE \E a \in Nat : Tuned(a)' /\ Joins(a)'
  BY DEF LiveRun
<1>1. /\ Yields /\ ~Passes(Head(rx)) /\ conn = "open" /\ conn' = "open"
      /\ history = <<>> /\ ~lagged
      /\ UNCHANGED <<kind, maxSeen, history, url, lastId>> /\ maxSeen \in Nat
      /\ {url, lastId} \subseteq Nat \cup {NoSince} /\ kind \in {"sse", "ws"}
  BY StreamAssumption
  DEF FilterOut, Yields, Before, StreamInv, ClientInv, StreamTypeOK
<1>2. PICK a \in Nat : Tuned(a) /\ Joins(a)
  BY <1>1 DEF LiveRun
<1>3. Head(rx).sequence = a + 1 /\ Tuned(a + 1)'
  BY <1>1, <1>2, YieldsNext
<1>4. kind = "sse" /\ a + 1 <= maxSeen
  BY <1>1, <1>3 DEF Passes
<1>5. Reach' = Reach /\ (Reach # NoSince => Reach \in Nat)
  BY <1>1 DEF Reach, Place, Since
<1>6. ASSUME Reach # NoSince
      PROVE  a + 1 <= Reach /\ maxSeen = Reach
  <2>1. CASE a = Reach /\ maxSeen <= Reach
    BY <1>1, <1>4, <2>1
  <2>2. CASE a < Reach /\ maxSeen = Reach
    BY <1>4, <2>2
  <2> QED
    BY <1>1, <1>2, <1>4, <1>6, <2>1, <2>2 DEF Joins
<1>7. Reach # NoSince => (a + 1 = Reach /\ maxSeen <= Reach)
                           \/ (a + 1 < Reach /\ maxSeen = Reach)
  BY <1>1, <1>5, <1>6
<1>8. Joins(a + 1)'
  BY <1>1, <1>4, <1>5, <1>7 DEF Joins
<1> QED
  BY <1>3, <1>8

LEMMA LivePublished ==
    ASSUME Before, LiveRun, Publish
    PROVE  LiveRun'
<1>1. /\ Broadcast
      /\ UNCHANGED <<conn, attached, history, maxSeen, kind, url, lastId>>
  BY DEF Publish
<1>2. CASE ~attached
  <2>1. UNCHANGED <<rx, lagged>> /\ ~attached'
    BY <1>1, <1>2 DEF Publish
  <2> QED
    BY <1>1, <2>1, LiveStill DEF StreamNext
<1>3. CASE attached
  <2> SUFFICES ASSUME ~lagged' PROVE \E a \in Nat : Tuned(a)' /\ Joins(a)'
    BY DEF LiveRun
  <2> DEFINE h == Head(current.out)
  <2>1. /\ Sent \in Nat /\ Sent < Len(commits) /\ Sent' = Sent + 1
        /\ h = commits[Sent + 1] /\ h \in EventRecords
    BY <1>1, NextSent DEF Before, StreamInv
  <2>2. h.sequence = Sent + 1
    <3>1. /\ Sent + 1 \in DOMAIN commits
          /\ \A i \in DOMAIN commits : commits[i].sequence = i
      BY <2>1 DEF Before, Plain, StreamInv, ActorInv, IInv, TypeOK
    <3> QED
      BY <2>1, <3>1
  <2> HIDE DEF h
  <2>3. ~lagged /\ rx' = Append(rx, h) /\ rx \in Seq(EventRecords)
    BY <1>3
    DEF Publish, Before, StreamInv, ClientInv, StreamTypeOK, h
  <2>4. PICK a \in Nat : Tuned(a) /\ Joins(a)
    BY <2>3 DEF LiveRun
  <2>5. a + Len(rx) = Sent /\ Len(rx) \in Nat
    BY <1>3, <2>3, <2>4 DEF Tuned
  <2>6. /\ Len(rx') = Len(rx) + 1 /\ DOMAIN rx' = 1..(Len(rx) + 1)
        /\ DOMAIN rx = 1..Len(rx)
        /\ rx'[Len(rx) + 1] = h
        /\ \A i \in 1..Len(rx) : rx'[i] = rx[i]
    BY <2>1, <2>3
  <2>7. ASSUME NEW i \in DOMAIN rx' PROVE rx'[i].sequence = a + i
    <3>1. CASE i \in 1..Len(rx)
      BY <2>4, <2>6, <3>1 DEF Tuned
    <3>2. CASE i = Len(rx) + 1
      BY <2>2, <2>5, <2>6, <3>2
    <3> QED
      BY <2>5, <2>6, <3>1, <3>2
  <2>8. a + Len(rx') = Sent'
    BY <2>1, <2>5, <2>6
  <2>9. Tuned(a)'
    BY <2>7, <2>8 DEF Tuned
  <2>10. Joins(a)'
    BY <1>1, <2>4, JoinsKept DEF StreamNext
  <2> QED
    BY <2>9, <2>10
<1> QED
  BY <1>2, <1>3

LEMMA LiveKept ==
    ASSUME Before, LiveRun, [StreamNext]_allVars, Whole'
    PROVE  LiveRun'
<1>1. /\ ActorInv /\ StreamTypeOK /\ NeverRestored' /\ ~lossy'
  BY DEF Before, StreamInv, ClientInv, Whole
<1>2. CASE UNCHANGED allVars
  <2>1. UNCHANGED vars
    BY <1>2 DEF allVars
  <2> QED
    BY <1>1, <1>2, <2>1, SentStays, LiveStill DEF allVars, streamVars
<1>3. CASE Elsewhere
  BY <1>1, <1>3, SentStays, LiveStill DEF Elsewhere, streamVars
<1>4. CASE Connect
  BY <1>1, <1>4, SentStays, LiveConnect
<1>5. CASE Replay
  BY <1>1, <1>5, SentStays, LiveReplay
<1>6. CASE DeliverHistory \/ DeliverLive \/ FilterOut \/ Publish
  BY <1>6, LiveHistory, LiveDeliver, LiveFilter, LivePublished
<1>7. CASE Lag
  BY <1>1, <1>7, LiveOff DEF Lag
<1>8. CASE StreamEnds \/ Disconnect \/ ProcessDies
  BY <1>8, LiveOff DEF StreamEnds, Disconnect, ProcessDies
<1>9. CASE ActorEnds
  BY <1>9, LiveStill DEF ActorEnds
<1> QED
  BY <1>2, <1>3, <1>4, <1>5, <1>6, <1>7, <1>8, <1>9 DEF StreamNext

LEMMA RunKept ==
    ASSUME Before, LiveRun, [StreamNext]_allVars
    PROVE  RunInv'
<1>1. /\ StreamTypeOK /\ RunInv /\ (lastId = NoSince <=> received = <<>>)
      /\ ConnInv
  BY DEF Before, StreamInv, ClientInv, ReceivedInv
<1>2. ASSUME UNCHANGED <<received, lastId, kind, url>> PROVE RunInv'
  BY <1>1, <1>2 DEF RunInv
<1>3. CASE UNCHANGED allVars \/ Elsewhere \/ Publish \/ ActorEnds
  BY <1>2, <1>3 DEF allVars, streamVars, Elsewhere, Publish, ActorEnds
<1>4. CASE Connect \/ Replay
  BY <1>2, <1>4 DEF Connect, Replay
<1>5. CASE Lag \/ StreamEnds \/ Disconnect \/ ProcessDies
  BY <1>2, <1>5 DEF Lag, StreamEnds, Disconnect, ProcessDies, Hangup
<1>6. CASE FilterOut
  BY <1>2, <1>6 DEF FilterOut, Yields
<1>7. CASE DeliverHistory
  <2>1. /\ Deliver(Head(history)) /\ UNCHANGED <<kind, url>>
        /\ history # <<>> /\ history \in Seq(EventRecords) /\ kind = "sse"
    BY <1>1, <1>7 DEF DeliverHistory, StreamTypeOK, ConnInv
  <2>2. Head(history) \in EventRecords
    BY <2>1, Rest
  <2>3. Head(history).sequence = Place + 1
    BY <1>7, <2>1, HistoryStep DEF Place
  <2> QED
    BY <1>1, <2>1, <2>2, <2>3, RunGrows
<1>8. CASE DeliverLive
  <2>1. /\ Yields /\ Deliver(Head(rx)) /\ ~lagged /\ UNCHANGED <<kind, url>>
    BY <1>8 DEF DeliverLive, Yields
  <2>2. PICK a \in Nat : Tuned(a) /\ Joins(a)
    BY <2>1 DEF LiveRun
  <2>3. /\ Head(rx) \in EventRecords
        /\ Place # NoSince => Head(rx).sequence = Place + 1
    BY <1>8, <2>1, <2>2, YieldsNext, PassesNext
  <2> QED
    BY <1>1, <2>1, <2>3, RunGrows
<1> QED
  BY <1>3, <1>4, <1>5, <1>6, <1>7, <1>8 DEF StreamNext

-----------------------------------------------------------------------------
(* The theorem.                                                            *)

LEMMA GapKept ==
    ASSUME StreamInv, GapInv, [StreamNext]_allVars
    PROVE  GapInv'
<1>1. /\ Moves /\ ActorInv /\ StreamTypeOK /\ PlainInv /\ FirstInv
  BY StreamMoves DEF StreamInv, ClientInv, GapInv
<1>2. PlainInv' /\ FirstInv'
  BY <1>1, PlainKept, FirstKept
<1>3. ASSUME Whole' PROVE RunInv' /\ AskRun' /\ HistoryRun' /\ LiveRun'
  <2>1. Whole /\ ~lossy'
    BY <1>1, <1>3, WholeBefore DEF Whole
  <2>2. Before /\ LiveRun
    BY <1>1, <2>1 DEF Before, GapInv, PlainInv, WholeInv, Whole
  <2> QED
    BY <1>1, <1>3, <2>1, <2>2, RunKept, AskKept, HistoryKept, LiveKept
<1> QED
  BY <1>2, <1>3 DEF GapInv, WholeInv

LEMMA InitGapInv == StreamInit => GapInv
<1> SUFFICES ASSUME StreamInit PROVE GapInv
  OBVIOUS
<1>1. /\ commits = <<>> /\ db = EmptyDb /\ phase = "recv" /\ current = Idle
      /\ conn = "off" /\ rx = <<>> /\ history = <<>> /\ received = <<>>
      /\ ~attached
  BY DEF StreamInit, Init
<1>2. PlainInv
  BY <1>1 DEF PlainInv, Plain, EmptyDb
<1>3. FirstInv /\ RunInv /\ AskRun /\ HistoryRun
  BY <1>1 DEF FirstInv, RunInv, AskRun, HistoryRun
<1>4. Tuned(0) /\ Joins(0)
  BY <1>1 DEF Tuned, Joins
<1>5. LiveRun
  BY <1>4 DEF LiveRun
<1> QED
  BY <1>2, <1>3, <1>5 DEF GapInv, WholeInv

\* From the invariant: what goes up to lastId without a gap is a stretch of the
\* log.
LEMMA RunIsNoGap ==
    ASSUME StreamInv, GapInv
    PROVE  GapsHaveCauses
<1> SUFFICES ASSUME Whole PROVE NoGap
  BY DEF GapsHaveCauses, Whole
<1> DEFINE n == Len(commits)
           k == Len(received)
<1>1. /\ ActorInv /\ ReceivedInv /\ Plain /\ RunInv
      /\ commits \in Seq(EventRecords) /\ received \in Seq(EventRecords)
      /\ {url, lastId} \subseteq Nat \cup {NoSince}
  BY DEF StreamInv, ClientInv, StreamTypeOK, ActorInv, IInv, TypeOK, GapInv,
         PlainInv, WholeInv, Whole
<1>2. n \in Nat /\ k \in Nat /\ DOMAIN commits = 1..n /\ DOMAIN received = 1..k
  BY <1>1
<1>3. CASE received = <<>>
  <2>1. k = 0 /\ SubSeq(commits, 0 + 1, 0 + 0) = <<>> /\ 0 \in 0..(n - k)
    BY <1>1, <1>2, <1>3
  <2> QED
    BY <1>3, <2>1 DEF NoGap
<1>4. CASE received # <<>>
  <2> DEFINE s == lastId - k
  <2>1. lastId \in Nat /\ k \in 1..k /\ k # 0
    BY <1>1, <1>2, <1>4 DEF ReceivedInv
  <2>2. ASSUME NEW i \in 1..k
        PROVE  /\ received[i].sequence = s + i
               /\ s + i \in 1..n /\ received[i] = commits[s + i]
    <3>1. received[i].sequence = s + i
      BY <1>1, <1>2, <1>4 DEF RunInv
    <3>2. PICK j \in 1..Sent : commits[j] = received[i]
      BY <1>1, <1>2 DEF ReceivedInv, Settled
    <3>3. Sent \in Nat /\ Sent <= n
      BY <1>1, <1>2 DEF ActorInv, OutInv, Sent, IInv, TypeOK
    <3>4. j \in 1..n
      BY <1>2, <3>3
    <3>5. commits[j].sequence = j
      BY <1>1, <1>2, <3>4 DEF Plain
    <3> QED
      BY <3>1, <3>2, <3>4, <3>5
  <2>3. s \in Int /\ s + 1 \in 1..n /\ s + k \in 1..n /\ s \in 0..(n - k)
    <3>1. s + 1 \in 1..n
      BY <1>2, <2>1, <2>2
    <3>2. s + k \in 1..n
      BY <1>2, <2>1, <2>2
    <3> QED
      BY <1>2, <2>1, <3>1, <3>2
  <2> HIDE DEF s, n, k
  <2>4. received = SubSeq(commits, s + 1, s + k)
    <3> DEFINE q == SubSeq(commits, s + 1, s + k)
    <3>1. /\ q \in Seq(EventRecords) /\ Len(q) = k
          /\ \A i \in 1..k : q[i] = commits[s + i]
      BY <1>1, <1>2, <2>3 DEF n
    <3> HIDE DEF q
    <3>2. Len(received) = Len(q) /\ \A i \in 1..Len(q) : received[i] = q[i]
      BY <2>2, <3>1 DEF k
    <3>3. received = q
      BY <1>1, <3>1, <3>2
    <3> QED
      BY <3>3 DEF q
  <2>5. kind = "sse" /\ url # NoSince => s = url
    BY <1>1, <1>4 DEF RunInv, s, k
  <2> QED
    BY <2>3, <2>4, <2>5 DEF NoGap, n, k
<1> QED
  BY <1>3, <1>4

\* As long as the cell is not restored, the receiver does not lag, no history
\* fails or is cut short, and a WebSocket does not reconnect, the client has,
\* over all its connections, a stretch of the log without gap: ws.rs subscribes
\* to the bus before it asks for the history, so what lies between the two is in
\* both, and max_seen_seq takes it out of one.
THEOREM GapsExplained == StreamSpec => []GapsHaveCauses
<1> DEFINE I == StreamInv /\ GapInv
<1>1. StreamInit => I
  BY InitStreamInv, InitGapInv
<1>2. I /\ [StreamNext]_allVars => I'
  BY StreamKept, GapKept
<1>3. I => GapsHaveCauses
  BY RunIsNoGap
<1> QED
  BY <1>1, <1>2, <1>3, PTL DEF StreamSpec

=============================================================================
