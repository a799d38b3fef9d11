--------------------------- MODULE EventStreamProofs ---------------------------
(***************************************************************************)
(* Proofs about EventStream, for every value of its constants: whatever is *)
(* lost, and however the log is restored, no record reaches the client     *)
(* twice.                                                                  *)
(***************************************************************************)
EXTENDS EventStream, CellActorProofs

-----------------------------------------------------------------------------
(* The composition takes the steps of the actor, and one more.             *)

Goes ==
    \/ UNCHANGED vars
    \/ Call(Writer) \/ Enqueue(Writer) \/ Return(Writer) \/ Enqueue(Reader)
    \/ ExecAppend \/ ExecQuery \/ ExecCheckpoint \/ ExecRestore
    \/ AppendRewound \/ Broadcast \/ Reply \/ ExecStop
    \/ HandlesDropped \/ Crash \/ Spawn

Moves == Goes \/ Connect \/ Return(Reader) \/ Abandon(Reader)

LEMMA StreamMoves == ASSUME [StreamNext]_allVars PROVE Moves
<1>1. CASE UNCHANGED vars \/ UNCHANGED allVars
  BY <1>1 DEF allVars, Moves, Goes
<1>2. CASE DeliverHistory \/ DeliverLive \/ FilterOut \/ Lag \/ StreamEnds
  BY <1>1, <1>2
  DEF DeliverHistory, DeliverLive, FilterOut, Yields, Lag, StreamEnds
<1>3. CASE Connect
  BY <1>3 DEF Moves, Goes
<1>4. CASE Replay
  BY <1>4 DEF Moves, Goes, Replay, Return
<1>5. CASE Disconnect
  BY <1>1, <1>5 DEF Moves, Goes, Disconnect
<1>6. CASE Publish \/ ActorEnds \/ ProcessDies
  BY <1>6 DEF Moves, Goes, Publish, ActorEnds, ProcessDies
<1>7. CASE Elsewhere
  BY <1>1, <1>7 DEF Moves, Goes, Elsewhere, Finished
<1> QED
  BY <1>1, <1>2, <1>3, <1>4, <1>5, <1>6, <1>7 DEF StreamNext

LEMMA StreamSteps == ASSUME Moves PROVE Connect \/ [Next]_vars
<1>1. Writer \in Clients /\ Reader \in Clients
  BY TasksAssumption
<1> QED
  BY <1>1 DEF Moves, Goes, Next, ClientStep, ActorStep

Positions == {url, lastId} \subseteq Nat \cup {NoSince}

Question == [op |-> "get_events", token |-> 0, since |-> Since]

\* Who asks for the history is a client like any other, with a token of its
\* own.
LEMMA ConnectIInv ==
    ASSUME IInv, Positions, Connect
    PROVE  IInv'
<1> DEFINE call == [fate |-> "sending", request |-> Question,
                    asked |-> Len(commits), rows |-> {}]
<1>1. /\ UNCHANGED <<db, mailbox, phase, current, bus, nextToken, spawns,
                     commits, born, torn>>
      /\ calls[Reader].fate = "idle"
      /\ calls \in [Clients -> CallRecords] /\ Reader \in Clients
  BY TasksAssumption DEF Connect, IInv, TypeOK
<1>2. CASE ~Replays
  <2>1. calls' = calls
    BY <1>2 DEF Connect
  <2> QED
    BY <1>1, <2>1 DEF IInv, TypeOK, Resting, RepliesMatchCalls, OneReply,
                      LogBelowCounter
<1>3. CASE Replays
  <2>1. Since \in Nat
    BY <1>3 DEF Replays, Since, Positions
  <2>2. call \in CallRecords
    <3>1. Question \in Requests
      BY <2>1 DEF Question, Requests
    <3>2. Len(commits) \in Nat
      BY DEF IInv, TypeOK
    <3> QED
      BY <3>1, <3>2 DEF CallRecords, Fates
  <2>3. calls' = [calls EXCEPT ![Reader] = call]
    BY <1>3 DEF Connect, Question
  <2>4. TypeOK'
    BY <1>1, <2>2, <2>3 DEF IInv, TypeOK
  <2>5. ASSUME NEW c \in Clients PROVE OneReply(c)'
    <3>1. OneReply(c)
      BY DEF IInv, RepliesMatchCalls
    <3>2. CASE c = Reader
      <4>1. calls'[c].fate = "sending"
        BY <1>1, <2>3, <3>2
      <4> QED
        BY <1>1, <3>1, <3>2, <4>1 DEF OneReply
    <3>3. CASE c # Reader
      <4>1. calls'[c] = calls[c]
        BY <1>1, <2>3, <3>3
      <4> QED
        BY <1>1, <3>1, <4>1 DEF OneReply
    <3> QED
      BY <3>2, <3>3
  <2> QED
    BY <1>1, <2>4, <2>5 DEF IInv, Resting, RepliesMatchCalls, LogBelowCounter
<1> QED
  BY <1>2, <1>3

LEMMA ActorIInv ==
    ASSUME IInv, Positions, Moves
    PROVE  IInv'
  BY StreamSteps, ConnectIInv, NextIInv

-----------------------------------------------------------------------------
(* The invariant.                                                          *)

\* No commit has the token t.
Fresh(t) ==
    /\ t < nextToken
    /\ \A i \in DOMAIN commits : commits[i].id[1] # t

Writes(r) == r.op \in {"append", "restore"}

\* Only the writer writes; the reader reads.
Queue ==
    /\ calls[Reader].fate # "idle" => calls[Reader].request.op = "get_events"
    /\ \A i \in DOMAIN mailbox :
          Writes(mailbox[i].request) => mailbox[i].reply = Writer
    /\ phase = "rewind" =>
          current.reply = Writer /\ current.request.op = "restore"

\* The request of the writer has not been handled yet.
Unhandled ==
    \/ calls[Writer].fate = "sending"
    \/ /\ calls[Writer].fate = "waiting"
       /\ ~(phase = "answer" /\ current.reply = Writer)

\* A request writes once, with a token of its own, and no two commits are the
\* same.
WriterInv ==
    /\ nextToken \in Nat
    /\ \A i \in DOMAIN commits : commits[i].id[1] < nextToken
    /\ \A i, j \in DOMAIN commits : commits[i].id = commits[j].id => i = j
    /\ Unhandled /\ Writes(calls[Writer].request) =>
          Fresh(calls[Writer].request.token)

\* Whose sequence is given out again is not in the log any more.
LogInv ==
    /\ IsFiniteSet(db.events)
    /\ \A e \in db.events : \E i \in DOMAIN commits : commits[i] = e
    /\ \A i, j \in DOMAIN commits :
          i < j /\ commits[i].sequence >= commits[j].sequence =>
              commits[i] \notin db.events

\* What the actor has in its hand to send is the end of the commits.
OutInv ==
    /\ phase # "answer" => current.out = <<>>
    /\ Len(current.out) <= Len(commits)
    /\ \A i \in 1..Len(current.out) :
          current.out[i] = commits[Len(commits) - Len(current.out) + i]

\* The commits that have been sent, or never will be.
Sent == Len(commits) - Len(current.out)

Settled(r) == \E i \in 1..Sent : commits[i] = r

Precedes(r, x) ==
    \E i, j \in DOMAIN commits : i < j /\ commits[i] = r /\ commits[j] = x

ActorInv == IInv /\ Queue /\ WriterInv /\ LogInv /\ OutInv

-----------------------------------------------------------------------------
(* The ways a step can change the log, and whose token it has.             *)

StillLog ==
    /\ db'.event_sequence = db.event_sequence
    /\ db'.events = db.events
    /\ commits' = commits

Cuts(target) == db' = Truncate(db, target) /\ commits' = commits

LEMMA HeadOfMailbox ==
    ASSUME TypeOK, mailbox # <<>>
    PROVE  1 \in DOMAIN mailbox /\ Head(mailbox) = mailbox[1]
  BY DEF TypeOK

\* The request that the actor receives from the writer is the one that it
\* waits for.
LEMMA ReceivedFresh ==
    ASSUME ActorInv, phase = "recv", mailbox # <<>>,
           Writes(Head(mailbox).request)
    PROVE  Fresh(Head(mailbox).request.token)
<1>1. 1 \in DOMAIN mailbox /\ Head(mailbox) = mailbox[1]
  BY HeadOfMailbox DEF ActorInv, IInv
<1>2. mailbox[1].reply = Writer
  BY <1>1 DEF ActorInv, Queue
<1>3. OneReply(Writer)
  BY TasksAssumption DEF ActorInv, IInv, RepliesMatchCalls
<1>4. /\ calls[Writer].fate = "waiting"
      /\ calls[Writer].request = mailbox[1].request
  BY <1>1, <1>2, <1>3 DEF OneReply
<1>5. Unhandled
  BY <1>4 DEF Unhandled
<1> QED
  BY <1>1, <1>4, <1>5 DEF ActorInv, WriterInv

\* So is the one whose restore is under way.
LEMMA RewindFresh ==
    ASSUME ActorInv, phase = "rewind"
    PROVE  Fresh(current.request.token)
<1>1. current.reply = Writer /\ Writes(current.request)
  BY DEF ActorInv, Queue, Writes
<1>2. OneReply(Writer)
  BY TasksAssumption DEF ActorInv, IInv, RepliesMatchCalls
<1>3. /\ calls[Writer].fate = "waiting"
      /\ calls[Writer].request = current.request
  BY <1>1, <1>2 DEF OneReply
<1>4. Unhandled
  BY <1>3 DEF Unhandled
<1> QED
  BY <1>1, <1>3, <1>4 DEF ActorInv, WriterInv

LEMMA AppendLog ==
    ASSUME ActorInv, ExecAppend
    PROVE  \/ StillLog
           \/ \E t \in Nat, ts \in Seq(EventTypes) : Fresh(t) /\ Appends(t, ts)
<1> DEFINE r == Head(mailbox).request
<1>1. /\ phase = "recv" /\ mailbox # <<>> /\ r.op = "append"
      /\ UNCHANGED <<torn, born>>
  BY DEF ExecAppend, Receive
<1>2. CASE Fail
  BY <1>2 DEF Fail, StillLog
<1>3. CASE ~Fail
  <2>1. r.token \in Nat /\ r.types \in Seq(EventTypes)
    BY <1>1, MailboxHead, RequestType DEF ActorInv, IInv
  <2>2. Fresh(r.token)
    BY <1>1, ReceivedFresh DEF Writes
  <2>3. Appends(r.token, r.types)
    BY <1>1, <1>3, AppendSucceeds DEF Answer, Appends
  <2> QED
    BY <2>1, <2>2, <2>3
<1> QED
  BY <1>2, <1>3

LEMMA RewoundLog ==
    ASSUME ActorInv, AppendRewound
    PROVE  \/ StillLog
           \/ \E t \in Nat, ts \in Seq(EventTypes) : Fresh(t) /\ Appends(t, ts)
<1> DEFINE t == current.request.token
<1>1. phase = "rewind" /\ phase' = "answer" /\ UNCHANGED born
  BY DEF AppendRewound
<1>2. CASE UNCHANGED <<db, commits>>
  BY <1>2 DEF StillLog
<1>3. CASE ~UNCHANGED <<db, commits>>
  <2>1. t \in Nat
    BY <1>1, RequestType DEF ActorInv, IInv, TypeOK
  <2>2. Fresh(t)
    BY <1>1, RewindFresh
  <2>3. Appends(t, <<Rewound>>)
    BY <1>1, <1>3 DEF AppendRewound, Appends
  <2>4. <<Rewound>> \in Seq(EventTypes)
    BY EventTypesAssumption
  <2> QED
    BY <2>1, <2>2, <2>3, <2>4
<1> QED
  BY <1>2, <1>3

\* No other step adds to the log.
LEMMA LogChange ==
    ASSUME ActorInv, Moves, ~ExecAppend, ~AppendRewound
    PROVE  StillLog \/ \E cp \in db.checkpoints : Cuts(cp.sequence)
<1>1. db \in Databases
  BY DEF ActorInv, IInv, TypeOK
<1>2. CASE UNCHANGED <<db, commits>>
  BY <1>2 DEF StillLog
<1>3. CASE Connect
  BY <1>2, <1>3 DEF Connect
<1>4. CASE \/ UNCHANGED vars \/ Call(Writer) \/ Enqueue(Writer)
           \/ Return(Writer) \/ Enqueue(Reader) \/ Return(Reader)
           \/ Abandon(Reader)
  BY <1>2, <1>4 DEF vars, Call, Enqueue, Return, Abandon
<1>5. CASE ExecQuery \/ Broadcast \/ Reply \/ Spawn \/ HandlesDropped \/ Crash
  BY <1>2, <1>5
  DEF ExecQuery, Fail, Broadcast, Reply, Spawn, HandlesDropped, Crash,
      ThreadEnds
<1>6. CASE ExecCheckpoint
  BY <1>1, <1>6 DEF ExecCheckpoint, Fail, CreateCheckpoint, StillLog, Databases
<1>7. CASE ExecStop
  BY <1>1, <1>7 DEF ExecStop, ThreadEnds, UpdateStatus, StillLog, Databases
<1>8. CASE ExecRestore
  BY <1>2, <1>8 DEF ExecRestore, Fail, Cuts
<1> QED
  BY <1>3, <1>4, <1>5, <1>6, <1>7, <1>8 DEF Moves, Goes

\* What an append does to the commits.
LEMMA Grown ==
    ASSUME ActorInv, NEW t \in Nat, NEW ts \in Seq(EventTypes),
           Appends(t, ts)
    PROVE  /\ Len(commits) \in Nat /\ Len(commits') \in Nat
           /\ Len(commits') = Len(commits) + Len(ts) /\ Len(ts) \in Nat
           /\ DOMAIN commits = 1..Len(commits)
           /\ DOMAIN commits' = 1..Len(commits')
           /\ \A i \in 1..Len(commits) : commits'[i] = commits[i]
           /\ \A i \in 1..Len(commits') : i \notin 1..Len(commits) =>
                /\ commits'[i].id = <<t, i - Len(commits)>>
                /\ commits'[i].sequence
                      = db.event_sequence + (i - Len(commits))
                /\ commits'[i] \in db'.events
           /\ \A e \in db'.events : e \notin db.events =>
                \E i \in 1..Len(commits') :
                    i \notin 1..Len(commits) /\ e = commits'[i]
<1> DEFINE n == Len(commits)
           m == Len(ts)
<1>1. /\ n \in Nat /\ m \in Nat
      /\ commits \in Seq(EventRecords) /\ commits' \in Seq(EventRecords)
      /\ Len(commits') = n + m
      /\ \A i \in 1..n : commits'[i] = commits[i]
      /\ \A j \in 1..m : /\ commits'[n + j].sequence = db.event_sequence + j
                         /\ commits'[n + j].id = <<t, j>>
  BY CommitsGrow DEF ActorInv
<1>2. db'.events = db.events \cup {commits'[n + j] : j \in 1..m}
  BY EventsGrow DEF ActorInv
<1> HIDE DEF n, m
<1>3. ASSUME NEW i \in 1..(n + m), i \notin 1..n
      PROVE  i - n \in 1..m /\ i = n + (i - n)
  BY <1>1, <1>3
<1>4. ASSUME NEW i \in 1..(n + m), i \notin 1..n
      PROVE  /\ commits'[i].id = <<t, i - n>>
             /\ commits'[i].sequence = db.event_sequence + (i - n)
             /\ commits'[i] \in db'.events
  BY <1>1, <1>2, <1>3, <1>4
<1>5. ASSUME NEW e \in db'.events, e \notin db.events
      PROVE  \E i \in 1..(n + m) : i \notin 1..n /\ e = commits'[i]
  <2>1. PICK j \in 1..m : e = commits'[n + j]
    BY <1>2, <1>5
  <2>2. n + j \in 1..(n + m) /\ n + j \notin 1..n
    BY <1>1
  <2> QED
    BY <2>1, <2>2
<1>6. DOMAIN commits = 1..n /\ DOMAIN commits' = 1..(n + m)
  BY <1>1 DEF n
<1>7. /\ Len(commits) = n /\ Len(ts) = m /\ Len(commits') = n + m
      /\ n + m \in Nat
  BY <1>1 DEF n, m
<1> QED
  BY ONLY <1>1, <1>4, <1>5, <1>6, <1>7

-----------------------------------------------------------------------------
(* The calls.                                                              *)

LEMMA OtherFate ==
    ASSUME NEW k \in CallRecords, NEW f, NEW rs
    PROVE  /\ [k EXCEPT !.fate = f].fate = f
           /\ [k EXCEPT !.fate = f].request = k.request
           /\ [k EXCEPT !.fate = f].rows = k.rows
           /\ [k EXCEPT !.fate = f, !.rows = rs].fate = f
           /\ [k EXCEPT !.fate = f, !.rows = rs].request = k.request
           /\ [k EXCEPT !.fate = f, !.rows = rs].rows = rs
  BY DEF CallRecords, NoCall

\* What the actor does to a call.
Same(c) == calls'[c] = calls[c]

Ended(c) ==
    /\ calls[c].fate \in {"sending", "waiting"}
    /\ calls'[c].fate \in {"ok", "err", "lost"}
    /\ calls'[c].request = calls[c].request
    /\ calls'[c].rows = calls[c].rows

Replied(c) ==
    /\ current.reply = c
    /\ phase = "answer"
    /\ calls[c].fate = "waiting"
    /\ calls'[c].fate \in {"ok", "err"}
    /\ calls'[c].request = calls[c].request
    /\ calls'[c].rows = current.rows

\* A reply reaches the caller that it is for, and the end of an incarnation
\* all that wait.
LEMMA ReplyCalls ==
    ASSUME IInv, Reply, NEW c \in Clients
    PROVE  IF current.reply = c THEN Replied(c) ELSE Same(c)
<1>1. calls[c] \in CallRecords /\ current.outcome \in {"ok", "err"}
  BY DEF IInv, TypeOK
<1>2. current.reply = c => calls[c].fate = "waiting"
  BY DEF IInv, RepliesMatchCalls, OneReply
<1>3. calls'[c] = IF current.reply = c
                  THEN [calls[c] EXCEPT !.fate = current.outcome,
                                        !.rows = current.rows]
                  ELSE calls[c]
  BY DEF Reply
<1>4. CASE current.reply = c
  <2>1. /\ calls'[c].fate = current.outcome
        /\ calls'[c].request = calls[c].request
        /\ calls'[c].rows = current.rows
    BY <1>1, <1>3, <1>4, OtherFate
  <2>2. phase = "answer"
    BY DEF Reply
  <2> QED
    BY <1>1, <1>2, <1>4, <2>1, <2>2 DEF Replied
<1> QED
  BY <1>3, <1>4 DEF Same

LEMMA EndCalls ==
    ASSUME IInv, ExecStop \/ HandlesDropped \/ Crash, NEW c \in Clients
    PROVE  IF calls[c].fate \in {"sending", "waiting"} THEN Ended(c)
           ELSE Same(c)
<1>1. calls[c] \in CallRecords
  BY DEF IInv, TypeOK
<1>2. CASE HandlesDropped
  BY <1>2 DEF HandlesDropped, Same
<1>3. CASE ExecStop
  BY <1>1, <1>3, OtherFate DEF ExecStop, Orphaned, Same, Ended
<1>4. CASE Crash
  BY <1>1, <1>4, OtherFate DEF Crash, Same, Ended
<1> QED
  BY <1>2, <1>3, <1>4

-----------------------------------------------------------------------------
(* The writer, and the log.                                                *)

LEMMA QueueKept ==
    ASSUME IInv, Queue, Moves
    PROVE  Queue'
<1> USE DEF Queue, Writes
<1>1. /\ TypeOK /\ mailbox \in Seq(Mails) /\ calls \in [Clients -> CallRecords]
      /\ {Writer, Reader} \subseteq Clients
      /\ current \in Currents
  BY TasksAssumption DEF IInv, TypeOK, Currents
<1>2. CASE UNCHANGED vars \/ Spawn \/ Broadcast
  BY <1>1, <1>2 DEF vars, Spawn, Broadcast, Currents
<1>3. CASE Connect
  BY <1>1, <1>3 DEF Connect
<1>4. CASE Call(Writer) \/ Return(Writer) \/ Return(Reader)
  BY <1>1, <1>4, TasksAssumption DEF Call, Return, NoCall
<1>5. ASSUME NEW c \in {Writer, Reader}, Enqueue(c) PROVE Queue'
  <2> DEFINE fence == calls[c].request.op = "fence"
             mail == [request |-> calls[c].request,
                      reply   |-> IF fence THEN Nobody ELSE c]
  <2>1. /\ mailbox' = Append(mailbox, mail)
        /\ calls' = [calls EXCEPT ![c].fate = IF fence THEN "ok" ELSE "waiting"]
        /\ calls[c].fate = "sending"
        /\ UNCHANGED <<phase, current>>
    BY <1>5 DEF Enqueue
  <2>2. Writes(mail.request) => mail.reply = Writer
    BY <2>1, <1>5
  <2> HIDE DEF mail
  <2>3. \A i \in DOMAIN mailbox' :
           \/ i \in DOMAIN mailbox /\ mailbox'[i] = mailbox[i]
           \/ mailbox'[i] = mail
    BY <1>1, <2>1
  <2>4. /\ calls'[Reader].request = calls[Reader].request
        /\ calls'[Reader].fate # "idle" => calls[Reader].fate # "idle"
    BY <1>1, <2>1
  <2> QED
    BY <2>1, <2>2, <2>3, <2>4
<1>6. CASE Abandon(Reader)
  <2>1. /\ calls'[Reader] = NoCall /\ UNCHANGED phase
        /\ DOMAIN mailbox' = DOMAIN mailbox
    BY <1>1, <1>6 DEF Abandon
  <2>2. ASSUME NEW i \in DOMAIN mailbox
        PROVE  /\ mailbox'[i].request = mailbox[i].request
               /\ mailbox[i].reply # Reader =>
                     mailbox'[i].reply = mailbox[i].reply
    BY <1>1, <1>6 DEF Abandon, Mails
  <2>3. /\ current'.request = current.request
        /\ current.reply # Reader => current'.reply = current.reply
    BY <1>1, <1>6 DEF Abandon, Currents
  <2> QED
    BY <2>1, <2>2, <2>3, TasksAssumption DEF NoCall
<1>7. CASE ExecAppend \/ ExecQuery \/ ExecCheckpoint \/ ExecRestore
  <2>1. /\ mailbox # <<>> /\ mailbox' = Tail(mailbox) /\ UNCHANGED calls
        /\ phase' \in {"answer", "rewind"}
        /\ phase' = "rewind" =>
              /\ Head(mailbox).request.op = "restore"
              /\ current'.request = Head(mailbox).request
              /\ current'.reply = Head(mailbox).reply
    BY <1>7 DEF ExecAppend, ExecQuery, ExecCheckpoint, ExecRestore, Receive,
                Answer, Fail, Idle
  <2>2. 1 \in DOMAIN mailbox /\ Head(mailbox) = mailbox[1]
    BY <1>1, <2>1, HeadOfMailbox
  <2>3. \A i \in DOMAIN Tail(mailbox) :
           i + 1 \in DOMAIN mailbox /\ Tail(mailbox)[i] = mailbox[i + 1]
    BY <1>1, <2>1
  <2> QED
    BY <2>1, <2>2, <2>3
<1>8. CASE AppendRewound \/ Reply
  <2>1. /\ UNCHANGED mailbox /\ phase' \in {"answer", "recv"}
        /\ calls'[Reader].request = calls[Reader].request
        /\ calls'[Reader].fate # "idle" => calls[Reader].fate # "idle"
    BY <1>1, <1>8, ReplyCalls DEF AppendRewound, Reply, Same, Replied
  <2> QED
    BY <2>1
<1>9. CASE ExecStop \/ HandlesDropped \/ Crash
  <2>1. /\ mailbox' = <<>> /\ phase' = "stopped"
        /\ calls'[Reader].request = calls[Reader].request
        /\ calls'[Reader].fate # "idle" => calls[Reader].fate # "idle"
    BY <1>1, <1>9, EndCalls
    DEF ExecStop, HandlesDropped, Crash, ThreadEnds, Same, Ended
  <2> QED
    BY <2>1
<1> QED
  BY <1>2, <1>3, <1>4, <1>5, <1>6, <1>7, <1>8, <1>9 DEF Moves, Goes

\* An append is what is left to handle of the request of the writer.
LEMMA AppendHandled ==
    ASSUME ActorInv, ExecAppend \/ AppendRewound
    PROVE  ~Unhandled'
<1>1. CASE ExecAppend
  <2>1. 1 \in DOMAIN mailbox /\ Head(mailbox) = mailbox[1]
    BY <1>1, HeadOfMailbox DEF ExecAppend, Receive, ActorInv, IInv
  <2>2. mailbox[1].reply = Writer
    BY <1>1, <2>1 DEF ExecAppend, Receive, ActorInv, Queue, Writes
  <2>3. OneReply(Writer)
    BY TasksAssumption DEF ActorInv, IInv, RepliesMatchCalls
  <2>4. calls[Writer].fate = "waiting" /\ calls' = calls
    BY <1>1, <2>1, <2>2, <2>3 DEF OneReply, ExecAppend
  <2>5. phase' = "answer" /\ current'.reply = Writer
    BY <1>1, <2>1, <2>2 DEF ExecAppend, Answer, Fail
  <2> QED
    BY <2>4, <2>5 DEF Unhandled
<1>2. CASE AppendRewound
  <2>1. /\ current.reply = Writer /\ current \in Currents
        /\ phase' = "answer" /\ calls' = calls
    BY <1>2 DEF AppendRewound, ActorInv, Queue, IInv, TypeOK, Currents
  <2>2. calls[Writer].fate = "waiting"
    BY <2>1, TasksAssumption DEF ActorInv, IInv, RepliesMatchCalls, OneReply
  <2>3. current'.reply = Writer
    BY <1>2, <2>1 DEF AppendRewound, Currents
  <2> QED
    BY <2>1, <2>2, <2>3 DEF Unhandled
<1> QED
  BY <1>1, <1>2

\* What has not been handled for the writer had not been before, or it has just
\* asked for it.
LEMMA UnhandledBefore ==
    ASSUME ActorInv, Moves, ~ExecAppend, ~AppendRewound, Unhandled'
    PROVE  /\ nextToken \in Nat
           /\ \/ /\ Unhandled
                 /\ calls'[Writer].request = calls[Writer].request
                 /\ nextToken' = nextToken
              \/ /\ calls'[Writer].request.token = nextToken
                 /\ nextToken' = nextToken + 1
<1> USE DEF Unhandled
<1>1. /\ TypeOK /\ calls \in [Clients -> CallRecords]
      /\ Writer \in Clients /\ Reader \in Clients /\ Writer # Reader
      /\ current \in Currents /\ nextToken \in Nat
      /\ Resting /\ OneReply(Writer) /\ OneReply(Reader)
  BY TasksAssumption
  DEF ActorInv, IInv, RepliesMatchCalls, TypeOK, Currents
<1>2. CASE UNCHANGED vars \/ Broadcast \/ Spawn
  BY <1>1, <1>2 DEF vars, Broadcast, Spawn, Currents
<1>3. CASE Connect \/ Return(Reader) \/ Enqueue(Reader)
  BY <1>1, <1>3 DEF Connect, Return, Enqueue
<1>4. CASE Call(Writer)
  BY <1>1, <1>4 DEF Call, Offered
<1>5. CASE Enqueue(Writer)
  BY <1>1, <1>5 DEF Enqueue
<1>6. CASE Return(Writer)
  BY <1>1, <1>6 DEF Return, NoCall
<1>7. CASE Abandon(Reader)
  BY <1>1, <1>7 DEF Abandon, Currents
<1>8. CASE ExecQuery \/ ExecCheckpoint \/ ExecRestore
  BY <1>1, <1>8 DEF ExecQuery, ExecCheckpoint, ExecRestore, Receive
<1>9. CASE Reply
  BY <1>1, <1>9, ReplyCalls DEF Reply, Same, Replied, ActorInv
<1>10. CASE ExecStop \/ HandlesDropped \/ Crash
  <2>1. calls'[Writer].fate \notin {"sending", "waiting"}
    BY <1>1, <1>10, EndCalls DEF ActorInv, Same, Ended
  <2> QED
    BY <2>1
<1> QED
  BY <1>2, <1>3, <1>4, <1>5, <1>6, <1>7, <1>8, <1>9, <1>10 DEF Moves, Goes

\* What a step does to the log: nothing, or a truncation, or it appends what
\* the writer has asked for and will not ask for again.
Grows ==
    /\ \E t \in Nat, ts \in Seq(EventTypes) : Fresh(t) /\ Appends(t, ts)
    /\ ~Unhandled'
    /\ nextToken' = nextToken

LogStep == StillLog \/ Grows \/ \E target \in Nat : Cuts(target)

LEMMA LogMoves == ASSUME ActorInv, Moves PROVE LogStep
<1>1. CASE ExecAppend \/ AppendRewound
  <2>1. ~Unhandled' /\ nextToken' = nextToken
    BY <1>1, AppendHandled DEF ExecAppend, AppendRewound
  <2> QED
    BY <1>1, <2>1, AppendLog, RewoundLog DEF LogStep, Grows
<1>2. CASE ~ExecAppend /\ ~AppendRewound
  <2>1. \A cp \in db.checkpoints : cp.sequence \in Nat
    BY DEF ActorInv, IInv, TypeOK, Databases, Checkpoints
  <2> QED
    BY <1>2, <2>1, LogChange DEF LogStep
<1> QED
  BY <1>1, <1>2

LEMMA TokensGrow ==
    ASSUME Moves
    PROVE  nextToken' = nextToken \/ nextToken' = nextToken + 1
  BY DEF Moves, Goes, vars, Connect, Call, Enqueue, Return, Abandon, ExecAppend,
         ExecQuery, ExecCheckpoint, ExecRestore, AppendRewound, Broadcast, Reply,
         ExecStop, HandlesDropped, Crash, ThreadEnds, Spawn

LEMMA WriterKept ==
    ASSUME ActorInv, Moves
    PROVE  WriterInv'
<1>1. /\ nextToken' = nextToken \/ nextToken' = nextToken + 1
      /\ nextToken \in Nat
      /\ \A i \in DOMAIN commits : commits[i].id[1] < nextToken
      /\ \A i, j \in DOMAIN commits : commits[i].id = commits[j].id => i = j
      /\ \A i \in DOMAIN commits : commits[i].id[1] \in Nat
  <2>1. \A i \in DOMAIN commits : commits[i] \in EventRecords
    BY DEF ActorInv, IInv, TypeOK
  <2> QED
    BY <2>1, TokensGrow DEF ActorInv, WriterInv, EventRecords, Uuids
<1>2. CASE ~ExecAppend /\ ~AppendRewound
  <2>1. commits' = commits
    BY <1>2, LogChange DEF StillLog, Cuts
  <2>2. nextToken' \in Nat /\ \A i \in DOMAIN commits : commits[i].id[1] < nextToken'
    BY <1>1
  <2>3. Unhandled' /\ Writes(calls'[Writer].request) =>
            Fresh(calls[Writer].request.token)'
    <3> SUFFICES ASSUME Unhandled', Writes(calls'[Writer].request)
                 PROVE  Fresh(calls[Writer].request.token)'
      OBVIOUS
    <3>1. CASE /\ Unhandled /\ nextToken' = nextToken
               /\ calls'[Writer].request = calls[Writer].request
      BY <1>1, <2>1, <3>1 DEF ActorInv, WriterInv, Fresh
    <3>2. CASE /\ calls'[Writer].request.token = nextToken
               /\ nextToken' = nextToken + 1
      BY <1>1, <2>1, <3>2 DEF Fresh
    <3> QED
      BY <1>2, <3>1, <3>2, UnhandledBefore
  <2> QED
    BY <1>1, <2>1, <2>2, <2>3 DEF WriterInv
<1>3. CASE StillLog /\ (ExecAppend \/ AppendRewound)
  <2>1. ~Unhandled' /\ nextToken' = nextToken /\ commits' = commits
    BY <1>3, AppendHandled DEF ExecAppend, AppendRewound, StillLog
  <2> QED
    BY <1>1, <2>1 DEF WriterInv
<1>4. CASE Grows
  <2>1. PICK t \in Nat, ts \in Seq(EventTypes) : Fresh(t) /\ Appends(t, ts)
    BY <1>4 DEF Grows
  <2> DEFINE n == Len(commits)
  <2>2. /\ n \in Nat /\ Len(commits') \in Nat
        /\ DOMAIN commits = 1..n /\ DOMAIN commits' = 1..Len(commits')
        /\ \A i \in 1..n : commits'[i] = commits[i]
        /\ \A i \in 1..Len(commits') : i \notin 1..n =>
              commits'[i].id = <<t, i - n>>
    BY <2>1, Grown
  <2> HIDE DEF n
  <2>3. t < nextToken /\ \A i \in 1..n : commits[i].id[1] # t
    BY <2>1, <2>2 DEF Fresh
  <2>4. \A i \in DOMAIN commits' : commits'[i].id[1] < nextToken'
    BY <1>1, <1>4, <2>2, <2>3 DEF Grows
  <2>5. ASSUME NEW i \in DOMAIN commits', NEW j \in DOMAIN commits',
               commits'[i].id = commits'[j].id
        PROVE  i = j
    BY <1>1, <2>2, <2>3, <2>5
  <2> QED
    BY <1>1, <1>4, <2>4, <2>5 DEF Grows, WriterInv
<1> QED
  BY <1>2, <1>3, <1>4, AppendLog, RewoundLog, AppendHandled
  DEF Grows, ExecAppend, AppendRewound

\* A row that is in the log after a step, and was committed before it, was in
\* the log.
LEMMA NoRowReturns ==
    ASSUME ActorInv, Moves, NEW i \in DOMAIN commits,
           commits[i] \in db'.events
    PROVE  commits[i] \in db.events
<1>1. db \in Databases
  BY DEF ActorInv, IInv, TypeOK
<1>2. CASE StillLog \/ \E target \in Nat : Cuts(target)
  BY <1>1, <1>2 DEF StillLog, Cuts, Truncate, Databases
<1>3. CASE Grows
  <2>1. PICK t \in Nat, ts \in Seq(EventTypes) : Fresh(t) /\ Appends(t, ts)
    BY <1>3 DEF Grows
  <2>2. ASSUME commits[i] \notin db.events PROVE FALSE
    <3>1. PICK j \in 1..Len(commits') :
                j \notin 1..Len(commits) /\ commits[i] = commits'[j]
      BY <2>1, <2>2, Grown
    <3>2. commits[i].id = <<t, j - Len(commits)>>
      BY <2>1, <3>1, Grown
    <3> QED
      BY <2>1, <3>2 DEF Fresh
  <2> QED
    BY <2>2
<1> QED
  BY <1>2, <1>3, LogMoves DEF LogStep

\* The log only changes at its end.
LEMMA CommitsStay ==
    ASSUME ActorInv, Moves
    PROVE  /\ Len(commits) \in Nat /\ Len(commits') \in Nat
           /\ Len(commits) <= Len(commits')
           /\ DOMAIN commits = 1..Len(commits)
           /\ DOMAIN commits' = 1..Len(commits')
           /\ \A i \in DOMAIN commits : commits'[i] = commits[i]
<1>1. CASE commits' = commits
  BY <1>1 DEF ActorInv, IInv, TypeOK
<1>2. CASE Grows
  BY <1>2, Grown DEF Grows
<1> QED
  BY <1>1, <1>2, LogMoves DEF LogStep, StillLog, Cuts

LEMMA LogKept ==
    ASSUME ActorInv, Moves
    PROVE  LogInv'
<1>1. db \in Databases
  BY DEF ActorInv, IInv, TypeOK
<1>2. CASE StillLog
  BY <1>2 DEF StillLog, ActorInv, LogInv
<1>3. CASE \E target \in Nat : Cuts(target)
  <2>1. db'.events \subseteq db.events /\ commits' = commits
    BY <1>1, <1>3 DEF Cuts, Truncate, Databases
  <2>2. IsFiniteSet(db'.events)
    BY <2>1, FS_Subset DEF ActorInv, LogInv
  <2> QED
    BY <2>1, <2>2 DEF ActorInv, LogInv
<1>4. CASE Grows
  <2>1. PICK t \in Nat, ts \in Seq(EventTypes) : Fresh(t) /\ Appends(t, ts)
    BY <1>4 DEF Grows
  <2> DEFINE n == Len(commits)
             m == Len(ts)
             new == {commits'[n + j] : j \in 1..m}
  <2>2. /\ n \in Nat /\ Len(commits') \in Nat /\ m \in Nat
        /\ DOMAIN commits = 1..n /\ DOMAIN commits' = 1..Len(commits')
        /\ \A i \in 1..n : commits'[i] = commits[i]
        /\ \A i \in 1..Len(commits') : i \notin 1..n =>
              commits'[i].sequence = db.event_sequence + (i - n)
        /\ \A e \in db'.events : e \notin db.events =>
              \E i \in 1..Len(commits') : i \notin 1..n /\ e = commits'[i]
    BY <2>1, Grown
  <2>3. IsFiniteSet(db'.events)
    <3> DEFINE f == [j \in 1..m |-> commits'[n + j]]
    <3>1. IsFiniteSet(1..m)
      BY <2>2, FS_Interval
    <3>2. db'.events = db.events \cup new
      BY <2>1, EventsGrow DEF ActorInv
    <3>3. IsFiniteSet(new)
      <4>1. new = {f[j] : j \in 1..m}
        OBVIOUS
      <4> HIDE DEF new, m
      <4>2. f \in Surjection(1..m, new)
        BY <4>1 DEF Surjection
      <4> QED
        BY <3>1, <4>2, FS_Surjection
    <3>4. IsFiniteSet(db.events)
      BY DEF ActorInv, LogInv
    <3> HIDE DEF new
    <3> QED
      BY ONLY <3>2, <3>3, <3>4, FS_Union
  <2> HIDE DEF n, m, new
  <2>4. ASSUME NEW e \in db'.events
        PROVE  \E i \in DOMAIN commits' : commits'[i] = e
    <3>1. CASE e \in db.events
      <4>1. PICK i \in DOMAIN commits : commits[i] = e
        BY <3>1 DEF ActorInv, LogInv
      <4> QED
        BY <4>1, CommitsStay
    <3>2. CASE e \notin db.events
      BY <2>2, <2>4, <3>2
    <3> QED
      BY <3>1, <3>2
  <2>5. ASSUME NEW i \in DOMAIN commits', NEW j \in DOMAIN commits',
               i < j, commits'[i].sequence >= commits'[j].sequence
        PROVE  commits'[i] \notin db'.events
    <3>1. db.event_sequence \in Nat
      BY <1>1 DEF Databases
    <3>2. i \in 1..n
      BY <2>2, <2>5, <3>1
    <3>3. commits[i] \notin db.events
      <4>1. CASE j \in 1..n
        BY <2>2, <2>5, <3>2, <4>1 DEF ActorInv, LogInv
      <4>2. CASE j \notin 1..n
        <5>1. /\ commits'[j].sequence > db.event_sequence
              /\ commits'[j].sequence \in Nat
          <6>1. j \in Nat /\ j > n /\ n \in Nat
            BY <2>2, <4>2
          <6>2. commits'[j].sequence = db.event_sequence + (j - n)
            BY <2>2, <4>2
          <6> QED
            BY ONLY <3>1, <6>1, <6>2
        <5>2. commits[i] \in EventRecords
          BY <2>2, <3>2 DEF ActorInv, IInv, TypeOK
        <5>3. commits[i].sequence \in Nat /\ commits'[i] = commits[i]
          BY <2>2, <3>2, <5>2 DEF EventRecords
        <5> QED
          BY <2>5, <3>1, <5>1, <5>3 DEF ActorInv, IInv, LogBelowCounter
      <4> QED
        BY <4>1, <4>2
    <3> QED
      BY <2>2, <3>2, <3>3, NoRowReturns
  <2> QED
    BY <2>3, <2>4, <2>5 DEF LogInv
<1> QED
  BY <1>2, <1>3, <1>4, LogMoves DEF LogStep

\* What a step does to what is left to send.
OutStep ==
    \/ current'.out = <<>>
    \/ current'.out = current.out /\ UNCHANGED <<phase, commits>>
    \/ Broadcast
    \/ /\ current'.out \in Seq(EventRecords) /\ current.out = <<>>
       /\ commits' = commits \o current'.out
       /\ phase' = "answer"

LEMMA OutMoves == ASSUME ActorInv, Moves PROVE OutStep
<1> USE DEF OutStep
<1>1. current \in Currents
  BY DEF ActorInv, IInv, TypeOK, Currents
<1>2. CASE \/ UNCHANGED vars \/ Connect \/ Call(Writer) \/ Enqueue(Writer)
           \/ Return(Writer) \/ Enqueue(Reader) \/ Return(Reader)
  BY <1>2 DEF vars, Connect, Call, Enqueue, Return
<1>3. CASE Abandon(Reader)
  BY <1>1, <1>3 DEF Abandon, Currents
<1>4. CASE ExecQuery \/ ExecCheckpoint \/ ExecRestore \/ Reply
  <2>1. CASE \E o, rows : Answer(o, rows, <<>>)
    BY <2>1 DEF Answer
  <2>2. CASE Reply
    BY <2>2 DEF Reply, Idle
  <2>3. CASE ExecRestore /\ ~Fail
    BY <2>3 DEF ExecRestore, Idle
  <2> QED
    BY <1>4, <2>1, <2>2, <2>3 DEF ExecQuery, ExecCheckpoint, Fail
<1>5. CASE ExecStop \/ HandlesDropped \/ Crash
  BY <1>5 DEF ExecStop, HandlesDropped, Crash, ThreadEnds, Idle
<1>6. CASE Spawn
  BY <1>6 DEF Spawn, ActorInv, OutInv
<1>7. CASE AppendRewound
  BY <1>1, <1>7 DEF AppendRewound, Currents, ActorInv, OutInv
<1>8. CASE ExecAppend
  <2> DEFINE r == Head(mailbox).request
             records == NewRecords(db, r.token, r.types)
  <2>1. CASE Fail
    BY <2>1 DEF Fail, Answer
  <2>2. CASE ~Fail
    <3>1. /\ commits' = commits \o records /\ current'.out = records
          /\ phase' = "answer"
      BY <1>8, <2>2, AppendSucceeds DEF Answer
    <3>2. current.out = <<>>
      BY <1>8 DEF ExecAppend, Receive, ActorInv, OutInv
    <3>3. r.token \in Nat /\ r.types \in Seq(EventTypes) /\ db \in Databases
      BY <1>8, MailboxHead, RequestType
      DEF ExecAppend, Receive, ActorInv, IInv, TypeOK
    <3>4. records \in Seq(EventRecords)
      BY <3>3, NewRecordsType
    <3> QED
      BY <3>1, <3>2, <3>4
  <2> QED
    BY <2>1, <2>2
<1> QED
  BY <1>2, <1>3, <1>4, <1>5, <1>6, <1>7, <1>8 DEF Moves, Goes

\* The record that is sent is the next commit.
LEMMA NextSent ==
    ASSUME ActorInv, Broadcast
    PROVE  /\ Sent \in Nat /\ Sent < Len(commits) /\ Sent' = Sent + 1
           /\ Head(current.out) = commits[Sent + 1]
           /\ Head(current.out) \in EventRecords
<1> DEFINE n == Len(commits)
           k == Len(current.out)
<1>1. /\ current.out \in Seq(EventRecords) /\ current \in Currents
      /\ commits \in Seq(EventRecords)
  BY DEF ActorInv, IInv, TypeOK, Currents
<1>2. /\ current.out # <<>> /\ commits' = commits
      /\ current'.out = Tail(current.out)
  BY <1>1 DEF Broadcast, Currents
<1>3. /\ k \in Nat /\ k >= 1 /\ n \in Nat /\ Head(current.out) = current.out[1]
      /\ Len(Tail(current.out)) = k - 1 /\ Head(current.out) \in EventRecords
  BY <1>1, <1>2
<1>4. k <= n /\ \A i \in 1..k : current.out[i] = commits[n - k + i]
  BY DEF ActorInv, OutInv
<1>5. Sent = n - k /\ Sent' = n - (k - 1)
  BY <1>2, <1>3 DEF Sent
<1> HIDE DEF n, k
<1>6. current.out[1] = commits[n - k + 1]
  BY <1>3, <1>4
<1>7. n - k \in Nat /\ n - k < n /\ n - (k - 1) = n - k + 1
  BY <1>3, <1>4
<1> QED
  BY <1>3, <1>5, <1>6, <1>7 DEF n

LEMMA OutKept ==
    ASSUME ActorInv, Moves
    PROVE  /\ OutInv'
           /\ Sent \in Nat /\ Sent' \in Nat
           /\ Sent <= Sent' /\ Sent <= Len(commits)
<1>1. /\ current \in Currents /\ current.out \in Seq(EventRecords)
      /\ commits \in Seq(EventRecords) /\ OutInv
      /\ Len(current.out) \in Nat /\ Len(commits) \in Nat
      /\ Len(commits') \in Nat /\ Len(commits) <= Len(commits')
  BY CommitsStay DEF ActorInv, IInv, TypeOK, Currents
<1>2. Sent \in Nat /\ Sent <= Len(commits)
  BY <1>1 DEF Sent, OutInv
<1>3. CASE current'.out = <<>>
  <2>1. OutInv'
    BY <1>1, <1>3 DEF OutInv
  <2>2. Sent' = Len(commits')
    BY <1>1, <1>3 DEF Sent
  <2> QED
    BY <1>1, <1>2, <2>1, <2>2
<1>4. CASE current'.out = current.out /\ UNCHANGED <<phase, commits>>
  <2>1. OutInv'
    BY <1>1, <1>4 DEF OutInv
  <2>2. Sent' = Sent
    BY <1>4 DEF Sent
  <2> QED
    BY <1>2, <2>1, <2>2
<1>5. CASE /\ current'.out \in Seq(EventRecords)
           /\ commits' = commits \o current'.out
           /\ phase' = "answer"
  <2> DEFINE records == current'.out
  <2> HIDE DEF records
  <2>1. /\ records \in Seq(EventRecords) /\ commits' = commits \o records
        /\ current'.out = records
    BY <1>5 DEF records
  <2>2. /\ Len(records) \in Nat /\ Len(commits') = Len(commits) + Len(records)
        /\ \A i \in 1..Len(records) : commits'[Len(commits) + i] = records[i]
    BY <1>1, <2>1
  <2>3. Sent' = Len(commits) /\ Len(commits) <= Len(commits')
    BY <1>1, <2>1, <2>2 DEF Sent
  <2>4. OutInv'
    BY <1>1, <1>5, <2>1, <2>2 DEF OutInv
  <2> QED
    BY <1>1, <1>2, <2>3, <2>4
<1>6. CASE Broadcast
  <2> DEFINE n == Len(commits)
             k == Len(current.out)
  <2>1. /\ current.out # <<>> /\ phase = "answer"
        /\ UNCHANGED <<phase, commits>> /\ current'.out = Tail(current.out)
    BY <1>1, <1>6 DEF Broadcast, Currents
  <2>2. /\ k >= 1 /\ Len(Tail(current.out)) = k - 1
        /\ \A i \in 1..Len(Tail(current.out)) :
              Tail(current.out)[i] = current.out[i + 1]
    BY <1>1, <2>1
  <2>3. k \in Nat /\ n \in Nat /\ k <= n
        /\ \A i \in 1..k : current.out[i] = commits[n - k + i]
    BY <1>1 DEF OutInv
  <2> HIDE DEF n, k
  <2>4. \A i \in 1..(k - 1) :
           i + 1 \in 1..k /\ n - k + (i + 1) = n - (k - 1) + i
    BY <2>3
  <2>5. \A i \in 1..(k - 1) : current'.out[i] = commits[n - (k - 1) + i]
    BY <2>1, <2>2, <2>3, <2>4
  <2>6. Len(current'.out) = k - 1 /\ Len(commits') = n /\ k - 1 <= n
    BY <2>1, <2>2, <2>3 DEF n
  <2>7. OutInv'
    BY <2>1, <2>5, <2>6 DEF OutInv
  <2> QED
    BY <1>2, <1>6, <2>7, NextSent
<1> QED
  BY <1>3, <1>4, <1>5, <1>6, OutMoves DEF OutStep

LEMMA ActorKept ==
    ASSUME ActorInv, Positions, Moves
    PROVE  ActorInv'
<1>1. IInv' /\ Queue'
  BY ActorIInv, QueueKept DEF ActorInv
<1> QED
  BY <1>1, WriterKept, LogKept, OutKept DEF ActorInv

-----------------------------------------------------------------------------
(* What stays true of a record.                                            *)

LEMMA SettledStays ==
    ASSUME ActorInv, Moves, NEW r, Settled(r)
    PROVE  /\ Settled(r)'
           /\ r \in db'.events => r \in db.events
<1>1. PICK i \in 1..Sent : commits[i] = r
  BY DEF Settled
<1>2. i \in DOMAIN commits /\ i \in 1..Sent'
  BY <1>1, OutKept, CommitsStay
<1>3. commits'[i] = r
  BY <1>1, <1>2, CommitsStay
<1> QED
  BY <1>1, <1>2, <1>3, NoRowReturns DEF Settled

LEMMA PrecedesStays ==
    ASSUME ActorInv, Moves, NEW r, NEW x, Precedes(r, x)
    PROVE  Precedes(r, x)'
<1>1. PICK i \in DOMAIN commits, j \in DOMAIN commits :
            i < j /\ commits[i] = r /\ commits[j] = x
  BY DEF Precedes
<1>2. i \in DOMAIN commits' /\ j \in DOMAIN commits'
  BY CommitsStay
<1> QED
  BY <1>1, <1>2, CommitsStay DEF Precedes

\* An earlier record is another one, and if it is in the log it lies below.
LEMMA PrecedesApart ==
    ASSUME ActorInv, NEW r, NEW x, Precedes(r, x)
    PROVE  /\ r # x
           /\ r \in db.events => r.sequence < x.sequence
<1>1. PICK i \in DOMAIN commits, j \in DOMAIN commits :
            i < j /\ commits[i] = r /\ commits[j] = x
  BY DEF Precedes
<1>2. /\ DOMAIN commits \subseteq Nat
      /\ r \in EventRecords /\ x \in EventRecords
  BY <1>1 DEF ActorInv, IInv, TypeOK
<1>3. i # j /\ r.sequence \in Nat /\ x.sequence \in Nat
  BY <1>1, <1>2 DEF EventRecords
<1>4. r # x
  BY <1>1, <1>3 DEF ActorInv, WriterInv
<1>5. r \in db.events => r.sequence < x.sequence
  BY <1>1, <1>3 DEF ActorInv, LogInv
<1> QED
  BY <1>4, <1>5

\* The record that is sent comes after every settled one, and is settled then.
LEMMA SentPrecedes ==
    ASSUME ActorInv, Broadcast, NEW r, Settled(r)
    PROVE  Precedes(r, Head(current.out))
<1>1. PICK i \in 1..Sent : commits[i] = r
  BY DEF Settled
<1>2. commits \in Seq(EventRecords)
  BY DEF ActorInv, IInv, TypeOK
<1>3. i \in DOMAIN commits /\ Sent + 1 \in DOMAIN commits /\ i < Sent + 1
  BY <1>1, <1>2, NextSent
<1> QED
  BY <1>1, <1>3, NextSent DEF Precedes

LEMMA SentSettles ==
    ASSUME ActorInv, Broadcast, NEW h, h = Head(current.out)
    PROVE  Settled(h)'
<1>1. commits' = commits
  BY DEF Broadcast
<1>2. Sent + 1 \in 1..Sent' /\ h = commits'[Sent + 1]
  BY <1>1, NextSent
<1> QED
  BY <1>2 DEF Settled

-----------------------------------------------------------------------------
(* The rows in their order.                                                *)

Sortable(rows) ==
    /\ rows \subseteq EventRecords
    /\ IsFiniteSet(rows)
    /\ \A r, s \in rows : r.sequence = s.sequence => r = s

UpTo(rows, r) == {s \in rows : s.sequence <= r.sequence}

\* Each place has one row, the one with as many rows up to it.
LEMMA Ranks ==
    ASSUME NEW rows, Sortable(rows)
    PROVE  /\ Cardinality(rows) \in Nat
           /\ \A r, s \in rows : r.sequence < s.sequence =>
                 Cardinality(UpTo(rows, r)) < Cardinality(UpTo(rows, s))
           /\ \A r \in rows :
                 Cardinality(UpTo(rows, r)) \in 1..Cardinality(rows)
           /\ \A i \in 1..Cardinality(rows) :
                 \E r \in rows : Cardinality(UpTo(rows, r)) = i
<1> DEFINE n == Cardinality(rows)
           R(r) == Cardinality(UpTo(rows, r))
<1>1. n \in Nat /\ \A r \in rows : r.sequence \in Nat
  BY FS_CardinalityType DEF Sortable, EventRecords
<1>2. ASSUME NEW r \in rows
      PROVE  /\ IsFiniteSet(UpTo(rows, r)) /\ r \in UpTo(rows, r)
             /\ R(r) \in 1..n
  <2>1. UpTo(rows, r) \in SUBSET rows /\ r \in UpTo(rows, r)
    BY <1>1 DEF UpTo
  <2>2. IsFiniteSet(UpTo(rows, r)) /\ R(r) <= n
    BY <2>1, FS_Subset DEF Sortable
  <2>3. R(r) \in Nat /\ R(r) # 0
    BY <2>1, <2>2, FS_CardinalityType, FS_EmptySet
  <2> HIDE DEF n, R
  <2> QED
    BY <1>1, <2>1, <2>2, <2>3
<1>3. ASSUME NEW r \in rows, NEW s \in rows, r.sequence < s.sequence
      PROVE  R(r) < R(s)
  <2>1. /\ UpTo(rows, r) \subseteq UpTo(rows, s)
        /\ s \in UpTo(rows, s) /\ s \notin UpTo(rows, r)
    BY <1>1, <1>3 DEF UpTo
  <2>2. IsFiniteSet(UpTo(rows, s))
    BY <1>2
  <2> QED
    BY <2>1, <2>2, LastCount
<1> HIDE DEF n, R
<1>4. \A i \in 1..n : \E r \in rows : R(r) = i
  <2> DEFINE f == [r \in rows |-> R(r)]
  <2>1. ASSUME NEW r \in rows, NEW s \in rows, R(r) = R(s) PROVE r = s
    <3>1. R(r) \in Nat /\ R(s) \in Nat
      BY <1>1, <1>2
    <3>2. r.sequence = s.sequence
      BY <1>1, <1>3, <2>1, <3>1
    <3> QED
      BY <3>2 DEF Sortable
  <2>2. f \in Injection(rows, 1..n)
    BY <1>2, <2>1 DEF Injection, IsInjective
  <2>3. IsFiniteSet(1..n) /\ Cardinality(1..n) = n
    BY <1>1, FS_Interval
  <2>4. Cardinality(rows) = Cardinality(1..n)
    BY <2>3 DEF n
  <2>5. f \in Surjection(rows, 1..n)
    BY <2>2, <2>3, <2>4, FS_Injection
  <2> QED
    BY <2>5 DEF Surjection
<1> QED
  BY <1>1, <1>2, <1>3, <1>4 DEF n, R

LEMMA InOrderSorts ==
    ASSUME NEW rows, Sortable(rows)
    PROVE  LET h == InOrder(rows)
           IN  /\ h \in Seq(EventRecords)
               /\ Len(h) \in Nat /\ Len(h) = Cardinality(rows)
               /\ \A i \in 1..Len(h) : h[i] \in rows
               /\ \A i, j \in 1..Len(h) :
                     i < j => h[i].sequence < h[j].sequence
<1> DEFINE n == Cardinality(rows)
           h == InOrder(rows)
<1>1. /\ n \in Nat /\ h \in [1..n -> rows]
      /\ \A i \in 1..n : Cardinality(UpTo(rows, h[i])) = i
  <2>1. h = [i \in 1..n |-> CHOOSE r \in rows : Cardinality(UpTo(rows, r)) = i]
    BY DEF InOrder, UpTo
  <2> QED
    BY <2>1, Ranks
<1>2. \A i \in 1..n : h[i] \in rows
  BY <1>1
<1>3. \A r \in rows : r \in EventRecords /\ r.sequence \in Nat
  BY DEF Sortable, EventRecords
<1> HIDE DEF h, n
<1>4. h \in Seq(EventRecords) /\ Len(h) = n
  BY <1>1, <1>2, <1>3
<1>5. ASSUME NEW i \in 1..n, NEW j \in 1..n, i < j
      PROVE  h[i].sequence < h[j].sequence
  <2>1. h[i] \in rows /\ h[j] \in rows /\ i \in Nat /\ j \in Nat
    BY <1>2
  <2>2. ~(h[j].sequence < h[i].sequence)
    BY <1>1, <1>5, <2>1, Ranks
  <2>3. h[i].sequence # h[j].sequence
    BY <1>1, <1>5, <2>1 DEF Sortable
  <2> QED
    BY <1>3, <2>1, <2>2, <2>3
<1> QED
  BY <1>1, <1>2, <1>4, <1>5 DEF h, n

-----------------------------------------------------------------------------
(* The stream.                                                             *)

\* The client names the last record that it received, and above that one the
\* log has none that it received.
ReceivedInv ==
    /\ lastId = NoSince <=> received = <<>>
    /\ \A k \in DOMAIN received :
          /\ Settled(received[k])
          /\ received[k] \in db.events => received[k].sequence <= lastId

\* An answer for the client: records that it has not received.
Answerable(rows) ==
    /\ Sortable(rows)
    /\ \A r \in rows : /\ Settled(r)
                       /\ r.sequence > Since
                       /\ \A k \in DOMAIN received : received[k] # r

AsksInv ==
    conn = "asking" =>
        /\ kind = "sse" /\ Since # NoSince
        /\ calls[Reader].request = Question
        /\ Answerable(calls[Reader].rows)
        /\ phase = "answer" /\ current.reply = Reader =>
              Answerable(current.rows)

ConnInv ==
    /\ conn = "off" => ~attached /\ rx = <<>>
    /\ conn # "open" => maxSeen = 0
    /\ history # <<>> => conn = "open" /\ kind = "sse"

LEMMA AnswerableStays ==
    ASSUME ActorInv, Moves, UNCHANGED <<url, lastId, received>>,
           NEW rows, Answerable(rows)
    PROVE  Answerable(rows)'
<1>1. Since' = Since
  BY DEF Since
<1>2. \A r \in rows : Settled(r)'
  BY SettledStays DEF Answerable
<1> QED
  BY <1>1, <1>2 DEF Answerable, Sortable

LEMMA NoAnswer == Answerable({})
  BY FS_EmptySet DEF Answerable, Sortable

\* No two rows of the log have one sequence.
LEMMA LogSortable ==
    ASSUME ActorInv, NEW rows \in SUBSET db.events
    PROVE  Sortable(rows)
<1>1. db.events \subseteq EventRecords /\ IsFiniteSet(rows)
  BY FS_Subset DEF ActorInv, IInv, TypeOK, Databases, LogInv
<1>2. ASSUME NEW r \in rows, NEW s \in rows, r.sequence = s.sequence
      PROVE  r = s
  <2>1. PICK i \in DOMAIN commits : commits[i] = r
    BY DEF ActorInv, LogInv
  <2>2. PICK j \in DOMAIN commits : commits[j] = s
    BY DEF ActorInv, LogInv
  <2>3. DOMAIN commits \subseteq Nat /\ r.sequence \in Nat /\ s.sequence \in Nat
    BY <1>1 DEF ActorInv, IInv, TypeOK, EventRecords
  <2>4. ~(i < j) /\ ~(j < i)
    BY <1>2, <2>1, <2>2, <2>3 DEF ActorInv, LogInv
  <2> QED
    BY <2>1, <2>2, <2>3, <2>4
<1> QED
  BY <1>1, <1>2 DEF Sortable

\* What the log has above the client's position it has not received.
LEMMA RowsAnswerable ==
    ASSUME ActorInv, ReceivedInv, Positions, Since # NoSince, phase = "recv",
           NEW rows \in SUBSET {e \in db.events : e.sequence > Since}
    PROVE  Answerable(rows)
<1>1. /\ Sortable(rows) /\ rows \subseteq EventRecords
      /\ \A r \in rows : r.sequence \in Nat
  BY LogSortable DEF Sortable, EventRecords
<1>2. ASSUME NEW r \in rows PROVE Settled(r)
  <2>1. Sent = Len(commits) /\ DOMAIN commits = 1..Len(commits)
    BY DEF ActorInv, OutInv, Sent, IInv, TypeOK
  <2>2. \E i \in DOMAIN commits : commits[i] = r
    BY DEF ActorInv, LogInv
  <2> QED
    BY <2>1, <2>2 DEF Settled
<1>3. ASSUME NEW r \in rows, NEW k \in DOMAIN received, received[k] = r
      PROVE  FALSE
  <2>1. received # <<>>
    BY <1>3
  <2>2. Since = lastId /\ Since \in Nat
    BY <2>1 DEF ReceivedInv, Since, Positions
  <2>3. r.sequence <= lastId /\ r.sequence > lastId
    BY <1>3, <2>2 DEF ReceivedInv
  <2> QED
    BY <1>1, <2>2, <2>3
<1> QED
  BY <1>1, <1>2, <1>3 DEF Answerable

-----------------------------------------------------------------------------
(* The history that the client asks for.                                   *)

LEMMA ReaderCall ==
    ASSUME IInv, Goes
    PROVE  \/ /\ calls'[Reader].request = calls[Reader].request
              /\ calls'[Reader].rows = calls[Reader].rows
           \/ Replied(Reader)
<1>1. /\ calls \in [Clients -> CallRecords] /\ Reader \in Clients
      /\ Writer \in Clients /\ Writer # Reader
  BY TasksAssumption DEF IInv, TypeOK
<1>2. CASE UNCHANGED calls
  BY <1>2
<1>3. CASE \/ ExecAppend \/ ExecQuery \/ ExecCheckpoint \/ ExecRestore
           \/ AppendRewound \/ Broadcast \/ Spawn \/ UNCHANGED vars
  BY <1>2, <1>3 DEF ExecAppend, ExecQuery, ExecCheckpoint, ExecRestore,
                    AppendRewound, Broadcast, Spawn, vars
<1>4. CASE Call(Writer) \/ Enqueue(Writer) \/ Return(Writer)
  BY <1>1, <1>4 DEF Call, Enqueue, Return
<1>5. CASE Enqueue(Reader)
  <2>1. \E f : calls' = [calls EXCEPT ![Reader].fate = f]
    BY <1>5 DEF Enqueue
  <2> QED
    BY <1>1, <2>1, OtherFate
<1>6. CASE Reply
  BY <1>1, <1>6, ReplyCalls DEF Same
<1>7. CASE ExecStop \/ HandlesDropped \/ Crash
  BY <1>1, <1>7, EndCalls DEF Same, Ended
<1> QED
  BY <1>3, <1>4, <1>5, <1>6, <1>7 DEF Goes

\* What the actor has in its hand for the reader.
LEMMA ReaderAnswer ==
    ASSUME ActorInv, Moves, phase' = "answer", current'.reply = Reader
    PROVE  \/ current'.rows = {}
           \/ /\ phase = "answer" /\ current.reply = Reader
              /\ current'.rows = current.rows
           \/ /\ phase = "recv"
              /\ current'.rows \in SUBSET
                    {e \in db.events : e.sequence > calls[Reader].request.since}
<1>1. /\ TypeOK /\ current \in Currents /\ Reader \in Clients
      /\ Reader # Writer /\ Reader # Nobody
  BY TasksAssumption, ClientsAssumption DEF ActorInv, IInv, TypeOK, Currents
<1>2. CASE UNCHANGED <<phase, current>>
  BY <1>2
<1>3. CASE \/ UNCHANGED vars \/ Connect \/ Call(Writer) \/ Enqueue(Writer)
           \/ Return(Writer) \/ Enqueue(Reader) \/ Return(Reader)
  BY <1>2, <1>3 DEF vars, Connect, Call, Enqueue, Return
<1>4. CASE Abandon(Reader)
  BY <1>1, <1>4 DEF Abandon, Currents
<1>5. CASE \E o : Answer(o, {}, <<>>)
  BY <1>5 DEF Answer
<1>6. CASE ExecCheckpoint \/ ExecRestore
  BY <1>5, <1>6 DEF ExecCheckpoint, ExecRestore, Fail
<1>7. CASE ExecAppend
  <2>1. /\ mailbox # <<>> /\ Writes(Head(mailbox).request)
        /\ current'.reply = Head(mailbox).reply
    BY <1>7 DEF ExecAppend, Receive, Answer, Fail, Writes
  <2>2. Head(mailbox).reply = Writer
    BY <1>1, <2>1, HeadOfMailbox DEF ActorInv, Queue
  <2> QED
    BY <1>1, <2>1, <2>2
<1>8. CASE AppendRewound
  <2>1. current.reply = Writer /\ current'.reply = current.reply
    BY <1>1, <1>8 DEF AppendRewound, ActorInv, Queue, Currents
  <2> QED
    BY <1>1, <2>1
<1>9. CASE Broadcast
  BY <1>1, <1>9 DEF Broadcast, Currents
<1>10. CASE ExecQuery /\ ~Fail
  <2> DEFINE since == Head(mailbox).request.since
  <2>1. /\ mailbox # <<>> /\ phase = "recv"
        /\ current'.reply = Head(mailbox).reply
        /\ current'.rows = GetEvents(db, since, HistoryLimit)
    BY <1>10 DEF ExecQuery, Receive, Answer
  <2>2. 1 \in DOMAIN mailbox /\ mailbox[1].reply = Reader
    BY <1>1, <2>1, HeadOfMailbox
  <2>3. OneReply(Reader)
    BY <1>1 DEF ActorInv, IInv, RepliesMatchCalls
  <2>4. calls[Reader].request = Head(mailbox).request
    BY <1>1, <2>1, <2>2, <2>3, HeadOfMailbox DEF OneReply
  <2> QED
    BY <2>1, <2>4 DEF GetEvents, EventsAfter
<1>11. CASE ExecQuery /\ Fail
  BY <1>5, <1>11 DEF Fail
<1>12. CASE Reply \/ ExecStop \/ HandlesDropped \/ Crash \/ Spawn
  BY <1>12 DEF Reply, ExecStop, HandlesDropped, Crash, ThreadEnds, Spawn
<1> QED
  BY <1>3, <1>4, <1>6, <1>7, <1>8, <1>9, <1>10, <1>11, <1>12 DEF Moves, Goes

\* As long as the client asks, nothing else changes for it.
LEMMA StillAsking ==
    ASSUME [StreamNext]_allVars, conn' = "asking", ~Connect
    PROVE  /\ conn = "asking" /\ Goes
           /\ UNCHANGED <<kind, url, lastId, received, maxSeen, history>>
<1>1. CASE UNCHANGED allVars
  BY <1>1 DEF allVars, streamVars, Goes
<1>2. CASE Replay
  BY <1>2 DEF Replay
<1>3. CASE DeliverHistory \/ DeliverLive \/ FilterOut
  BY <1>3 DEF DeliverHistory, DeliverLive, FilterOut, Yields
<1>4. CASE Lag
  BY <1>4 DEF Lag, Hangup
<1>5. CASE StreamEnds \/ Disconnect \/ ProcessDies
  BY <1>5 DEF StreamEnds, Disconnect, ProcessDies, Hangup
<1>6. CASE Publish \/ ActorEnds
  BY <1>6 DEF Publish, ActorEnds, Goes
<1>7. CASE Elsewhere
  BY <1>7 DEF Elsewhere, Goes, Finished, streamVars
<1> QED
  BY <1>1, <1>2, <1>3, <1>4, <1>5, <1>6, <1>7 DEF StreamNext

LEMMA AsksKept ==
    ASSUME ActorInv, ReceivedInv, Positions, AsksInv, [StreamNext]_allVars,
           Moves
    PROVE  AsksInv'
<1> SUFFICES ASSUME conn' = "asking" PROVE AsksInv'
  BY DEF AsksInv
<1>1. CASE Connect
  <2>1. /\ Replays /\ UNCHANGED <<kind, url, lastId, phase, current>>
        /\ calls' = [calls EXCEPT ![Reader] =
              [fate |-> "sending", request |-> Question,
               asked |-> Len(commits), rows |-> {}]]
    BY <1>1 DEF Connect, Question
  <2>2. /\ Reader \in Clients /\ calls \in [Clients -> CallRecords]
        /\ OneReply(Reader)
    BY TasksAssumption DEF ActorInv, IInv, TypeOK, RepliesMatchCalls
  <2>3. calls'[Reader].request = Question /\ calls'[Reader].rows = {}
    BY <2>1, <2>2
  <2>4. current.reply # Reader
    BY <1>1, <2>2 DEF Connect, OneReply
  <2>5. Since' = Since /\ Question' = Question
    BY <2>1 DEF Since, Question
  <2>6. Answerable({})'
    BY <2>1, <2>5, NoAnswer, AnswerableStays
    DEF Answerable, Sortable
  <2> QED
    BY <2>1, <2>3, <2>4, <2>5, <2>6 DEF AsksInv, Replays
<1>2. CASE ~Connect
  <2>1. /\ conn = "asking" /\ Goes
        /\ UNCHANGED <<kind, url, lastId, received>>
    BY <1>2, StillAsking
  <2>2. /\ kind = "sse" /\ Since # NoSince
        /\ calls[Reader].request = Question
        /\ Answerable(calls[Reader].rows)
        /\ phase = "answer" /\ current.reply = Reader =>
              Answerable(current.rows)
    BY <2>1 DEF AsksInv
  <2>3. Since' = Since /\ Question' = Question
    BY <2>1 DEF Since, Question
  <2>4. calls'[Reader].request = Question /\ Answerable(calls'[Reader].rows)
    <3>1. CASE /\ calls'[Reader].request = calls[Reader].request
               /\ calls'[Reader].rows = calls[Reader].rows
      BY <2>2, <3>1
    <3>2. CASE Replied(Reader)
      BY <2>2, <3>2 DEF Replied
    <3> QED
      BY <2>1, <3>1, <3>2, ReaderCall DEF ActorInv
  <2>5. Answerable(calls[Reader].rows)'
    BY <2>1, <2>4, AnswerableStays
  <2>6. ASSUME phase' = "answer", current'.reply = Reader
        PROVE  Answerable(current'.rows)
    <3>1. CASE current'.rows = {}
      BY <3>1, NoAnswer
    <3>2. CASE /\ phase = "answer" /\ current.reply = Reader
               /\ current'.rows = current.rows
      BY <2>2, <3>2
    <3>3. CASE /\ phase = "recv"
               /\ current'.rows \in SUBSET
                    {e \in db.events : e.sequence > calls[Reader].request.since}
      <4>1. calls[Reader].request.since = Since
        BY <2>2 DEF Question
      <4> QED
        BY <2>2, <3>3, <4>1, RowsAnswerable
    <3> QED
      BY <2>6, <3>1, <3>2, <3>3, ReaderAnswer
  <2>7. ASSUME phase' = "answer", current'.reply = Reader
        PROVE  Answerable(current.rows)'
    BY <2>1, <2>6, <2>7, AnswerableStays
  <2> QED
    BY <2>1, <2>2, <2>3, <2>4, <2>5, <2>7 DEF AsksInv
<1> QED
  BY <1>1, <1>2

LEMMA ConnKept ==
    ASSUME ConnInv, AsksInv, [StreamNext]_allVars
    PROVE  ConnInv'
<1> USE DEF ConnInv
<1>1. CASE UNCHANGED allVars
  BY <1>1 DEF allVars, streamVars
<1>2. CASE Replay
  BY <1>2 DEF Replay, AsksInv
<1>3. CASE DeliverHistory \/ DeliverLive \/ FilterOut
  BY <1>3 DEF DeliverHistory, DeliverLive, FilterOut, Yields
<1>4. CASE Lag
  BY <1>4 DEF Lag, Hangup
<1>5. CASE StreamEnds \/ Disconnect \/ ProcessDies
  BY <1>5 DEF StreamEnds, Disconnect, ProcessDies, Hangup
<1>6. CASE Publish \/ ActorEnds
  BY <1>6 DEF Publish, ActorEnds
<1>7. CASE Elsewhere
  BY <1>7 DEF Elsewhere, streamVars
<1>8. CASE Connect
  BY <1>8 DEF Connect
<1> QED
  BY <1>1, <1>2, <1>3, <1>4, <1>5, <1>6, <1>7, <1>8 DEF StreamNext

-----------------------------------------------------------------------------
(* What the client has, and what is on its way.                            *)

HistoryInv ==
    /\ \A i \in DOMAIN history :
          /\ Settled(history[i])
          /\ history[i].sequence <= maxSeen
          /\ lastId # NoSince => history[i].sequence > lastId
          /\ \A k \in DOMAIN received : received[k] # history[i]
    /\ \A i, j \in DOMAIN history :
          i < j => history[i].sequence < history[j].sequence

\* The receiver yields the commits in their order, and what the client has
\* is earlier, or the filter holds it back.
LiveInv ==
    /\ \A i \in DOMAIN rx : Settled(rx[i])
    /\ \A i, j \in DOMAIN rx : i < j => Precedes(rx[i], rx[j])
    /\ \A k \in DOMAIN received, i \in DOMAIN rx :
          \/ Precedes(received[k], rx[i])
          \/ kind = "sse" /\ received[k].sequence <= maxSeen

ClientInv ==
    StreamTypeOK /\ ReceivedInv /\ HistoryInv /\ LiveInv /\ NeverTwice

StreamInv == ActorInv /\ AsksInv /\ ConnInv /\ ClientInv

\* A step that hands the client nothing keeps what is known of what it has
\* received.
LEMMA ReceivedStays ==
    ASSUME ActorInv, Moves, ReceivedInv, NeverTwice,
           UNCHANGED <<received, lastId>>
    PROVE  ReceivedInv' /\ NeverTwice'
<1>1. ASSUME NEW k \in DOMAIN received
      PROVE  /\ Settled(received[k])'
             /\ received[k] \in db'.events => received[k].sequence <= lastId
  BY SettledStays DEF ReceivedInv
<1> QED
  BY <1>1 DEF ReceivedInv, NeverTwice

\* Neither does one that sends nothing to it disturb what is on its way.
LEMMA HistoryStays ==
    ASSUME ActorInv, Moves, HistoryInv, UNCHANGED <<received, lastId>>,
           history' = <<>> \/ UNCHANGED <<history, maxSeen>>
    PROVE  HistoryInv'
<1>1. CASE history' = <<>>
  BY <1>1 DEF HistoryInv
<1>2. CASE UNCHANGED <<history, maxSeen>>
  <2>1. \A i \in DOMAIN history : Settled(history[i])'
    BY <1>2, SettledStays DEF HistoryInv
  <2> QED
    BY <1>2, <2>1 DEF HistoryInv
<1> QED
  BY <1>1, <1>2

LEMMA LiveStays ==
    ASSUME ActorInv, Moves, LiveInv, StreamTypeOK,
           \/ rx' = <<>>
           \/ /\ UNCHANGED <<received, kind, rx>>
              /\ maxSeen' \in Nat /\ maxSeen <= maxSeen'
    PROVE  LiveInv'
<1>1. CASE rx' = <<>>
  BY <1>1 DEF LiveInv
<1>2. CASE /\ UNCHANGED <<received, kind, rx>>
           /\ maxSeen' \in Nat /\ maxSeen <= maxSeen'
  <2>1. \A i \in DOMAIN rx : Settled(rx[i])'
    BY <1>2, SettledStays DEF LiveInv
  <2>2. \A i, j \in DOMAIN rx : i < j => Precedes(rx[i], rx[j])'
    BY <1>2, PrecedesStays DEF LiveInv
  <2>3. ASSUME NEW k \in DOMAIN received, NEW i \in DOMAIN rx
        PROVE  \/ Precedes(received[k], rx[i])'
               \/ kind = "sse" /\ received[k].sequence <= maxSeen'
    <3>1. received[k].sequence \in Nat /\ maxSeen \in Nat
      <4>1. received \in Seq(EventRecords) /\ maxSeen \in Nat
        BY DEF StreamTypeOK
      <4>2. received[k] \in EventRecords
        BY <4>1
      <4> QED
        BY <4>1, <4>2 DEF EventRecords
    <3> QED
      BY <1>2, <2>3, <3>1, PrecedesStays DEF LiveInv
  <2> QED
    BY <1>2, <2>1, <2>2, <2>3 DEF LiveInv
<1> QED
  BY <1>1, <1>2

\* The receiver has yielded its first record.
LEMMA LiveTail ==
    ASSUME ActorInv, LiveInv, StreamTypeOK, UNCHANGED vars,
           UNCHANGED <<received, kind, maxSeen>>, rx # <<>>, rx' = Tail(rx)
    PROVE  LiveInv'
<1>1. /\ \A i \in DOMAIN rx' : i + 1 \in DOMAIN rx /\ rx'[i] = rx[i + 1]
      /\ DOMAIN rx' \subseteq Nat
  BY DEF StreamTypeOK
<1>2. \A r, x : (Settled(r)' <=> Settled(r)) /\ (Precedes(r, x)' <=> Precedes(r, x))
  BY DEF vars, Settled, Sent, Precedes
<1>3. \A i \in DOMAIN rx' : Settled(rx'[i])
  BY <1>1 DEF LiveInv
<1>4. \A i, j \in DOMAIN rx' : i < j => Precedes(rx'[i], rx'[j])
  BY <1>1 DEF LiveInv
<1>5. \A k \in DOMAIN received, i \in DOMAIN rx' :
          \/ Precedes(received[k], rx'[i])
          \/ kind = "sse" /\ received[k].sequence <= maxSeen
  BY <1>1 DEF LiveInv
<1> QED
  BY <1>2, <1>3, <1>4, <1>5 DEF LiveInv

\* The receiver gets one more record; a full one has lost its first.
LEMMA LivePublish ==
    ASSUME ActorInv, Moves, ReceivedInv, LiveInv, StreamTypeOK, Broadcast,
           UNCHANGED <<received, kind, maxSeen>>,
           \/ rx' = Append(rx, Head(current.out))
           \/ rx # <<>> /\ rx' = Append(Tail(rx), Head(current.out))
    PROVE  LiveInv'
<1>0. PICK base :
        /\ base = rx \/ (rx # <<>> /\ base = Tail(rx))
        /\ rx' = Append(base, Head(current.out))
  OBVIOUS
<1>1. PICK h : h = Head(current.out)
  OBVIOUS
<1>2. /\ h \in EventRecords /\ Settled(h)'
      /\ \A r : Settled(r) => Precedes(r, h)'
  BY <1>1, NextSent, SentSettles, SentPrecedes, PrecedesStays
<1>3. /\ rx \in Seq(EventRecords) /\ base \in Seq(EventRecords)
      /\ rx' = Append(base, h)
  <2>1. rx \in Seq(EventRecords)
    BY DEF StreamTypeOK
  <2>2. rx # <<>> => Tail(rx) \in Seq(EventRecords)
    BY <2>1
  <2> QED
    BY <1>0, <1>1, <2>1, <2>2
<1>4. PICK d \in {0, 1} :
        \A i \in DOMAIN base : i + d \in DOMAIN rx /\ base[i] = rx[i + d]
  <2>1. CASE base = rx
    BY <1>3, <2>1
  <2>2. CASE rx # <<>> /\ base = Tail(rx)
    BY <1>3, <2>2
  <2> QED
    BY <1>0, <2>1, <2>2
<1>5. /\ DOMAIN base = 1..Len(base) /\ Len(base) \in Nat
      /\ DOMAIN rx' = 1..(Len(base) + 1)
      /\ rx'[Len(base) + 1] = h
      /\ \A i \in DOMAIN base : rx'[i] = base[i]
  BY <1>2, <1>3
<1>6. \A i \in DOMAIN base : Settled(base[i])
  BY <1>4 DEF LiveInv
<1>7. \A i \in DOMAIN rx' : Settled(rx[i])'
  <2>1. \A r : Settled(r) => Settled(r)'
    BY SettledStays
  <2> QED
    BY <1>2, <1>5, <1>6, <2>1
<1>8. \A r, x : Precedes(r, x) => Precedes(r, x)'
  BY PrecedesStays
<1>9. ASSUME NEW i \in DOMAIN rx', NEW j \in DOMAIN rx', i < j
      PROVE  Precedes(rx[i], rx[j])'
  <2>1. i \in DOMAIN base
    BY <1>5, <1>9
  <2>2. CASE j \in DOMAIN base
    <3>1. i + d < j + d
      BY <1>5, <1>9
    <3>2. Precedes(base[i], base[j])
      BY <1>4, <2>1, <2>2, <3>1 DEF LiveInv
    <3> QED
      BY <1>5, <1>8, <2>1, <2>2, <3>2
  <2>3. CASE j = Len(base) + 1
    BY <1>2, <1>5, <1>6, <2>1, <2>3
  <2> QED
    BY <1>5, <2>2, <2>3
<1>10. ASSUME NEW k \in DOMAIN received, NEW i \in DOMAIN rx'
       PROVE  \/ Precedes(received[k], rx[i])'
              \/ kind = "sse" /\ received[k].sequence <= maxSeen
  <2>1. CASE i \in DOMAIN base
    <3>1. \/ Precedes(received[k], base[i])
          \/ kind = "sse" /\ received[k].sequence <= maxSeen
      BY <1>4, <2>1 DEF LiveInv
    <3> QED
      BY <1>5, <1>8, <2>1, <3>1
  <2>2. CASE i = Len(base) + 1
    <3>1. Settled(received[k])
      BY DEF ReceivedInv
    <3> QED
      BY <1>2, <1>5, <2>2, <3>1
  <2> QED
    BY <1>5, <2>1, <2>2
<1> QED
  BY <1>7, <1>9, <1>10 DEF LiveInv

\* The client gets a record that it has not, that lies above all that it has
\* of the log.
LEMMA ReceivedGrows ==
    ASSUME ActorInv, StreamTypeOK, ReceivedInv, NeverTwice, UNCHANGED vars,
           NEW r \in EventRecords, Settled(r), Deliver(r),
           \A k \in DOMAIN received :
              /\ received[k] # r
              /\ received[k] \in db.events => received[k].sequence <= r.sequence
    PROVE  ReceivedInv' /\ NeverTwice'
<1>1. /\ received \in Seq(EventRecords) /\ r.sequence \in Nat
      /\ r.sequence # NoSince
  BY StreamAssumption DEF StreamTypeOK, EventRecords
<1>2. received' = Append(received, r) /\ lastId' = r.sequence
  BY DEF Deliver
<1>3. /\ DOMAIN received = 1..Len(received) /\ Len(received) \in Nat
      /\ DOMAIN received' = 1..(Len(received) + 1)
      /\ received'[Len(received) + 1] = r /\ received' # <<>>
      /\ \A k \in DOMAIN received : received'[k] = received[k]
  BY <1>1, <1>2
<1>4. \A x : Settled(x) => Settled(x)'
  BY DEF vars, Settled, Sent
<1>5. ASSUME NEW k \in DOMAIN received'
      PROVE  /\ Settled(received[k])'
             /\ received'[k] \in db.events => received'[k].sequence <= r.sequence
  <2>1. CASE k \in DOMAIN received
    BY <1>3, <1>4, <2>1 DEF ReceivedInv
  <2>2. CASE k = Len(received) + 1
    BY <1>1, <1>3, <1>4, <2>2
  <2> QED
    BY <1>3, <2>1, <2>2
<1>6. NeverTwice'
  BY <1>3 DEF NeverTwice
<1> QED
  BY <1>1, <1>2, <1>3, <1>5, <1>6 DEF ReceivedInv, vars

-----------------------------------------------------------------------------
(* What the client is handed.                                              *)

\* The places of received after a delivery.
LEMMA Delivered ==
    ASSUME StreamTypeOK, NEW r \in EventRecords, Deliver(r)
    PROVE  /\ received' \in Seq(EventRecords)
           /\ \A k \in DOMAIN received' :
                 \/ k \in DOMAIN received /\ received'[k] = received[k]
                 \/ received'[k] = r
<1>1. received \in Seq(EventRecords)
  BY DEF StreamTypeOK
<1>2. received' = Append(received, r)
  BY DEF Deliver
<1> QED
  BY <1>1, <1>2

\* The rest of the records on their way.
LEMMA Rest ==
    ASSUME NEW q \in Seq(EventRecords), q # <<>>
    PROVE  /\ 1 \in DOMAIN q /\ Head(q) = q[1] /\ q[1] \in EventRecords
           /\ q[1].sequence \in Nat
           /\ Tail(q) \in Seq(EventRecords) /\ Len(Tail(q)) = Len(q) - 1
           /\ \A i \in DOMAIN Tail(q) :
                 /\ i \in Nat /\ 1 < i + 1
                 /\ i + 1 \in DOMAIN q /\ Tail(q)[i] = q[i + 1]
                 /\ q[i + 1].sequence \in Nat
<1>1. /\ Len(q) \in Nat /\ Len(q) >= 1 /\ DOMAIN q = 1..Len(q)
      /\ Head(q) = q[1] /\ Tail(q) \in Seq(EventRecords)
      /\ Len(Tail(q)) = Len(q) - 1
      /\ \A i \in 1..Len(q) : q[i] \in EventRecords
  OBVIOUS
<1>2. DOMAIN Tail(q) = 1..(Len(q) - 1)
  BY <1>1
<1>3. ASSUME NEW i \in 1..(Len(q) - 1)
      PROVE  i \in Nat /\ 1 < i + 1 /\ i + 1 \in 1..Len(q) /\ Tail(q)[i] = q[i + 1]
  BY <1>1
<1> QED
  BY <1>1, <1>2, <1>3 DEF EventRecords

LEMMA HistoryDelivered ==
    ASSUME StreamInv, DeliverHistory
    PROVE  ReceivedInv' /\ NeverTwice' /\ HistoryInv' /\ LiveInv'
<1> DEFINE r == history[1]
<1>1. /\ history \in Seq(EventRecords) /\ history # <<>>
      /\ StreamTypeOK /\ ReceivedInv /\ HistoryInv /\ LiveInv /\ NeverTwice
      /\ kind = "sse"
  BY DEF StreamInv, ClientInv, StreamTypeOK, DeliverHistory, ConnInv
<1>2. /\ UNCHANGED vars /\ Deliver(r) /\ history' = Tail(history)
      /\ UNCHANGED <<rx, maxSeen, kind>> /\ lastId' = r.sequence
  BY <1>1, Rest DEF DeliverHistory, Deliver
<1>3. /\ r \in EventRecords /\ r.sequence \in Nat /\ Settled(r)
      /\ r.sequence <= maxSeen
      /\ lastId # NoSince => r.sequence > lastId
      /\ \A k \in DOMAIN received : received[k] # r
  BY <1>1, Rest DEF HistoryInv
<1> HIDE DEF r
<1>4. ASSUME NEW k \in DOMAIN received, received[k] \in db.events
      PROVE  received[k].sequence <= r.sequence
  <2>1. received # <<>> /\ received \in Seq(EventRecords)
    BY <1>1 DEF StreamTypeOK
  <2>2. lastId \in Nat /\ lastId < r.sequence
    BY <1>1, <1>3, <2>1 DEF ReceivedInv, StreamTypeOK
  <2>3. received[k] \in EventRecords
    BY <2>1
  <2>4. received[k].sequence <= lastId /\ received[k].sequence \in Nat
    BY <1>1, <1>4, <2>3 DEF ReceivedInv, EventRecords
  <2> QED
    BY <1>3, <2>2, <2>4
<1>5. ReceivedInv' /\ NeverTwice'
  BY <1>1, <1>2, <1>3, <1>4, ReceivedGrows DEF StreamInv
<1>6. \A x : Settled(x) => Settled(x)'
  BY <1>2 DEF vars, Settled, Sent
<1>7. \A x, y : Precedes(x, y) => Precedes(x, y)'
  BY <1>2 DEF vars, Precedes
<1>8. HistoryInv'
  <2>1. \A i \in DOMAIN history' :
           /\ i \in Nat /\ 1 < i + 1
           /\ i + 1 \in DOMAIN history /\ history'[i] = history[i + 1]
           /\ history[i + 1].sequence \in Nat
    BY <1>1, <1>2, Rest
  <2>2. 1 \in DOMAIN history
    BY <1>1, Rest
  <2>3. ASSUME NEW i \in DOMAIN history'
        PROVE  /\ Settled(history[i])'
               /\ history'[i].sequence <= maxSeen
               /\ history'[i].sequence > r.sequence
    BY <1>1, <1>3, <1>6, <2>1, <2>2 DEF HistoryInv, r
  <2>4. ASSUME NEW i \in DOMAIN history', NEW k \in DOMAIN received'
        PROVE  received'[k] # history'[i]
    <3>1. CASE k \in DOMAIN received /\ received'[k] = received[k]
      BY <1>1, <2>1, <3>1 DEF HistoryInv
    <3>2. CASE received'[k] = r
      BY <1>3, <2>3, <3>2
    <3> QED
      BY <1>1, <1>2, <1>3, <3>1, <3>2, Delivered
  <2>5. ASSUME NEW i \in DOMAIN history', NEW j \in DOMAIN history', i < j
        PROVE  history'[i].sequence < history'[j].sequence
    <3>1. i + 1 < j + 1
      BY <2>1, <2>5
    <3> QED
      BY <1>1, <2>1, <3>1 DEF HistoryInv
  <2> QED
    BY <1>2, <2>3, <2>4, <2>5 DEF HistoryInv
<1>9. LiveInv'
  <2>1. /\ \A i \in DOMAIN rx' : Settled(rx[i])'
        /\ \A i, j \in DOMAIN rx' : i < j => Precedes(rx[i], rx[j])'
    BY <1>1, <1>2, <1>6, <1>7 DEF LiveInv
  <2>2. ASSUME NEW k \in DOMAIN received', NEW i \in DOMAIN rx'
        PROVE  \/ Precedes(received[k], rx[i])'
               \/ kind = "sse" /\ received'[k].sequence <= maxSeen
    <3>1. CASE k \in DOMAIN received /\ received'[k] = received[k]
      BY <1>1, <1>2, <1>7, <3>1 DEF LiveInv
    <3>2. CASE received'[k] = r
      BY <1>1, <1>3, <3>2
    <3> QED
      BY <1>1, <1>2, <1>3, <3>1, <3>2, Delivered
  <2> QED
    BY <1>2, <2>1, <2>2 DEF LiveInv
<1> QED
  BY <1>5, <1>8, <1>9

LEMMA LiveDelivered ==
    ASSUME StreamInv, DeliverLive
    PROVE  ReceivedInv' /\ NeverTwice' /\ HistoryInv' /\ LiveInv'
<1>1. /\ rx \in Seq(EventRecords) /\ rx # <<>> /\ history = <<>>
      /\ StreamTypeOK /\ ReceivedInv /\ HistoryInv /\ LiveInv /\ NeverTwice
      /\ ActorInv
  BY DEF StreamInv, ClientInv, StreamTypeOK, DeliverLive, Yields
<1>2. PICK r : r = rx[1]
  OBVIOUS
<1>3. /\ UNCHANGED vars /\ Deliver(r) /\ Passes(r) /\ rx' = Tail(rx)
      /\ UNCHANGED <<history, maxSeen, kind>>
  BY <1>2, <1>1, Rest DEF DeliverLive, Yields
<1>4. /\ r \in EventRecords /\ r.sequence \in Nat /\ Settled(r)
      /\ 1 \in DOMAIN rx
  BY <1>2, <1>1, Rest DEF LiveInv
<1>5. ASSUME NEW k \in DOMAIN received
      PROVE  /\ received[k] # r
             /\ received[k] \in db.events => received[k].sequence <= r.sequence
  <2>1. received \in Seq(EventRecords) /\ maxSeen \in Nat
    BY <1>1 DEF StreamTypeOK
  <2>2. received[k].sequence \in Nat
    <3>1. received[k] \in EventRecords
      BY <2>1
    <3> QED
      BY <3>1 DEF EventRecords
  <2>3. CASE Precedes(received[k], r)
    BY <1>1, <1>4, <2>2, <2>3, PrecedesApart
  <2>4. CASE kind = "sse" /\ received[k].sequence <= maxSeen
    BY <1>3, <1>4, <2>1, <2>2, <2>4 DEF Passes
  <2> QED
    BY <1>2, <1>1, <1>4, <2>3, <2>4 DEF LiveInv
<1>6. ReceivedInv' /\ NeverTwice'
  BY <1>1, <1>3, <1>4, <1>5, ReceivedGrows
<1>7. \A x : Settled(x) => Settled(x)'
  BY <1>3 DEF vars, Settled, Sent
<1>8. \A x, y : Precedes(x, y) => Precedes(x, y)'
  BY <1>3 DEF vars, Precedes
<1>9. HistoryInv'
  BY <1>1, <1>3 DEF HistoryInv
<1>10. LiveInv'
  <2>1. \A i \in DOMAIN rx' :
           /\ i \in Nat /\ 1 < i + 1
           /\ i + 1 \in DOMAIN rx /\ rx'[i] = rx[i + 1]
    BY <1>1, <1>3, Rest
  <2>2. ASSUME NEW i \in DOMAIN rx'
        PROVE  Settled(rx[i])' /\ Precedes(r, rx[i])'
    <3>1. Settled(rx[i + 1]) /\ Precedes(r, rx[i + 1])
      BY <1>2, <1>1, <1>4, <2>1 DEF LiveInv
    <3> QED
      BY <1>7, <1>8, <2>1, <3>1
  <2>3. ASSUME NEW i \in DOMAIN rx', NEW j \in DOMAIN rx', i < j
        PROVE  Precedes(rx[i], rx[j])'
    <3>1. i + 1 < j + 1
      BY <2>1, <2>3
    <3> QED
      BY <1>1, <1>8, <2>1, <3>1 DEF LiveInv
  <2>4. ASSUME NEW k \in DOMAIN received', NEW i \in DOMAIN rx'
        PROVE  \/ Precedes(received[k], rx[i])'
               \/ kind = "sse" /\ received'[k].sequence <= maxSeen
    <3>1. CASE k \in DOMAIN received /\ received'[k] = received[k]
      BY <1>1, <1>8, <2>1, <3>1 DEF LiveInv
    <3>2. CASE received'[k] = r
      BY <2>2, <3>2
    <3> QED
      BY <1>1, <1>3, <1>4, <3>1, <3>2, Delivered
  <2> QED
    BY <1>3, <2>2, <2>3, <2>4 DEF LiveInv
<1> QED
  BY <1>6, <1>9, <1>10

\* The history is handed over in its order, and the filter is set to its end.
LEMMA HistoryReplayed ==
    ASSUME StreamInv, Replay
    PROVE  /\ history' \in Seq(EventRecords) /\ maxSeen' \in Nat
           /\ HistoryInv' /\ LiveInv'
<1> DEFINE rows == calls[Reader].rows
           h == InOrder(rows)
<1>1. /\ conn = "asking" /\ maxSeen = 0 /\ Since # NoSince
      /\ Answerable(rows) /\ Sortable(rows)
      /\ ActorInv /\ StreamTypeOK /\ LiveInv /\ HistoryInv /\ ReceivedInv
  BY DEF Replay, StreamInv, AsksInv, ConnInv, ClientInv, Answerable
<1>2. /\ UNCHANGED <<rx, received, lastId, kind, url, db, commits, current>>
      /\ history' = h
      /\ maxSeen' = IF rows = {} THEN Since ELSE Last(h).sequence
  BY DEF Replay
<1>3. Since \in Nat
  BY <1>1 DEF Since, StreamTypeOK
<1>4. /\ h \in Seq(EventRecords) /\ Len(h) \in Nat
      /\ DOMAIN h = 1..Len(h) /\ Len(h) = Cardinality(rows)
      /\ \A i \in DOMAIN h : h[i] \in rows /\ h[i].sequence \in Nat
      /\ \A i, j \in DOMAIN h : i < j => h[i].sequence < h[j].sequence
  <2>1. \A r \in rows : r.sequence \in Nat
    BY <1>1 DEF Sortable, EventRecords
  <2> HIDE DEF rows
  <2>2. /\ h \in Seq(EventRecords)
        /\ Len(h) \in Nat /\ Len(h) = Cardinality(rows)
        /\ \A i \in 1..Len(h) : h[i] \in rows
        /\ \A i, j \in 1..Len(h) : i < j => h[i].sequence < h[j].sequence
    BY <1>1, InOrderSorts
  <2> HIDE DEF h
  <2> QED
    BY <2>1, <2>2
<1>5. rows = {} => DOMAIN h = {}
  BY <1>4
<1>6. rows # {} => Len(h) \in DOMAIN h /\ Last(h) = h[Len(h)]
  <2>1. rows # {} => Len(h) # 0
    BY <1>1, <1>4, FS_EmptySet DEF Sortable
  <2> QED
    BY <1>4, <2>1 DEF Last
<1> HIDE DEF h, rows
<1>7. /\ maxSeen' \in Nat
      /\ \A i \in DOMAIN h : h[i].sequence <= maxSeen'
  <2>1. CASE rows = {}
    BY <1>2, <1>3, <1>5, <2>1
  <2>2. CASE rows # {}
    <3>1. Len(h) \in DOMAIN h /\ maxSeen' = h[Len(h)].sequence
      BY <1>2, <1>6, <2>2
    <3>2. \A i \in DOMAIN h : i = Len(h) \/ i < Len(h)
      BY <1>4
    <3> QED
      BY <1>4, <3>1, <3>2
  <2> QED
    BY <2>1, <2>2
<1>8. \A x : Settled(x) => Settled(x)'
  BY <1>2 DEF Settled, Sent
<1>9. HistoryInv'
  <2>1. \A i \in DOMAIN h : Settled(h[i]) /\ h[i].sequence > Since
                          /\ \A k \in DOMAIN received : received[k] # h[i]
    BY <1>1, <1>4 DEF Answerable
  <2>2. lastId # NoSince => Since = lastId
    BY DEF Since
  <2>3. \A i \in DOMAIN h : lastId # NoSince => h[i].sequence > lastId
    BY <2>1, <2>2
  <2>4. \A i \in DOMAIN history' : Settled(history[i])'
    BY <1>2, <1>8, <2>1
  <2> QED
    BY <1>2, <1>4, <1>7, <2>1, <2>3, <2>4 DEF HistoryInv
<1>10. LiveInv'
  <2>1. Moves
    BY DEF Replay, Moves, Return
  <2> QED
    BY <1>1, <1>2, <1>7, <2>1, LiveStays
<1> QED
  BY <1>2, <1>4, <1>7, <1>9, <1>10

LEMMA TypesKept ==
    ASSUME StreamInv, [StreamNext]_allVars
    PROVE  StreamTypeOK'
<1> USE DEF StreamTypeOK
<1>1. StreamTypeOK
  BY DEF StreamInv, ClientInv
<1>2. CASE UNCHANGED allVars \/ Elsewhere
  BY <1>1, <1>2 DEF allVars, streamVars, Elsewhere
<1>3. CASE Connect
  BY <1>1, <1>3, StreamAssumption DEF Connect
<1>4. CASE Replay
  <2>1. history' \in Seq(EventRecords) /\ maxSeen' \in Nat
    BY <1>4, HistoryReplayed
  <2>2. lossy' \in BOOLEAN
    BY <1>1, <1>4 DEF Replay, CutShort
  <2> QED
    BY <1>1, <1>4, <2>1, <2>2 DEF Replay
<1>5. CASE DeliverHistory
  <2>1. history \in Seq(EventRecords) /\ history # <<>>
    BY <1>1, <1>5 DEF DeliverHistory
  <2>2. /\ Head(history) \in EventRecords /\ Head(history).sequence \in Nat
        /\ Tail(history) \in Seq(EventRecords)
    BY <2>1, Rest
  <2>3. received' \in Seq(EventRecords) /\ lastId' \in Nat
    BY <1>5, <2>2, Delivered, <1>1 DEF DeliverHistory, Deliver
  <2> QED
    BY <1>1, <1>5, <2>2, <2>3 DEF DeliverHistory
<1>6. CASE DeliverLive \/ FilterOut
  <2>1. rx \in Seq(EventRecords) /\ rx # <<>> /\ Len(rx) <= BusCap
    BY <1>1, <1>6 DEF DeliverLive, FilterOut, Yields
  <2>2. /\ Head(rx) \in EventRecords /\ Head(rx).sequence \in Nat
        /\ Tail(rx) \in Seq(EventRecords)
    BY <2>1, Rest
  <2>3. Len(Tail(rx)) <= BusCap
    <3>1. Len(Tail(rx)) = Len(rx) - 1 /\ Len(rx) \in Nat /\ BusCap \in Nat
      BY <2>1, Rest, StreamAssumption
    <3> QED
      BY <2>1, <3>1
  <2>4. received' \in Seq(EventRecords) /\ lastId' \in Nat \cup {NoSince}
    BY <1>1, <1>6, <2>2, Delivered DEF DeliverLive, FilterOut, Deliver
  <2> QED
    BY <1>1, <1>6, <2>2, <2>3, <2>4 DEF DeliverLive, FilterOut, Yields
<1>7. ASSUME Hangup PROVE StreamTypeOK'
  <2>1. <<>> \in Seq(EventRecords) /\ Len(<<>>) <= BusCap
    BY StreamAssumption
  <2> QED
    BY <1>1, <1>7, <2>1 DEF Hangup
<1>8. CASE Lag \/ StreamEnds \/ Disconnect \/ ProcessDies
  BY <1>1, <1>7, <1>8 DEF Lag, StreamEnds, Disconnect, ProcessDies
<1>9. CASE ActorEnds
  BY <1>1, <1>9 DEF ActorEnds
<1>10. CASE Publish
  <2> DEFINE full == Len(rx) = BusCap
             base == IF full THEN Tail(rx) ELSE rx
  <2>1. /\ UNCHANGED <<conn, attached, history, maxSeen, kind, url, lastId,
                       received, connects, lossy>>
        /\ \/ UNCHANGED <<rx, lagged>>
           \/ rx' = Append(base, Head(current.out)) /\ lagged' = (lagged \/ full)
    BY <1>10 DEF Publish
  <2>2. Head(current.out) \in EventRecords
    BY <1>10, NextSent DEF Publish, StreamInv
  <2>3. base \in Seq(EventRecords) /\ Len(base) \in Nat /\ Len(base) < BusCap
    <3>1. Len(rx) \in Nat /\ BusCap \in Nat /\ BusCap # 0 /\ Len(rx) <= BusCap
      BY <1>1, StreamAssumption
    <3>2. CASE full
      <4>1. rx \in Seq(EventRecords) /\ rx # <<>>
        BY <1>1, <3>1, <3>2
      <4> QED
        BY <3>1, <3>2, <4>1, Rest
    <3> QED
      BY <1>1, <3>1, <3>2
  <2> HIDE DEF base, full
  <2>4. rx' \in Seq(EventRecords) /\ Len(rx') <= BusCap
    <3>1. /\ Append(base, Head(current.out)) \in Seq(EventRecords)
          /\ Len(Append(base, Head(current.out))) = Len(base) + 1
      BY <2>2, <2>3
    <3>2. Len(base) + 1 <= BusCap
      BY <2>3, StreamAssumption
    <3>3. rx \in Seq(EventRecords) /\ Len(rx) <= BusCap
      BY <1>1
    <3> QED
      BY ONLY <2>1, <3>1, <3>2, <3>3
  <2>5. lagged' \in BOOLEAN
    BY <1>1, <2>1 DEF full
  <2> QED
    BY <1>1, <2>1, <2>4, <2>5
<1> QED
  BY <1>2, <1>3, <1>4, <1>5, <1>6, <1>8, <1>9, <1>10 DEF StreamNext

-----------------------------------------------------------------------------
(* The theorems.                                                           *)

LEMMA ClientKept ==
    ASSUME StreamInv, [StreamNext]_allVars
    PROVE  ReceivedInv' /\ NeverTwice' /\ HistoryInv' /\ LiveInv'
<1>1. /\ Moves /\ ActorInv /\ ConnInv /\ StreamTypeOK /\ ReceivedInv
      /\ HistoryInv /\ LiveInv /\ NeverTwice
      /\ maxSeen \in Nat /\ maxSeen <= maxSeen
  BY StreamMoves DEF StreamInv, ClientInv, StreamTypeOK
<1>2. ASSUME UNCHANGED <<received, lastId, kind, rx, history, maxSeen>>
      PROVE  ReceivedInv' /\ NeverTwice' /\ HistoryInv' /\ LiveInv'
  BY <1>1, <1>2, ReceivedStays, HistoryStays, LiveStays
<1>3. ASSUME UNCHANGED <<received, lastId>>, history' = <<>>, rx' = <<>>
      PROVE  ReceivedInv' /\ NeverTwice' /\ HistoryInv' /\ LiveInv'
  BY <1>1, <1>3, ReceivedStays, HistoryStays, LiveStays
<1>4. CASE UNCHANGED allVars \/ Elsewhere \/ ActorEnds
  BY <1>2, <1>4 DEF allVars, streamVars, Elsewhere, ActorEnds
<1>5. CASE Connect
  BY <1>1, <1>3, <1>5 DEF Connect, ConnInv
<1>6. CASE Lag \/ StreamEnds \/ Disconnect \/ ProcessDies
  BY <1>2, <1>3, <1>6 DEF Lag, StreamEnds, Disconnect, ProcessDies, Hangup
<1>7. CASE Replay
  <2>1. UNCHANGED <<received, lastId>>
    BY <1>7 DEF Replay
  <2> QED
    BY <1>1, <1>7, <2>1, HistoryReplayed, ReceivedStays
<1>8. CASE FilterOut
  <2>1. /\ UNCHANGED <<received, lastId, kind, history, maxSeen>>
        /\ UNCHANGED vars /\ rx # <<>> /\ rx' = Tail(rx)
    BY <1>8 DEF FilterOut, Yields
  <2> QED
    BY <1>1, <2>1, ReceivedStays, HistoryStays, LiveTail
<1>9. CASE Publish
  <2>1. /\ Broadcast /\ UNCHANGED <<received, lastId, kind, history, maxSeen>>
    BY <1>9 DEF Publish
  <2>2. CASE UNCHANGED rx
    BY <1>2, <2>1, <2>2
  <2>3. CASE Len(rx) = BusCap /\ rx' = Append(Tail(rx), Head(current.out))
    <3>1. rx # <<>>
      BY <2>3, StreamAssumption
    <3>2. LiveInv'
      BY <1>1, <2>1, <2>3, <3>1, LivePublish
    <3> QED
      BY <1>1, <2>1, <3>2, ReceivedStays, HistoryStays
  <2>4. CASE rx' = Append(rx, Head(current.out))
    <3>1. LiveInv'
      BY <1>1, <2>1, <2>4, LivePublish
    <3> QED
      BY <1>1, <2>1, <3>1, ReceivedStays, HistoryStays
  <2> QED
    BY <1>9, <2>2, <2>3, <2>4 DEF Publish
<1> QED
  BY <1>4, <1>5, <1>6, <1>7, <1>8, <1>9, HistoryDelivered, LiveDelivered
  DEF StreamNext

LEMMA StreamKept == StreamInv /\ [StreamNext]_allVars => StreamInv'
<1> SUFFICES ASSUME StreamInv, [StreamNext]_allVars PROVE StreamInv'
  OBVIOUS
<1>1. Moves /\ ActorInv /\ ReceivedInv /\ Positions /\ AsksInv /\ ConnInv
  BY StreamMoves DEF StreamInv, ClientInv, StreamTypeOK, Positions
<1>2. ActorInv' /\ AsksInv' /\ ConnInv'
  BY <1>1, ActorKept, AsksKept, ConnKept
<1>3. StreamTypeOK' /\ ReceivedInv' /\ HistoryInv' /\ LiveInv' /\ NeverTwice'
  BY TypesKept, ClientKept
<1> QED
  BY <1>2, <1>3 DEF StreamInv, ClientInv

LEMMA InitStreamInv == StreamInit => StreamInv
<1> SUFFICES ASSUME StreamInit PROVE StreamInv
  OBVIOUS
<1>1. Init
  BY DEF StreamInit
<1>2. /\ IInv /\ commits = <<>> /\ db = EmptyDb /\ mailbox = <<>>
      /\ phase = "recv" /\ current = Idle /\ nextToken = 1
      /\ calls = [c \in Clients |-> NoCall] /\ {Writer, Reader} \subseteq Clients
  BY <1>1, InitIInv, TasksAssumption DEF Init
<1>3. calls[Writer].fate = "idle" /\ calls[Reader].fate = "idle"
  BY <1>2 DEF NoCall
<1>4. Queue /\ WriterInv
  BY <1>2, <1>3 DEF Queue, WriterInv, Unhandled
<1>5. LogInv
  BY <1>2, FS_EmptySet DEF LogInv, EmptyDb
<1>6. OutInv
  BY <1>2 DEF OutInv, Idle
<1>7. StreamTypeOK
  <2>1. <<>> \in Seq(EventRecords) /\ Len(<<>>) <= BusCap
    BY StreamAssumption
  <2>2. /\ kind \in Kinds /\ conn = "off" /\ attached = FALSE /\ rx = <<>>
        /\ lagged = FALSE /\ history = <<>> /\ maxSeen = 0 /\ received = <<>>
        /\ {url, lastId} \subseteq Nat \cup {NoSince} /\ lossy = FALSE
    BY StreamAssumption DEF StreamInit
  <2>3. connects \in 0..MaxConnects
    BY StreamAssumption DEF StreamInit
  <2> QED
    BY <2>1, <2>2, <2>3 DEF StreamTypeOK
<1>8. ReceivedInv /\ HistoryInv /\ LiveInv /\ NeverTwice
  BY DEF StreamInit, ReceivedInv, HistoryInv, LiveInv, NeverTwice
<1>9. AsksInv /\ ConnInv
  BY DEF StreamInit, AsksInv, ConnInv
<1> QED
  BY <1>2, <1>4, <1>5, <1>6, <1>7, <1>8, <1>9
  DEF StreamInv, ActorInv, ClientInv

LEMMA StreamInvariance == StreamSpec => []StreamInv
  BY InitStreamInv, StreamKept, PTL DEF StreamSpec

\* The variables of the stream keep their types: the receiver never holds more
\* than the capacity of the bus (ws.rs, tokio's broadcast channel).
THEOREM StreamTypesHold == StreamSpec => []StreamTypeOK
<1>1. StreamInv => StreamTypeOK
  BY DEF StreamInv, ClientInv
<1> QED
  BY <1>1, StreamInvariance, PTL

\* Over all its connections, and whatever the bus loses, a restore rewinds or a
\* crash cuts off, no record reaches the client a second time: the history query
\* and the live stream are kept apart by max_seen_seq (ws.rs).
THEOREM NothingTwice == StreamSpec => []NeverTwice
<1>1. StreamInv => NeverTwice
  BY DEF StreamInv, ClientInv
<1> QED
  BY <1>1, StreamInvariance, PTL

=============================================================================
