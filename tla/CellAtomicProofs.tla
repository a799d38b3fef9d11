--------------------------- MODULE CellAtomicProofs ---------------------------
(***************************************************************************)
(* CellActor implements AtomicCell, for every value of its constants.      *)
(* That a request is in its queue once, and its token in no row before it  *)
(* is written, is TokenInv; that the log is what the history leaves is     *)
(* Replayed; AtomInv adds what ties the phase in the middle of a request   *)
(* to the request.                                                         *)
(***************************************************************************)
EXTENDS CellAnswerProofs, CellRefinement

-----------------------------------------------------------------------------
(* The requests that nobody waits for.                                     *)

\* Taking the head from the queue takes its request away.
LEMMA UnawaitedTail ==
    ASSUME NEW q \in Seq(Mails), q # <<>>, Distinct(q)
    PROVE  /\ Head(q).reply # Nobody => Unawaited(Tail(q)) = Unawaited(q)
           /\ Head(q).reply = Nobody =>
                /\ Head(q).request \in Unawaited(q)
                /\ Unawaited(Tail(q)) = Unawaited(q) \ {Head(q).request}
<1> DEFINE n == Len(q)
<1>1. /\ n \in Nat /\ n >= 1 /\ DOMAIN q = 1..n /\ Head(q) = q[1]
      /\ DOMAIN Tail(q) = 1..(n - 1)
      /\ \A i \in 1..(n - 1) : Tail(q)[i] = q[i + 1]
  OBVIOUS
<1> HIDE DEF n
<1>2. ASSUME NEW x
      PROVE  x \in Unawaited(q) <=>
                \E i \in 1..n : q[i].reply = Nobody /\ x = q[i].request
  BY <1>1 DEF Unawaited
<1>3. ASSUME NEW x
      PROVE  x \in Unawaited(Tail(q)) <=>
                \E i \in 2..n : q[i].reply = Nobody /\ x = q[i].request
  <2>1. x \in Unawaited(Tail(q)) <=>
          \E i \in 1..(n - 1) :
             Tail(q)[i].reply = Nobody /\ x = Tail(q)[i].request
    BY <1>1 DEF Unawaited
  <2>2. ASSUME NEW i \in 1..(n - 1)
        PROVE  i + 1 \in 2..n /\ Tail(q)[i] = q[i + 1]
    BY <1>1
  <2>3. ASSUME NEW i \in 2..n
        PROVE  i - 1 \in 1..(n - 1) /\ Tail(q)[i - 1] = q[i]
    <3>1. i - 1 \in 1..(n - 1) /\ (i - 1) + 1 = i
      BY <1>1
    <3> QED
      BY <1>1, <3>1
  <2> QED
    BY <2>1, <2>2, <2>3
<1>4. \A i \in 2..n : q[i].request # q[1].request
  BY <1>1 DEF Distinct
<1>5. 1 \in 1..n /\ \A i \in 1..n : i = 1 \/ i \in 2..n
  BY <1>1
<1>6. \A i \in 2..n : i \in 1..n
  BY <1>1
<1>7. ASSUME NEW x
      PROVE  x \in Unawaited(q) <=>
                \/ q[1].reply = Nobody /\ x = q[1].request
                \/ x \in Unawaited(Tail(q))
  BY <1>2, <1>3, <1>5, <1>6
<1>8. q[1].request \notin Unawaited(Tail(q))
  BY <1>3, <1>4
<1> QED
  BY <1>1, <1>7, <1>8

\* Putting a message into the queue adds its request, if nobody waits for it.
LEMMA UnawaitedAppend ==
    ASSUME NEW q \in Seq(Mails), NEW m
    PROVE  Unawaited(Append(q, m)) =
               Unawaited(q) \cup IF m.reply = Nobody THEN {m.request} ELSE {}
<1> DEFINE n == Len(q)
           r == Append(q, m)
<1>1. /\ n \in Nat /\ DOMAIN q = 1..n
      /\ DOMAIN r = 1..(n + 1) /\ r[n + 1] = m
      /\ \A i \in 1..n : r[i] = q[i]
  OBVIOUS
<1> HIDE DEF n, r
<1>2. DOMAIN r = DOMAIN q \cup {n + 1} /\ n + 1 \notin DOMAIN q
  BY <1>1
<1> QED
  BY <1>1, <1>2 DEF r, Unawaited


-----------------------------------------------------------------------------
(* What the callers see.                                                   *)

\* The cases of View.
LEMMA ViewCases ==
    ASSUME NEW c
    PROVE  /\ ~Handled(c) /\ calls[c].fate = "idle" => View(c) = Atomic!Silent
           /\ Handled(c) =>
                View(c) = Atomic!Taken(calls[c].request, current.outcome,
                                       current.rows)
           /\ ~Handled(c) /\ calls[c].fate \in {"sending", "waiting"} =>
                View(c) = Atomic!Called(calls[c].request)
           /\ ~Handled(c) /\ calls[c].fate \in {"ok", "err"} =>
                View(c) = Atomic!Answered(calls[c].request, calls[c].fate,
                              IF calls[c].fate = "ok"
                                 /\ ~StopOp(calls[c].request)
                              THEN calls[c].rows ELSE {})
           /\ ~Handled(c) /\ calls[c].fate = "lost" =>
                View(c) = Atomic!Lost(calls[c].request)
  BY DEF View, Atomic!Silent, Atomic!Taken, Atomic!Called, Atomic!Answered,
         Atomic!Lost

LEMMA ViewCasesNext ==
    ASSUME NEW c
    PROVE  /\ ~Handled(c)' /\ calls'[c].fate = "idle" =>
                View(c)' = Atomic!Silent
           /\ Handled(c)' =>
                View(c)' = Atomic!Taken(calls'[c].request, current'.outcome,
                                        current'.rows)
           /\ ~Handled(c)' /\ calls'[c].fate \in {"sending", "waiting"} =>
                View(c)' = Atomic!Called(calls'[c].request)
           /\ ~Handled(c)' /\ calls'[c].fate \in {"ok", "err"} =>
                View(c)' = Atomic!Answered(calls'[c].request, calls'[c].fate,
                              IF calls'[c].fate = "ok"
                                 /\ ~StopOp(calls'[c].request)
                              THEN calls'[c].rows ELSE {})
           /\ ~Handled(c)' /\ calls'[c].fate = "lost" =>
                View(c)' = Atomic!Lost(calls'[c].request)
  BY DEF View, Atomic!Silent, Atomic!Taken, Atomic!Called, Atomic!Answered,
         Atomic!Lost

\* The five stages of a view.
LEMMA Stages ==
    ASSUME NEW r, NEW o, NEW rows
    PROVE  /\ Atomic!Silent.stage = "silent"
           /\ Atomic!Called(r).stage = "called"
           /\ Atomic!Called(r).request = r
           /\ Atomic!Taken(r, o, rows).stage = "taken"
           /\ Atomic!Taken(r, o, rows).request = r
           /\ Atomic!Answered(r, o, rows).stage = "answered"
           /\ Atomic!Answered(r, o, rows).request = r
           /\ Atomic!Lost(r).stage = "lost"
           /\ [Atomic!Taken(r, o, rows) EXCEPT !.stage = "answered"]
                = Atomic!Answered(r, o, rows)
           /\ Atomic!Called(r) # Atomic!Silent
           /\ Atomic!Closed(r) # Atomic!Silent
           /\ Atomic!Closed(r).request = r
  BY DEF Atomic!Silent, Atomic!Taken, Atomic!Called, Atomic!Answered,
         Atomic!Lost, Atomic!Closed

\* Who waits has made a call, and it is the one that was handled.
LEMMA ReplyCalls ==
    ASSUME IInv, NEW c \in Clients
    PROVE  /\ current.reply = c =>
                 /\ phase \in {"rewind", "answer"}
                 /\ calls[c].fate = "waiting"
                 /\ calls[c].request = current.request
           /\ Handled(c) => current.reply = c /\ calls[c].fate = "waiting"
<1>1. OneReply(c) /\ Resting /\ phase \in Phases
  BY DEF IInv, RepliesMatchCalls, TypeOK
<1>2. phase \in {"recv", "stopped"} => current.reply # c
  BY <1>1, ClientsAssumption DEF Resting, Idle
<1> QED
  BY <1>1, <1>2 DEF OneReply, Handled, Phases

\* The view of c does not change with what is not its own.
LEMMA ViewStays ==
    ASSUME IInv, NEW c \in Clients,
           calls'[c] = calls[c], Handled(c)' <=> Handled(c),
           Handled(c) => current'.outcome = current.outcome
                         /\ current'.rows = current.rows
    PROVE  View(c)' = View(c)
<1>1. calls[c].fate \in Fates
  BY DEF IInv, TypeOK, CallRecords, NoCall, Fates
<1>2. CASE Handled(c)
  BY <1>2, ViewCases, ViewCasesNext
<1>3. CASE ~Handled(c)
  BY <1>1, <1>3, ViewCases, ViewCasesNext DEF Fates
<1> QED
  BY <1>2, <1>3

LEMMA TakeFor ==
    ASSUME NEW c \in Clients, NEW r, NEW o, NEW rows, Running, Running',
           View(c) = Atomic!Called(r), View(c)' = Atomic!Taken(r, o, rows),
           \A d \in Clients : d # c => View(d)' = View(d),
           Unheard' = Unheard
    PROVE  Atomic!Take(r, o, rows)
<1>1. Views[c] = View(c)
  BY DEF Views
<1>2. Views' = [Views EXCEPT ![c] = Atomic!Taken(r, o, rows)]
  BY DEF Views
<1> QED
  BY <1>1, <1>2 DEF Atomic!Take

LEMMA TakeForNobody ==
    ASSUME NEW r, NEW o, NEW rows, Running, Running', r \in Unheard,
           \A d \in Clients : View(d)' = View(d),
           Unheard' = Unheard \ {r}
    PROVE  Atomic!Take(r, o, rows)
<1>1. Views' = Views
  BY DEF Views
<1> QED
  BY <1>1 DEF Atomic!Take

\* What takes effect was pending.
LEMMA TakePends ==
    ASSUME NEW r, NEW o, NEW rows, Atomic!Take(r, o, rows)
    PROVE  r \in Atomic!Pending
<1>1. CASE r \in Unheard
  BY <1>1 DEF Atomic!Pending
<1>2. ASSUME NEW c \in Clients, Views[c] = Atomic!Called(r)
      PROVE  r \in Atomic!Pending
  <2>1. Views[c].stage = "called" /\ Views[c].request = r
    BY <1>2 DEF Atomic!Called
  <2> QED
    BY <2>1 DEF Atomic!Pending, Atomic!Waiting
<1> QED
  BY <1>1, <1>2 DEF Atomic!Take


-----------------------------------------------------------------------------
(* What the mapping needs of the actor's hand and of the log.              *)

\* A restore that is half done knows its checkpoint, and has cut the log there.
Midway ==
    phase = "rewind" =>
        /\ current.request.op = "restore"
        /\ current.outcome = "ok"
        /\ current.rows = {}
        /\ \E cp \in db.checkpoints :
              /\ cp.id = current.request.id
              /\ cp.sequence = db.event_sequence

\* Only what a client asked for is answered, and an error has no rows.
HandAnswers ==
    phase = "answer" =>
        /\ ~StopOp(current.request)
        /\ current.outcome = "err" => current.rows = {}

\* The counter is the last sequence of the history.
Counted == ~torn /\ phase # "rewind" => db.event_sequence = Atomic!Counter

\* There is no row that was not committed.
Committed == \A e \in db.events : \E i \in DOMAIN commits : commits[i] = e

AtomInv ==
    /\ Midway
    /\ HandAnswers
    /\ Counted
    /\ Committed

-----------------------------------------------------------------------------
(* A request is handled.                                                   *)

\* The database and its history have changed as the request wants: with its
\* answer in the actor's hand, it has been taken.
LEMMA HandlerTakes ==
    ASSUME IInv, TokenInv, phase = "recv", phase' = "answer",
           mailbox # <<>>, mailbox' = Tail(mailbox), calls' = calls,
           current'.request = Head(mailbox).request,
           current'.reply = Head(mailbox).reply
    PROVE  Atomic!Take(Head(mailbox).request, current'.outcome, current'.rows)
<1> DEFINE m == Head(mailbox)
<1>1. /\ mailbox \in Seq(Mails) /\ 1 \in DOMAIN mailbox /\ m = mailbox[1]
      /\ m.reply \in Clients \cup {Nobody}
      /\ Distinct(mailbox)
  <2>1. mailbox \in Seq(Mails)
    BY DEF IInv, TypeOK
  <2>2. 1 \in DOMAIN mailbox /\ m = mailbox[1] /\ mailbox[1] \in Mails
    BY <2>1
  <2> QED
    BY <2>1, <2>2 DEF Mails, TokenInv
<1>2. /\ Running /\ Running'
      /\ Unheard = Unawaited(mailbox) /\ Unheard' = Unawaited(Tail(mailbox))
  BY DEF Running, Unheard, Unawaited
<1> HIDE DEF m
<1>3. ASSUME NEW d \in Clients
      PROVE  ~Handled(d) /\ (Handled(d)' <=> m.reply = d)
  BY <1>1, ClientsAssumption DEF Handled, m
<1>4. ASSUME NEW d \in Clients, m.reply # d
      PROVE  View(d)' = View(d)
  BY <1>3, <1>4, ViewStays
<1>5. CASE m.reply = Nobody
  <2>1. m.request \in Unheard /\ Unheard' = Unheard \ {m.request}
    BY <1>1, <1>2, <1>5, UnawaitedTail DEF m
  <2> QED
    BY <1>2, <1>4, <1>5, <2>1, ClientsAssumption, TakeForNobody DEF m
<1>6. CASE m.reply # Nobody
  <2> PICK c \in Clients : m.reply = c
    BY <1>1, <1>6
  <2>1. Unheard' = Unheard
    BY <1>1, <1>2, <1>6, UnawaitedTail DEF m
  <2>2. calls[c].fate = "waiting" /\ calls[c].request = m.request
    BY <1>1, <2>1 DEF IInv, RepliesMatchCalls, OneReply, m
  <2>3. View(c) = Atomic!Called(m.request)
    BY <1>3, <2>1, <2>2, ViewCases
  <2>4. View(c)' = Atomic!Taken(m.request, current'.outcome, current'.rows)
    BY <1>3, <2>1, <2>2, ViewCasesNext
  <2> QED
    BY <1>2, <1>4, <2>1, <2>3, <2>4, TakeFor DEF m
<1> QED
  BY <1>5, <1>6

\* The second half of a restore: it has been taken then.
LEMMA RewindTakes ==
    ASSUME IInv, TokenInv, phase = "rewind", phase' = "answer",
           mailbox' = mailbox, calls' = calls, current'.reply = current.reply
    PROVE  Atomic!Take(current.request, current'.outcome, current'.rows)
<1>1. /\ current.reply \in Clients \cup {Nobody}
      /\ mailbox \in Seq(Mails)
  BY DEF IInv, TypeOK
<1>2. /\ Running /\ Running'
      /\ Unheard' = Unawaited(mailbox)
      /\ Unheard = Unawaited(mailbox) \cup
             IF current.reply = Nobody THEN {current.request} ELSE {}
  BY DEF Running, Unheard, Unawaited
<1>3. ASSUME NEW d \in Clients
      PROVE  ~Handled(d) /\ (Handled(d)' <=> current.reply = d)
  BY DEF Handled
<1>4. ASSUME NEW d \in Clients, current.reply # d
      PROVE  View(d)' = View(d)
  BY <1>3, <1>4, ViewStays
<1>5. CASE current.reply = Nobody
  <2>1. current.request \notin Unawaited(mailbox)
    BY DEF Unawaited, TokenInv, Tokens, InHand
  <2> QED
    BY <1>2, <1>4, <1>5, <2>1, ClientsAssumption, TakeForNobody
<1>6. CASE current.reply # Nobody
  <2> PICK c \in Clients : current.reply = c
    BY <1>1, <1>6
  <2>1. Unheard' = Unheard
    BY <1>2, <1>6
  <2>2. calls[c].fate = "waiting" /\ calls[c].request = current.request
    BY <2>1, ReplyCalls
  <2>3. View(c) = Atomic!Called(current.request)
    BY <1>3, <2>1, <2>2, ViewCases
  <2>4. View(c)' = Atomic!Taken(current.request, current'.outcome,
                                current'.rows)
    BY <1>3, <2>1, <2>2, ViewCasesNext
  <2> QED
    BY <1>2, <1>4, <2>1, <2>3, <2>4, TakeFor
<1> QED
  BY <1>5, <1>6


\* The steps of the actor that decide a request.
LEMMA EffectRefines ==
    ASSUME NEW r, NEW o, NEW rows, Atomic!Take(r, o, rows), Atomic!Effect(r)
    PROVE  Atomic!Next
<1>1. r \in Atomic!Pending
  BY TakePends
<1> QED
  BY <1>1 DEF Atomic!Next

\* A transaction or a read that fails is a request that is refused.
LEMMA FailRefines ==
    ASSUME IInv, TokenInv, phase = "recv", mailbox # <<>>,
           mailbox' = Tail(mailbox), calls' = calls, torn' = torn, Fail,
           Head(mailbox).request.op \in {"append", "set_kv", "checkpoint",
                                         "get_events", "restore"}
    PROVE  Atomic!Next
<1> DEFINE r == Head(mailbox).request
<1>1. /\ phase' = "answer" /\ current'.request = r
      /\ current'.reply = Head(mailbox).reply
      /\ current'.outcome = "err" /\ current'.rows = {}
      /\ UNCHANGED <<db, commits>>
  BY DEF Fail, Answer
<1>2. Atomic!Take(r, "err", {})
  BY <1>1, HandlerTakes
<1>3. Atomic!Refuse(r)
  BY <1>1, <1>2 DEF Atomic!Refuse, Atomic!Stops
<1> HIDE DEF r
<1> QED
  BY <1>2, <1>3, EffectRefines DEF Atomic!Effect

\* The batch that an append has added is in turn.
LEMMA AppendInTurn ==
    ASSUME IInv, Counted, phase # "rewind", NEW r,
           r.token \in Nat, r.types \in Seq(EventTypes),
           Appends(r.token, r.types)
    PROVE  LET records == SubSeq(commits', Len(commits) + 1, Len(commits'))
           IN  /\ records = NewRecords(db, r.token, r.types)
               /\ commits' = commits \o records
               /\ Atomic!InTurn(r, records)
<1> DEFINE n == Len(commits)
           ts == r.types
           R == NewRecords(db, r.token, ts)
           S == SubSeq(commits', n + 1, Len(commits'))
<1>1. /\ n \in Nat /\ Len(ts) \in Nat /\ Len(commits') = n + Len(ts)
      /\ commits \in Seq(EventRecords) /\ commits' \in Seq(EventRecords)
      /\ \A i \in 1..Len(ts) :
            commits'[n + i] = [sequence |-> db.event_sequence + i,
                               id       |-> <<r.token, i>>,
                               type     |-> ts[i]]
  BY CommitsGrow
<1>2. /\ DOMAIN ts = 1..Len(ts) /\ DOMAIN R = 1..Len(ts)
      /\ \A i \in 1..Len(ts) : R[i] = [sequence |-> db.event_sequence + i,
                                       id       |-> <<r.token, i>>,
                                       type     |-> ts[i]]
      /\ R = [i \in 1..Len(ts) |-> R[i]]
  BY DEF NewRecords
<1>3. commits' = commits \o R
  BY DEF Appends
<1>4. db.event_sequence \in Nat /\ R \in Seq(EventRecords)
  BY NewRecordsType DEF IInv, TypeOK, Databases
<1> HIDE DEF n, R, ts
<1>5. S = [i \in 1..Len(ts) |-> commits'[n + i]]
  <2>1. S = [i \in 1..(Len(commits') - (n + 1) + 1) |->
                commits'[(n + 1) + i - 1]]
    BY <1>1
  <2>2. Len(commits') - (n + 1) + 1 = Len(ts)
    BY <1>1
  <2>3. \A i \in 1..Len(ts) : (n + 1) + i - 1 = n + i
    BY <1>1
  <2> QED
    BY <2>1, <2>2, <2>3
<1>6. S = R
  <2>1. \A i \in 1..Len(ts) : commits'[n + i] = R[i]
    BY <1>1, <1>2
  <2> QED
    BY <1>2, <1>5, <2>1
<1>7. Len(R) = Len(ts) /\ (R # <<>> => Len(ts) >= 1)
  BY <1>1, <1>2, <1>4
<1>8. ASSUME NEW i \in 1..Len(ts)
      PROVE  /\ R[i].id = <<r.token, i>>
             /\ R[i].type = ts[i]
             /\ R[i].sequence = R[1].sequence + i - 1
  <2>1. 1 \in 1..Len(ts)
    BY <1>1
  <2>2. /\ R[i].sequence = db.event_sequence + i
        /\ R[1].sequence = db.event_sequence + 1
        /\ R[i].id = <<r.token, i>> /\ R[i].type = ts[i]
    BY <1>2, <2>1
  <2> QED
    BY <1>4, <2>2
<1>9. ~torn /\ R # <<>> => R[1].sequence = Atomic!Counter + 1
  <2>1. R # <<>> => 1 \in 1..Len(ts)
    BY <1>1, <1>7
  <2>2. 1 \in 1..Len(ts) => R[1].sequence = db.event_sequence + 1
    BY <1>2
  <2> QED
    BY <2>1, <2>2 DEF Counted
<1>10. Atomic!InTurn(r, R)
  BY <1>2, <1>7, <1>8, <1>9 DEF Atomic!InTurn, ts
<1> QED
  BY <1>3, <1>6, <1>10 DEF n, R, ts


LEMMA AppendRefines ==
    ASSUME IInv, TokenInv, AtomInv, ExecAppend
    PROVE  Atomic!Next
<1> DEFINE r == Head(mailbox).request
           R == NewRecords(db, r.token, r.types)
<1>1. /\ phase = "recv" /\ mailbox # <<>> /\ mailbox' = Tail(mailbox)
      /\ r.op = "append"
      /\ UNCHANGED <<calls, torn, born>>
  BY DEF ExecAppend, Receive
<1>2. CASE Fail
  BY <1>1, <1>2, FailRefines
<1>3. CASE ~Fail
  <2>1. /\ db' = AppendEvents(db, r.token, r.types)
        /\ Appends(r.token, r.types)
        /\ phase' = "answer" /\ current'.request = r
        /\ current'.reply = Head(mailbox).reply
        /\ current'.outcome = "ok" /\ current'.rows = Range(R)
    BY <1>1, <1>3, AppendSucceeds DEF Answer, Appends
  <2>2. r.token \in Nat /\ r.types \in Seq(EventTypes) /\ db \in Databases
    BY <1>1, MailboxHead, RequestType DEF IInv, TypeOK
  <2>3. Atomic!Take(r, "ok", Range(R))
    BY <1>1, <2>1, HandlerTakes
  <2>4. db'.checkpoints = db.checkpoints /\ db'.kv = db.kv
    BY <2>1, <2>2 DEF AppendEvents, Databases
  <2>5. LET records == SubSeq(commits', Len(commits) + 1, Len(commits'))
        IN  /\ records = R
            /\ commits' = commits \o records
            /\ Atomic!InTurn(r, records)
    BY <1>1, <2>1, <2>2, AppendInTurn DEF AtomInv
  <2> HIDE DEF r, R
  <2>6. Atomic!TakeAppend(r)
    BY <1>1, <2>3, <2>4, <2>5 DEF Atomic!TakeAppend, Atomic!Range, Range
  <2> QED
    BY <2>3, <2>6, EffectRefines DEF Atomic!Effect
<1> QED
  BY <1>2, <1>3

LEMMA SetKvRefines ==
    ASSUME IInv, TokenInv, ExecSetKv
    PROVE  Atomic!Next
<1> DEFINE r == Head(mailbox).request
<1>1. /\ phase = "recv" /\ mailbox # <<>> /\ mailbox' = Tail(mailbox)
      /\ r.op = "set_kv"
      /\ UNCHANGED <<calls, torn>>
  BY DEF ExecSetKv, Receive
<1>2. CASE Fail
  BY <1>1, <1>2, FailRefines
<1>3. CASE ~Fail
  <2>1. /\ db' = SetKv(db, r.key, r.value) /\ commits' = commits
        /\ phase' = "answer" /\ current'.request = r
        /\ current'.reply = Head(mailbox).reply
        /\ current'.outcome = "ok" /\ current'.rows = {}
    BY <1>3 DEF ExecSetKv, Answer
  <2>2. Atomic!Take(r, "ok", {})
    BY <1>1, <2>1, HandlerTakes
  <2>3. /\ db'.kv = [db.kv EXCEPT ![r.key] = r.value]
        /\ db'.checkpoints = db.checkpoints
    BY <2>1 DEF SetKv, IInv, TypeOK, Databases
  <2> HIDE DEF r
  <2>4. Atomic!TakeSetKv(r)
    BY <1>1, <2>1, <2>2, <2>3 DEF Atomic!TakeSetKv
  <2> QED
    BY <2>2, <2>4, EffectRefines DEF Atomic!Effect
<1> QED
  BY <1>2, <1>3

LEMMA CheckpointRefines ==
    ASSUME IInv, TokenInv, AtomInv, ExecCheckpoint
    PROVE  Atomic!Next
<1> DEFINE r == Head(mailbox).request
           mark == [id |-> r.token, sequence |-> db.event_sequence]
<1>1. /\ phase = "recv" /\ mailbox # <<>> /\ mailbox' = Tail(mailbox)
      /\ r.op = "checkpoint"
      /\ UNCHANGED <<calls, torn>>
  BY DEF ExecCheckpoint, Receive
<1>2. CASE Fail
  BY <1>1, <1>2, FailRefines
<1>3. CASE ~Fail
  <2>1. /\ db' = CreateCheckpoint(db, r.token) /\ commits' = commits
        /\ phase' = "answer" /\ current'.request = r
        /\ current'.reply = Head(mailbox).reply
        /\ current'.outcome = "ok" /\ current'.rows = {}
    BY <1>3 DEF ExecCheckpoint, Answer
  <2>2. Atomic!Take(r, "ok", {})
    BY <1>1, <2>1, HandlerTakes
  <2>3. /\ db'.checkpoints = db.checkpoints \cup {mark}
        /\ db'.kv = db.kv
    BY <2>1 DEF CreateCheckpoint, IInv, TypeOK, Databases
  <2>4. mark.id = r.token /\ (~torn => mark.sequence = Atomic!Counter)
    BY <1>1 DEF AtomInv, Counted
  <2> HIDE DEF r, mark
  <2>5. Atomic!TakeCheckpoint(r)
    BY <1>1, <2>1, <2>2, <2>3, <2>4 DEF Atomic!TakeCheckpoint
  <2> QED
    BY <2>2, <2>5, EffectRefines DEF Atomic!Effect
<1> QED
  BY <1>2, <1>3

LEMMA QueryRefines ==
    ASSUME IInv, TokenInv, Replayed, AtomInv, ExecQuery
    PROVE  Atomic!Next
<1> DEFINE r == Head(mailbox).request
           rows == GetEvents(db, r.since, HistoryLimit)
<1>1. /\ phase = "recv" /\ mailbox # <<>> /\ mailbox' = Tail(mailbox)
      /\ r.op = "get_events"
      /\ UNCHANGED <<calls, torn>>
  BY DEF ExecQuery, Receive
<1>2. CASE Fail
  BY <1>1, <1>2, FailRefines
<1>3. CASE ~Fail
  <2>1. /\ phase' = "answer" /\ current'.request = r
        /\ current'.reply = Head(mailbox).reply
        /\ current'.outcome = "ok" /\ current'.rows = rows
        /\ UNCHANGED <<db, commits>>
    BY <1>3 DEF ExecQuery, Answer
  <2>2. Atomic!Take(r, "ok", rows)
    BY <1>1, <2>1, HandlerTakes
  <2>3. ~torn => db.events = LogAfter(Len(commits))
    BY <1>1 DEF Replayed
  <2>4. LogAfter(Len(commits)) = Atomic!Log
    BY DEF LogAfter, Atomic!Log
  <2>5. ~torn => rows = Atomic!EventsAfter(Atomic!Log, r.since, HistoryLimit)
    <3>1. ASSUME NEW events, NEW since
          PROVE  Atomic!EventsAfter(events, since, HistoryLimit)
                   = EventsAfter(events, since, HistoryLimit)
      BY DEF EventsAfter, Atomic!EventsAfter, Cardinality, Atomic!Cardinality
    <3>2. ~torn => rows = EventsAfter(Atomic!Log, r.since, HistoryLimit)
      BY <2>3, <2>4 DEF GetEvents
    <3> HIDE DEF r, rows
    <3> QED
      BY <3>1, <3>2
  <2>6. rows \in SUBSET Range(commits)
    <3>1. rows \subseteq db.events
      BY DEF GetEvents, EventsAfter
    <3>2. db.events \subseteq Range(commits)
      BY DEF AtomInv, Committed, Range
    <3> QED
      BY <3>1, <3>2
  <2> HIDE DEF r, rows
  <2>7. Atomic!TakeRead(r)
    BY <1>1, <2>1, <2>2, <2>5, <2>6 DEF Atomic!TakeRead, Atomic!Range, Range
  <2> QED
    BY <2>2, <2>7, EffectRefines DEF Atomic!Effect
<1> QED
  BY <1>2, <1>3


\* Nobody sees a step that leaves the views and the database alone.
LEMMA Stutters ==
    ASSUME commits' = commits, db'.checkpoints = db.checkpoints,
           db'.kv = db.kv, torn' = torn, Running' = Running,
           Unheard' = Unheard, \A c \in Clients : View(c)' = View(c)
    PROVE  UNCHANGED Atomic!vars
<1>1. Views' = Views
  BY DEF Views
<1> QED
  BY <1>1 DEF Atomic!vars

\* The first half of a restore is not seen: the request goes from the mailbox
\* into the actor's hand and is still pending.
LEMMA RestoreRefines ==
    ASSUME IInv, TokenInv, ExecRestore
    PROVE  Atomic!Next \/ UNCHANGED Atomic!vars
<1> DEFINE m == Head(mailbox)
<1>1. /\ phase = "recv" /\ mailbox # <<>> /\ mailbox' = Tail(mailbox)
      /\ m.request.op = "restore"
      /\ UNCHANGED <<calls, torn>>
  BY DEF ExecRestore, Receive
<1>2. CASE Fail
  BY <1>1, <1>2, FailRefines
<1>3. CASE ~Fail
  <2>1. PICK cp \in db.checkpoints :
           /\ db' = Truncate(db, cp.sequence)
           /\ phase' = "rewind"
           /\ current' = [Idle EXCEPT !.request = m.request,
                                      !.reply   = m.reply,
                                      !.target  = cp.sequence]
           /\ UNCHANGED commits
    BY <1>3 DEF ExecRestore
  <2>2. current'.request = m.request /\ current'.reply = m.reply
    BY <2>1 DEF Idle
  <2>3. db'.checkpoints = db.checkpoints /\ db'.kv = db.kv
    BY <2>1 DEF Truncate, IInv, TypeOK, Databases
  <2>4. Running /\ Running'
    BY <1>1, <2>1 DEF Running
  <2>5. mailbox \in Seq(Mails) /\ Distinct(mailbox)
    BY DEF IInv, TypeOK, TokenInv
  <2>6. Unheard' = Unheard
    <3>1. Unheard = Unawaited(mailbox)
      BY <1>1 DEF Unheard
    <3>2. Unheard' = Unawaited(Tail(mailbox)) \cup
             IF m.reply = Nobody THEN {m.request} ELSE {}
      BY <1>1, <2>1, <2>2 DEF Unheard, Unawaited
    <3> QED
      BY <1>1, <2>5, <3>1, <3>2, UnawaitedTail
  <2>7. ASSUME NEW c \in Clients PROVE View(c)' = View(c)
    <3>1. ~Handled(c) /\ ~Handled(c)'
      BY <1>1, <2>1 DEF Handled
    <3> QED
      BY <1>1, <3>1, ViewStays
  <2> QED
    BY <1>1, <2>1, <2>3, <2>4, <2>6, <2>7, Stutters
<1> QED
  BY <1>2, <1>3

\* The second half takes the restore, or refuses it and leaves it torn.
LEMMA RewoundRefines ==
    ASSUME IInv, TokenInv, AtomInv, AppendRewound
    PROVE  Atomic!Next
<1> DEFINE r == current.request
           rewound == [sequence |-> db.event_sequence + 1,
                       id       |-> <<r.token, 1>>,
                       type     |-> Rewound]
<1>1. /\ phase = "rewind" /\ phase' = "answer"
      /\ UNCHANGED <<mailbox, calls>>
      /\ r.op = "restore" /\ current.outcome = "ok" /\ current.rows = {}
      /\ current \in Currents /\ db \in Databases
      /\ commits \in Seq(EventRecords)
  BY DEF AppendRewound, AtomInv, Midway, IInv, TypeOK, Currents
<1>2. current'.request = r /\ current'.reply = current.reply
  BY <1>1 DEF AppendRewound, Currents
<1>3. Atomic!Take(r, current'.outcome, current'.rows)
  BY <1>1, <1>2, RewindTakes
<1>4. CASE torn' = TRUE /\ UNCHANGED <<db, commits>>
           /\ current' = [current EXCEPT !.outcome = "err"]
  <2>1. current'.outcome = "err" /\ current'.rows = {}
    BY <1>1, <1>4 DEF Currents
  <2> HIDE DEF r
  <2>2. Atomic!Refuse(r)
    BY <1>1, <1>3, <1>4, <2>1 DEF Atomic!Refuse, Atomic!Stops
  <2> QED
    BY <1>3, <2>2, EffectRefines DEF Atomic!Effect
<1>5. CASE /\ db' = AppendEvents(db, r.token, <<Rewound>>)
           /\ commits' = commits \o NewRecords(db, r.token, <<Rewound>>)
           /\ current' = [current EXCEPT
                  !.rows = Range(NewRecords(db, r.token, <<Rewound>>))]
           /\ UNCHANGED torn
  <2>1. NewRecords(db, r.token, <<Rewound>>) = <<rewound>>
    BY DEF NewRecords
  <2>2. Range(<<rewound>>) = {rewound}
    BY DEF Range
  <2> HIDE DEF rewound
  <2>3. commits' = Append(commits, rewound)
    <3>1. commits' = commits \o <<rewound>>
      BY <1>5, <2>1
    <3>2. Append(commits, rewound) = commits \o <<rewound>>
      BY <1>1
    <3> QED
      BY <3>1, <3>2
  <2>4. current'.outcome = "ok" /\ current'.rows = {rewound}
    BY <1>1, <1>5, <2>1, <2>2 DEF Currents
  <2>5. db'.checkpoints = db.checkpoints /\ db'.kv = db.kv
    BY <1>1, <1>5 DEF AppendEvents, Databases
  <2>6. PICK cp \in db.checkpoints :
           cp.id = r.id /\ cp.sequence = db.event_sequence
    BY <1>1 DEF AtomInv, Midway
  <2>7. rewound = [sequence |-> cp.sequence + 1,
                   id       |-> <<r.token, 1>>,
                   type     |-> Rewound]
    BY <2>6 DEF rewound
  <2> HIDE DEF r
  <2>8. Atomic!TakeRestore(r)
    BY <1>1, <1>3, <1>5, <2>3, <2>4, <2>5, <2>6, <2>7
    DEF Atomic!TakeRestore
  <2> QED
    BY <1>3, <2>8, EffectRefines DEF Atomic!Effect
<1> QED
  BY <1>4, <1>5 DEF AppendRewound

LEMMA BroadcastRefines ==
    ASSUME IInv, Broadcast
    PROVE  UNCHANGED Atomic!vars
<1>1. /\ phase = "answer" /\ phase' = "answer"
      /\ UNCHANGED <<db, commits, mailbox, calls, torn>>
      /\ current'.reply = current.reply
      /\ current'.outcome = current.outcome
      /\ current'.rows = current.rows
  BY DEF Broadcast, IInv, TypeOK
<1>2. Running' = Running /\ Unheard' = Unheard
  BY <1>1 DEF Running, Unheard, Unawaited
<1>3. ASSUME NEW c \in Clients PROVE View(c)' = View(c)
  <2>1. Handled(c)' <=> Handled(c)
    BY <1>1 DEF Handled
  <2> QED
    BY <1>1, <2>1, ViewStays
<1> QED
  BY <1>1, <1>2, <1>3, Stutters

\* The reply is the answer, if somebody waits for it.
LEMMA ReplyRefines ==
    ASSUME IInv, AtomInv, Reply
    PROVE  Atomic!Next \/ UNCHANGED Atomic!vars
<1>1. /\ phase = "answer" /\ phase' = "recv" /\ current' = Idle
      /\ UNCHANGED <<db, commits, mailbox, torn>>
      /\ calls' = [c \in Clients |->
            IF current.reply = c
            THEN [calls[c] EXCEPT !.fate = current.outcome,
                                  !.rows = current.rows]
            ELSE calls[c]]
      /\ current.reply \in Clients \cup {Nobody}
      /\ current.outcome \in {"ok", "err"}
      /\ calls \in [Clients -> CallRecords]
  BY DEF Reply, IInv, TypeOK
<1>2. Running' /\ Running /\ Unheard' = Unheard
  BY <1>1 DEF Running, Unheard, Unawaited
<1>3. ASSUME NEW d \in Clients, current.reply # d
      PROVE  View(d)' = View(d)
  <2>1. ~Handled(d) /\ ~Handled(d)' /\ calls'[d] = calls[d]
    BY <1>1, <1>3 DEF Handled
  <2> QED
    BY <1>1, <2>1, ViewStays
<1>4. CASE current.reply = Nobody
  BY <1>1, <1>2, <1>3, <1>4, ClientsAssumption, Stutters
<1>5. ASSUME NEW c \in Clients, current.reply = c
      PROVE  Atomic!Respond(c)
  <2>1. /\ calls[c].fate = "waiting" /\ calls[c].request = current.request
        /\ Handled(c) /\ ~Handled(c)'
    BY <1>1, <1>5, ReplyCalls DEF Handled
  <2>2. /\ calls'[c].fate = current.outcome
        /\ calls'[c].rows = current.rows
        /\ calls'[c].request = current.request
    <3>1. calls[c] \in LiveCalls
      BY <1>1, <2>1, LiveCallType
    <3>2. calls'[c] = [calls[c] EXCEPT !.fate = current.outcome,
                                       !.rows = current.rows]
      BY <1>1, <1>5
    <3> QED
      BY <2>1, <3>1, <3>2 DEF LiveCalls
  <2>3. View(c) = Atomic!Taken(current.request, current.outcome,
                               current.rows)
    BY <2>1, ViewCases
  <2>4. View(c)' = Atomic!Answered(current.request, current.outcome,
                                   current.rows)
    <3>1. /\ ~StopOp(calls'[c].request)
          /\ calls'[c].fate = "err" => current.rows = {}
          /\ calls'[c].fate \in {"ok", "err"}
      BY <1>1, <2>2 DEF AtomInv, HandAnswers
    <3>2. View(c)' = Atomic!Answered(calls'[c].request, calls'[c].fate,
                         IF calls'[c].fate = "ok"
                            /\ ~StopOp(calls'[c].request)
                         THEN calls'[c].rows ELSE {})
      BY <2>1, <3>1, ViewCasesNext
    <3>3. (IF calls'[c].fate = "ok" /\ ~StopOp(calls'[c].request)
           THEN calls'[c].rows ELSE {}) = current.rows
      BY <2>2, <3>1
    <3> QED
      BY <2>2, <3>2, <3>3
  <2>5. Views[c] = View(c) /\ Views[c].stage = "taken"
    BY <2>3 DEF Views, Atomic!Taken
  <2>6. [View(c) EXCEPT !.stage = "answered"] = View(c)'
    BY <2>3, <2>4 DEF Atomic!Taken, Atomic!Answered
  <2>7. Views' = [Views EXCEPT ![c] = [@ EXCEPT !.stage = "answered"]]
    BY <1>3, <1>5, <2>6 DEF Views
  <2> QED
    BY <1>1, <1>2, <2>5, <2>7 DEF Atomic!Respond, Atomic!Idling
<1> QED
  BY <1>1, <1>4, <1>5 DEF Atomic!Next


-----------------------------------------------------------------------------
(* The cell comes and goes.                                                *)

\* What is in the mailbox, or half handled, is pending.
LEMMA QueuePends ==
    ASSUME IInv, NEW i \in DOMAIN mailbox, phase # "answer"
    PROVE  mailbox[i].request \in Atomic!Pending
<1>1. mailbox[i] \in Mails
  BY DEF IInv, TypeOK
<1>2. CASE mailbox[i].reply = Nobody
  BY <1>2 DEF Atomic!Pending, Unheard, Unawaited
<1>3. ASSUME NEW c \in Clients, mailbox[i].reply = c
      PROVE  mailbox[i].request \in Atomic!Pending
  <2>1. calls[c].fate = "waiting" /\ calls[c].request = mailbox[i].request
    BY <1>3 DEF IInv, RepliesMatchCalls, OneReply
  <2>2. Views[c] = Atomic!Called(mailbox[i].request)
    BY <2>1, ViewCases DEF Views, Handled
  <2>3. Views[c].stage = "called" /\ Views[c].request = mailbox[i].request
    BY <2>2 DEF Atomic!Called
  <2> QED
    BY <2>3 DEF Atomic!Pending, Atomic!Waiting
<1> QED
  BY <1>1, <1>2, <1>3 DEF Mails

LEMMA HandPends ==
    ASSUME IInv, phase = "rewind"
    PROVE  current.request \in Atomic!Pending
<1>1. current.reply \in Clients \cup {Nobody}
  BY DEF IInv, TypeOK
<1>2. CASE current.reply = Nobody
  BY <1>2 DEF Atomic!Pending, Unheard
<1>3. ASSUME NEW c \in Clients, current.reply = c
      PROVE  current.request \in Atomic!Pending
  <2>1. calls[c].fate = "waiting" /\ calls[c].request = current.request
    BY <1>3, ReplyCalls
  <2>2. Views[c] = Atomic!Called(current.request)
    BY <2>1, ViewCases DEF Views, Handled
  <2>3. Views[c].stage = "called" /\ Views[c].request = current.request
    BY <2>2 DEF Atomic!Called
  <2> QED
    BY <2>3 DEF Atomic!Pending, Atomic!Waiting
<1> QED
  BY <1>1, <1>2, <1>3

\* Who waits, and who has been answered.
LEMMA StageOf ==
    ASSUME IInv, NEW c \in Clients
    PROVE  /\ Views[c] = View(c)
           /\ calls[c].fate \in Fates
           /\ View(c).stage = "called" <=>
                calls[c].fate \in {"sending", "waiting"} /\ ~Handled(c)
           /\ View(c).stage = "taken" <=> Handled(c)
           /\ View(c).stage \in {"called", "taken"} <=>
                calls[c].fate \in {"sending", "waiting"}
           /\ View(c).stage \in {"answered", "lost"} <=>
                calls[c].fate \in {"ok", "err", "lost"}
           /\ calls[c].fate # "idle" => View(c).request = calls[c].request
<1>1. Views[c] = View(c)
  BY DEF Views
<1>2. calls[c].fate \in Fates
  BY LiveCallType DEF IInv, TypeOK
<1>3. Handled(c) => calls[c].fate = "waiting"
  BY ReplyCalls
<1>4. View(c).stage =
        IF Handled(c) THEN "taken"
        ELSE IF calls[c].fate = "idle" THEN "silent"
        ELSE IF calls[c].fate \in {"sending", "waiting"} THEN "called"
        ELSE IF calls[c].fate \in {"ok", "err"} THEN "answered"
        ELSE "lost"
  BY <1>2, ViewCases
  DEF Fates, Atomic!Silent, Atomic!Taken, Atomic!Called, Atomic!Answered,
      Atomic!Lost
<1>5. calls[c].fate # "idle" => View(c).request = calls[c].request
  BY <1>2, ViewCases
  DEF Fates, Atomic!Taken, Atomic!Called, Atomic!Answered, Atomic!Lost
<1> QED
  BY <1>1, <1>2, <1>3, <1>4, <1>5 DEF Fates

\* The thread ends: nobody's request remains.
LEMMA EndFrame ==
    ASSUME IInv, ThreadEnds, Running
    PROVE  /\ Unheard' = {} /\ ~Running' /\ commits' = commits
           /\ \A c \in Clients : ~Handled(c)'
<1>1. mailbox' = <<>> /\ phase' = "stopped" /\ commits' = commits
  BY DEF ThreadEnds
<1> QED
  BY <1>1 DEF Unheard, Unawaited, Running, Handled

LEMMA StopRefines ==
    ASSUME IInv, ExecStop
    PROVE  Atomic!Next
<1>1. /\ phase = "recv" /\ mailbox # <<>>
      /\ StopOp(Head(mailbox).request)
      /\ calls' = Orphaned /\ torn' = torn /\ ThreadEnds
      /\ db' \in {db, UpdateStatus(db, "suspended")}
  BY DEF ExecStop, StopOp
<1>2. Running
  BY <1>1 DEF Running
<1>3. db'.checkpoints = db.checkpoints /\ db'.kv = db.kv
  BY <1>1 DEF UpdateStatus, IInv, TypeOK, Databases
<1>4. \E r \in Atomic!Pending : Atomic!Stops(r)
  <2>1. mailbox \in Seq(Mails)
    BY DEF IInv, TypeOK
  <2>2. 1 \in DOMAIN mailbox /\ Head(mailbox) = mailbox[1]
    BY <1>1, <2>1
  <2>3. mailbox[1].request \in Atomic!Pending
    BY <1>1, <2>2, QueuePends
  <2> QED
    BY <1>1, <2>2, <2>3 DEF Atomic!Stops, StopOp
<1>5. ASSUME NEW c \in Clients
      PROVE  View(c)' = IF Atomic!Waiting(c)
                        THEN Atomic!Closed(Views[c].request) ELSE Views[c]
  <2>1. ~Handled(c) /\ ~Handled(c)'
    BY <1>1, <1>2, EndFrame DEF Handled
  <2>2. CASE calls[c].fate \notin {"sending", "waiting"}
    <3>1. calls'[c] = calls[c]
      BY <1>1, <2>2 DEF Orphaned
    <3>2. View(c)' = View(c)
      BY <2>1, <3>1, ViewStays
    <3> QED
      BY <2>2, <3>2, StageOf DEF Atomic!Waiting
  <2>3. CASE calls[c].fate \in {"sending", "waiting"}
    <3> DEFINE fate == IF StopOp(calls[c].request) THEN "ok" ELSE "err"
    <3>1. calls[c] \in LiveCalls
      BY <2>3, LiveCallType DEF IInv, TypeOK
    <3>2. calls'[c] = [calls[c] EXCEPT !.fate = fate]
      BY <1>1, <2>3 DEF Orphaned, StopOp
    <3>3. calls'[c].fate = fate /\ calls'[c].request = calls[c].request
      BY <3>1, <3>2 DEF LiveCalls
    <3>4. /\ fate \in {"ok", "err"}
          /\ ~(fate = "ok" /\ ~StopOp(calls[c].request))
      OBVIOUS
    <3>5. View(c)' = Atomic!Answered(calls[c].request, fate, {})
      <4>1. View(c)' = Atomic!Answered(calls'[c].request, calls'[c].fate,
                           IF calls'[c].fate = "ok"
                              /\ ~StopOp(calls'[c].request)
                           THEN calls'[c].rows ELSE {})
        BY <2>1, <3>3, <3>4, ViewCasesNext
      <4> HIDE DEF fate
      <4> QED
        BY <3>3, <3>4, <4>1
    <3>6. Views[c].request = calls[c].request /\ Atomic!Waiting(c)
      BY <2>1, <2>3, StageOf DEF Atomic!Waiting
    <3>7. Atomic!Closed(Views[c].request)
             = Atomic!Answered(calls[c].request, fate, {})
      BY <3>6 DEF Atomic!Closed, Atomic!Stops, StopOp
    <3> HIDE DEF fate
    <3> QED
      BY <3>5, <3>6, <3>7
  <2> QED
    BY <2>2, <2>3
<1>6. Views' = [c \in Clients |->
                   IF Atomic!Waiting(c)
                   THEN Atomic!Closed(Views[c].request) ELSE Views[c]]
  BY <1>5 DEF Views
<1>7. Atomic!Stop
  BY <1>1, <1>2, <1>3, <1>4, <1>6, EndFrame DEF Atomic!Stop
<1> QED
  BY <1>7 DEF Atomic!Next

LEMMA DropRefines ==
    ASSUME IInv, HandlesDropped
    PROVE  Atomic!Next
<1>1. /\ phase = "recv" /\ mailbox = <<>> /\ ThreadEnds
      /\ UNCHANGED <<db, calls, torn>>
      /\ \A c \in Clients : calls[c].fate = "idle"
  BY DEF HandlesDropped
<1>2. Running /\ Unheard = {}
  BY <1>1 DEF Running, Unheard, Unawaited
<1>3. ASSUME NEW c \in Clients
      PROVE  View(c) = Atomic!Silent /\ View(c)' = Atomic!Silent
  <2>1. ~Handled(c) /\ ~Handled(c)'
    BY <1>1, <1>2, EndFrame DEF Handled
  <2> QED
    BY <1>1, <2>1, ViewCases, ViewCasesNext
<1>4. /\ Views = [c \in Clients |-> Atomic!Silent]
      /\ Views' = Views
  BY <1>3 DEF Views
<1>5. Atomic!Drop
  BY <1>1, <1>2, <1>4, EndFrame DEF Atomic!Drop
<1> QED
  BY <1>5 DEF Atomic!Next

LEMMA CrashRefines ==
    ASSUME IInv, AtomInv, Crash
    PROVE  Atomic!Next
<1>1. /\ Running /\ ThreadEnds /\ db' = db
      /\ torn' = (torn \/ phase = "rewind") /\ torn \in BOOLEAN
      /\ calls' = [c \in Clients |->
            IF calls[c].fate \in {"sending", "waiting"}
            THEN [calls[c] EXCEPT !.fate = "lost"] ELSE calls[c]]
  BY DEF Crash, IInv, TypeOK
<1>2. ASSUME NEW c \in Clients
      PROVE  View(c)' = IF Views[c].stage \in {"called", "taken"}
                        THEN Atomic!Lost(Views[c].request) ELSE Views[c]
  <2>1. ~Handled(c)'
    BY <1>1, EndFrame
  <2>2. CASE calls[c].fate \notin {"sending", "waiting"}
    <3>1. calls'[c] = calls[c] /\ ~Handled(c)
      BY <1>1, <2>2, ReplyCalls
    <3>2. View(c)' = View(c)
      BY <2>1, <3>1, ViewStays
    <3> QED
      BY <2>2, <3>2, StageOf
  <2>3. CASE calls[c].fate \in {"sending", "waiting"}
    <3>1. calls[c] \in LiveCalls
      BY <2>3, LiveCallType DEF IInv, TypeOK
    <3>2. calls'[c] = [calls[c] EXCEPT !.fate = "lost"]
      BY <1>1, <2>3
    <3>3. calls'[c].fate = "lost" /\ calls'[c].request = calls[c].request
      BY <3>1, <3>2 DEF LiveCalls
    <3>4. View(c)' = Atomic!Lost(calls[c].request)
      BY <2>1, <3>3, ViewCasesNext
    <3> QED
      BY <2>3, <3>4, StageOf
  <2> QED
    BY <2>2, <2>3
<1>3. Views' = [c \in Clients |->
                   IF Views[c].stage \in {"called", "taken"}
                   THEN Atomic!Lost(Views[c].request) ELSE Views[c]]
  BY <1>2 DEF Views
<1>4. \/ (~torn)' = ~torn
      \/ /\ \E r \in Atomic!Pending : r.op = "restore"
         /\ (~torn)' = FALSE
  <2>1. phase = "rewind" =>
           /\ current.request.op = "restore"
           /\ current.request \in Atomic!Pending
    BY HandPends DEF AtomInv, Midway
  <2> QED
    BY <1>1, <2>1
<1>5. Atomic!Crash
  BY <1>1, <1>3, <1>4, EndFrame DEF Atomic!Crash
<1> QED
  BY <1>5 DEF Atomic!Next

LEMMA SpawnRefines ==
    ASSUME IInv, Spawn
    PROVE  Atomic!Next
<1>1. /\ phase = "stopped" /\ phase' = "recv"
      /\ UNCHANGED <<db, mailbox, current, calls, commits, torn>>
  BY DEF Spawn
<1>2. ~Running /\ Running' /\ Unheard' = Unheard
  BY <1>1 DEF Running, Unheard, Unawaited
<1>3. ASSUME NEW c \in Clients PROVE View(c)' = View(c)
  <2>1. ~Handled(c) /\ ~Handled(c)'
    BY <1>1 DEF Handled
  <2> QED
    BY <1>1, <2>1, ViewStays
<1>4. Views' = Views
  BY <1>3 DEF Views
<1>5. Atomic!Restart
  BY <1>1, <1>2, <1>4 DEF Atomic!Restart
<1> QED
  BY <1>5 DEF Atomic!Next


-----------------------------------------------------------------------------
(* Clients.                                                                *)

\* A step of c that leaves the others alone.
LEMMA OneView ==
    ASSUME IInv, NEW c \in Clients, NEW v, View(c)' = v,
           \A d \in Clients : d # c => View(d)' = View(d)
    PROVE  Views' = [Views EXCEPT ![c] = v]
  BY DEF Views

LEMMA CallRefines ==
    ASSUME IInv, NEW c \in Clients, Call(c)
    PROVE  Atomic!Next
<1>1. /\ calls[c].fate = "idle"
      /\ UNCHANGED <<db, mailbox, phase, current, commits, torn>>
      /\ calls \in [Clients -> CallRecords]
  BY DEF Call, IInv, TypeOK
<1>2. PICK r \in Offered :
        calls' = [calls EXCEPT ![c] =
            [fate    |-> IF Running THEN "sending"
                         ELSE IF r.op \in {"fence", "shutdown"} THEN "ok"
                         ELSE "err",
             request |-> r,
             asked   |-> Len(commits),
             rows    |-> {}]]
  BY DEF Call
<1>3. r \in Requests
  BY <1>2, OfferedType DEF IInv
<1>4. Running' = Running /\ Unheard' = Unheard
  BY <1>1 DEF Running, Unheard, Unawaited
<1>5. ASSUME NEW d \in Clients PROVE Handled(d)' <=> Handled(d)
  BY <1>1 DEF Handled
<1>6. ~Handled(c) /\ ~Handled(c)'
  BY <1>1, <1>5, ReplyCalls
<1>7. /\ calls'[c].request = r /\ calls'[c].rows = {}
      /\ calls'[c].fate = IF Running THEN "sending"
                          ELSE IF StopOp(r) THEN "ok" ELSE "err"
  BY <1>1, <1>2 DEF StopOp
<1>8. View(c) = Atomic!Silent
  BY <1>1, <1>6, ViewCases
<1>9. View(c)' = IF Running THEN Atomic!Called(r) ELSE Atomic!Closed(r)
  <2>1. CASE Running
    BY <1>6, <1>7, <2>1, ViewCasesNext
  <2>2. CASE ~Running
    <3>1. View(c)' = Atomic!Answered(calls'[c].request, calls'[c].fate,
                         IF calls'[c].fate = "ok"
                            /\ ~StopOp(calls'[c].request)
                         THEN calls'[c].rows ELSE {})
      BY <1>6, <1>7, <2>2, ViewCasesNext
    <3>2. View(c)' = Atomic!Answered(r, IF StopOp(r) THEN "ok" ELSE "err", {})
      BY <1>7, <2>2, <3>1
    <3> QED
      BY <2>2, <3>2 DEF Atomic!Closed, Atomic!Stops, StopOp
  <2> QED
    BY <2>1, <2>2
<1>10. ASSUME NEW d \in Clients, d # c PROVE View(d)' = View(d)
  <2>1. calls'[d] = calls[d]
    BY <1>1, <1>2, <1>10
  <2> QED
    BY <1>1, <1>5, <2>1, ViewStays
<1>11. /\ Views' = [Views EXCEPT ![c] =
                       IF Running THEN Atomic!Called(r) ELSE Atomic!Closed(r)]
       /\ Views[c] = Atomic!Silent
       /\ Views'[c].request = r
       /\ Views'[c] # Atomic!Silent
  BY <1>8, <1>9, <1>10, OneView
  DEF Views, Atomic!Called, Atomic!Closed, Atomic!Answered, Atomic!Silent
<1>12. Atomic!Call(c)
  BY <1>1, <1>3, <1>4, <1>11 DEF Atomic!Call, Atomic!Idling
<1> QED
  BY <1>12 DEF Atomic!Next

\* To be in the mailbox is not to have taken effect; a fence is answered.
LEMMA EnqueueRefines ==
    ASSUME IInv, NEW c \in Clients, Enqueue(c)
    PROVE  Atomic!Next \/ UNCHANGED Atomic!vars
<1> DEFINE r == calls[c].request
           fence == r.op = "fence"
           m == [request |-> r, reply |-> IF fence THEN Nobody ELSE c]
<1>1. /\ Running /\ calls[c].fate = "sending"
      /\ mailbox' = Append(mailbox, m)
      /\ calls' = [calls EXCEPT ![c].fate = IF fence THEN "ok" ELSE "waiting"]
      /\ UNCHANGED <<db, phase, current, commits, torn>>
      /\ calls \in [Clients -> CallRecords]
      /\ mailbox \in Seq(Mails)
  BY DEF Enqueue, IInv, TypeOK
<1>2. Running' = Running
  BY <1>1 DEF Running
<1>3. Unheard' = Unheard \cup IF fence THEN {r} ELSE {}
  <2>1. m.request = r /\ (m.reply = Nobody <=> fence)
    BY ClientsAssumption
  <2> HIDE DEF m, fence, r
  <2>2. Unawaited(mailbox') = Unawaited(mailbox) \cup
                                 IF fence THEN {r} ELSE {}
    BY <1>1, <2>1, UnawaitedAppend
  <2>3. Unheard' = Unawaited(mailbox') \cup
           IF phase = "rewind" /\ current.reply = Nobody
           THEN {current.request} ELSE {}
    BY <1>1 DEF Unheard, Unawaited
  <2> QED
    BY <2>2, <2>3 DEF Unheard
<1>4. ASSUME NEW d \in Clients PROVE Handled(d)' <=> Handled(d)
  BY <1>1 DEF Handled
<1>5. ~Handled(c) /\ ~Handled(c)'
  BY <1>1, <1>4, ReplyCalls
<1>6. /\ calls'[c].fate = IF fence THEN "ok" ELSE "waiting"
      /\ calls'[c].request = r
  <2>1. calls[c] \in LiveCalls
    BY <1>1, LiveCallType
  <2>2. calls'[c] = [calls[c] EXCEPT !.fate = IF fence THEN "ok"
                                              ELSE "waiting"]
    BY <1>1
  <2> HIDE DEF fence
  <2> QED
    BY <2>1, <2>2 DEF LiveCalls
<1>7. View(c) = Atomic!Called(r)
  BY <1>1, <1>5, ViewCases
<1>8. ASSUME NEW d \in Clients, d # c PROVE View(d)' = View(d)
  <2>1. calls'[d] = calls[d]
    BY <1>1, <1>8
  <2> QED
    BY <1>1, <1>4, <2>1, ViewStays
<1>9. CASE ~fence
  <2>1. View(c)' = Atomic!Called(r)
    BY <1>5, <1>6, <1>9, ViewCasesNext
  <2>2. \A d \in Clients : View(d)' = View(d)
    BY <1>7, <1>8, <2>1
  <2> HIDE DEF fence
  <2> QED
    BY <1>1, <1>2, <1>3, <1>9, <2>2, Stutters
<1>10. CASE fence
  <2>1. View(c)' = Atomic!Closed(r)
    <3>1. StopOp(r) /\ calls'[c].fate = "ok"
      BY <1>6, <1>10 DEF StopOp
    <3>2. View(c)' = Atomic!Answered(calls'[c].request, calls'[c].fate,
                         IF calls'[c].fate = "ok"
                            /\ ~StopOp(calls'[c].request)
                         THEN calls'[c].rows ELSE {})
      BY <1>5, <3>1, ViewCasesNext
    <3>3. View(c)' = Atomic!Answered(r, "ok", {})
      BY <1>6, <3>1, <3>2
    <3> QED
      BY <3>1, <3>3 DEF Atomic!Closed, Atomic!Stops, StopOp
  <2>2. Views[c] = Atomic!Called(r)
    BY <1>7 DEF Views
  <2>3. Views[c].request = r /\ Atomic!Waiting(c)
    BY <2>2 DEF Atomic!Waiting, Atomic!Called
  <2>4. Views' = [Views EXCEPT ![c] = Atomic!Closed(Views[c].request)]
    BY <1>8, <2>1, <2>3, OneView
  <2>5. Atomic!AnswerFence(c)
    BY <1>1, <1>2, <1>3, <1>10, <2>3, <2>4
    DEF Atomic!AnswerFence, Atomic!Idling
  <2> QED
    BY <2>5 DEF Atomic!Next
<1> QED
  BY <1>9, <1>10


LEMMA ReturnRefines ==
    ASSUME IInv, NEW c \in Clients, Return(c)
    PROVE  Atomic!Next
<1>1. /\ calls[c].fate \in {"ok", "err", "lost"}
      /\ calls' = [calls EXCEPT ![c] = NoCall]
      /\ UNCHANGED <<db, mailbox, phase, current, commits, torn>>
      /\ calls \in [Clients -> CallRecords]
  BY DEF Return, IInv, TypeOK
<1>2. Running' = Running /\ Unheard' = Unheard
  BY <1>1 DEF Running, Unheard, Unawaited
<1>3. ASSUME NEW d \in Clients PROVE Handled(d)' <=> Handled(d)
  BY <1>1 DEF Handled
<1>4. ~Handled(c) /\ ~Handled(c)'
  BY <1>1, <1>3, ReplyCalls
<1>5. View(c)' = Atomic!Silent
  BY <1>1, <1>4, ViewCasesNext DEF NoCall
<1>6. ASSUME NEW d \in Clients, d # c PROVE View(d)' = View(d)
  <2>1. calls'[d] = calls[d]
    BY <1>1, <1>6
  <2> QED
    BY <1>1, <1>3, <2>1, ViewStays
<1>7. Views' = [Views EXCEPT ![c] = Atomic!Silent]
  BY <1>5, <1>6, OneView
<1>8. Views[c].stage \in {"answered", "lost"}
  BY <1>1, StageOf
<1>9. Atomic!Forget(c)
  BY <1>1, <1>2, <1>7, <1>8 DEF Atomic!Forget, Atomic!Idling
<1> QED
  BY <1>9 DEF Atomic!Next

\* The queue after c has given up: its message stays, with nobody to reply to.
LEMMA UnawaitedAbandoned ==
    ASSUME NEW q \in Seq(Mails), NEW c \in Clients, NEW p,
           p = [i \in DOMAIN q |->
                  IF q[i].reply = c THEN [q[i] EXCEPT !.reply = Nobody]
                  ELSE q[i]]
    PROVE  /\ (\A i \in DOMAIN q : q[i].reply # c) =>
                  Unawaited(p) = Unawaited(q)
           /\ \A k \in DOMAIN q :
                 /\ q[k].reply = c
                 /\ \A j \in DOMAIN q : q[j].reply = c => j = k
                 => Unawaited(p) = Unawaited(q) \cup {q[k].request}
<1>1. /\ DOMAIN p = DOMAIN q
      /\ \A i \in DOMAIN q : q[i] \in Mails
  OBVIOUS
<1>2. ASSUME NEW i \in DOMAIN q
      PROVE  /\ p[i].request = q[i].request
             /\ p[i].reply = Nobody <=> q[i].reply \in {c, Nobody}
  <2>1. q[i].reply = c => p[i] = [q[i] EXCEPT !.reply = Nobody]
    OBVIOUS
  <2>2. q[i].reply # c => p[i] = q[i]
    OBVIOUS
  <2> QED
    BY <1>1, <2>1, <2>2 DEF Mails
<1>3. ASSUME NEW x
      PROVE  x \in Unawaited(p) <=>
               \E i \in DOMAIN q :
                  q[i].reply \in {c, Nobody} /\ x = q[i].request
  BY <1>1, <1>2 DEF Unawaited
<1>4. ASSUME NEW x
      PROVE  x \in Unawaited(q) <=>
               \E i \in DOMAIN q : q[i].reply = Nobody /\ x = q[i].request
  BY DEF Unawaited
<1>5. (\A i \in DOMAIN q : q[i].reply # c) => Unawaited(p) = Unawaited(q)
  BY <1>3, <1>4
<1>6. ASSUME NEW k \in DOMAIN q, q[k].reply = c,
             \A j \in DOMAIN q : q[j].reply = c => j = k
      PROVE  Unawaited(p) = Unawaited(q) \cup {q[k].request}
  <2>1. ASSUME NEW x
        PROVE  x \in Unawaited(p) <=>
                 x \in Unawaited(q) \/ x = q[k].request
    BY <1>3, <1>4, <1>6
  <2> QED
    BY <2>1
<1> QED
  BY <1>5, <1>6

LEMMA AbandonRefines ==
    ASSUME IInv, NEW c \in Clients, Abandon(c)
    PROVE  Atomic!Next
<1>1. /\ calls[c].fate \in {"sending", "waiting"}
      /\ calls' = [calls EXCEPT ![c] = NoCall]
      /\ mailbox' = [i \in DOMAIN mailbox |->
             IF mailbox[i].reply = c
             THEN [mailbox[i] EXCEPT !.reply = Nobody] ELSE mailbox[i]]
      /\ current' = IF current.reply = c
                    THEN [current EXCEPT !.reply = Nobody] ELSE current
      /\ UNCHANGED <<db, phase, commits, torn>>
      /\ calls \in [Clients -> CallRecords]
      /\ mailbox \in Seq(Mails)
      /\ current \in Currents
  BY DEF Abandon, IInv, TypeOK, Currents
<1>2. Running' = Running
  BY <1>1 DEF Running
<1>3. /\ current'.request = current.request
      /\ current'.outcome = current.outcome
      /\ current'.rows = current.rows
      /\ current'.reply = IF current.reply = c THEN Nobody ELSE current.reply
  BY <1>1 DEF Currents
<1>4. ASSUME NEW d \in Clients, d # c PROVE View(d)' = View(d)
  <2>1. Handled(d)' <=> Handled(d)
    BY <1>1, <1>3, <1>4, ClientsAssumption DEF Handled
  <2>2. calls'[d] = calls[d]
    BY <1>1, <1>4
  <2> QED
    BY <1>3, <2>1, <2>2, ViewStays
<1>5. View(c)' = Atomic!Silent
  <2>1. ~Handled(c)'
    BY <1>3, ClientsAssumption DEF Handled
  <2> QED
    BY <1>1, <2>1, ViewCasesNext DEF NoCall
<1>6. Views' = [Views EXCEPT ![c] = Atomic!Silent]
  BY <1>4, <1>5, OneView
<1>7. /\ Views[c].stage \in {"called", "taken"}
      /\ ~Handled(c) => Atomic!Waiting(c)
      /\ Views[c].request = calls[c].request
  BY <1>1, StageOf DEF Atomic!Waiting
<1>8. OneReply(c)
  BY DEF IInv, RepliesMatchCalls
<1>9. Unheard' = Unawaited(mailbox') \cup
         IF phase = "rewind" /\ current.reply \in {c, Nobody}
         THEN {current.request} ELSE {}
  BY <1>1, <1>3, ClientsAssumption DEF Unheard, Unawaited
<1> DEFINE Given == \/ Unheard' = Unheard
                    \/ /\ ~Handled(c)
                       /\ Unheard' = Unheard \cup {calls[c].request}
<1>10. ASSUME current.reply = c PROVE Given
  <2>1. /\ \A i \in DOMAIN mailbox : mailbox[i].reply # c
        /\ calls[c].request = current.request
    BY <1>8, <1>10 DEF OneReply
  <2>2. Unawaited(mailbox') = Unawaited(mailbox)
    BY <1>1, <2>1, UnawaitedAbandoned
  <2>3. phase \in {"rewind", "answer"}
    BY <1>10, ReplyCalls
  <2>4. CASE phase = "answer"
    BY <1>9, <2>2, <2>4 DEF Unheard
  <2>5. CASE phase = "rewind"
    <3>1. Unheard' = Unheard \cup {calls[c].request}
      BY <1>9, <1>10, <2>1, <2>2, <2>5 DEF Unheard
    <3>2. ~Handled(c)
      BY <2>5 DEF Handled
    <3> QED
      BY <3>1, <3>2
  <2> QED
    BY <2>3, <2>4, <2>5
<1>11. ASSUME current.reply # c PROVE Given
  <2>1. ~Handled(c)
    BY <1>11 DEF Handled
  <2>2. CASE \A i \in DOMAIN mailbox : mailbox[i].reply # c
    <3>1. Unawaited(mailbox') = Unawaited(mailbox)
      BY <1>1, <2>2, UnawaitedAbandoned
    <3> QED
      BY <1>9, <1>11, <3>1 DEF Unheard
  <2>3. CASE \E k \in DOMAIN mailbox : mailbox[k].reply = c
    <3>1. PICK k \in DOMAIN mailbox : mailbox[k].reply = c
      BY <2>3
    <3>2. /\ calls[c].request = mailbox[k].request
          /\ \A j \in DOMAIN mailbox : mailbox[j].reply = c => j = k
      BY <1>8, <3>1 DEF OneReply
    <3>3. Unawaited(mailbox') =
             Unawaited(mailbox) \cup {mailbox[k].request}
      BY <1>1, <3>1, <3>2, UnawaitedAbandoned
    <3> QED
      BY <1>9, <1>11, <2>1, <3>2, <3>3 DEF Unheard
  <2> QED
    BY <2>2, <2>3
<1>12. Given
  BY <1>10, <1>11
<1> HIDE DEF Given
<1>13. Atomic!Abandon(c)
  BY <1>1, <1>2, <1>6, <1>7, <1>12
  DEF Atomic!Abandon, Atomic!Idling, Given
<1> QED
  BY <1>13 DEF Atomic!Next


-----------------------------------------------------------------------------
(* The invariant of the mapping.                                           *)

\* How the hand changes.
LEMMA HandSteps ==
    ASSUME IInv, [Next]_vars
    PROVE  \/ phase' \notin {"rewind", "answer"}
           \/ /\ phase' = phase
              /\ current'.request = current.request
              /\ current'.outcome = current.outcome
              /\ current'.rows = current.rows
              /\ phase = "rewind" => UNCHANGED db
           \/ /\ phase' = "answer"
              /\ current'.request.op \in {"append", "set_kv", "checkpoint",
                                          "get_events", "restore"}
              /\ current'.outcome = "err" => current'.rows = {}
           \/ ExecRestore /\ ~Fail
           \/ AppendRewound
<1>1. current \in Currents
  BY DEF IInv, TypeOK, Currents
<1>2. CASE UNCHANGED <<db, phase, current>>
  BY <1>2
<1>3. CASE ExecAppend \/ ExecSetKv \/ ExecCheckpoint \/ ExecQuery
  BY <1>3 DEF ExecAppend, ExecSetKv, ExecCheckpoint, ExecQuery, Receive,
              Answer, Fail
<1>4. CASE ExecRestore /\ Fail
  BY <1>4 DEF ExecRestore, Receive, Answer, Fail
<1>5. CASE Broadcast
  BY <1>1, <1>5 DEF Broadcast, Currents
<1>6. CASE Reply \/ ExecStop \/ HandlesDropped \/ Crash \/ Spawn
  BY <1>6 DEF Reply, ExecStop, HandlesDropped, Crash, Spawn, ThreadEnds
<1>7. CASE UNCHANGED vars \/ Finished
  BY <1>2, <1>7 DEF vars, Finished
<1>8. ASSUME NEW c \in Clients, Call(c) \/ Enqueue(c) \/ Return(c)
      PROVE  UNCHANGED <<db, phase, current>>
  BY <1>8 DEF Call, Enqueue, Return
<1>9. ASSUME NEW c \in Clients, Abandon(c)
      PROVE  /\ UNCHANGED <<db, phase>>
             /\ current'.request = current.request
             /\ current'.outcome = current.outcome
             /\ current'.rows = current.rows
  BY <1>1, <1>9 DEF Abandon, Currents
<1> QED
  BY <1>2, <1>3, <1>4, <1>5, <1>6, <1>7, <1>8, <1>9
  DEF Next, ActorStep, ClientStep

LEMMA NextMidway ==
    ASSUME IInv, Midway, HandAnswers, [Next]_vars
    PROVE  Midway' /\ HandAnswers'
<1>1. CASE phase' \notin {"rewind", "answer"}
  BY <1>1 DEF Midway, HandAnswers
<1>2. CASE /\ phase' = phase
           /\ current'.request = current.request
           /\ current'.outcome = current.outcome
           /\ current'.rows = current.rows
           /\ phase = "rewind" => UNCHANGED db
  BY <1>2 DEF Midway, HandAnswers, StopOp
<1>3. CASE /\ phase' = "answer"
           /\ current'.request.op \in {"append", "set_kv", "checkpoint",
                                       "get_events", "restore"}
           /\ current'.outcome = "err" => current'.rows = {}
  BY <1>3 DEF Midway, HandAnswers, StopOp
<1>4. CASE ExecRestore /\ ~Fail
  <2>1. /\ phase' = "rewind" /\ db \in Databases
        /\ Head(mailbox).request.op = "restore"
    BY <1>4 DEF ExecRestore, Receive, IInv, TypeOK
  <2>2. PICK cp \in db.checkpoints :
           /\ cp.id = Head(mailbox).request.id
           /\ db' = Truncate(db, cp.sequence)
           /\ current' = [Idle EXCEPT !.request = Head(mailbox).request,
                                      !.reply   = Head(mailbox).reply,
                                      !.target  = cp.sequence]
    BY <1>4 DEF ExecRestore
  <2>3. /\ current'.request = Head(mailbox).request
        /\ current'.outcome = "ok" /\ current'.rows = {}
    BY <2>2 DEF Idle
  <2>4. db'.event_sequence = cp.sequence /\ db'.checkpoints = db.checkpoints
    BY <2>1, <2>2 DEF Truncate, Databases
  <2> QED
    BY <2>1, <2>2, <2>3, <2>4 DEF Midway, HandAnswers
<1>5. CASE AppendRewound
  <2>1. /\ current \in Currents /\ phase' = "answer"
        /\ current.request.op = "restore"
        /\ current.outcome = "ok" /\ current.rows = {}
    BY <1>5 DEF AppendRewound, Midway, IInv, TypeOK, Currents
  <2>2. /\ current'.request = current.request
        /\ current'.outcome = "err" => current'.rows = {}
    BY <1>5, <2>1 DEF AppendRewound, Currents
  <2> QED
    BY <2>1, <2>2 DEF Midway, HandAnswers, StopOp
<1> QED
  BY <1>1, <1>2, <1>3, <1>4, <1>5, HandSteps

\* After an append the counter is at the last commit.
LEMMA AppendCounted ==
    ASSUME IInv, NEW t \in Nat, NEW ts \in Seq(EventTypes), Appends(t, ts)
    PROVE  Atomic!Counter' = IF ts = <<>> THEN Atomic!Counter
                             ELSE db'.event_sequence
<1>1. /\ Len(commits) \in Nat /\ Len(ts) \in Nat
      /\ commits' \in Seq(EventRecords)
      /\ Len(commits') = Len(commits) + Len(ts)
      /\ \A i \in 1..Len(ts) :
            commits'[Len(commits) + i].sequence = db.event_sequence + i
  BY CommitsGrow
<1>2. db'.event_sequence = db.event_sequence + Len(ts)
  BY EventsGrow
<1>3. CASE ts = <<>>
  <2>1. commits' = commits
    BY <1>3 DEF Appends, NewRecords, IInv, TypeOK
  <2> QED
    BY <1>3, <2>1 DEF Atomic!Counter
<1>4. CASE ts # <<>>
  <2>1. Len(ts) \in 1..Len(ts)
    BY <1>1, <1>4
  <2>2. commits'[Len(commits')].sequence = db'.event_sequence
    BY <1>1, <1>2, <2>1
  <2>3. commits' # <<>>
    BY <1>1, <2>1
  <2> QED
    BY <1>4, <2>2, <2>3 DEF Atomic!Counter
<1> QED
  BY <1>3, <1>4

LEMMA NextCounted ==
    ASSUME IInv, Counted, [Next]_vars
    PROVE  Counted'
<1>1. CASE StillStep
  BY <1>1 DEF StillStep, SameLog, Counted, Atomic!Counter
<1>2. CASE \E cp \in db.checkpoints : TruncateStep(cp)
  BY <1>2 DEF TruncateStep, Counted
<1>3. ASSUME NEW t \in Nat, NEW ts \in Seq(EventTypes \ {Rewound}),
             AppendStep(t, ts)
      PROVE  Counted'
  <2>1. /\ Appends(t, ts) /\ phase = "recv" /\ torn' = torn
        /\ ts \in Seq(EventTypes)
    BY <1>3 DEF AppendStep, Appends
  <2>2. Atomic!Counter' = IF ts = <<>> THEN Atomic!Counter
                          ELSE db'.event_sequence
    BY <2>1, AppendCounted
  <2>3. ts = <<>> => db'.event_sequence = db.event_sequence
    <3>1. db'.event_sequence = db.event_sequence + Len(ts)
      BY <2>1, EventsGrow
    <3> QED
      BY <3>1 DEF IInv, TypeOK, Databases
  <2> QED
    BY <2>1, <2>2, <2>3 DEF Counted
<1>4. ASSUME NEW t \in Nat, RewoundStep(t)
      PROVE  Counted'
  <2>1. Appends(t, <<Rewound>>) /\ <<Rewound>> \in Seq(EventTypes)
    BY <1>4, EventTypesAssumption DEF RewoundStep
  <2>2. Atomic!Counter' = db'.event_sequence
    BY <2>1, AppendCounted
  <2> QED
    BY <2>2 DEF Counted
<1> QED
  BY <1>1, <1>2, <1>3, <1>4, LogSteps

\* Rows come from commits.
LEMMA NextCommitted ==
    ASSUME IInv, Committed, [Next]_vars
    PROVE  Committed'
<1>1. CASE StillStep
  BY <1>1 DEF StillStep, SameLog, Committed
<1>2. ASSUME NEW cp \in db.checkpoints, TruncateStep(cp)
      PROVE  Committed'
  <2>1. db'.events \subseteq db.events /\ commits' = commits
    BY <1>2 DEF TruncateStep, Truncate, IInv, TypeOK, Databases
  <2> QED
    BY <2>1 DEF Committed
<1>3. ASSUME NEW t \in Nat, NEW ts \in Seq(EventTypes), Appends(t, ts)
      PROVE  Committed'
  <2>1. /\ Len(commits) \in Nat /\ Len(ts) \in Nat
        /\ DOMAIN commits = 1..Len(commits)
        /\ DOMAIN commits' = 1..(Len(commits) + Len(ts))
        /\ \A i \in 1..Len(commits) : commits'[i] = commits[i]
    <3>1. /\ commits \in Seq(EventRecords) /\ commits' \in Seq(EventRecords)
          /\ Len(commits') = Len(commits) + Len(ts)
          /\ \A i \in 1..Len(commits) : commits'[i] = commits[i]
          /\ Len(ts) \in Nat
      BY <1>3, CommitsGrow
    <3> QED
      BY <3>1
  <2>2. db'.events =
           db.events \cup {commits'[Len(commits) + i] : i \in 1..Len(ts)}
    BY <1>3, EventsGrow
  <2>3. \A i \in 1..Len(ts) : Len(commits) + i \in DOMAIN commits'
    BY <2>1
  <2>4. \A i \in DOMAIN commits :
           i \in DOMAIN commits' /\ commits'[i] = commits[i]
    BY <2>1
  <2> QED
    BY <2>2, <2>3, <2>4 DEF Committed
<1>4. \A t \in Nat : \A ts \in Seq(EventTypes \ {Rewound}) :
         AppendStep(t, ts) => Appends(t, ts) /\ ts \in Seq(EventTypes)
  BY DEF AppendStep
<1>5. \A t \in Nat :
         RewoundStep(t) => /\ Appends(t, <<Rewound>>)
                           /\ <<Rewound>> \in Seq(EventTypes)
  BY EventTypesAssumption DEF RewoundStep
<1> QED
  BY <1>1, <1>2, <1>3, <1>4, <1>5, LogSteps

-----------------------------------------------------------------------------
(* The actor implements the cell that handles every request at once.       *)

LEMMA NextRefines ==
    ASSUME IInv, TokenInv, Replayed, AtomInv, [Next]_vars
    PROVE  [Atomic!Next]_(Atomic!vars)
<1>1. CASE UNCHANGED vars \/ Finished
  <2>1. UNCHANGED <<db, mailbox, phase, current, calls, commits, torn>>
    BY <1>1 DEF vars, Finished
  <2>2. ASSUME NEW c \in Clients PROVE View(c)' = View(c)
    <3>1. Handled(c)' <=> Handled(c)
      BY <2>1 DEF Handled
    <3> QED
      BY <2>1, <3>1, ViewStays
  <2>3. Running' = Running /\ Unheard' = Unheard
    BY <2>1 DEF Running, Unheard, Unawaited
  <2> QED
    BY <2>1, <2>2, <2>3, Stutters
<1>2. CASE \E c \in Clients : ClientStep(c)
  BY <1>2, CallRefines, EnqueueRefines, ReturnRefines, AbandonRefines
  DEF ClientStep
<1>3. CASE ActorStep
  BY <1>3, AppendRefines, SetKvRefines, CheckpointRefines, QueryRefines,
     RestoreRefines, RewoundRefines, BroadcastRefines, ReplyRefines,
     StopRefines
  DEF ActorStep
<1>4. CASE HandlesDropped \/ Crash \/ Spawn
  BY <1>4, DropRefines, CrashRefines, SpawnRefines
<1> QED
  BY <1>1, <1>2, <1>3, <1>4 DEF Next

\* Every request has its effect as a whole at one instant between its call and
\* its answer, in one order for all callers, through lost callers, failed
\* transactions, crashes and restarts: unless a restore is cut in two.
THEOREM ActorIsAtomic == Spec => AtomicSpec
<1>1. Init => Atomic!Init /\ TokenInv /\ Replayed /\ AtomInv
  <2> SUFFICES ASSUME Init
               PROVE  Atomic!Init /\ TokenInv /\ Replayed /\ AtomInv
    OBVIOUS
  <2>1. /\ db = EmptyDb /\ mailbox = <<>> /\ phase = "recv"
        /\ current = Idle /\ calls = [c \in Clients |-> NoCall]
        /\ nextToken = 1 /\ commits = <<>> /\ torn = FALSE
    BY DEF Init
  <2>2. ASSUME NEW c \in Clients PROVE View(c) = Atomic!Silent
    BY <2>1, ViewCases DEF Handled, NoCall
  <2>3. Views = [c \in Clients |-> Atomic!Silent]
    BY <2>2 DEF Views
  <2>4. Unheard = {} /\ Running
    BY <2>1 DEF Unheard, Unawaited, Running
  <2>5. Atomic!Init
    BY <2>1, <2>3, <2>4 DEF Atomic!Init, EmptyDb
  <2>6. TokenInv
    BY <2>1 DEF TokenInv, Issued, Seen, Written, CommitTokens, Tokens, InHand,
                Distinct, Unwritten, EmptyDb, NoCall
  <2>7. Replayed
    BY <2>1 DEF EmptyDb, Replayed, LogAfter
  <2>8. AtomInv
    BY <2>1 DEF AtomInv, Midway, HandAnswers, Counted, Committed,
                Atomic!Counter, EmptyDb
  <2> QED
    BY <2>5, <2>6, <2>7, <2>8
<1>2. IInv /\ TokenInv /\ [Next]_vars => TokenInv'
  BY NextTokens
<1>3. IInv /\ Replayed /\ [Next]_vars => Replayed'
  BY NextReplayed
<1>4. IInv /\ AtomInv /\ [Next]_vars => AtomInv'
  BY NextMidway, NextCounted, NextCommitted DEF AtomInv
<1>5. IInv /\ TokenInv /\ Replayed /\ AtomInv /\ [Next]_vars
        => [Atomic!Next]_(Atomic!vars)
  BY NextRefines
<1> QED
  BY <1>1, <1>2, <1>3, <1>4, <1>5, Invariance, PTL
  DEF Spec, AtomicSpec, Atomic!Spec

=============================================================================
