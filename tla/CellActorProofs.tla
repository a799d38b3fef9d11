--------------------------- MODULE CellActorProofs ---------------------------
(***************************************************************************)
(* Proofs about CellActor, for every value of its constants: types, the    *)
(* log below its counter and the replies that find their calls; then what  *)
(* the log, its projection and the bus are by the history of commits, and  *)
(* what a failed request has done.                                         *)
(***************************************************************************)
EXTENDS CellActor, FiniteSetTheorems, TLAPS

USE DEF Running

\* The inductive invariant: the types, the finiteness without which counting
\* the rows of messages means nothing, the log below the counter, and, for the
\* replies to find the calls they answer, that an actor at rest holds none.
Resting ==
    /\ phase \in {"recv", "stopped"} => current = Idle
    /\ phase = "stopped" => mailbox = <<>>

IInv ==
    /\ TypeOK
    /\ Resting
    /\ RepliesMatchCalls
    /\ IsFiniteSet(db.messages)
    /\ LogBelowCounter

-----------------------------------------------------------------------------
(* The transactions of CellDb.                                             *)

\* The records of a batch are a sequence of event rows, numbered from the one
\* after event_sequence on.
LEMMA NewRecordsType ==
    ASSUME NEW d \in Databases, NEW t \in Nat, NEW ts \in Seq(EventTypes)
    PROVE  /\ NewRecords(d, t, ts) \in Seq(EventRecords)
           /\ Range(NewRecords(d, t, ts)) \subseteq EventRecords
           /\ \A e \in Range(NewRecords(d, t, ts)) :
                 /\ e.sequence > d.event_sequence
                 /\ e.sequence <= d.event_sequence + Len(ts)
<1>1. /\ Len(ts) \in Nat
      /\ DOMAIN ts = 1..Len(ts)
      /\ \A i \in DOMAIN ts : ts[i] \in EventTypes
  OBVIOUS
<1>2. d.event_sequence \in Nat
  BY DEF Databases
<1>3. ASSUME NEW i \in DOMAIN ts
      PROVE  /\ NewRecords(d, t, ts)[i] \in EventRecords
             /\ NewRecords(d, t, ts)[i].sequence = d.event_sequence + i
             /\ i \in 1..Len(ts)
  BY <1>1, <1>2, <1>3 DEF NewRecords, EventRecords, Uuids
<1>4. DOMAIN NewRecords(d, t, ts) = 1..Len(ts)
  BY <1>1 DEF NewRecords
<1>5. NewRecords(d, t, ts) \in [1..Len(ts) -> EventRecords]
  BY <1>1, <1>3, <1>4 DEF NewRecords
<1>6. NewRecords(d, t, ts) \in Seq(EventRecords)
  BY <1>1, <1>5
<1>7. ASSUME NEW e \in Range(NewRecords(d, t, ts))
      PROVE  \E i \in DOMAIN ts : e = NewRecords(d, t, ts)[i]
  BY <1>1, <1>4, <1>7 DEF Range
<1> QED
  BY <1>1, <1>2, <1>3, <1>6, <1>7

\* The rows a batch adds to messages are finitely many and well typed.
LEMMA NewMessagesType ==
    ASSUME NEW d \in Databases, NEW t \in Nat, NEW ts \in Seq(EventTypes),
           IsFiniteSet(d.messages)
    PROVE  /\ NewMessages(d, t, ts) \subseteq Messages
           /\ IsFiniteSet(NewMessages(d, t, ts))
<1> DEFINE I == {n \in DOMAIN ts : ts[n] \in MessageTypes}
           J(i) == {j \in 1..i : ts[j] \in MessageTypes}
           f == [i \in I |-> [rowid |-> Cardinality(d.messages)
                                        + Cardinality(J(i)),
                              id    |-> <<t, i>>]]
<1>1. DOMAIN ts = 1..Len(ts) /\ Len(ts) \in Nat
  OBVIOUS
<1>2. IsFiniteSet(I)
  <2>1. IsFiniteSet(1..Len(ts))
    BY <1>1, FS_Interval
  <2> QED
    BY <1>1, <2>1, FS_Subset
<1>3. NewMessages(d, t, ts) = {f[i] : i \in I}
  BY DEF NewMessages
<1>4. IsFiniteSet(NewMessages(d, t, ts))
  <2> HIDE DEF I, f
  <2> DEFINE T == {f[i] : i \in I}
  <2>1. f \in [I -> T]
    BY DEF f
  <2>2. f \in Surjection(I, T)
    BY <2>1 DEF Surjection
  <2> QED
    BY <1>2, <1>3, <2>2, FS_Surjection
<1>5. Cardinality(d.messages) \in Nat
  BY FS_CardinalityType
<1>6. ASSUME NEW i \in I
      PROVE  Cardinality(J(i)) \in Nat
  <2>1. IsFiniteSet(1..i)
    BY <1>1, FS_Interval
  <2>2. IsFiniteSet(J(i))
    BY <2>1, FS_Subset
  <2> QED
    BY <2>2, FS_CardinalityType
<1>7. \A i \in I : f[i] \in Messages
  <2> SUFFICES ASSUME NEW i \in I PROVE f[i] \in Messages
    OBVIOUS
  <2>1. i \in Nat
    BY <1>1
  <2>2. Cardinality(d.messages) + Cardinality(J(i)) \in Nat
    BY <1>5, <1>6
  <2> HIDE DEF J
  <2> QED
    BY <2>1, <2>2 DEF Messages, Uuids
<1> QED
  BY <1>3, <1>4, <1>7

\* d with other contents in the tables that the event log owns.
WithLog(d, s, E, M) ==
    [d EXCEPT !.event_sequence = s, !.events = E, !.messages = M]

\* A database stays one when these tables get other contents of their types.
LEMMA DatabaseUpdate ==
    ASSUME NEW d \in Databases, NEW s \in Nat,
           NEW E \in SUBSET EventRecords, NEW M \in SUBSET Messages
    PROVE  WithLog(d, s, E, M) \in Databases
  BY DEF Databases, WithLog

\* Appending keeps a database a database, with its rows below its counter.
LEMMA AppendEventsType ==
    ASSUME NEW d \in Databases, NEW t \in Nat, NEW ts \in Seq(EventTypes),
           IsFiniteSet(d.messages),
           \A e \in d.events : e.sequence \in 1..d.event_sequence
    PROVE  LET n == AppendEvents(d, t, ts)
           IN  /\ n \in Databases
               /\ IsFiniteSet(n.messages)
               /\ \A e \in n.events : e.sequence \in 1..n.event_sequence
<1> DEFINE n == AppendEvents(d, t, ts)
           R == Range(NewRecords(d, t, ts))
           M == NewMessages(d, t, ts)
<1>1. Len(ts) \in Nat /\ d.event_sequence \in Nat
  BY DEF Databases
<1>2. R \subseteq EventRecords /\ M \subseteq Messages
  BY NewRecordsType, NewMessagesType
<1>3. IsFiniteSet(d.messages \cup M)
  BY NewMessagesType, FS_Union
<1>4. \A e \in R : e.sequence \in 1..(d.event_sequence + Len(ts))
  <2> SUFFICES ASSUME NEW e \in R
               PROVE  e.sequence \in 1..(d.event_sequence + Len(ts))
    OBVIOUS
  <2>1. e.sequence \in Nat
    BY <1>2 DEF EventRecords
  <2> QED
    BY <1>1, <2>1, NewRecordsType
<1>5. /\ n.event_sequence = d.event_sequence + Len(ts)
      /\ n.events = d.events \cup R
      /\ n.messages = d.messages \cup M
  <2> HIDE DEF R, M
  <2> QED
    BY DEF AppendEvents, Databases, R, M
<1>6. n \in Databases
  <2>1. /\ d.event_sequence + Len(ts) \in Nat
        /\ d.events \cup R \in SUBSET EventRecords
        /\ d.messages \cup M \in SUBSET Messages
    BY <1>1, <1>2 DEF Databases
  <2> HIDE DEF R, M
  <2>2. n = WithLog(d, d.event_sequence + Len(ts), d.events \cup R,
                     d.messages \cup M)
    BY DEF AppendEvents, R, M, WithLog
  <2> QED
    BY <2>1, <2>2, DatabaseUpdate
<1>7. \A e \in d.events : e.sequence \in 1..(d.event_sequence + Len(ts))
  BY <1>1
<1> HIDE DEF n, R, M
<1>8. \A e \in n.events : e.sequence \in 1..n.event_sequence
  BY <1>4, <1>5, <1>7
<1> QED
  BY <1>3, <1>5, <1>6, <1>8 DEF n

\* So does truncating it to any sequence number.
LEMMA TruncateType ==
    ASSUME NEW d \in Databases, NEW target \in Nat,
           \A e \in d.events : e.sequence \in 1..d.event_sequence
    PROVE  LET n == Truncate(d, target)
           IN  /\ n \in Databases
               /\ n.messages = d.messages
               /\ \A e \in n.events : e.sequence \in 1..n.event_sequence
<1> DEFINE E == {e \in d.events : e.sequence <= target}
<1>1. E \in SUBSET EventRecords /\ d.messages \in SUBSET Messages
  BY DEF Databases
<1>2. Truncate(d, target) = WithLog(d, target, E, d.messages)
  BY DEF Truncate, Databases, WithLog
<1>3. Truncate(d, target) \in Databases
  <2> HIDE DEF E
  <2> QED
    BY <1>1, <1>2, DatabaseUpdate
<1>4. /\ Truncate(d, target).event_sequence = target
      /\ Truncate(d, target).events = E
      /\ Truncate(d, target).messages = d.messages
  BY DEF Truncate, Databases
<1>5. \A e \in E : e.sequence \in 1..target
  BY DEF Databases, EventRecords
<1> QED
  BY <1>3, <1>4, <1>5

-----------------------------------------------------------------------------
(* The messages.                                                           *)

\* What a request of each kind carries.
LEMMA RequestType ==
    ASSUME NEW r \in Requests
    PROVE  /\ r.token \in Nat
           /\ r.op = "append" => r.types \in Seq(EventTypes)
           /\ r.op = "set_kv" => r.key \in Keys /\ r.value \in Values
           /\ r.op = "get_events" => r.since \in Nat
<1>1. \A q \in Batches : q \in Seq(EventTypes)
  <2> SUFFICES ASSUME NEW q \in Batches PROVE q \in Seq(EventTypes)
    OBVIOUS
  <2>1. q \in Seq(EventTypes \ {Rewound})
    BY BatchesAssumption
  <2> QED
    BY <2>1
<1> QED
  BY <1>1 DEF Requests

\* Every request a client can make is one.
LEMMA OfferedType == TypeOK => Offered \subseteq Requests
<1> SUFFICES ASSUME TypeOK, NEW r \in Offered PROVE r \in Requests
  OBVIOUS
<1>1. /\ nextToken \in Nat
      /\ \A cp \in db.checkpoints : cp.id \in Nat
      /\ \A s \in 0..db.event_sequence : s \in Nat
  BY DEF TypeOK, Databases, Checkpoints
<1> QED
  BY <1>1 DEF Offered, Requests

\* Taking a message off the mailbox: it is a request, and the rest is a
\* mailbox still.
LEMMA MailboxHead ==
    ASSUME TypeOK, mailbox # <<>>
    PROVE  /\ Head(mailbox) \in Mails
           /\ Head(mailbox).request \in Requests
           /\ Head(mailbox).reply \in Clients \cup {Nobody}
           /\ Tail(mailbox) \in Seq(Mails)
           /\ Len(Tail(mailbox)) <= MailboxCap
<1>1. mailbox \in Seq(Mails) /\ Len(mailbox) <= MailboxCap
  BY DEF TypeOK
<1>2. Head(mailbox) \in Mails
  BY <1>1
<1>3. Tail(mailbox) \in Seq(Mails) /\ Len(Tail(mailbox)) = Len(mailbox) - 1
  BY <1>1
<1>4. Len(mailbox) \in Nat /\ MailboxCap \in Nat
  BY <1>1, BoundsAssumption
<1> QED
  BY <1>1, <1>2, <1>3, <1>4 DEF Mails

Currents ==
    [request : Requests \cup {NoRequest}, reply : Clients \cup {Nobody},
     target : Nat, outcome : {"ok", "err"}, rows : SUBSET EventRecords,
     out : Seq(EventRecords)]

\* A call that is under way, or answered and not yet forgotten.
LiveCalls ==
    [fate : Fates \ {"idle"}, request : Requests, asked : Nat,
     rows : SUBSET EventRecords]

\* A call with a fate carries a request, and another fate leaves it a call.
LEMMA LiveCallType ==
    ASSUME NEW k \in CallRecords
    PROVE  /\ k.fate \in Fates
           /\ k.fate # "idle" => k \in LiveCalls /\ k.request \in Requests
           /\ \A f \in Fates \ {"idle"} :
                k.fate # "idle" => [k EXCEPT !.fate = f] \in CallRecords
  BY DEF CallRecords, LiveCalls, NoCall, Fates

\* The idle actor, and the answer that a handler prepares.
LEMMA IdleType == Idle \in Currents
  BY DEF Idle, Currents

LEMMA AnswerType ==
    ASSUME TypeOK, mailbox # <<>>,
           NEW outcome \in {"ok", "err"},
           NEW rows \in SUBSET EventRecords, NEW out \in Seq(EventRecords),
           Answer(outcome, rows, out)
    PROVE  /\ current' \in Currents
           /\ phase' = "answer"
           /\ current'.request = Head(mailbox).request
           /\ current'.reply = Head(mailbox).reply
  BY MailboxHead DEF Answer, Currents

\* Taking a message over from the mailbox keeps every reply with its call.
LEMMA HandlerReplies ==
    ASSUME TypeOK, Resting, RepliesMatchCalls,
           phase = "recv", mailbox # <<>>, mailbox' = Tail(mailbox),
           calls' = calls,
           current'.request = Head(mailbox).request,
           current'.reply = Head(mailbox).reply
    PROVE  RepliesMatchCalls'
<1> SUFFICES ASSUME NEW c \in Clients PROVE OneReply(c)'
  BY DEF RepliesMatchCalls
<1>1. /\ OneReply(c)
      /\ current.reply # c
  BY ClientsAssumption DEF RepliesMatchCalls, Resting, Idle
<1>2. mailbox \in Seq(Mails) /\ Len(mailbox) \in Nat /\ Len(mailbox) > 0
  <2>1. mailbox \in Seq(Mails)
    BY DEF TypeOK
  <2> QED
    BY <2>1
<1>3. /\ Head(mailbox) = mailbox[1]
      /\ DOMAIN mailbox = 1..Len(mailbox)
      /\ DOMAIN mailbox' = 1..(Len(mailbox) - 1)
      /\ \A i \in DOMAIN mailbox' : mailbox'[i] = mailbox[i + 1]
                                  /\ i + 1 \in DOMAIN mailbox
  BY <1>2
<1>4. \A i \in DOMAIN mailbox : i # 1 =>
         i - 1 \in DOMAIN mailbox' /\ mailbox'[i - 1] = mailbox[i]
  BY <1>2, <1>3
<1>5. 1 \in DOMAIN mailbox
  BY <1>2, <1>3
<1>6. calls'[c].fate = "waiting" =>
         \/ current'.reply = c
         \/ \E i \in DOMAIN mailbox' : mailbox'[i].reply = c
  BY <1>1, <1>3, <1>4 DEF OneReply
<1>7. current'.reply = c =>
         /\ calls'[c].fate = "waiting"
         /\ calls'[c].request = current'.request
         /\ \A i \in DOMAIN mailbox' : mailbox'[i].reply # c
  <2> SUFFICES ASSUME current'.reply = c
               PROVE  /\ calls'[c].fate = "waiting"
                      /\ calls'[c].request = current'.request
                      /\ \A i \in DOMAIN mailbox' : mailbox'[i].reply # c
    OBVIOUS
  <2>1. mailbox[1].reply = c
    BY <1>3
  <2>2. \A j \in DOMAIN mailbox : mailbox[j].reply = c => j = 1
    BY <1>1, <1>5, <2>1 DEF OneReply
  <2>3. \A i \in DOMAIN mailbox' : i + 1 # 1
    BY <1>2, <1>3
  <2> QED
    BY <1>1, <1>3, <1>5, <2>1, <2>2, <2>3 DEF OneReply
<1>8. \A i \in DOMAIN mailbox' : mailbox'[i].reply = c =>
         /\ calls'[c].fate = "waiting"
         /\ calls'[c].request = mailbox'[i].request
         /\ \A j \in DOMAIN mailbox' : mailbox'[j].reply = c => j = i
  <2> SUFFICES ASSUME NEW i \in DOMAIN mailbox', mailbox'[i].reply = c
               PROVE  /\ calls'[c].fate = "waiting"
                      /\ calls'[c].request = mailbox'[i].request
                      /\ \A j \in DOMAIN mailbox' : mailbox'[j].reply = c => j = i
    OBVIOUS
  <2>1. mailbox[i + 1].reply = c /\ i + 1 \in DOMAIN mailbox
    BY <1>3
  <2>2. \A j \in DOMAIN mailbox' : mailbox'[j].reply = c => j + 1 = i + 1
    BY <1>1, <1>3, <2>1 DEF OneReply
  <2>3. \A j \in DOMAIN mailbox' : j + 1 = i + 1 => j = i
    BY <1>2, <1>3
  <2> QED
    BY <1>1, <1>3, <2>1, <2>2, <2>3 DEF OneReply
<1> QED
  BY <1>6, <1>7, <1>8 DEF OneReply

-----------------------------------------------------------------------------
(* The inductive invariant, action by action.                              *)

LEMMA InitIInv == Init => IInv
<1> SUFFICES ASSUME Init PROVE IInv
  OBVIOUS
<1>1. EmptyDb \in Databases
  BY DEF EmptyDb, Databases, Statuses
<1>2. calls \in [Clients -> CallRecords]
  BY DEF Init, CallRecords
<1>3. TypeOK
  <2>1. torn \in BOOLEAN
    BY DEF Init
  <2>2. /\ db = EmptyDb /\ mailbox = <<>> /\ phase = "recv"
        /\ current = Idle /\ bus = <<>> /\ nextToken = 1 /\ spawns = 0
        /\ commits = <<>> /\ born = 0
    BY DEF Init
  <2> QED
    BY <1>1, <1>2, <2>1, <2>2, IdleType, BoundsAssumption
    DEF TypeOK, Phases, Currents
<1>4. IsFiniteSet(db.messages) /\ LogBelowCounter
  BY FS_EmptySet DEF Init, EmptyDb, LogBelowCounter
<1>5. Resting /\ RepliesMatchCalls
  BY ClientsAssumption
  DEF Init, Resting, RepliesMatchCalls, OneReply, Idle, NoCall
<1> QED
  BY <1>3, <1>4, <1>5 DEF IInv

\* Callers do not disturb who answers whom.
LEMMA ClientReplies ==
    ASSUME TypeOK, Resting, RepliesMatchCalls,
           NEW c \in Clients, ClientStep(c)
    PROVE  Resting' /\ RepliesMatchCalls'
<1>1. /\ calls \in [Clients -> CallRecords]
      /\ mailbox \in Seq(Mails)
      /\ DOMAIN mailbox = 1..Len(mailbox)
      /\ Len(mailbox) \in Nat
      /\ current \in Currents
  <2>1. mailbox \in Seq(Mails)
    BY DEF TypeOK
  <2> QED
    BY <2>1 DEF TypeOK, Currents
<1>2. \A x \in Clients : OneReply(x)
  BY DEF RepliesMatchCalls
<1>3. ASSUME calls[c].fate # "waiting"
      PROVE  /\ current.reply # c
             /\ \A i \in DOMAIN mailbox : mailbox[i].reply # c
  BY <1>2, <1>3 DEF OneReply
<1>4. CASE Call(c)
  <2>1. /\ calls[c].fate = "idle"
        /\ UNCHANGED <<mailbox, phase, current>>
        /\ calls'[c].fate # "waiting"
        /\ \A x \in Clients \ {c} : calls'[x] = calls[x]
    BY <1>1, <1>4 DEF Call
  <2>2. \A x \in Clients : OneReply(x)'
    BY <1>2, <1>3, <2>1 DEF OneReply
  <2> QED
    BY <2>1, <2>2 DEF Resting, RepliesMatchCalls
<1>5. CASE Return(c)
  <2>1. /\ calls[c].fate # "waiting"
        /\ UNCHANGED <<mailbox, phase, current>>
        /\ calls'[c].fate # "waiting"
        /\ \A x \in Clients \ {c} : calls'[x] = calls[x]
    BY <1>1, <1>5 DEF Return, NoCall
  <2>2. \A x \in Clients : OneReply(x)'
    BY <1>2, <1>3, <2>1 DEF OneReply
  <2> QED
    BY <2>1, <2>2 DEF Resting, RepliesMatchCalls
<1>6. CASE Enqueue(c)
  <2> DEFINE fence == calls[c].request.op = "fence"
             reply == IF fence THEN Nobody ELSE c
             m == [request |-> calls[c].request, reply |-> reply]
  <2>1. /\ phase # "stopped" /\ UNCHANGED <<phase, current>>
        /\ calls[c].fate = "sending"
        /\ mailbox' = Append(mailbox, m)
    BY <1>6 DEF Enqueue
  <2>2. calls[c] \in LiveCalls
    BY <1>1, <2>1, LiveCallType
  <2>3. /\ calls'[c].fate = IF fence THEN "ok" ELSE "waiting"
        /\ calls'[c].request = calls[c].request
        /\ \A x \in Clients \ {c} : calls'[x] = calls[x]
    <3>1. calls' = [calls EXCEPT ![c].fate = IF fence THEN "ok" ELSE "waiting"]
      BY <1>6 DEF Enqueue
    <3> QED
      BY <1>1, <2>2, <3>1 DEF LiveCalls
  <2>4. /\ DOMAIN mailbox' = 1..(Len(mailbox) + 1)
        /\ \A i \in DOMAIN mailbox : i # Len(mailbox) + 1 /\ mailbox'[i] = mailbox[i]
        /\ mailbox'[Len(mailbox) + 1] = m
        /\ DOMAIN mailbox' = DOMAIN mailbox \cup {Len(mailbox) + 1}
        /\ m.reply = reply /\ m.request = calls[c].request
    <3>1. m.reply = reply /\ m.request = calls[c].request
      OBVIOUS
    <3> HIDE DEF m
    <3> QED
      BY <1>1, <2>1, <3>1
  <2>5. OneReply(c)'
    <3> HIDE DEF m, fence
    <3> QED
      BY <1>3, <2>1, <2>3, <2>4, ClientsAssumption DEF OneReply
  <2>6. \A x \in Clients \ {c} : OneReply(x)'
    <3> SUFFICES ASSUME NEW x \in Clients, x # c PROVE OneReply(x)'
      OBVIOUS
    <3>1. OneReply(x) /\ reply # x
      BY <1>2, ClientsAssumption
    <3> HIDE DEF m, fence, reply
    <3> QED
      BY <1>1, <2>1, <2>3, <2>4, <3>1 DEF OneReply
  <2> QED
    BY <2>1, <2>5, <2>6 DEF Resting, RepliesMatchCalls
<1>7. CASE Abandon(c)
  <2>1. /\ phase' = phase
        /\ calls'[c].fate = "idle"
        /\ \A x \in Clients \ {c} : calls'[x] = calls[x]
    BY <1>1, <1>7 DEF Abandon, NoCall
  <2>2. /\ DOMAIN mailbox' = DOMAIN mailbox
        /\ \A i \in DOMAIN mailbox :
              /\ mailbox'[i].request = mailbox[i].request
              /\ mailbox'[i].reply = IF mailbox[i].reply = c THEN Nobody
                                     ELSE mailbox[i].reply
    <3>1. mailbox' = [i \in DOMAIN mailbox |->
             IF mailbox[i].reply = c THEN [mailbox[i] EXCEPT !.reply = Nobody]
             ELSE mailbox[i]]
      BY <1>7 DEF Abandon
    <3>2. \A i \in DOMAIN mailbox : mailbox[i] \in Mails
      BY <1>1
    <3>3. \A k \in Mails :
             /\ [k EXCEPT !.reply = Nobody].reply = Nobody
             /\ [k EXCEPT !.reply = Nobody].request = k.request
      BY DEF Mails
    <3> QED
      BY <3>1, <3>2, <3>3
  <2>3. /\ current'.request = current.request
        /\ current'.reply = IF current.reply = c THEN Nobody ELSE current.reply
        /\ current.reply # c => current' = current
    BY <1>1, <1>7 DEF Abandon, Currents
  <2>4. \A x \in Clients : OneReply(x)'
    <3>1. OneReply(c)'
      BY <2>1, <2>2, <2>3, ClientsAssumption DEF OneReply
    <3>2. ASSUME NEW x \in Clients, x # c PROVE OneReply(x)'
      BY <1>2, <2>1, <2>2, <2>3, <3>2, ClientsAssumption DEF OneReply
    <3> QED
      BY <3>1, <3>2
  <2>5. Resting'
    <3>1. mailbox = <<>> => mailbox' = <<>>
      BY <1>1, <1>7 DEF Abandon
    <3>2. current = Idle => current' = Idle
      BY <2>3, ClientsAssumption DEF Idle
    <3> QED
      BY <2>1, <3>1, <3>2 DEF Resting
  <2> QED
    BY <2>4, <2>5 DEF RepliesMatchCalls
<1> QED
  BY <1>4, <1>5, <1>6, <1>7 DEF ClientStep

\* What a caller does touches neither the database nor its history.
LEMMA ClientIInv ==
    ASSUME IInv, NEW c \in Clients, ClientStep(c)
    PROVE  IInv'
<1> USE DEF IInv
<1>1. UNCHANGED <<db, phase, bus, spawns, commits, born, torn>>
  BY DEF ClientStep, Call, Enqueue, Return, Abandon
<1>2. IsFiniteSet(db'.messages) /\ LogBelowCounter'
  BY <1>1 DEF LogBelowCounter
<1>3. /\ calls' \in [Clients -> CallRecords]
      /\ mailbox' \in Seq(Mails)
      /\ Len(mailbox') <= MailboxCap
      /\ current' \in Currents
      /\ nextToken' \in Nat
  <2>1. /\ calls \in [Clients -> CallRecords]
        /\ mailbox \in Seq(Mails)
        /\ Len(mailbox) <= MailboxCap
        /\ current \in Currents
        /\ nextToken \in Nat
        /\ commits \in Seq(EventRecords)
    BY DEF TypeOK, Currents
  <2>2. CASE Call(c)
    <3>1. PICK r \in Offered :
             calls' = [calls EXCEPT ![c] =
                [fate    |-> IF Running THEN "sending"
                             ELSE IF r.op \in {"fence", "shutdown"} THEN "ok"
                             ELSE "err",
                 request |-> r, asked |-> Len(commits), rows |-> {}]]
      BY <2>2 DEF Call
    <3>2. r \in Requests
      BY OfferedType
    <3>3. Len(commits) \in Nat
      BY <2>1
    <3> QED
      BY <2>1, <2>2, <3>1, <3>2, <3>3 DEF Call, CallRecords, Fates
  <2>3. CASE Enqueue(c)
    <3> DEFINE fence == calls[c].request.op = "fence"
               m == [request |-> calls[c].request,
                     reply   |-> IF fence THEN Nobody ELSE c]
    <3>1. /\ calls[c].request \in Requests
          /\ \A f \in {"ok", "waiting"} :
                [calls[c] EXCEPT !.fate = f] \in CallRecords
      BY <2>1, <2>3, LiveCallType DEF Enqueue, Fates
    <3>2. m \in Mails
      BY <3>1 DEF Mails
    <3>3. mailbox' = Append(mailbox, m)
      BY <2>3 DEF Enqueue
    <3>4. mailbox' \in Seq(Mails) /\ Len(mailbox') = Len(mailbox) + 1
      <4> HIDE DEF m
      <4> QED
        BY <2>1, <3>2, <3>3
    <3>5. Len(mailbox') <= MailboxCap
      BY <2>1, <2>3, <3>4, BoundsAssumption, Len(mailbox) \in Nat DEF Enqueue
    <3>6. calls' \in [Clients -> CallRecords]
      <4>1. \E f \in {"ok", "waiting"} :
               calls' = [calls EXCEPT ![c] = [calls[c] EXCEPT !.fate = f]]
        BY <2>3 DEF Enqueue
      <4> QED
        BY <2>1, <3>1, <4>1
    <3> QED
      BY <2>1, <2>3, <3>4, <3>5, <3>6 DEF Enqueue
  <2>4. CASE Return(c)
    BY <2>1, <2>4 DEF Return, CallRecords
  <2>5. CASE Abandon(c)
    <3> DEFINE f(i) == IF mailbox[i].reply = c
                       THEN [mailbox[i] EXCEPT !.reply = Nobody]
                       ELSE mailbox[i]
    <3>1. \A i \in DOMAIN mailbox : f(i) \in Mails
      <4> SUFFICES ASSUME NEW i \in DOMAIN mailbox PROVE f(i) \in Mails
        OBVIOUS
      <4>1. mailbox[i] \in Mails
        BY <2>1
      <4>2. [mailbox[i] EXCEPT !.reply = Nobody] \in Mails
        BY <4>1 DEF Mails
      <4> QED
        BY <4>1, <4>2
    <3>2. mailbox' = [i \in 1..Len(mailbox) |-> f(i)]
      BY <2>1, <2>5 DEF Abandon
    <3>3. mailbox' \in Seq(Mails) /\ Len(mailbox') = Len(mailbox)
      <4> HIDE DEF f
      <4>1. DOMAIN mailbox = 1..Len(mailbox) /\ Len(mailbox) \in Nat
        BY <2>1
      <4>2. mailbox' \in [1..Len(mailbox) -> Mails]
        BY <3>1, <3>2, <4>1
      <4> QED
        BY <4>1, <4>2
    <3>4. current' \in Currents
      BY <2>1, <2>5 DEF Abandon, Currents
    <3>5. calls' \in [Clients -> CallRecords]
      BY <2>1, <2>5 DEF Abandon, CallRecords
    <3> QED
      BY <2>1, <2>5, <3>3, <3>4, <3>5 DEF Abandon
  <2> QED
    BY <2>2, <2>3, <2>4, <2>5 DEF ClientStep
<1>4. Resting' /\ RepliesMatchCalls'
  BY ClientReplies
<1>5. TypeOK'
  <2>1. phase' = "rewind" => current'.request \in Requests
    BY <1>1 DEF TypeOK, ClientStep, Call, Enqueue, Return, Abandon
  <2> QED
    BY <1>1, <1>3, <2>1 DEF TypeOK, Currents
<1> QED
  BY <1>2, <1>4, <1>5

\* Where a handler only computes and answers, the rest of IInv stays.
LEMMA HandlerIInv ==
    ASSUME IInv, UNCHANGED <<bus, calls, nextToken, spawns, born, torn>>,
           phase = "recv", mailbox # <<>>, mailbox' = Tail(mailbox),
           db' \in Databases, IsFiniteSet(db'.messages), LogBelowCounter',
           commits' \in Seq(EventRecords),
           phase' \in {"answer", "rewind"}, current' \in Currents,
           current'.request = Head(mailbox).request,
           current'.reply = Head(mailbox).reply
    PROVE  IInv'
<1>1. /\ mailbox' \in Seq(Mails) /\ Len(mailbox') <= MailboxCap
      /\ Head(mailbox).request \in Requests
  BY MailboxHead DEF IInv
<1>2. TypeOK'
  BY <1>1 DEF IInv, TypeOK, Currents, Phases
<1>3. RepliesMatchCalls'
  BY HandlerReplies DEF IInv
<1>4. Resting'
  BY DEF Resting
<1> QED
  BY <1>2, <1>3, <1>4 DEF IInv

\* A failed transaction changes nothing of it.
LEMMA FailIInv ==
    ASSUME IInv, UNCHANGED <<bus, calls, nextToken, spawns, born, torn>>,
           phase = "recv", mailbox # <<>>, mailbox' = Tail(mailbox), Fail
    PROVE  IInv'
<1>1. /\ current' \in Currents
      /\ phase' = "answer"
      /\ current'.request = Head(mailbox).request
      /\ current'.reply = Head(mailbox).reply
  BY AnswerType, {} \in SUBSET EventRecords, <<>> \in Seq(EventRecords)
  DEF Fail, IInv
<1>2. /\ db' \in Databases
      /\ IsFiniteSet(db'.messages)
      /\ commits' \in Seq(EventRecords)
      /\ LogBelowCounter'
  BY DEF Fail, IInv, TypeOK, LogBelowCounter
<1> QED
  BY <1>1, <1>2, HandlerIInv

LEMMA AppendIInv == ASSUME IInv, ExecAppend PROVE IInv'
<1> DEFINE r == Head(mailbox).request
           records == NewRecords(db, r.token, r.types)
<1>1. /\ phase = "recv"
      /\ mailbox # <<>>
      /\ mailbox' = Tail(mailbox)
      /\ UNCHANGED <<bus, calls, nextToken, spawns, born, torn>>
  BY DEF ExecAppend, Receive
<1>2. r.token \in Nat /\ r.types \in Seq(EventTypes)
  BY <1>1, MailboxHead, RequestType DEF ExecAppend, Receive, IInv
<1>3. db \in Databases /\ IsFiniteSet(db.messages) /\ commits \in Seq(EventRecords)
  BY DEF IInv, TypeOK
<1>4. CASE /\ db' = AppendEvents(db, r.token, r.types)
           /\ commits' = commits \o records
           /\ Answer("ok", Range(records), records)
  <2>1. /\ db' \in Databases
        /\ IsFiniteSet(db'.messages)
        /\ LogBelowCounter'
    BY <1>2, <1>3, <1>4, AppendEventsType DEF IInv, LogBelowCounter
  <2>2. records \in Seq(EventRecords) /\ Range(records) \subseteq EventRecords
    BY <1>2, <1>3, NewRecordsType
  <2>3. commits' \in Seq(EventRecords)
    BY <1>3, <1>4, <2>2
  <2>4. /\ current' \in Currents
        /\ phase' = "answer"
        /\ current'.request = Head(mailbox).request
        /\ current'.reply = Head(mailbox).reply
    BY <1>1, <1>4, <2>2, AnswerType DEF IInv
  <2> QED
    BY <1>1, <2>1, <2>3, <2>4, HandlerIInv
<1>5. CASE Fail
  BY <1>1, <1>5, FailIInv
<1> QED
  BY <1>4, <1>5 DEF ExecAppend

LEMMA SetKvIInv == ASSUME IInv, ExecSetKv PROVE IInv'
<1> DEFINE r == Head(mailbox).request
<1>1. /\ phase = "recv"
      /\ mailbox # <<>>
      /\ mailbox' = Tail(mailbox)
      /\ UNCHANGED <<bus, calls, nextToken, spawns, born, torn>>
  BY DEF ExecSetKv, Receive
<1>2. r.key \in Keys /\ r.value \in Values
  BY <1>1, MailboxHead, RequestType DEF ExecSetKv, Receive, IInv
<1>3. CASE db' = SetKv(db, r.key, r.value) /\ Answer("ok", {}, <<>>)
           /\ UNCHANGED commits
  <2>1. db \in Databases /\ commits \in Seq(EventRecords)
    BY DEF IInv, TypeOK
  <2>2. /\ db' \in Databases
        /\ db'.messages = db.messages
        /\ db'.events = db.events
        /\ db'.event_sequence = db.event_sequence
    BY <1>2, <1>3, <2>1 DEF SetKv, Databases
  <2>3. /\ current' \in Currents
        /\ phase' = "answer"
        /\ current'.request = Head(mailbox).request
        /\ current'.reply = Head(mailbox).reply
    BY <1>1, <1>3, AnswerType, {} \in SUBSET EventRecords,
       <<>> \in Seq(EventRecords) DEF IInv
  <2>4. IsFiniteSet(db'.messages) /\ LogBelowCounter'
    BY <2>2 DEF IInv, LogBelowCounter
  <2> QED
    BY <1>1, <1>3, <2>1, <2>2, <2>3, <2>4, HandlerIInv
<1>4. CASE Fail
  BY <1>1, <1>4, FailIInv
<1> QED
  BY <1>3, <1>4 DEF ExecSetKv

LEMMA CheckpointIInv == ASSUME IInv, ExecCheckpoint PROVE IInv'
<1> DEFINE r == Head(mailbox).request
<1>1. /\ phase = "recv"
      /\ mailbox # <<>>
      /\ mailbox' = Tail(mailbox)
      /\ UNCHANGED <<bus, calls, nextToken, spawns, born, torn>>
  BY DEF ExecCheckpoint, Receive
<1>2. r.token \in Nat
  BY <1>1, MailboxHead, RequestType DEF IInv
<1>3. CASE db' = CreateCheckpoint(db, r.token) /\ Answer("ok", {}, <<>>)
           /\ UNCHANGED commits
  <2>1. db \in Databases /\ commits \in Seq(EventRecords)
    BY DEF IInv, TypeOK
  <2>2. /\ db' \in Databases
        /\ db'.messages = db.messages
        /\ db'.events = db.events
        /\ db'.event_sequence = db.event_sequence
    BY <1>2, <1>3, <2>1 DEF CreateCheckpoint, Databases, Checkpoints
  <2>3. /\ current' \in Currents
        /\ phase' = "answer"
        /\ current'.request = Head(mailbox).request
        /\ current'.reply = Head(mailbox).reply
    BY <1>1, <1>3, AnswerType, {} \in SUBSET EventRecords,
       <<>> \in Seq(EventRecords) DEF IInv
  <2>4. IsFiniteSet(db'.messages) /\ LogBelowCounter'
    BY <2>2 DEF IInv, LogBelowCounter
  <2> QED
    BY <1>1, <1>3, <2>1, <2>2, <2>3, <2>4, HandlerIInv
<1>4. CASE Fail
  BY <1>1, <1>4, FailIInv
<1> QED
  BY <1>3, <1>4 DEF ExecCheckpoint

LEMMA QueryIInv == ASSUME IInv, ExecQuery PROVE IInv'
<1> DEFINE rows == GetEvents(db, Head(mailbox).request.since, HistoryLimit)
<1>1. /\ phase = "recv"
      /\ mailbox # <<>>
      /\ mailbox' = Tail(mailbox)
      /\ UNCHANGED <<bus, calls, nextToken, spawns, born, torn>>
  BY DEF ExecQuery, Receive
<1>2. db \in Databases /\ commits \in Seq(EventRecords)
  BY DEF IInv, TypeOK
<1>3. rows \in SUBSET EventRecords
  BY <1>2 DEF GetEvents, EventsAfter, Databases
<1>4. CASE Answer("ok", rows, <<>>) /\ UNCHANGED <<db, commits>>
  <2>1. /\ current' \in Currents
        /\ phase' = "answer"
        /\ current'.request = Head(mailbox).request
        /\ current'.reply = Head(mailbox).reply
    <3> HIDE DEF rows
    <3> QED
      BY <1>1, <1>3, <1>4, AnswerType, <<>> \in Seq(EventRecords) DEF IInv
  <2>2. /\ db' \in Databases
        /\ commits' \in Seq(EventRecords)
        /\ IsFiniteSet(db'.messages)
        /\ LogBelowCounter'
    BY <1>2, <1>4 DEF IInv, LogBelowCounter
  <2> QED
    BY <1>1, <2>1, <2>2, HandlerIInv
<1>5. CASE Fail
  BY <1>1, <1>5, FailIInv
<1> QED
  BY <1>4, <1>5 DEF ExecQuery

LEMMA RestoreIInv == ASSUME IInv, ExecRestore PROVE IInv'
<1> DEFINE r == Head(mailbox).request
<1>1. /\ phase = "recv"
      /\ mailbox # <<>>
      /\ mailbox' = Tail(mailbox)
      /\ UNCHANGED <<bus, calls, nextToken, spawns, born, torn>>
  BY DEF ExecRestore, Receive
<1>2. /\ r \in Requests
      /\ Head(mailbox).reply \in Clients \cup {Nobody}
  BY <1>1, MailboxHead DEF IInv
<1>3. ASSUME NEW cp \in db.checkpoints,
             db' = Truncate(db, cp.sequence),
             phase' = "rewind",
             current' = [Idle EXCEPT !.request = r,
                                     !.reply   = Head(mailbox).reply,
                                     !.target  = cp.sequence],
             UNCHANGED commits
      PROVE  IInv'
  <2>1. db \in Databases /\ commits \in Seq(EventRecords)
    BY DEF IInv, TypeOK
  <2>2. cp.sequence \in Nat
    BY <2>1 DEF Databases, Checkpoints
  <2>3. /\ db' \in Databases
        /\ db'.messages = db.messages
        /\ LogBelowCounter'
    BY <1>3, <2>1, <2>2, TruncateType DEF IInv, LogBelowCounter
  <2>4. /\ current' \in Currents
        /\ current'.request = r
        /\ current'.reply = Head(mailbox).reply
    BY <1>2, <1>3, <2>2, IdleType DEF Currents
  <2> QED
    BY <1>1, <1>3, <2>1, <2>3, <2>4, HandlerIInv DEF IInv
<1>4. CASE Fail
  BY <1>1, <1>4, FailIInv
<1> QED
  BY <1>3, <1>4 DEF ExecRestore

\* What the actor does between taking a message and replying leaves its
\* request and its reply channel alone.
LEMMA MidwayReplies ==
    ASSUME Resting, RepliesMatchCalls, UNCHANGED <<mailbox, calls>>,
           current'.request = current.request, current'.reply = current.reply,
           phase' = "answer"
    PROVE  Resting' /\ RepliesMatchCalls'
  BY DEF Resting, RepliesMatchCalls, OneReply

LEMMA RewoundIInv == ASSUME IInv, AppendRewound PROVE IInv'
<1> DEFINE t == current.request.token
           records == NewRecords(db, t, <<Rewound>>)
<1>1. /\ phase = "rewind" /\ phase' = "answer"
      /\ UNCHANGED <<mailbox, bus, calls, nextToken, spawns, born>>
      /\ torn' \in BOOLEAN
  BY DEF AppendRewound, IInv, TypeOK
<1>2. t \in Nat
  <2>1. current.request \in Requests
    BY <1>1 DEF IInv, TypeOK
  <2> QED
    BY <2>1, RequestType
<1>3. <<Rewound>> \in Seq(EventTypes)
  BY EventTypesAssumption
<1>4. /\ db \in Databases /\ IsFiniteSet(db.messages)
      /\ commits \in Seq(EventRecords) /\ current \in Currents
  BY DEF IInv, TypeOK, Currents
<1>5. Resting' /\ RepliesMatchCalls'
  <2>1. /\ current'.request = current.request
        /\ current'.reply = current.reply
    BY <1>4 DEF AppendRewound, Currents
  <2> QED
    BY <1>1, <2>1, MidwayReplies DEF IInv
<1>6. CASE /\ db' = AppendEvents(db, t, <<Rewound>>)
           /\ commits' = commits \o records
           /\ current' = [current EXCEPT !.rows = Range(records)]
  <2>1. /\ db' \in Databases
        /\ IsFiniteSet(db'.messages)
        /\ LogBelowCounter'
    BY <1>2, <1>3, <1>4, <1>6, AppendEventsType DEF IInv, LogBelowCounter
  <2>2. records \in Seq(EventRecords) /\ Range(records) \subseteq EventRecords
    BY <1>2, <1>3, <1>4, NewRecordsType
  <2> HIDE DEF records
  <2>3. commits' \in Seq(EventRecords) /\ current' \in Currents
    BY <1>4, <1>6, <2>2 DEF Currents
  <2>4. TypeOK'
    BY <1>1, <2>1, <2>3 DEF IInv, TypeOK, Currents, Phases
  <2> QED
    BY <1>5, <2>1, <2>4 DEF IInv
<1>7. CASE current' = [current EXCEPT !.outcome = "err"]
           /\ UNCHANGED <<db, commits>>
  <2>1. current' \in Currents
    BY <1>4, <1>7 DEF Currents
  <2>2. TypeOK'
    BY <1>1, <1>7, <2>1 DEF IInv, TypeOK, Currents, Phases
  <2> QED
    BY <1>5, <1>7, <2>2 DEF IInv, LogBelowCounter
<1> QED
  BY <1>6, <1>7 DEF AppendRewound

LEMMA BroadcastIInv == ASSUME IInv, Broadcast PROVE IInv'
<1>1. /\ phase = "answer"
      /\ UNCHANGED <<db, mailbox, phase, calls, nextToken, spawns, commits,
                     born, torn>>
  BY DEF Broadcast
<1>2. /\ bus \in Seq(EventRecords) /\ current \in Currents
      /\ current.out \in Seq(EventRecords) /\ current.out # <<>>
  BY DEF Broadcast, IInv, TypeOK, Currents
<1>3. Head(current.out) \in EventRecords /\ Tail(current.out) \in Seq(EventRecords)
  BY <1>2
<1>4. /\ bus' \in Seq(EventRecords)
      /\ current' \in Currents
      /\ current'.request = current.request
      /\ current'.reply = current.reply
  <2> DEFINE tail == Tail(current.out)
  <2>1. bus' \in Seq(EventRecords)
    BY <1>2, <1>3 DEF Broadcast
  <2>2. current' = [current EXCEPT !.out = tail] /\ tail \in Seq(EventRecords)
    BY <1>3 DEF Broadcast
  <2> HIDE DEF tail
  <2> QED
    BY <1>2, <2>1, <2>2 DEF Currents
<1>5. TypeOK'
  BY <1>1, <1>4 DEF IInv, TypeOK, Currents
<1>6. Resting' /\ RepliesMatchCalls'
  BY <1>1, <1>4, MidwayReplies DEF IInv
<1> QED
  BY <1>1, <1>5, <1>6 DEF IInv, LogBelowCounter

LEMMA ReplyIInv == ASSUME IInv, Reply PROVE IInv'
<1>1. /\ UNCHANGED <<db, mailbox, bus, nextToken, spawns, commits, born, torn>>
      /\ phase = "answer" /\ phase' = "recv" /\ current' = Idle
  BY DEF Reply
<1>2. calls \in [Clients -> CallRecords] /\ current \in Currents
  BY DEF IInv, TypeOK, Currents
<1>3. \A c \in Clients : OneReply(c)
  BY DEF IInv, RepliesMatchCalls
<1>4. calls' \in [Clients -> CallRecords]
  <2> SUFFICES ASSUME NEW c \in Clients, current.reply = c
               PROVE  [calls[c] EXCEPT !.fate = current.outcome,
                                       !.rows = current.rows] \in CallRecords
    BY <1>2 DEF Reply
  <2>1. calls[c] \in LiveCalls
    BY <1>2, <1>3, LiveCallType DEF OneReply
  <2>2. current.outcome \in {"ok", "err"} /\ current.rows \in SUBSET EventRecords
    BY <1>2 DEF Currents
  <2> QED
    BY <2>1, <2>2 DEF LiveCalls, CallRecords, Fates
<1>5. TypeOK'
  BY <1>1, <1>4, IdleType DEF IInv, TypeOK, Currents, Phases
<1>6. \A c \in Clients : OneReply(c)'
  <2> SUFFICES ASSUME NEW c \in Clients PROVE OneReply(c)'
    OBVIOUS
  <2>1. current'.reply # c
    BY <1>1, ClientsAssumption DEF Idle
  <2>2. CASE current.reply = c
    <3>1. \A i \in DOMAIN mailbox : mailbox[i].reply # c
      BY <1>3, <2>2 DEF OneReply
    <3>2. calls'[c].fate # "waiting"
      <4>1. calls'[c] = [calls[c] EXCEPT !.fate = current.outcome,
                                         !.rows = current.rows]
        BY <2>2 DEF Reply
      <4>2. calls[c] \in LiveCalls
        BY <1>2, <1>3, <2>2, LiveCallType DEF OneReply
      <4>3. current.outcome # "waiting"
        BY <1>2 DEF Currents
      <4> QED
        BY <4>1, <4>2, <4>3 DEF LiveCalls
    <3> QED
      BY <1>1, <2>1, <3>1, <3>2 DEF OneReply
  <2>3. CASE current.reply # c
    <3>1. calls'[c] = calls[c]
      BY <2>3 DEF Reply
    <3> QED
      BY <1>1, <1>3, <2>1, <2>3, <3>1 DEF OneReply
  <2> QED
    BY <2>2, <2>3
<1>7. Resting'
  BY <1>1 DEF Resting
<1> QED
  BY <1>1, <1>5, <1>6, <1>7 DEF IInv, RepliesMatchCalls, LogBelowCounter

\* When the thread ends, nobody may be left waiting.
LEMMA ThreadEndsIInv ==
    ASSUME IInv, ThreadEnds, calls' \in [Clients -> CallRecords],
           \A c \in Clients : calls'[c].fate # "waiting",
           db' \in Databases, IsFiniteSet(db'.messages), LogBelowCounter',
           torn' \in BOOLEAN
    PROVE  IInv'
<1>1. /\ phase' = "stopped" /\ mailbox' = <<>> /\ current' = Idle
      /\ UNCHANGED <<bus, nextToken, spawns, commits, born>>
  BY DEF ThreadEnds
<1>2. mailbox' \in Seq(Mails) /\ Len(mailbox') <= MailboxCap
  BY <1>1, BoundsAssumption
<1>3. TypeOK'
  BY <1>1, <1>2, IdleType DEF IInv, TypeOK, Currents, Phases
<1>4. Resting'
  BY <1>1 DEF Resting
<1>5. RepliesMatchCalls'
  BY <1>1, ClientsAssumption DEF RepliesMatchCalls, OneReply, Idle
<1> QED
  BY <1>3, <1>4, <1>5 DEF IInv

LEMMA StopIInv == ASSUME IInv, ExecStop PROVE IInv'
<1>1. db \in Databases /\ calls \in [Clients -> CallRecords]
  BY DEF IInv, TypeOK
<1>2. /\ db' \in Databases
      /\ db'.messages = db.messages
      /\ db'.events = db.events
      /\ db'.event_sequence = db.event_sequence
  <2>1. CASE db' = UpdateStatus(db, "suspended")
    BY <1>1, <2>1 DEF UpdateStatus, Databases, Statuses
  <2> QED
    BY <1>1, <2>1 DEF ExecStop
<1>3. IsFiniteSet(db'.messages) /\ LogBelowCounter'
  BY <1>2 DEF IInv, LogBelowCounter
<1>4. ASSUME NEW c \in Clients
      PROVE  calls'[c] \in CallRecords /\ calls'[c].fate # "waiting"
  <2>1. calls' = Orphaned /\ calls[c] \in CallRecords
    BY <1>1 DEF ExecStop
  <2>2. CASE calls[c].fate \notin {"sending", "waiting"}
    BY <2>1, <2>2 DEF Orphaned
  <2>3. CASE calls[c].fate \in {"sending", "waiting"}
    <3>1. calls[c] \in LiveCalls
      BY <2>1, <2>3, LiveCallType
    <3>2. PICK f \in {"ok", "err"} : calls'[c] = [calls[c] EXCEPT !.fate = f]
      BY <2>1, <2>3 DEF Orphaned
    <3>3. f \in Fates \ {"idle"}
      BY DEF Fates
    <3>4. calls'[c] \in CallRecords
      BY <2>1, <2>3, <3>2, <3>3, LiveCallType
    <3> QED
      BY <3>1, <3>2, <3>4 DEF LiveCalls
  <2> QED
    BY <2>2, <2>3
<1>5. /\ ThreadEnds /\ calls' \in [Clients -> CallRecords]
      /\ torn' \in BOOLEAN
  BY <1>4 DEF ExecStop, Orphaned, IInv, TypeOK
<1> QED
  BY <1>2, <1>3, <1>4, <1>5, ThreadEndsIInv

LEMMA HandlesDroppedIInv == ASSUME IInv, HandlesDropped PROVE IInv'
<1>1. /\ ThreadEnds /\ UNCHANGED <<db, calls>>
      /\ \A c \in Clients : calls'[c].fate # "waiting"
  BY DEF HandlesDropped
<1>2. /\ db' \in Databases /\ IsFiniteSet(db'.messages) /\ LogBelowCounter'
      /\ calls' \in [Clients -> CallRecords]
      /\ torn' \in BOOLEAN
  BY <1>1 DEF HandlesDropped, IInv, TypeOK, LogBelowCounter
<1> QED
  BY <1>1, <1>2, ThreadEndsIInv

LEMMA CrashIInv == ASSUME IInv, Crash PROVE IInv'
<1>1. calls \in [Clients -> CallRecords]
  BY DEF IInv, TypeOK
<1>2. ASSUME NEW c \in Clients
      PROVE  calls'[c] \in CallRecords /\ calls'[c].fate # "waiting"
  <2>1. calls[c] \in CallRecords
    BY <1>1
  <2>2. CASE calls[c].fate \notin {"sending", "waiting"}
    BY <2>1, <2>2 DEF Crash
  <2>3. CASE calls[c].fate \in {"sending", "waiting"}
    <3>1. calls[c] \in LiveCalls
      BY <2>1, <2>3, LiveCallType
    <3>2. calls'[c] = [calls[c] EXCEPT !.fate = "lost"]
      BY <2>3 DEF Crash
    <3>3. "lost" \in Fates \ {"idle"}
      BY DEF Fates
    <3>4. calls'[c] \in CallRecords
      BY <2>1, <2>3, <3>2, <3>3, LiveCallType
    <3> QED
      BY <3>1, <3>2, <3>4 DEF LiveCalls
  <2> QED
    BY <2>2, <2>3
<1>3. /\ ThreadEnds /\ UNCHANGED db /\ calls' \in [Clients -> CallRecords]
      /\ torn' \in BOOLEAN
  BY <1>2 DEF Crash, IInv, TypeOK
<1>4. db' \in Databases /\ IsFiniteSet(db'.messages) /\ LogBelowCounter'
  BY <1>3 DEF IInv, TypeOK, LogBelowCounter
<1> QED
  BY <1>2, <1>3, <1>4, ThreadEndsIInv

LEMMA SpawnIInv == ASSUME IInv, Spawn PROVE IInv'
<1>1. /\ phase = "stopped" /\ phase' = "recv" /\ bus' = <<>>
      /\ born' = Len(commits) /\ spawns' = spawns + 1
      /\ UNCHANGED <<db, mailbox, current, calls, nextToken, commits, torn>>
  BY DEF Spawn
<1>2. /\ commits \in Seq(EventRecords)
      /\ spawns \in Nat
  BY DEF IInv, TypeOK
<1>3. TypeOK'
  BY <1>1, <1>2 DEF IInv, TypeOK, Phases
<1>4. Resting' /\ RepliesMatchCalls'
  BY <1>1 DEF IInv, Resting, RepliesMatchCalls, OneReply
<1> QED
  BY <1>1, <1>3, <1>4 DEF IInv, LogBelowCounter

LEMMA NextIInv == IInv /\ [Next]_vars => IInv'
<1> SUFFICES ASSUME IInv, [Next]_vars PROVE IInv'
  OBVIOUS
<1>1. CASE UNCHANGED vars
  BY <1>1 DEF vars, IInv, TypeOK, Resting, RepliesMatchCalls, OneReply,
              LogBelowCounter
<1>2. CASE Finished
  BY <1>1, <1>2 DEF Finished
<1>3. CASE \E c \in Clients : ClientStep(c)
  BY <1>3, ClientIInv
<1>4. CASE ActorStep
  BY <1>4, AppendIInv, SetKvIInv, CheckpointIInv, QueryIInv, RestoreIInv,
     RewoundIInv, BroadcastIInv, ReplyIInv, StopIInv DEF ActorStep
<1> QED
  BY <1>1, <1>2, <1>3, <1>4, HandlesDroppedIInv, CrashIInv, SpawnIInv DEF Next

-----------------------------------------------------------------------------
(* The theorems.                                                           *)

LEMMA Invariance == Spec => []IInv
  BY InitIInv, NextIInv, PTL DEF Spec

\* Every variable keeps its type, and the mailbox its capacity.
THEOREM TypeCorrect == Spec => []TypeOK
<1>1. IInv => TypeOK
  BY DEF IInv
<1> QED
  BY <1>1, Invariance, PTL

\* Whatever mix of appends, batches, restores, failed transactions, crashes
\* and respawns came before, no event lies above event_sequence: an append
\* never meets a taken sequence.
THEOREM LogStaysBelowCounter == Spec => []LogBelowCounter
<1>1. IInv => LogBelowCounter
  BY DEF IInv
<1> QED
  BY <1>1, Invariance, PTL

\* Each waiting caller has exactly one message that holds its reply channel,
\* and that message is its request.
THEOREM RepliesFindTheirCalls == Spec => []RepliesMatchCalls
<1>1. IInv => RepliesMatchCalls
  BY DEF IInv
<1> QED
  BY <1>1, Invariance, PTL

-----------------------------------------------------------------------------
(* The history of commits.                                                 *)

HIDE DEF Running

-----------------------------------------------------------------------------
(* The ways a step can change the log.                                     *)

SameLog ==
    /\ db'.event_sequence = db.event_sequence
    /\ db'.events = db.events
    /\ db'.messages = db.messages
    /\ commits' = commits

\* The log stays, and unless a restore is cut in two, so does its phase.
StillStep ==
    /\ SameLog
    /\ ~torn' => ~torn /\ (phase' = "rewind" <=> phase = "rewind")

Appends(t, ts) ==
    /\ db' = AppendEvents(db, t, ts)
    /\ commits' = commits \o NewRecords(db, t, ts)
    /\ phase' = "answer"
    /\ UNCHANGED <<torn, born>>

AppendStep(t, ts) == phase = "recv" /\ Appends(t, ts)

RewoundStep(t) == phase = "rewind" /\ Appends(t, <<Rewound>>)

TruncateStep(cp) ==
    /\ phase = "recv"
    /\ phase' = "rewind"
    /\ db' = Truncate(db, cp.sequence)
    /\ UNCHANGED <<commits, torn>>

\* The types of a batch are not the crate's own.
LEMMA BatchType ==
    ASSUME NEW r \in Requests, r.op = "append"
    PROVE  r.types \in Seq(EventTypes \ {Rewound})
  BY BatchesAssumption DEF Requests

LEMMA LogSteps ==
    ASSUME IInv, [Next]_vars
    PROVE  \/ StillStep
           \/ \E t \in Nat : \E ts \in Seq(EventTypes \ {Rewound}) :
                AppendStep(t, ts)
           \/ \E t \in Nat : RewoundStep(t)
           \/ \E cp \in db.checkpoints : TruncateStep(cp)
<1>1. /\ db \in Databases
      /\ mailbox # <<>> => Head(mailbox).request \in Requests
      /\ phase = "rewind" => current.request \in Requests
  BY MailboxHead DEF IInv, TypeOK
<1>2. CASE UNCHANGED <<db, commits, phase, torn>>
  BY <1>2 DEF StillStep, SameLog
<1>3. CASE ExecAppend
  <2>1. CASE Fail
    BY <1>3, <2>1 DEF ExecAppend, Receive, Fail, Answer, StillStep, SameLog
  <2>2. CASE ~Fail
    <3> DEFINE r == Head(mailbox).request
    <3>1. /\ phase = "recv" /\ mailbox # <<>> /\ r.op = "append"
          /\ UNCHANGED <<torn, born>>
          /\ db' = AppendEvents(db, r.token, r.types)
          /\ commits' = commits \o NewRecords(db, r.token, r.types)
          /\ phase' = "answer"
      BY <1>3, <2>2 DEF ExecAppend, Receive, Answer
    <3>2. r.token \in Nat /\ r.types \in Seq(EventTypes \ {Rewound})
      BY <1>1, <3>1, BatchType, RequestType
    <3> QED
      BY <3>1, <3>2 DEF AppendStep, Appends
  <2> QED
    BY <2>1, <2>2
<1>4. CASE ExecSetKv
  BY <1>1, <1>4
  DEF ExecSetKv, Receive, Fail, Answer, SetKv, StillStep, SameLog, Databases
<1>5. CASE ExecCheckpoint
  BY <1>1, <1>5 DEF ExecCheckpoint, Receive, Fail, Answer, CreateCheckpoint,
                    StillStep, SameLog, Databases
<1>6. CASE ExecQuery
  BY <1>6 DEF ExecQuery, Receive, Fail, Answer, StillStep, SameLog
<1>7. CASE ExecRestore
  BY <1>7 DEF ExecRestore, Receive, Fail, Answer, StillStep, SameLog,
              TruncateStep
<1>8. CASE AppendRewound
  <2>1. current.request.token \in Nat
    BY <1>1, <1>8, RequestType DEF AppendRewound
  <2> QED
    BY <1>8, <2>1
    DEF AppendRewound, StillStep, SameLog, RewoundStep, Appends
<1>9. CASE Broadcast
  BY <1>9 DEF Broadcast, StillStep, SameLog
<1>10. CASE Reply
  BY <1>10 DEF Reply, StillStep, SameLog
<1>11. CASE ExecStop
  BY <1>1, <1>11
  DEF ExecStop, ThreadEnds, UpdateStatus, StillStep, SameLog, Databases
<1>12. CASE HandlesDropped
  BY <1>12 DEF HandlesDropped, ThreadEnds, StillStep, SameLog
<1>13. CASE Crash
  BY <1>13 DEF Crash, ThreadEnds, StillStep, SameLog
<1>14. CASE Spawn
  BY <1>14 DEF Spawn, StillStep, SameLog
<1>15. CASE UNCHANGED vars \/ Finished \/ \E c \in Clients : ClientStep(c)
  BY <1>2, <1>15
  DEF vars, Finished, ClientStep, Call, Enqueue, Return, Abandon
<1> QED
  BY <1>3, <1>4, <1>5, <1>6, <1>7, <1>8, <1>9, <1>10, <1>11, <1>12, <1>13,
     <1>14, <1>15 DEF Next, ActorStep

-----------------------------------------------------------------------------
(* Holes.                                                                  *)

\* Appending fills the places after the counter.
LEMMA AppendContiguous ==
    ASSUME NEW d \in Databases, NEW t \in Nat, NEW ts \in Seq(EventTypes),
           Contiguous(d)
    PROVE  Contiguous(AppendEvents(d, t, ts))
<1> DEFINE R == NewRecords(d, t, ts)
           e == AppendEvents(d, t, ts)
<1>1. /\ d.event_sequence \in Nat /\ Len(ts) \in Nat
      /\ DOMAIN ts = 1..Len(ts) /\ DOMAIN R = DOMAIN ts
  BY DEF Databases, NewRecords
<1>2. /\ e.event_sequence = d.event_sequence + Len(ts)
      /\ e.events = d.events \cup Range(R)
  BY DEF AppendEvents, Databases
<1>3. \A i \in 1..Len(ts) : R[i].sequence = d.event_sequence + i
  BY <1>1 DEF NewRecords
<1> HIDE DEF R, e
<1>4. \A x : x \in Range(R) <=> \E i \in 1..Len(ts) : x = R[i]
  BY <1>1 DEF Range
<1>5. {x.sequence : x \in e.events}
          = 1..d.event_sequence \cup {d.event_sequence + i : i \in 1..Len(ts)}
  BY <1>2, <1>3, <1>4 DEF Contiguous
<1>6. 1..d.event_sequence \cup {d.event_sequence + i : i \in 1..Len(ts)}
          = 1..(d.event_sequence + Len(ts))
  <2>1. ASSUME NEW k \in 1..(d.event_sequence + Len(ts)),
               k \notin 1..d.event_sequence
        PROVE  \E i \in 1..Len(ts) : k = d.event_sequence + i
    <3>1. k - d.event_sequence \in 1..Len(ts)
      BY <1>1, <2>1
    <3> QED
      BY <1>1, <3>1
  <2> QED
    BY <1>1, <2>1
<1> QED
  BY <1>2, <1>5, <1>6 DEF Contiguous, e

\* A hole appears in the log only when a restore goes to a checkpoint that
\* lies ahead of the counter.
THEOREM HolesHaveOneCause == Spec => HolesComeFromStaleCheckpoints
<1> DEFINE Stale ==
      Contiguous(db) /\ ~Contiguous(db') =>
          \E cp \in db.checkpoints :
              /\ cp.sequence > db.event_sequence
              /\ db'.event_sequence = cp.sequence
<1>1. ASSUME IInv, [Next]_vars PROVE Stale
  <2> SUFFICES ASSUME Contiguous(db), ~Contiguous(db')
               PROVE  \E cp \in db.checkpoints :
                          /\ cp.sequence > db.event_sequence
                          /\ db'.event_sequence = cp.sequence
    OBVIOUS
  <2>1. db \in Databases
    BY <1>1 DEF IInv, TypeOK
  <2>2. ~StillStep
    BY DEF StillStep, SameLog, Contiguous
  <2>3. \A t \in Nat : \A ts \in Seq(EventTypes \ {Rewound}) :
            ts \in Seq(EventTypes)
    OBVIOUS
  <2>4. \A t \in Nat : \A ts \in Seq(EventTypes \ {Rewound}) :
            ~AppendStep(t, ts)
    BY <2>1, <2>3, AppendContiguous DEF AppendStep, Appends
  <2>5. \A t \in Nat : ~RewoundStep(t)
    <3>1. <<Rewound>> \in Seq(EventTypes)
      BY EventTypesAssumption
    <3> QED
      BY <2>1, <3>1, AppendContiguous DEF RewoundStep, Appends
  <2>6. PICK cp \in db.checkpoints : TruncateStep(cp)
    BY <1>1, <2>2, <2>4, <2>5, LogSteps
  <2>7. /\ cp.sequence \in Nat /\ db.event_sequence \in Nat
        /\ db'.event_sequence = cp.sequence
        /\ db'.events = {e \in db.events : e.sequence <= cp.sequence}
    BY <2>1, <2>6 DEF TruncateStep, Truncate, Databases, Checkpoints
  <2>8. ASSUME cp.sequence <= db.event_sequence PROVE FALSE
    <3>1. {e.sequence : e \in db'.events} = 1..cp.sequence
      BY <2>7, <2>8 DEF Contiguous
    <3> QED
      BY <2>7, <3>1 DEF Contiguous
  <2> QED
    BY <2>7, <2>8
<1>2. IInv /\ [Next]_vars => [Stale]_vars
  BY <1>1
<1>3. Spec => [][Stale]_vars
  BY <1>2, Invariance, PTL DEF Spec
<1> QED
  BY <1>3 DEF HolesComeFromStaleCheckpoints

-----------------------------------------------------------------------------
(* The log is the replay of its history.                                   *)

\* The places of the commits that a replay of the first n of c keeps.
Kept(c, n) ==
    {k \in 1..n :
        \A j \in (k + 1)..n :
            ~ /\ c[j].type = Rewound
              /\ c[j].sequence <= c[k].sequence}

\* Between the transactions of a restore the log is the replay up to the
\* place to which it was cut.
Replayed ==
    ~torn =>
        db.events =
            {e \in LogAfter(Len(commits)) :
                phase = "rewind" => e.sequence <= db.event_sequence}

\* What comes after the commits that are there when more are added.
LEMMA CommitsGrow ==
    ASSUME IInv, NEW t \in Nat, NEW ts \in Seq(EventTypes), Appends(t, ts)
    PROVE  /\ Len(commits) \in Nat /\ Len(ts) \in Nat
           /\ commits \in Seq(EventRecords) /\ commits' \in Seq(EventRecords)
           /\ Len(commits') = Len(commits) + Len(ts)
           /\ \A i \in 1..Len(commits) : commits'[i] = commits[i]
           /\ \A i \in 1..Len(ts) :
                /\ commits'[Len(commits) + i] =
                       [sequence |-> db.event_sequence + i,
                        id       |-> <<t, i>>,
                        type     |-> ts[i]]
                /\ commits'[Len(commits) + i].sequence = db.event_sequence + i
                /\ commits'[Len(commits) + i].id = <<t, i>>
                /\ commits'[Len(commits) + i].type = ts[i]
<1> DEFINE R == NewRecords(db, t, ts)
<1>1. db \in Databases /\ commits \in Seq(EventRecords)
  BY DEF IInv, TypeOK
<1>2. R \in Seq(EventRecords)
  BY <1>1, NewRecordsType
<1>3. Len(R) = Len(ts) /\ Len(ts) \in Nat /\ DOMAIN ts = 1..Len(ts)
  <2>1. DOMAIN R = 1..Len(ts) /\ DOMAIN ts = 1..Len(ts) /\ Len(ts) \in Nat
    BY DEF NewRecords
  <2> HIDE DEF R
  <2> QED
    BY <1>2, <2>1
<1>4. \A i \in 1..Len(ts) : R[i] = [sequence |-> db.event_sequence + i,
                                    id       |-> <<t, i>>,
                                    type     |-> ts[i]]
  BY <1>3 DEF NewRecords
<1>5. commits' = commits \o R
  BY DEF Appends
<1> HIDE DEF R
<1>6. /\ commits' \in Seq(EventRecords)
      /\ Len(commits') = Len(commits) + Len(R)
      /\ \A i \in 1..Len(commits) : commits'[i] = commits[i]
  BY <1>1, <1>2, <1>5
<1>7. \A i \in 1..Len(R) : commits'[Len(commits) + i] = R[i]
  BY <1>1, <1>2, <1>5
<1>8. \A i \in 1..Len(ts) :
          commits'[Len(commits) + i] = [sequence |-> db.event_sequence + i,
                                        id       |-> <<t, i>>,
                                        type     |-> ts[i]]
  BY ONLY <1>3, <1>4, <1>7
<1>9. Len(commits) \in Nat
  BY <1>1
<1> QED
  BY ONLY <1>1, <1>3, <1>6, <1>8, <1>9

\* The rows that an append adds to the log are the last commits.
LEMMA EventsGrow ==
    ASSUME IInv, NEW t \in Nat, NEW ts \in Seq(EventTypes), Appends(t, ts)
    PROVE  /\ db'.event_sequence = db.event_sequence + Len(ts)
           /\ db'.events =
                db.events \cup {commits'[Len(commits) + i] : i \in 1..Len(ts)}
<1>1. db \in Databases /\ DOMAIN ts = 1..Len(ts)
  BY DEF IInv, TypeOK
<1>2. \A i \in 1..Len(ts) :
         commits'[Len(commits) + i] = NewRecords(db, t, ts)[i]
  BY <1>1, CommitsGrow DEF NewRecords
<1>3. Range(NewRecords(db, t, ts))
          = {commits'[Len(commits) + i] : i \in 1..Len(ts)}
  <2> DEFINE R == NewRecords(db, t, ts)
  <2>1. DOMAIN R = 1..Len(ts)
    BY <1>1 DEF NewRecords
  <2> HIDE DEF R
  <2>2. Range(R) = {R[i] : i \in 1..Len(ts)}
    BY <2>1 DEF Range
  <2> QED
    BY <1>2, <2>2 DEF R
<1> QED
  BY <1>1, <1>3 DEF Appends, AppendEvents, Databases

LEMMA LogAfterKept ==
    LogAfter(Len(commits)) = {commits[k] : k \in Kept(commits, Len(commits))}
  BY DEF LogAfter, Kept

\* The places of S, counted from the one after the n-th.
Shift(n, S) == {n + i : i \in S}

\* The m places after the n-th.
Following(n, m) == Shift(n, 1..m)

Low(c, n, s) == {k \in Kept(c, n) : c[k].sequence <= s}

\* d goes on from the first n of c, with m commits that are no "rewound" ...
GoesOn(c, d, n, m) ==
    /\ \A i \in 1..n : d[i] = c[i]
    /\ \A i \in 1..m : d[n + i].type # Rewound

\* ... or with one that is, of the sequence s + 1.
GoesBack(c, d, n, s) ==
    /\ \A i \in 1..n : d[i] = c[i] /\ c[i].sequence \in Nat
    /\ d[n + 1].type = Rewound
    /\ d[n + 1].sequence = s + 1

\* A replay keeps all of an append, and of what was there what lies below a
\* "rewound" that comes after it.
LEMMA KeptAppend ==
    ASSUME NEW c \in Seq(EventRecords), NEW d \in Seq(EventRecords),
           NEW n \in Nat, NEW m \in Nat, GoesOn(c, d, n, m)
    PROVE  Kept(d, n + m) = Kept(c, n) \cup Following(n, m)
<1> USE DEF GoesOn
<1>1. ASSUME NEW k \in 1..(n + m), k \notin 1..n
      PROVE  d[k].type # Rewound /\ \E i \in 1..m : k = n + i
  <2>1. k - n \in 1..m /\ k = n + (k - n)
    BY <1>1
  <2> QED
    BY <2>1
<1>2. ASSUME NEW k \in 1..n PROVE k \in Kept(d, n + m) <=> k \in Kept(c, n)
  <2>1. (k + 1)..n \subseteq (k + 1)..(n + m) /\ k \in 1..(n + m)
    BY <1>2
  <2>2. ASSUME NEW j \in (k + 1)..(n + m), j \notin (k + 1)..n
        PROVE  d[j].type # Rewound
    BY <1>1, <1>2, <2>2
  <2>3. \A j \in (k + 1)..n : d[j] = c[j] /\ d[k] = c[k]
    BY <1>2
  <2> QED
    BY <1>2, <2>1, <2>2, <2>3 DEF Kept
<1>3. ASSUME NEW i \in 1..m PROVE n + i \in Kept(d, n + m)
  <2>1. n + i \in 1..(n + m)
    BY <1>3
  <2>2. \A j \in (n + i + 1)..(n + m) : d[j].type # Rewound
    BY <1>1, <1>3
  <2> QED
    BY <2>1, <2>2 DEF Kept
<1>4. Kept(d, n + m) \subseteq 1..(n + m) /\ Kept(c, n) \subseteq 1..n
  BY DEF Kept
<1> QED
  BY <1>1, <1>2, <1>3, <1>4 DEF Following, Shift

LEMMA KeptRewound ==
    ASSUME NEW c \in Seq(EventRecords), NEW d \in Seq(EventRecords),
           NEW n \in Nat, NEW s \in Nat, GoesBack(c, d, n, s)
    PROVE  Kept(d, n + 1) = Low(c, n, s) \cup {n + 1}
<1>1. ASSUME NEW k \in 1..n
      PROVE  k \in Kept(d, n + 1) <=> k \in Kept(c, n) /\ c[k].sequence <= s
  <2>1. (k + 1)..(n + 1) = ((k + 1)..n) \cup {n + 1} /\ k \in 1..(n + 1)
    BY <1>1
  <2>2. d[k] = c[k] /\ c[k].sequence \in Nat
    BY <1>1 DEF GoesBack
  <2>3. \A j \in (k + 1)..n : d[j] = c[j]
    BY <1>1 DEF GoesBack
  <2>4. ~(s + 1 <= c[k].sequence) <=> c[k].sequence <= s
    BY <2>2
  <2> QED
    BY <1>1, <2>1, <2>2, <2>3, <2>4 DEF Kept, GoesBack
<1>2. n + 1 \in Kept(d, n + 1)
  BY DEF Kept
<1>3. Kept(d, n + 1) \subseteq 1..n \cup {n + 1} /\ Kept(c, n) \subseteq 1..n
  BY DEF Kept
<1> QED
  BY <1>1, <1>2, <1>3 DEF Low

LEMMA AppendReplayed ==
    ASSUME IInv, Replayed, NEW t \in Nat,
           NEW ts \in Seq(EventTypes \ {Rewound}), AppendStep(t, ts)
    PROVE  Replayed'
<1> DEFINE n == Len(commits)
           new == Following(n, Len(ts))
<1>1. Appends(t, ts) /\ phase = "recv" /\ phase' = "answer" /\ torn' = torn
  BY DEF AppendStep, Appends
<1>2. ts \in Seq(EventTypes)
  OBVIOUS
<1>3. /\ n \in Nat /\ Len(ts) \in Nat /\ Len(commits') = n + Len(ts)
      /\ commits \in Seq(EventRecords) /\ commits' \in Seq(EventRecords)
      /\ \A i \in 1..n : commits'[i] = commits[i]
      /\ \A i \in 1..Len(ts) : commits'[n + i].type = ts[i]
  BY <1>1, <1>2, CommitsGrow
<1>4. \A i \in 1..Len(ts) : commits'[n + i].type # Rewound
  <2>1. \A i \in 1..Len(ts) : ts[i] # Rewound
    OBVIOUS
  <2> QED
    BY <1>3, <2>1
<1>5. Kept(commits', Len(commits')) = Kept(commits, n) \cup new
  <2> HIDE DEF n
  <2>1. GoesOn(commits, commits', n, Len(ts))
    BY <1>3, <1>4 DEF GoesOn
  <2> QED
    BY <1>3, <2>1, KeptAppend
<1>6. LogAfter(Len(commits))' =
          LogAfter(n) \cup {commits'[n + i] : i \in 1..Len(ts)}
  <2>1. LogAfter(Len(commits))'
            = {commits'[k] : k \in Kept(commits', Len(commits'))}
    BY DEF LogAfter, Kept
  <2>2. LogAfter(n) = {commits'[k] : k \in Kept(commits, n)}
    <3>1. \A k \in Kept(commits, n) : commits'[k] = commits[k]
      BY <1>3 DEF Kept
    <3> QED
      BY <3>1, LogAfterKept
  <2>3. {commits'[k] : k \in new} = {commits'[n + i] : i \in 1..Len(ts)}
    BY DEF Following, Shift
  <2> HIDE DEF new
  <2> QED
    BY <1>5, <2>1, <2>2, <2>3
<1>7. db'.events = db.events \cup {commits'[n + i] : i \in 1..Len(ts)}
  BY <1>1, <1>2, EventsGrow
<1>8. ~torn => db.events = LogAfter(n)
  BY <1>1 DEF Replayed
<1>9. ~torn' => db'.events = LogAfter(Len(commits))'
  BY <1>1, <1>6, <1>7, <1>8
<1> QED
  BY <1>1, <1>9 DEF Replayed

LEMMA RewoundReplayed ==
    ASSUME IInv, Replayed, NEW t \in Nat, RewoundStep(t)
    PROVE  Replayed'
<1> DEFINE n == Len(commits)
           s == db.event_sequence
           ts == <<Rewound>>
           low == Low(commits, n, s)
<1>1. /\ Appends(t, ts) /\ phase = "rewind" /\ phase' = "answer"
      /\ torn' = torn
  BY DEF RewoundStep, Appends
<1>2. ts \in Seq(EventTypes) /\ Len(ts) = 1 /\ ts[1] = Rewound
  BY EventTypesAssumption
<1> HIDE DEF ts
<1>3. /\ n \in Nat /\ Len(commits') = n + 1
      /\ commits \in Seq(EventRecords) /\ commits' \in Seq(EventRecords)
      /\ \A i \in 1..n : commits'[i] = commits[i]
      /\ commits'[n + 1].type = Rewound
      /\ commits'[n + 1].sequence = s + 1
  <2>1. 1 \in 1..Len(ts)
    BY <1>2
  <2>2. /\ commits'[n + 1].type = ts[1]
        /\ commits'[n + 1].sequence = s + 1
    BY <1>1, <1>2, <2>1, CommitsGrow
  <2> QED
    BY <1>1, <1>2, <2>2, CommitsGrow
<1>4. s \in Nat
  BY DEF IInv, TypeOK, Databases
<1>5. \A i \in 1..n : commits[i].sequence \in Nat
  <2> SUFFICES ASSUME NEW i \in 1..n PROVE commits[i].sequence \in Nat
    OBVIOUS
  <2>1. commits[i] \in EventRecords
    BY <1>3
  <2> QED
    BY <2>1 DEF EventRecords
<1>6. Kept(commits', Len(commits')) = low \cup {n + 1}
  <2> HIDE DEF n, s
  <2>1. GoesBack(commits, commits', n, s)
    BY <1>3, <1>4, <1>5 DEF GoesBack
  <2>2. /\ commits \in Seq(EventRecords) /\ commits' \in Seq(EventRecords)
        /\ n \in Nat
    BY <1>3
  <2>3. Kept(commits', n + 1) = low \cup {n + 1}
    BY ONLY <2>1, <2>2, <1>4, KeptRewound
  <2>4. Len(commits') = n + 1
    BY <1>3
  <2> QED
    BY ONLY <2>3, <2>4
<1>7. LogAfter(Len(commits))' =
          {e \in LogAfter(n) : e.sequence <= s} \cup {commits'[n + 1]}
  <2>1. LogAfter(Len(commits))'
            = {commits'[k] : k \in Kept(commits', Len(commits'))}
    BY DEF LogAfter, Kept
  <2>2. {e \in LogAfter(n) : e.sequence <= s} = {commits'[k] : k \in low}
    <3>1. \A k \in low : commits'[k] = commits[k]
      BY <1>3 DEF Low, Kept
    <3>2. {e \in LogAfter(n) : e.sequence <= s} = {commits[k] : k \in low}
      BY LogAfterKept DEF Low
    <3> QED
      BY <3>1, <3>2
  <2> HIDE DEF low
  <2> QED
    BY <1>6, <2>1, <2>2
<1>8. db'.events = db.events \cup {commits'[n + 1]}
  <2>1. db'.events = db.events \cup {commits'[n + i] : i \in 1..1}
    BY <1>1, <1>2, EventsGrow
  <2> QED
    BY <2>1
<1>9. ~torn => db.events = {e \in LogAfter(n) : e.sequence <= s}
  BY <1>1 DEF Replayed
<1>10. ~torn' => db'.events = LogAfter(Len(commits))'
  BY <1>1, <1>7, <1>8, <1>9
<1> QED
  BY <1>1, <1>10 DEF Replayed

LEMMA NextReplayed == IInv /\ Replayed /\ [Next]_vars => Replayed'
<1> SUFFICES ASSUME IInv, Replayed, [Next]_vars PROVE Replayed'
  OBVIOUS
<1>1. CASE StillStep
  BY <1>1 DEF StillStep, SameLog, Replayed, LogAfter
<1>2. CASE \E cp \in db.checkpoints : TruncateStep(cp)
  <2>1. PICK cp \in db.checkpoints : TruncateStep(cp)
    BY <1>2
  <2>2. /\ db'.event_sequence = cp.sequence
        /\ db'.events = {e \in db.events : e.sequence <= cp.sequence}
    BY <2>1 DEF TruncateStep, Truncate, IInv, TypeOK, Databases
  <2> QED
    BY <2>1, <2>2 DEF TruncateStep, Replayed, LogAfter
<1> QED
  BY <1>1, <1>2, LogSteps, AppendReplayed, RewoundReplayed

\* A consumer of the commits that applies "rewound" has the table events: what
\* failed, crashed or was restarted makes no difference, as long as no restore
\* is cut between its two transactions.
THEOREM LogReplays == Spec => []LogIsReplay
<1>1. Init => Replayed
  BY DEF Init, EmptyDb, Replayed, LogAfter
<1>2. Replayed => LogIsReplay
  BY DEF Replayed, LogIsReplay
<1>3. IInv /\ Replayed /\ [Next]_vars => Replayed'
  BY NextReplayed
<1> QED
  BY <1>1, <1>2, <1>3, Invariance, PTL DEF Spec

-----------------------------------------------------------------------------
(* Counting.                                                               *)

Within(S, n) == S \subseteq 1..n

\* The places of S among the first n, and those of T after them.
Both(S, n, T) == S \cup Shift(n, T)

\* Places that come after others add to their number.
LEMMA ShiftCount ==
    ASSUME NEW n \in Nat, NEW m \in Nat,
           NEW S, NEW T, Within(S, n), Within(T, m)
    PROVE  /\ Cardinality(S) \in Nat /\ Cardinality(T) \in Nat
           /\ Cardinality(Both(S, n, T)) = Cardinality(S) + Cardinality(T)
<1> USE DEF Within, Both
<1>1. /\ IsFiniteSet(S) /\ Cardinality(S) \in Nat
      /\ IsFiniteSet(T) /\ Cardinality(T) \in Nat
  <2>1. IsFiniteSet(1..n) /\ IsFiniteSet(1..m)
    BY FS_Interval
  <2> QED
    BY <2>1, FS_Subset, FS_CardinalityType
<1>2. IsFiniteSet(Shift(n, T)) /\ Cardinality(Shift(n, T)) = Cardinality(T)
  <2> DEFINE f == [i \in T |-> n + i]
  <2>1. f \in [T -> Shift(n, T)]
    BY DEF Shift
  <2>2. \A x \in Shift(n, T) : \E i \in T : f[i] = x
    BY DEF Shift
  <2>3. \A i, j \in T : f[i] = f[j] => i = j
    <3>1. \A i \in T : i \in Nat
      OBVIOUS
    <3> QED
      BY <3>1
  <2> HIDE DEF f
  <2>4. f \in Surjection(T, Shift(n, T))
    BY <2>1, <2>2 DEF Surjection
  <2>5. f \in Injection(T, Shift(n, T))
    BY <2>1, <2>3 DEF Injection, IsInjective
  <2> QED
    BY <1>1, <2>4, <2>5, FS_Surjection
<1>3. S \cap Shift(n, T) = {}
  <2> SUFFICES ASSUME NEW i \in T, n + i \in S PROVE FALSE
    BY DEF Shift
  <2>1. i \in Nat /\ i >= 1 /\ n + i <= n
    OBVIOUS
  <2> QED
    BY <2>1
<1>4. Cardinality({}) = 0
  BY FS_EmptySet
<1> HIDE DEF Both
<1>5. Cardinality(Both(S, n, T))
        = Cardinality(S) + Cardinality(Shift(n, T)) - Cardinality({})
  BY <1>1, <1>2, <1>3, FS_Union DEF Both
<1> QED
  BY <1>1, <1>2, <1>4, <1>5

\* One more at the end counts one more.
LEMMA LastCount ==
    ASSUME NEW S, NEW T, IsFiniteSet(T), NEW x \in T, S \subseteq T, x \notin S
    PROVE  /\ Cardinality(S) \in Nat /\ Cardinality(T) \in Nat
           /\ Cardinality(S) < Cardinality(T)
<1>1. /\ IsFiniteSet(S) /\ Cardinality(S) <= Cardinality(T)
      /\ Cardinality(T) = Cardinality(S) => T = S
  BY FS_Subset
<1>2. Cardinality(S) \in Nat /\ Cardinality(T) \in Nat
  BY <1>1, FS_CardinalityType
<1> QED
  BY <1>1, <1>2

-----------------------------------------------------------------------------
(* The bus.                                                                *)

\* What was requested among the commits of c from the b-th to the n-th.
RequestedIn(c, b, n) == {k \in (b + 1)..n : c[k].type # Rewound}

\* s is what was requested in c after the b-th, in its order.
Follows(c, b, s) ==
    /\ Len(s) = Cardinality(RequestedIn(c, b, Len(c)))
    /\ \A k \in RequestedIn(c, b, Len(c)) :
          s[Cardinality(RequestedIn(c, b, k))] = c[k]

\* Commits that are no "rewound" are requested, each of them.
LEMMA RequestedGrow ==
    ASSUME NEW c \in Seq(EventRecords), NEW d \in Seq(EventRecords),
           NEW b \in Nat, NEW n \in Nat, NEW m \in Nat,
           b <= n, GoesOn(c, d, n, m)
    PROVE  /\ Cardinality(RequestedIn(c, b, n)) \in Nat
           /\ Cardinality(RequestedIn(d, b, n + m))
                = Cardinality(RequestedIn(c, b, n)) + m
<1> DEFINE Old == RequestedIn(c, b, n)
           New == 1..m
<1>1. ASSUME NEW k \in (b + 1)..(n + m), k \notin 1..n
      PROVE  d[k].type # Rewound /\ k \in Shift(n, New)
  <2>1. k - n \in 1..m /\ k = n + (k - n)
    BY <1>1
  <2> QED
    BY <1>1, <2>1 DEF Shift, GoesOn
<1>2. ASSUME NEW j \in 1..m
      PROVE  d[n + j].type # Rewound /\ n + j \in (b + 1)..(n + m)
  <2>1. j \in Nat /\ n + j \in Int /\ b + 1 <= n + j /\ n + j <= n + m
    OBVIOUS
  <2>2. d[n + j].type # Rewound
    BY DEF GoesOn
  <2> QED
    BY <2>1, <2>2
<1>3. \A k \in 1..n : k \in RequestedIn(d, b, n + m) <=> k \in Old
  BY DEF RequestedIn, GoesOn
<1>4. RequestedIn(d, b, n + m) \subseteq (b + 1)..(n + m) /\ Old \subseteq 1..n
  BY DEF RequestedIn
<1>5. Shift(n, New) \subseteq RequestedIn(d, b, n + m)
  BY <1>2 DEF Shift, RequestedIn
<1>6. RequestedIn(d, b, n + m) = Both(Old, n, New)
  BY <1>1, <1>3, <1>4, <1>5 DEF Both
<1>7. Within(Old, n) /\ Within(New, m)
  BY <1>4 DEF Within
<1>8. Cardinality(New) = m
  BY FS_Interval
<1> HIDE DEF Old, New
<1>9. /\ Cardinality(Old) \in Nat
      /\ Cardinality(Both(Old, n, New)) = Cardinality(Old) + Cardinality(New)
  BY <1>7, ShiftCount
<1> QED
  BY <1>6, <1>8, <1>9 DEF Old

LEMMA FollowsAppend ==
    ASSUME NEW c \in Seq(EventRecords), NEW s \in Seq(EventRecords),
           NEW b \in Nat, b <= Len(c), Follows(c, b, s),
           NEW r \in Seq(EventRecords),
           \A i \in 1..Len(r) : r[i].type # Rewound
    PROVE  Follows(c \o r, b, s \o r)
<1> DEFINE n == Len(c)
           d == c \o r
           R == RequestedIn(c, b, n)
<1>1. /\ n \in Nat /\ Len(r) \in Nat /\ Len(d) = n + Len(r)
      /\ d \in Seq(EventRecords)
      /\ \A i \in 1..n : d[i] = c[i]
      /\ \A i \in 1..Len(r) : d[n + i] = r[i]
  OBVIOUS
<1> HIDE DEF d, n
<1>2. ASSUME NEW k \in 1..n
      PROVE  RequestedIn(d, b, k) = RequestedIn(c, b, k)
  <2>1. \A j \in (b + 1)..k : d[j] = c[j]
    BY <1>1
  <2> QED
    BY <2>1 DEF RequestedIn
<1>3. R \subseteq 1..n
  BY <1>1 DEF RequestedIn
<1>4. b <= n /\ Len(s) = Cardinality(R)
  BY DEF Follows, n
<1>5. ASSUME NEW i \in 0..Len(r)
      PROVE  Cardinality(RequestedIn(d, b, n + i)) = Len(s) + i
  <2>1. i \in Nat /\ 1..i \subseteq 1..Len(r)
    BY <1>1
  <2>2. \A j \in 1..i : d[n + j].type # Rewound
    BY <1>1, <2>1
  <2>3. GoesOn(c, d, n, i)
    BY <1>1, <2>2 DEF GoesOn
  <2> QED
    BY <1>1, <1>4, <2>1, <2>3, RequestedGrow
<1>6. Len(s \o r) = Cardinality(RequestedIn(d, b, Len(d)))
  BY <1>1, <1>5
<1>7. ASSUME NEW k \in RequestedIn(d, b, Len(d))
      PROVE  (s \o r)[Cardinality(RequestedIn(d, b, k))] = d[k]
  <2>1. CASE k \in 1..n
    <3>1. k \in R /\ d[k] = c[k]
      BY <1>1, <1>7, <2>1 DEF RequestedIn
    <3>2. s[Cardinality(RequestedIn(c, b, k))] = c[k]
      BY <3>1 DEF Follows, n
    <3>3. Cardinality(RequestedIn(c, b, k)) \in 1..Len(s)
      <4>1. IsFiniteSet(R)
        <5>1. IsFiniteSet(1..n)
          BY <1>1, FS_Interval
        <5> QED
          BY <1>3, <5>1, FS_Subset
      <4>2. RequestedIn(c, b, k) \subseteq R /\ k \in RequestedIn(c, b, k)
        BY <1>1, <2>1, <3>1 DEF RequestedIn
      <4>3. IsFiniteSet(RequestedIn(c, b, k))
        BY <4>1, <4>2, FS_Subset
      <4>4. /\ Cardinality(RequestedIn(c, b, k)) \in Nat
            /\ Cardinality(RequestedIn(c, b, k)) <= Cardinality(R)
            /\ Cardinality(RequestedIn(c, b, k)) # 0
        BY <4>1, <4>2, <4>3, FS_Subset, FS_CardinalityType, FS_EmptySet
      <4> QED
        BY <4>4 DEF Follows, n
    <3> QED
      BY <1>2, <2>1, <3>1, <3>2, <3>3
  <2>2. CASE k \notin 1..n
    <3>1. k - n \in 1..Len(r) /\ k = n + (k - n)
      BY <1>1, <1>7, <2>2 DEF RequestedIn
    <3>2. PICK i \in 1..Len(r) : k = n + i
      BY <3>1
    <3>3. Cardinality(RequestedIn(d, b, k)) = Len(s) + i
      BY <1>5, <3>2
    <3> QED
      BY <1>1, <3>2, <3>3
  <2> QED
    BY <2>1, <2>2
<1> QED
  BY <1>6, <1>7 DEF Follows, d

LEMMA FollowsSkip ==
    ASSUME NEW c \in Seq(EventRecords), NEW s, NEW b \in Nat,
           Follows(c, b, s), NEW x \in EventRecords, x.type = Rewound
    PROVE  Follows(Append(c, x), b, s)
<1> DEFINE d == Append(c, x)
<1>1. /\ Len(c) \in Nat /\ Len(d) = Len(c) + 1 /\ d[Len(c) + 1] = x
      /\ \A i \in 1..Len(c) : d[i] = c[i]
  OBVIOUS
<1> HIDE DEF d
<1>2. \A k \in 1..Len(c) : RequestedIn(d, b, k) = RequestedIn(c, b, k)
  BY <1>1 DEF RequestedIn
<1>3. RequestedIn(d, b, Len(d)) = RequestedIn(c, b, Len(c))
  BY <1>1 DEF RequestedIn
<1>4. RequestedIn(c, b, Len(c)) \subseteq 1..Len(c)
  BY <1>1 DEF RequestedIn
<1> QED
  BY <1>1, <1>2, <1>3, <1>4 DEF Follows, d

\* What is sent, and what the actor still holds in its hand, is what was
\* requested; only an answer holds anything.
BusInv ==
    /\ born <= Len(commits)
    /\ phase # "answer" => current.out = <<>>
    /\ Running => Follows(commits, born, bus \o current.out)

\* The step sends nothing, or a record that the actor held.
StillBus ==
    /\ UNCHANGED <<commits, born>>
    /\ Running' => Running
    /\ bus' \o current'.out = bus \o current.out
    /\ phase' # "answer" => current'.out = <<>>

LEMMA StillBusKept == ASSUME BusInv, StillBus PROVE BusInv'
<1>1. CASE Running'
  <2>1. Follows(commits, born, bus \o current.out)
    BY <1>1 DEF BusInv, StillBus
  <2>2. Follows(commits', born', bus' \o current'.out)
    BY <2>1 DEF StillBus
  <2> QED
    BY <2>2 DEF BusInv, StillBus
<1>2. CASE ~Running'
  BY <1>2 DEF BusInv, StillBus
<1> QED
  BY <1>1, <1>2

\* A handler that has nothing to send.
LEMMA QuietHandler ==
    ASSUME IInv, BusInv, phase = "recv", UNCHANGED <<commits, born, bus>>,
           current'.out = <<>>
    PROVE  BusInv'
<1>1. current.out = <<>> /\ Running
  BY DEF BusInv, Running
<1> QED
  BY <1>1, StillBusKept DEF StillBus

\* An append that does not fail.
LEMMA AppendSucceeds ==
    ASSUME ExecAppend, ~Fail
    PROVE  LET r == Head(mailbox).request
               records == NewRecords(db, r.token, r.types)
           IN  /\ db' = AppendEvents(db, r.token, r.types)
               /\ commits' = commits \o records
               /\ Answer("ok", Range(records), records)
  BY DEF ExecAppend

LEMMA AppendBus == ASSUME IInv, BusInv, ExecAppend PROVE BusInv'
<1> DEFINE r == Head(mailbox).request
           records == NewRecords(db, r.token, r.types)
<1>1. phase = "recv" /\ mailbox # <<>> /\ UNCHANGED <<bus, born>>
  BY DEF ExecAppend, Receive
<1>2. CASE Fail
  BY <1>1, <1>2, QuietHandler DEF Fail, Answer
<1>3. CASE ~Fail
  <2>1. /\ phase' = "answer"
        /\ commits' = commits \o records
        /\ current'.out = records
    BY <1>3, AppendSucceeds DEF Answer
  <2>2. r.token \in Nat /\ r.types \in Seq(EventTypes \ {Rewound})
    <3>1. r \in Requests /\ r.op = "append"
      BY <1>1, MailboxHead DEF IInv, ExecAppend, Receive
    <3> QED
      BY <3>1, BatchType, RequestType
  <2>3. records \in Seq(EventRecords)
    <3>1. r.types \in Seq(EventTypes) /\ db \in Databases
      BY <2>2 DEF IInv, TypeOK
    <3> QED
      BY <2>2, <3>1, NewRecordsType
  <2>4. \A i \in 1..Len(records) : records[i].type # Rewound
    <3>1. DOMAIN records = 1..Len(r.types)
      BY <2>2 DEF NewRecords
    <3>2. \A i \in 1..Len(r.types) : records[i].type = r.types[i]
      BY <2>2 DEF NewRecords
    <3>3. \A i \in 1..Len(r.types) : r.types[i] # Rewound
      BY <2>2
    <3>4. DOMAIN records = 1..Len(records)
      BY <2>3
    <3> QED
      BY <3>1, <3>2, <3>3, <3>4
  <2> HIDE DEF records
  <2>5. /\ commits \in Seq(EventRecords) /\ bus \in Seq(EventRecords)
        /\ born \in Nat /\ current.out = <<>> /\ born <= Len(commits)
    BY <1>1 DEF IInv, TypeOK, BusInv
  <2>6. Follows(commits, born, bus)
    <3>1. bus \o current.out = bus
      BY <2>5
    <3> QED
      BY <1>1, <3>1 DEF BusInv, Running
  <2>7. Follows(commits \o records, born, bus \o records)
    BY <2>3, <2>4, <2>5, <2>6, FollowsAppend
  <2>8. Follows(commits', born', bus' \o current'.out)
    BY <1>1, <2>1, <2>7
  <2>9. born' <= Len(commits')
    BY <1>1, <2>1, <2>3, <2>5
  <2> QED
    BY <2>1, <2>8, <2>9 DEF BusInv
<1> QED
  BY <1>2, <1>3

LEMMA RewoundBus == ASSUME IInv, BusInv, AppendRewound PROVE BusInv'
<1> DEFINE t == current.request.token
           records == NewRecords(db, t, <<Rewound>>)
<1>1. /\ phase = "rewind" /\ phase' = "answer" /\ UNCHANGED <<bus, born>>
      /\ current.out = <<>> /\ current'.out = <<>>
  <2>1. current \in Currents
    BY DEF IInv, TypeOK, Currents
  <2>2. current.out = <<>> /\ phase = "rewind"
    BY DEF AppendRewound, BusInv
  <2> QED
    BY <2>1, <2>2 DEF AppendRewound, Currents
<1>2. /\ commits \in Seq(EventRecords) /\ bus \in Seq(EventRecords)
      /\ born \in Nat /\ born <= Len(commits)
  BY DEF IInv, TypeOK, BusInv
<1>3. Follows(commits, born, bus) /\ bus' \o current'.out = bus
  <2>1. bus \o current.out = bus
    BY <1>1, <1>2
  <2> QED
    BY <1>1, <1>2, <2>1 DEF BusInv, Running
<1>4. CASE UNCHANGED commits
  BY <1>1, <1>2, <1>3, <1>4 DEF BusInv
<1>5. CASE commits' = commits \o records
  <2>1. t \in Nat /\ db \in Databases /\ <<Rewound>> \in Seq(EventTypes)
    BY <1>1, RequestType, EventTypesAssumption DEF IInv, TypeOK
  <2>2. records \in Seq(EventRecords)
    BY <2>1, NewRecordsType
  <2>3. Len(records) = 1 /\ records[1].type = Rewound
    <3>1. /\ DOMAIN records = 1..1 /\ records[1].type = Rewound
      BY DEF NewRecords
    <3> QED
      BY <2>2, <3>1
  <2>4. PICK x \in EventRecords : records = <<x>> /\ x.type = Rewound
    BY <2>2, <2>3
  <2>5. commits' = Append(commits, x)
    <3>1. commits' = commits \o <<x>>
      BY <1>5, <2>4
    <3> QED
      BY <1>2, <3>1
  <2>6. Follows(Append(commits, x), born, bus)
    BY <1>2, <1>3, <2>4, FollowsSkip
  <2>7. born' <= Len(commits')
    BY <1>1, <1>2, <2>5
  <2>8. Follows(commits', born', bus' \o current'.out)
    BY <1>1, <1>3, <2>5, <2>6
  <2> QED
    BY <1>1, <2>7, <2>8 DEF BusInv
<1> QED
  BY <1>4, <1>5 DEF AppendRewound

LEMMA HeadToTail ==
    ASSUME NEW S, NEW a \in Seq(S), NEW b \in Seq(S), b # <<>>
    PROVE  Append(a, Head(b)) \o Tail(b) = a \o b
<1> DEFINE left == Append(a, Head(b)) \o Tail(b)
           right == a \o b
<1>1. /\ Len(a) \in Nat /\ Len(b) \in Nat /\ Len(b) >= 1
      /\ Head(b) \in S /\ Tail(b) \in Seq(S) /\ Len(Tail(b)) = Len(b) - 1
  OBVIOUS
<1>2. left \in Seq(S) /\ right \in Seq(S) /\ Len(left) = Len(right)
  BY <1>1
<1>3. ASSUME NEW i \in 1..Len(left) PROVE left[i] = right[i]
  BY <1>1, <1>3
<1> HIDE DEF left, right
<1> QED
  BY <1>2, <1>3

LEMMA BroadcastBus == ASSUME IInv, BusInv, Broadcast PROVE BusInv'
<1>1. /\ bus \in Seq(EventRecords) /\ current.out \in Seq(EventRecords)
      /\ current \in Currents
  BY DEF IInv, TypeOK, Currents
<1>2. /\ UNCHANGED <<commits, born, phase>> /\ phase = "answer"
      /\ current.out # <<>>
      /\ bus' = Append(bus, Head(current.out))
      /\ current'.out = Tail(current.out)
  BY <1>1 DEF Broadcast, Currents
<1>3. Append(bus, Head(current.out)) \o Tail(current.out) = bus \o current.out
  BY <1>1, <1>2, HeadToTail
<1> QED
  BY <1>2, <1>3, StillBusKept DEF StillBus, Running

\* A new incarnation has sent nothing, and nothing was requested of it.
LEMMA SpawnBus == ASSUME IInv, BusInv, Spawn PROVE BusInv'
<1>1. /\ born' = Len(commits) /\ bus' = <<>> /\ UNCHANGED <<commits, current>>
      /\ current.out = <<>> /\ phase' = "recv"
  BY DEF Spawn, BusInv
<1>2. Len(commits) \in Nat
  BY DEF IInv, TypeOK
<1>3. RequestedIn(commits, Len(commits), Len(commits)) = {}
  BY <1>2 DEF RequestedIn
<1>4. Follows(commits, Len(commits), <<>>)
  BY <1>3, FS_EmptySet DEF Follows
<1>5. Follows(commits', born', bus' \o current'.out)
  <2>1. bus' \o current'.out = <<>>
    BY <1>1
  <2> QED
    BY <1>1, <1>4, <2>1
<1> QED
  BY <1>1, <1>2, <1>5 DEF BusInv

LEMMA NextBus == IInv /\ BusInv /\ [Next]_vars => BusInv'
<1> SUFFICES ASSUME IInv, BusInv, [Next]_vars PROVE BusInv'
  OBVIOUS
<1>1. CASE /\ UNCHANGED <<commits, born, bus, phase>>
           /\ current'.out = current.out
  BY <1>1, StillBusKept DEF StillBus, BusInv, Running
<1>2. CASE UNCHANGED vars \/ Finished
  BY <1>1, <1>2 DEF vars, Finished
<1>3. CASE \E c \in Clients : ClientStep(c)
  <2>1. current \in Currents
    BY DEF IInv, TypeOK, Currents
  <2> QED
    BY <1>1, <1>3, <2>1
    DEF ClientStep, Call, Enqueue, Return, Abandon, Currents
<1>4. CASE ExecSetKv \/ ExecCheckpoint \/ ExecQuery
  BY <1>4, QuietHandler
  DEF ExecSetKv, ExecCheckpoint, ExecQuery, Receive, Fail, Answer
<1>5. CASE ExecRestore
  <2>1. CASE Fail
    BY <1>5, <2>1, QuietHandler DEF ExecRestore, Receive, Fail, Answer
  <2>2. CASE ~Fail
    BY <1>5, <2>2, QuietHandler DEF ExecRestore, Receive, Idle
  <2> QED
    BY <2>1, <2>2
<1>6. CASE Reply
  BY <1>6, StillBusKept DEF Reply, StillBus, Running, Idle
<1>7. CASE ExecStop \/ HandlesDropped \/ Crash
  BY <1>7
  DEF ExecStop, HandlesDropped, Crash, ThreadEnds, BusInv, Running, Idle
<1> QED
  BY <1>2, <1>3, <1>4, <1>5, <1>6, <1>7, AppendBus, RewoundBus, BroadcastBus,
     SpawnBus DEF Next, ActorStep

\* While an incarnation runs, the n-th record that it was asked to commit is
\* the n-th that it sends, and what it has not sent it holds: whatever fails,
\* crashes or is restored around it.
THEOREM BusFollows == Spec => []BusFollowsCommits
<1>1. Init => BusInv
  <2> SUFFICES ASSUME Init PROVE BusInv
    OBVIOUS
  <2>1. /\ commits = <<>> /\ born = 0 /\ bus = <<>> /\ current.out = <<>>
    BY DEF Init, Idle
  <2>2. RequestedIn(<<>>, 0, Len(<<>>)) = {}
    BY DEF RequestedIn
  <2>3. Follows(<<>>, 0, <<>>)
    BY <2>2, FS_EmptySet DEF Follows
  <2>4. bus \o current.out = <<>>
    BY <2>1
  <2>5. Follows(commits, born, bus \o current.out)
    BY <2>1, <2>3, <2>4
  <2> QED
    BY <2>1, <2>5 DEF BusInv
<1>2. BusInv => BusFollowsCommits
  BY DEF BusInv, Follows, RequestedIn, BusFollowsCommits, Requested
<1>3. IInv /\ BusInv /\ [Next]_vars => BusInv'
  BY NextBus
<1> QED
  BY <1>1, <1>2, <1>3, Invariance, PTL DEF Spec

-----------------------------------------------------------------------------
(* The projection.                                                         *)

\* The message events among the first n of c, and the row of the k-th.
ProjectedIn(c, n) == {k \in 1..n : c[k].type \in MessageTypes}

Row(c, k) == [rowid |-> Cardinality(ProjectedIn(c, k)), id |-> c[k].id]

RowsOf(c, n) == {Row(c, k) : k \in ProjectedIn(c, n)}

\* The message types among the first i of a batch.
BatchIn(ts, i) == {j \in 1..i : ts[j] \in MessageTypes}

\* d goes on from the first n of c with the types ts.
Continues(c, d, n, ts) ==
    /\ \A i \in 1..n : d[i] = c[i]
    /\ \A i \in 1..Len(ts) : d[n + i].type = ts[i]

LEMMA ProjectedGrow ==
    ASSUME NEW c, NEW d, NEW n \in Nat, NEW ts \in Seq(EventTypes),
           Continues(c, d, n, ts), NEW i \in 0..Len(ts)
    PROVE  /\ ProjectedIn(d, n + i) = Both(ProjectedIn(c, n), n, BatchIn(ts, i))
           /\ Cardinality(ProjectedIn(d, n + i))
                = Cardinality(ProjectedIn(c, n)) + Cardinality(BatchIn(ts, i))
<1> DEFINE Old == ProjectedIn(c, n)
           New == BatchIn(ts, i)
<1>1. i \in Nat /\ i <= Len(ts) /\ Len(ts) \in Nat
  OBVIOUS
<1>2. ASSUME NEW k \in 1..(n + i), k \notin 1..n
      PROVE  k \in ProjectedIn(d, n + i) <=> k \in Shift(n, New)
  <2>1. k - n \in 1..i /\ k = n + (k - n) /\ k - n \in 1..Len(ts)
    BY <1>1, <1>2
  <2>2. d[k].type = ts[k - n]
    BY <2>1 DEF Continues
  <2>3. k \in Shift(n, New) <=> k - n \in New
    <3>1. ASSUME NEW j \in New, k = n + j PROVE j = k - n
      BY <1>1, <3>1 DEF BatchIn
    <3> QED
      BY <2>1, <3>1 DEF Shift
  <2> QED
    BY <1>2, <2>1, <2>2, <2>3 DEF BatchIn, ProjectedIn
<1>3. ASSUME NEW k \in 1..n
      PROVE  k \in ProjectedIn(d, n + i) <=> k \in Old
  <2>1. d[k] = c[k] /\ k \in 1..(n + i)
    BY <1>1 DEF Continues
  <2> QED
    BY <2>1 DEF ProjectedIn
<1>4. ASSUME NEW k \in Shift(n, New) PROVE k \in 1..(n + i) /\ k \notin 1..n
  BY <1>1 DEF Shift, BatchIn
<1>5. ProjectedIn(d, n + i) \subseteq 1..(n + i) /\ Old \subseteq 1..n
  BY DEF ProjectedIn
<1>6. 1..n \subseteq 1..(n + i)
  BY <1>1
<1>7. ProjectedIn(d, n + i) = Both(Old, n, New)
  <2> HIDE DEF Old, New
  <2> QED
    BY <1>2, <1>3, <1>4, <1>5, <1>6 DEF Both
<1>8. Within(Old, n) /\ Within(New, i)
  BY DEF Within, ProjectedIn, BatchIn
<1> HIDE DEF Old, New
<1>9. Cardinality(Both(Old, n, New)) = Cardinality(Old) + Cardinality(New)
  BY <1>1, <1>8, ShiftCount
<1> QED
  BY <1>7, <1>9 DEF Old, New

\* Each record of a batch comes after the rows before it.
Counts(c, d, n, ts) ==
    \A i \in 1..Len(ts) :
        Cardinality(ProjectedIn(d, n + i))
            = Cardinality(ProjectedIn(c, n)) + Cardinality(BatchIn(ts, i))

LEMMA BatchCounts ==
    ASSUME NEW c, NEW d, NEW n \in Nat, NEW ts \in Seq(EventTypes),
           Continues(c, d, n, ts)
    PROVE  Counts(c, d, n, ts)
<1> SUFFICES ASSUME NEW i \in 1..Len(ts)
             PROVE  Cardinality(ProjectedIn(d, n + i))
                      = Cardinality(ProjectedIn(c, n))
                        + Cardinality(BatchIn(ts, i))
  BY DEF Counts
<1>1. i \in 0..Len(ts)
  OBVIOUS
<1> QED
  BY <1>1, ProjectedGrow

\* No two message events have the same row, so the rows count them.
LEMMA RowsCount ==
    ASSUME NEW c, NEW n \in Nat
    PROVE  Cardinality(RowsOf(c, n)) = Cardinality(ProjectedIn(c, n))
<1> DEFINE P == ProjectedIn(c, n)
           f == [k \in P |-> Row(c, k)]
<1>1. ASSUME NEW k \in P, NEW l \in P, k < l PROVE Row(c, k) # Row(c, l)
  <2>1. /\ k \in Nat /\ l \in Nat /\ l \in ProjectedIn(c, l)
        /\ ProjectedIn(c, k) \subseteq ProjectedIn(c, l)
        /\ l \notin ProjectedIn(c, k)
    BY <1>1 DEF ProjectedIn
  <2>2. IsFiniteSet(ProjectedIn(c, l))
    <3>1. ProjectedIn(c, l) \subseteq 1..l /\ IsFiniteSet(1..l)
      BY <2>1, FS_Interval DEF ProjectedIn
    <3> QED
      BY <3>1, FS_Subset
  <2>3. /\ Cardinality(ProjectedIn(c, k)) \in Nat
        /\ Cardinality(ProjectedIn(c, l)) \in Nat
        /\ Cardinality(ProjectedIn(c, k)) < Cardinality(ProjectedIn(c, l))
    BY <2>1, <2>2, LastCount
  <2>4. Row(c, k).rowid # Row(c, l).rowid
    BY <2>3 DEF Row
  <2> QED
    BY <2>4
<1>2. ASSUME NEW k \in P, NEW l \in P, Row(c, k) = Row(c, l) PROVE k = l
  <2>1. k \in Nat /\ l \in Nat
    BY DEF ProjectedIn
  <2>2. k < l \/ l < k \/ k = l
    BY <2>1
  <2> QED
    BY <1>1, <1>2, <2>2
<1>3. IsFiniteSet(P)
  <2>1. P \subseteq 1..n /\ IsFiniteSet(1..n)
    BY FS_Interval DEF ProjectedIn
  <2> QED
    BY <2>1, FS_Subset
<1> HIDE DEF P
<1>4. f \in Surjection(P, RowsOf(c, n))
  BY DEF Surjection, RowsOf, P
<1>5. f \in Injection(P, RowsOf(c, n))
  BY <1>2 DEF Injection, IsInjective, RowsOf, P
<1> HIDE DEF f
<1> QED
  BY <1>3, <1>4, <1>5, FS_Surjection DEF P

LEMMA AppendProjected ==
    ASSUME IInv, MessagesFollowCommits,
           NEW t \in Nat, NEW ts \in Seq(EventTypes), Appends(t, ts)
    PROVE  MessagesFollowCommits'
<1> DEFINE n == Len(commits)
           d == commits'
           count == Cardinality(ProjectedIn(commits, n))
<1>1. /\ n \in Nat /\ Len(ts) \in Nat /\ Len(d) = n + Len(ts)
      /\ \A i \in 1..n : d[i] = commits[i]
      /\ \A i \in 1..Len(ts) : d[n + i].type = ts[i] /\ d[n + i].id = <<t, i>>
  BY CommitsGrow
<1>2. Continues(commits, d, n, ts) /\ Continues(commits, d, n, <<>>)
  BY <1>1 DEF Continues
<1>3. db.messages = RowsOf(commits, n)
  BY DEF MessagesFollowCommits, Projected, RowsOf, Row, ProjectedIn
<1>4. Cardinality(db.messages) = count
  BY <1>1, <1>3, RowsCount
<1>5. db'.messages = db.messages \cup NewMessages(db, t, ts)
  BY DEF Appends, AppendEvents, IInv, TypeOK, Databases
<1> HIDE DEF n, d, count
<1>6. ASSUME NEW k \in 1..n PROVE Row(d, k) = Row(commits, k)
  <2>1. ProjectedIn(d, k) = ProjectedIn(commits, k) /\ d[k] = commits[k]
    BY <1>1 DEF ProjectedIn
  <2> QED
    BY <2>1 DEF Row
<1>7. ASSUME NEW i \in 1..Len(ts)
      PROVE  Row(d, n + i) = [rowid |-> count + Cardinality(BatchIn(ts, i)),
                              id    |-> <<t, i>>]
  <2>1. Cardinality(ProjectedIn(d, n + i)) = count + Cardinality(BatchIn(ts, i))
    <3>1. Counts(commits, d, n, ts)
      BY <1>1, <1>2, BatchCounts
    <3> QED
      BY <3>1 DEF Counts, count
  <2> QED
    BY <1>1, <2>1 DEF Row
<1>8. NewMessages(db, t, ts) = {Row(d, n + i) : i \in BatchIn(ts, Len(ts))}
  <2>1. NewMessages(db, t, ts)
          = {[rowid |-> count + Cardinality(BatchIn(ts, i)), id |-> <<t, i>>] :
             i \in BatchIn(ts, Len(ts))}
    <3>1. DOMAIN ts = 1..Len(ts)
      OBVIOUS
    <3> QED
      BY <1>4, <3>1 DEF NewMessages, BatchIn
  <2>2. BatchIn(ts, Len(ts)) \subseteq 1..Len(ts)
    BY DEF BatchIn
  <2> QED
    BY <1>7, <2>1, <2>2
<1>9. ProjectedIn(d, n + Len(ts))
        = Both(ProjectedIn(commits, n), n, BatchIn(ts, Len(ts)))
  BY <1>1, <1>2, ProjectedGrow
<1>10. RowsOf(d, n + Len(ts))
         = RowsOf(commits, n) \cup {Row(d, n + i) : i \in BatchIn(ts, Len(ts))}
  <2>1. ProjectedIn(commits, n) \subseteq 1..n
    BY DEF ProjectedIn
  <2> QED
    BY <1>6, <1>9, <2>1 DEF RowsOf, Both, Shift
<1>11. db'.messages = RowsOf(d, Len(d))
  BY <1>1, <1>3, <1>5, <1>8, <1>10
<1> QED
  BY <1>11
  DEF d, MessagesFollowCommits, Projected, RowsOf, Row, ProjectedIn

\* Through batches, restores, failures and restarts, the table messages has
\* one row for each message event that was ever committed, in their order.
THEOREM MessagesFollow == Spec => []MessagesFollowCommits
<1>1. Init => MessagesFollowCommits
  BY DEF Init, EmptyDb, MessagesFollowCommits, Projected
<1>2. IInv /\ MessagesFollowCommits /\ [Next]_vars => MessagesFollowCommits'
  <2> SUFFICES ASSUME IInv, MessagesFollowCommits, [Next]_vars
               PROVE  MessagesFollowCommits'
    OBVIOUS
  <2>1. CASE StillStep \/ \E cp \in db.checkpoints : TruncateStep(cp)
    <3>1. db'.messages = db.messages /\ commits' = commits
      BY <2>1 DEF StillStep, SameLog, TruncateStep, Truncate, IInv, TypeOK,
                  Databases
    <3> QED
      BY <3>1 DEF MessagesFollowCommits, Projected
  <2>2. ASSUME NEW t \in Nat, NEW ts \in Seq(EventTypes \ {Rewound}),
               AppendStep(t, ts)
        PROVE  MessagesFollowCommits'
    <3>1. ts \in Seq(EventTypes)
      OBVIOUS
    <3> QED
      BY <2>2, <3>1, AppendProjected DEF AppendStep
  <2>3. ASSUME NEW t \in Nat, RewoundStep(t)
        PROVE  MessagesFollowCommits'
    <3>1. <<Rewound>> \in Seq(EventTypes)
      BY EventTypesAssumption
    <3> QED
      BY <2>3, <3>1, AppendProjected DEF RewoundStep
  <2> QED
    BY <2>1, <2>2, <2>3, LogSteps
<1> QED
  BY <1>1, <1>2, Invariance, PTL DEF Spec

=============================================================================
