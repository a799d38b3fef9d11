---------------------------- MODULE CellAnswerProofs ---------------------------
(***************************************************************************)
(* Proofs about CellActor, for every value of its constants: the answers   *)
(* that callers get are true.  A caller that gets an error may send its    *)
(* request again: the argument follows the token of each request from the  *)
(* call to the row that it writes.  A caller that gets "ok" has what it    *)
(* asked for: the argument is that nothing takes an effect back.           *)
(***************************************************************************)
EXTENDS CellActorProofs

-----------------------------------------------------------------------------
(* Where a token can be.                                                   *)

Issued == 1..(nextToken - 1)

CommitTokens(c) == {c[i].id[1] : i \in DOMAIN c}

Written == CommitTokens(commits) \cup {cp.id : cp \in db.checkpoints}

Tokens(q) == {q[i].request.token : i \in DOMAIN q}

Distinct(q) ==
    \A i, j \in DOMAIN q : q[i].request.token = q[j].request.token => i = j

InHand ==
    IF phase \in {"rewind", "answer"} THEN {current.request.token} ELSE {}

Seen == Written \cup Tokens(mailbox) \cup InHand

\* The request in the actor's hand has written nothing yet, or never will.
Unwritten ==
    \/ phase = "rewind"
    \/ phase = "answer" /\ current.outcome = "err"

\* No two requests share a token, a request is in one place at a time, and
\* what has not been handled, or was refused, is in none that writes.
TokenInv ==
    /\ nextToken >= 1
    /\ Seen \subseteq Issued
    /\ Tokens(mailbox) \cap (Written \cup InHand) = {}
    /\ Distinct(mailbox)
    /\ Unwritten => InHand \cap Written = {}
    /\ phase = "rewind" => current.outcome = "ok"
    /\ \A c \in Clients :
          /\ calls[c].fate # "idle" => calls[c].request.token \in Issued
          /\ calls[c].fate \in {"sending", "err"} =>
                calls[c].request.token \notin Seen
    /\ \A c, d \in Clients :
          /\ calls[c].fate # "idle"
          /\ calls[d].fate # "idle"
          /\ calls[c].request.token = calls[d].request.token
          => c = d

LEMMA TokensTail ==
    ASSUME NEW q \in Seq(Mails), q # <<>>, Distinct(q)
    PROVE  /\ Distinct(Tail(q))
           /\ Head(q).request.token \in Tokens(q)
           /\ Tokens(Tail(q)) = Tokens(q) \ {Head(q).request.token}
<1> DEFINE n == Len(q)
<1>1. /\ n \in Nat /\ n >= 1 /\ DOMAIN q = 1..n /\ Head(q) = q[1]
      /\ DOMAIN Tail(q) = 1..(n - 1)
      /\ \A i \in 1..(n - 1) : Tail(q)[i] = q[i + 1]
  OBVIOUS
<1> HIDE DEF n
<1>2. Distinct(Tail(q))
  BY <1>1 DEF Distinct
<1>3. 1 \in DOMAIN q
  BY <1>1
<1>4. ASSUME NEW i \in 1..(n - 1)
      PROVE  /\ Tail(q)[i].request.token \in Tokens(q)
             /\ Tail(q)[i].request.token # Head(q).request.token
  <2>1. i + 1 \in DOMAIN q /\ i + 1 # 1 /\ Tail(q)[i] = q[i + 1]
    BY <1>1
  <2> QED
    BY <1>1, <1>3, <2>1 DEF Distinct, Tokens
<1>5. ASSUME NEW j \in DOMAIN q, j # 1
      PROVE  q[j].request.token \in Tokens(Tail(q))
  <2>1. j - 1 \in 1..(n - 1) /\ (j - 1) + 1 = j
    BY <1>1, <1>5
  <2>2. Tail(q)[j - 1] = q[j]
    BY <1>1, <2>1
  <2> QED
    BY <1>1, <2>1, <2>2 DEF Tokens
<1>6. Tokens(Tail(q)) \subseteq Tokens(q) \ {Head(q).request.token}
  <2> SUFFICES ASSUME NEW i \in DOMAIN Tail(q)
               PROVE  Tail(q)[i].request.token
                        \in Tokens(q) \ {Head(q).request.token}
    BY DEF Tokens
  <2> QED
    BY <1>1, <1>4
<1>7. Tokens(q) \ {Head(q).request.token} \subseteq Tokens(Tail(q))
  <2> SUFFICES ASSUME NEW j \in DOMAIN q,
                      q[j].request.token # Head(q).request.token
               PROVE  q[j].request.token \in Tokens(Tail(q))
    BY DEF Tokens
  <2> QED
    BY <1>1, <1>5
<1>8. Head(q).request.token \in Tokens(q)
  BY <1>1, <1>3 DEF Tokens
<1> QED
  BY <1>2, <1>6, <1>7, <1>8

LEMMA TokensAppend ==
    ASSUME NEW q \in Seq(Mails), NEW m \in Mails, Distinct(q),
           m.request.token \notin Tokens(q)
    PROVE  /\ Distinct(Append(q, m))
           /\ Tokens(Append(q, m)) = Tokens(q) \cup {m.request.token}
<1> DEFINE n == Len(q)
           r == Append(q, m)
<1>1. /\ n \in Nat /\ DOMAIN q = 1..n
      /\ DOMAIN r = 1..(n + 1) /\ r[n + 1] = m
      /\ \A i \in 1..n : r[i] = q[i]
  OBVIOUS
<1> HIDE DEF n, r
<1>2. DOMAIN r = DOMAIN q \cup {n + 1} /\ n + 1 \notin DOMAIN q
  BY <1>1
<1> QED
  BY <1>1, <1>2 DEF r, Tokens, Distinct

LEMMA CommitTokensGrow ==
    ASSUME IInv, NEW t \in Nat, NEW ts \in Seq(EventTypes), Appends(t, ts)
    PROVE  Written' \subseteq Written \cup {t}
<1>1. /\ DOMAIN commits = 1..Len(commits)
      /\ DOMAIN commits' = 1..(Len(commits) + Len(ts))
      /\ Len(commits) \in Nat /\ Len(ts) \in Nat
      /\ \A i \in 1..Len(commits) : commits'[i] = commits[i]
      /\ \A i \in 1..Len(ts) : commits'[Len(commits) + i].id = <<t, i>>
  <2>1. commits \in Seq(EventRecords) /\ commits' \in Seq(EventRecords)
    BY CommitsGrow
  <2>2. DOMAIN commits = 1..Len(commits) /\ DOMAIN commits' = 1..Len(commits')
    BY <2>1
  <2> QED
    BY <2>2, CommitsGrow
<1>2. ASSUME NEW k \in DOMAIN commits', k \notin DOMAIN commits
      PROVE  commits'[k].id[1] = t
  <2>1. k - Len(commits) \in 1..Len(ts) /\ k = Len(commits) + (k - Len(commits))
    BY <1>1, <1>2
  <2>2. commits'[k].id = <<t, k - Len(commits)>>
    BY <1>1, <2>1
  <2> QED
    BY <2>2
<1>3. CommitTokens(commits') \subseteq CommitTokens(commits) \cup {t}
  BY <1>1, <1>2 DEF CommitTokens
<1>4. db'.checkpoints = db.checkpoints
  BY DEF Appends, AppendEvents, IInv, TypeOK, Databases
<1> QED
  BY <1>3, <1>4 DEF Written

-----------------------------------------------------------------------------
(* The steps of the actor.                                                 *)

\* A step that brings no token to a place where none was, and leaves the
\* calls alone.
LEMMA ActorTokens ==
    ASSUME TokenInv, UNCHANGED <<calls, nextToken>>, Seen' \subseteq Seen,
           Tokens(mailbox') \cap (Written \cup InHand)' = {},
           Distinct(mailbox'),
           Unwritten' => (InHand \cap Written)' = {},
           phase' = "rewind" => current'.outcome = "ok"
    PROVE  TokenInv'
<1>1. Issued' = Issued
  BY DEF Issued
<1>2. Seen' \subseteq Issued'
  BY <1>1 DEF TokenInv
<1>3. ASSUME NEW c \in Clients
      PROVE  /\ calls'[c].fate # "idle" => calls'[c].request.token \in Issued'
             /\ calls'[c].fate \in {"sending", "err"} =>
                   calls'[c].request.token \notin Seen'
  BY <1>1 DEF TokenInv
<1>4. \A c, d \in Clients :
          /\ calls'[c].fate # "idle"
          /\ calls'[d].fate # "idle"
          /\ calls'[c].request.token = calls'[d].request.token
          => c = d
  BY DEF TokenInv
<1> QED
  BY <1>2, <1>3, <1>4 DEF TokenInv

\* A handler takes the first message: it writes what bears its token and
\* succeeds, or it writes nothing.
Handles ==
    /\ phase = "recv"
    /\ mailbox # <<>>
    /\ mailbox' = Tail(mailbox)
    /\ UNCHANGED <<calls, nextToken>>
    /\ phase' \in {"answer", "rewind"}
    /\ current'.request = Head(mailbox).request
    /\ phase' = "rewind" => current'.outcome = "ok"
    /\ \/ Written' \subseteq Written
       \/ /\ Written' \subseteq Written \cup {Head(mailbox).request.token}
          /\ phase' = "answer"
          /\ current'.outcome = "ok"

LEMMA HandlerTokens == ASSUME IInv, TokenInv, Handles PROVE TokenInv'
<1> DEFINE t == Head(mailbox).request.token
<1>1. mailbox \in Seq(Mails)
  BY DEF IInv, TypeOK
<1>2. /\ Distinct(mailbox') /\ t \in Tokens(mailbox)
      /\ Tokens(mailbox') = Tokens(mailbox) \ {t}
  BY <1>1, TokensTail DEF TokenInv, Handles
<1>3. InHand' = {t} /\ InHand = {}
  BY DEF InHand, Handles
<1>4. Written' \subseteq Written \cup {t}
  BY DEF Handles
<1>5. Written \cap Tokens(mailbox) = {}
  BY DEF TokenInv
<1>6. Unwritten' => Written' \subseteq Written
  BY DEF Handles, Unwritten
<1> HIDE DEF t
<1>7. Seen' \subseteq Seen
  BY <1>2, <1>3, <1>4 DEF Seen
<1>8. Tokens(mailbox') \cap (Written \cup InHand)' = {}
  BY <1>2, <1>3, <1>4, <1>5
<1>9. Unwritten' => (InHand \cap Written)' = {}
  BY <1>2, <1>3, <1>5, <1>6
<1> QED
  BY <1>2, <1>7, <1>8, <1>9, ActorTokens DEF Handles

LEMMA FailHandles ==
    ASSUME phase = "recv", mailbox # <<>>, mailbox' = Tail(mailbox),
           UNCHANGED <<calls, nextToken>>, Fail
    PROVE  Handles
  BY DEF Fail, Answer, Handles, Written

LEMMA AppendTokens == ASSUME IInv, TokenInv, ExecAppend PROVE TokenInv'
<1> DEFINE r == Head(mailbox).request
<1>1. /\ phase = "recv" /\ mailbox # <<>> /\ mailbox' = Tail(mailbox)
      /\ UNCHANGED <<calls, nextToken, torn, born>> /\ r.op = "append"
  BY DEF ExecAppend, Receive
<1>2. CASE Fail
  BY <1>1, <1>2, FailHandles, HandlerTokens
<1>3. CASE ~Fail
  <2>1. /\ Appends(r.token, r.types) /\ phase' = "answer"
        /\ current'.request = r /\ current'.outcome = "ok"
    BY <1>1, <1>3, AppendSucceeds DEF Answer, Appends
  <2>2. r.token \in Nat /\ r.types \in Seq(EventTypes)
    BY <1>1, MailboxHead, RequestType DEF IInv
  <2>3. Written' \subseteq Written \cup {r.token}
    BY <2>1, <2>2, CommitTokensGrow
  <2> QED
    BY <1>1, <2>1, <2>3, HandlerTokens DEF Handles
<1> QED
  BY <1>2, <1>3

LEMMA CheckpointTokens == ASSUME IInv, TokenInv, ExecCheckpoint PROVE TokenInv'
<1> DEFINE t == Head(mailbox).request.token
<1>1. /\ phase = "recv" /\ mailbox # <<>> /\ mailbox' = Tail(mailbox)
      /\ UNCHANGED <<calls, nextToken>>
  BY DEF ExecCheckpoint, Receive
<1>2. CASE Fail
  BY <1>1, <1>2, FailHandles, HandlerTokens
<1>3. CASE ~Fail
  <2>1. /\ db' = CreateCheckpoint(db, t) /\ commits' = commits
        /\ phase' = "answer" /\ current'.request = Head(mailbox).request
        /\ current'.outcome = "ok"
    BY <1>3 DEF ExecCheckpoint, Answer
  <2>2. db \in Databases
    BY DEF IInv, TypeOK
  <2>3. db'.checkpoints
          = db.checkpoints \cup {[id |-> t, sequence |-> db.event_sequence]}
    BY <2>1, <2>2 DEF CreateCheckpoint, Databases
  <2>4. Written' \subseteq Written \cup {t}
    BY <2>1, <2>3 DEF Written
  <2> QED
    BY <1>1, <2>1, <2>4, HandlerTokens DEF Handles
<1> QED
  BY <1>2, <1>3

\* Writing a key, reading, and truncating write no row that bears a token.
LEMMA OtherTokens ==
    ASSUME IInv, TokenInv, ExecSetKv \/ ExecQuery \/ ExecRestore
    PROVE  TokenInv'
<1>1. /\ phase = "recv" /\ mailbox # <<>> /\ mailbox' = Tail(mailbox)
      /\ UNCHANGED <<calls, nextToken>>
  BY DEF ExecSetKv, ExecQuery, ExecRestore, Receive
<1>2. CASE Fail
  BY <1>1, <1>2, FailHandles, HandlerTokens
<1>3. CASE ~Fail
  <2>1. db \in Databases
    BY DEF IInv, TypeOK
  <2>2. commits' = commits /\ db'.checkpoints = db.checkpoints
    BY <1>3, <2>1
    DEF ExecSetKv, ExecQuery, ExecRestore, SetKv, Truncate, Databases
  <2>3. /\ phase' \in {"answer", "rewind"}
        /\ current'.request = Head(mailbox).request
        /\ phase' = "rewind" => current'.outcome = "ok"
    <3>1. CASE ExecSetKv \/ ExecQuery
      BY <1>3, <3>1 DEF ExecSetKv, ExecQuery, Answer
    <3>2. CASE ExecRestore
      BY <1>3, <3>2 DEF ExecRestore, Idle
    <3> QED
      BY <3>1, <3>2
  <2>4. Written' = Written
    BY <2>2 DEF Written
  <2> QED
    BY <1>1, <2>3, <2>4, HandlerTokens DEF Handles
<1> QED
  BY <1>2, <1>3

LEMMA RewoundTokens == ASSUME IInv, TokenInv, AppendRewound PROVE TokenInv'
<1> DEFINE t == current.request.token
<1>1. /\ phase = "rewind" /\ phase' = "answer"
      /\ UNCHANGED <<mailbox, calls, nextToken, born>>
  BY DEF AppendRewound
<1>2. /\ current \in Currents /\ t \in Nat
      /\ <<Rewound>> \in Seq(EventTypes)
  BY <1>1, RequestType, EventTypesAssumption DEF IInv, TypeOK, Currents
<1>3. current'.request = current.request
  BY <1>2 DEF AppendRewound, Currents
<1>4. InHand' = {t} /\ InHand = {t}
  BY <1>1, <1>3 DEF InHand
<1>5. Written' \subseteq Written \/ current'.outcome = "ok"
  BY <1>1, <1>2 DEF AppendRewound, Written, TokenInv, Currents
<1>6. Written' \subseteq Written \cup {t}
  <2>1. CASE UNCHANGED <<db, commits>>
    BY <2>1 DEF Written
  <2>2. CASE ~UNCHANGED <<db, commits>>
    <3>1. Appends(t, <<Rewound>>)
      BY <2>2 DEF AppendRewound, Appends
    <3> QED
      BY <1>2, <3>1, CommitTokensGrow
  <2> QED
    BY <2>1, <2>2
<1>7. /\ t \notin Written /\ Tokens(mailbox) \cap (Written \cup {t}) = {}
      /\ Distinct(mailbox')
  BY <1>1, <1>4 DEF TokenInv, Unwritten
<1>8. Unwritten' => current'.outcome # "ok"
  BY <1>1 DEF Unwritten
<1> HIDE DEF t
<1>9. Seen' \subseteq Seen
  BY <1>1, <1>4, <1>6 DEF Seen
<1>10. Tokens(mailbox') \cap (Written \cup InHand)' = {}
  BY <1>1, <1>4, <1>6, <1>7
<1>11. Unwritten' => (InHand \cap Written)' = {}
  BY <1>4, <1>5, <1>7, <1>8
<1> QED
  BY <1>1, <1>7, <1>9, <1>10, <1>11, ActorTokens

LEMMA BroadcastTokens == ASSUME IInv, TokenInv, Broadcast PROVE TokenInv'
<1>1. current \in Currents
  BY DEF IInv, TypeOK, Currents
<1>2. /\ UNCHANGED <<db, commits, phase, mailbox, calls, nextToken>>
      /\ phase = "answer"
      /\ current'.request = current.request
      /\ current'.outcome = current.outcome
  BY <1>1 DEF Broadcast, Currents
<1>3. UNCHANGED <<Written, InHand, Unwritten>>
  BY <1>2 DEF Written, InHand, Unwritten
<1> QED
  BY <1>2, <1>3, ActorTokens DEF TokenInv, Seen

-----------------------------------------------------------------------------
(* Answers, ends and new incarnations.                                     *)

\* What a call needs, when the actor's side brings no token anywhere new: it
\* keeps its request, and it is refused only when nothing bears its token.
LEMMA CallsTokens ==
    ASSUME TokenInv, nextToken' = nextToken, Seen' \subseteq Seen,
           Tokens(mailbox') \cap (Written \cup InHand)' = {},
           Distinct(mailbox'),
           Unwritten' => (InHand \cap Written)' = {},
           phase' = "rewind" => current'.outcome = "ok",
           \A c \in Clients :
              calls'[c].fate # "idle" =>
                  /\ calls[c].fate # "idle"
                  /\ calls'[c].request = calls[c].request
                  /\ calls'[c].fate \in {"sending", "err"} =>
                        \/ calls[c].fate \in {"sending", "err"}
                        \/ calls[c].request.token \notin Seen'
    PROVE  TokenInv'
<1>1. Issued' = Issued
  BY DEF Issued
<1>2. Seen' \subseteq Issued'
  BY <1>1 DEF TokenInv
<1>3. ASSUME NEW c \in Clients
      PROVE  /\ calls'[c].fate # "idle" => calls'[c].request.token \in Issued'
             /\ calls'[c].fate \in {"sending", "err"} =>
                   calls'[c].request.token \notin Seen'
  BY <1>1 DEF TokenInv
<1>4. \A c, d \in Clients :
          /\ calls'[c].fate # "idle"
          /\ calls'[d].fate # "idle"
          /\ calls'[c].request.token = calls'[d].request.token
          => c = d
  BY DEF TokenInv
<1> QED
  BY <1>2, <1>3, <1>4 DEF TokenInv

LEMMA ReplyTokens == ASSUME IInv, TokenInv, Reply PROVE TokenInv'
<1>1. /\ UNCHANGED <<db, commits, mailbox, nextToken>>
      /\ phase = "answer" /\ phase' = "recv"
  BY DEF Reply
<1>2. /\ UNCHANGED Written /\ InHand' = {} /\ ~Unwritten'
      /\ InHand = {current.request.token}
  BY <1>1 DEF Written, InHand, Unwritten
<1>3. /\ Seen' \subseteq Seen
      /\ Tokens(mailbox') \cap (Written \cup InHand)' = {}
      /\ Distinct(mailbox')
  BY <1>1, <1>2 DEF TokenInv, Seen
<1>4. ASSUME NEW c \in Clients, calls'[c].fate # "idle"
      PROVE  /\ calls[c].fate # "idle"
             /\ calls'[c].request = calls[c].request
             /\ calls'[c].fate \in {"sending", "err"} =>
                   \/ calls[c].fate \in {"sending", "err"}
                   \/ calls[c].request.token \notin Seen'
  <2>1. CASE current.reply # c
    BY <1>4, <2>1 DEF Reply
  <2>2. CASE current.reply = c
    <3>1. calls[c].fate = "waiting" /\ calls[c].request = current.request
      BY <2>2 DEF IInv, RepliesMatchCalls, OneReply
    <3>2. calls[c] \in LiveCalls
      BY <3>1, LiveCallType DEF IInv, TypeOK
    <3>3. /\ calls'[c].request = calls[c].request
          /\ calls'[c].fate = current.outcome
      BY <2>2, <3>2 DEF Reply, LiveCalls
    <3>4. calls'[c].fate = "sending" => FALSE
      <4>1. current.outcome \in {"ok", "err"}
        BY DEF IInv, TypeOK
      <4> QED
        BY <3>3, <4>1
    <3>5. calls'[c].fate = "err" => current.request.token \notin Seen'
      <4>1. calls'[c].fate = "err" => Unwritten
        BY <1>1, <3>3 DEF Unwritten
      <4>2. current.request.token \notin Tokens(mailbox)
        BY <1>2 DEF TokenInv
      <4>3. Unwritten => current.request.token \notin Written
        BY <1>2 DEF TokenInv
      <4> QED
        BY <1>1, <1>2, <4>1, <4>2, <4>3 DEF Seen
    <3> QED
      BY <3>1, <3>3, <3>4, <3>5
  <2> QED
    BY <2>1, <2>2
<1> QED
  BY <1>1, <1>2, <1>3, <1>4, CallsTokens

\* When the thread ends with its queue, a message in the queue has written
\* nothing.
LEMMA EndTokens ==
    ASSUME IInv, TokenInv, ThreadEnds, UNCHANGED Written,
           \A c \in Clients :
              calls'[c].fate # "idle" =>
                  /\ calls[c].fate # "idle"
                  /\ calls'[c].request = calls[c].request
                  /\ calls'[c].fate \in {"sending", "err"} =>
                        \/ calls[c].fate \in {"sending", "err"}
                        \/ calls[c].fate = "waiting" /\ phase = "recv"
    PROVE  TokenInv'
<1>1. /\ phase' = "stopped" /\ mailbox' = <<>> /\ nextToken' = nextToken
  BY DEF ThreadEnds
<1>2. InHand' = {} /\ ~Unwritten' /\ Tokens(mailbox') = {} /\ Distinct(mailbox')
  BY <1>1 DEF InHand, Unwritten, Tokens, Distinct
<1>3. Seen' = Written /\ Seen' \subseteq Seen
  BY <1>2 DEF Seen
<1>4. ASSUME NEW c \in Clients, calls[c].fate = "waiting", phase = "recv"
      PROVE  calls[c].request.token \notin Seen'
  <2>1. current.reply # c
    BY <1>4, ClientsAssumption DEF IInv, Resting, Idle
  <2>2. PICK i \in DOMAIN mailbox : mailbox[i].reply = c
    BY <1>4, <2>1 DEF IInv, RepliesMatchCalls, OneReply
  <2>3. calls[c].request = mailbox[i].request
    BY <2>2 DEF IInv, RepliesMatchCalls, OneReply
  <2>4. calls[c].request.token \in Tokens(mailbox)
    BY <2>3 DEF Tokens
  <2> QED
    BY <1>3, <2>4 DEF TokenInv
<1>5. ASSUME NEW c \in Clients, calls'[c].fate # "idle"
      PROVE  /\ calls[c].fate # "idle"
             /\ calls'[c].request = calls[c].request
             /\ calls'[c].fate \in {"sending", "err"} =>
                   \/ calls[c].fate \in {"sending", "err"}
                   \/ calls[c].request.token \notin Seen'
  BY <1>4, <1>5
<1>6. Tokens(mailbox') \cap (Written \cup InHand)' = {}
  BY <1>2
<1> QED
  BY <1>1, <1>2, <1>3, <1>5, <1>6, CallsTokens

LEMMA StopTokens ==
    ASSUME IInv, TokenInv, ExecStop \/ HandlesDropped \/ Crash
    PROVE  TokenInv'
<1>1. /\ ThreadEnds /\ commits' = commits
      /\ db'.checkpoints = db.checkpoints
  BY DEF ExecStop, HandlesDropped, Crash, ThreadEnds, UpdateStatus, IInv,
         TypeOK, Databases
<1>2. UNCHANGED Written
  BY <1>1 DEF Written
<1>3. ASSUME NEW c \in Clients, calls'[c].fate # "idle"
      PROVE  /\ calls[c].fate # "idle"
             /\ calls'[c].request = calls[c].request
             /\ calls'[c].fate \in {"sending", "err"} =>
                   \/ calls[c].fate \in {"sending", "err"}
                   \/ calls[c].fate = "waiting" /\ phase = "recv"
  <2>1. calls[c] \in CallRecords
    BY DEF IInv, TypeOK
  <2>2. CASE calls'[c] = calls[c]
    BY <1>3, <2>2
  <2>3. CASE calls'[c] # calls[c]
    <3>1. calls[c].fate \in {"sending", "waiting"} /\ ~HandlesDropped
      BY <2>3 DEF ExecStop, HandlesDropped, Crash, Orphaned
    <3>2. calls[c] \in LiveCalls
      BY <2>1, <3>1, LiveCallType
    <3>3. PICK f \in {"ok", "err", "lost"} :
             calls'[c] = [calls[c] EXCEPT !.fate = f]
      BY <3>1 DEF ExecStop, Crash, Orphaned
    <3>4. calls'[c].request = calls[c].request /\ calls'[c].fate = f
      BY <3>2, <3>3 DEF LiveCalls
    <3>5. f = "err" => phase = "recv"
      <4>1. Crash => calls'[c].fate = "lost"
        BY <3>1, <3>2 DEF Crash, LiveCalls
      <4> QED
        BY <3>1, <3>4, <4>1 DEF ExecStop
    <3> QED
      BY <3>1, <3>4, <3>5
  <2> QED
    BY <2>2, <2>3
<1> QED
  BY <1>1, <1>2, <1>3, EndTokens

LEMMA SpawnTokens == ASSUME IInv, TokenInv, Spawn PROVE TokenInv'
<1>1. /\ UNCHANGED <<db, commits, mailbox, calls, nextToken>>
      /\ phase = "stopped" /\ phase' = "recv"
  BY DEF Spawn
<1>2. UNCHANGED Written /\ InHand' = {} /\ InHand = {} /\ ~Unwritten'
  BY <1>1 DEF Written, InHand, Unwritten
<1> QED
  BY <1>1, <1>2, ActorTokens DEF TokenInv, Seen

-----------------------------------------------------------------------------
(* The steps of the callers.                                               *)

\* A new request has a token that nothing bears.
LEMMA CallTokens ==
    ASSUME IInv, TokenInv, NEW c \in Clients, Call(c)
    PROVE  TokenInv'
<1>1. /\ nextToken \in Nat /\ nextToken' = nextToken + 1
      /\ UNCHANGED <<db, commits, mailbox, current, phase>>
      /\ calls \in [Clients -> CallRecords]
  BY DEF Call, IInv, TypeOK
<1>2. /\ calls'[c].request.token = nextToken
      /\ \A d \in Clients \ {c} : calls'[d] = calls[d]
  BY <1>1 DEF Call, Offered
<1>3. UNCHANGED <<Written, InHand, Unwritten, Seen>>
  BY <1>1 DEF Written, InHand, Unwritten, Seen
<1>4. Issued \subseteq Issued' /\ nextToken \in Issued' /\ nextToken \notin Issued
  BY <1>1 DEF Issued, TokenInv
<1>5. nextToken \notin Seen
  BY <1>4 DEF TokenInv
<1>6. ASSUME NEW d \in Clients
      PROVE  /\ calls'[d].fate # "idle" => calls'[d].request.token \in Issued'
             /\ calls'[d].fate \in {"sending", "err"} =>
                   calls'[d].request.token \notin Seen'
  <2>1. CASE d = c
    BY <1>2, <1>3, <1>4, <1>5, <2>1
  <2>2. CASE d # c
    BY <1>2, <1>3, <1>4, <2>2 DEF TokenInv
  <2> QED
    BY <2>1, <2>2
<1>7. ASSUME NEW d \in Clients, NEW e \in Clients,
             calls'[d].fate # "idle", calls'[e].fate # "idle",
             calls'[d].request.token = calls'[e].request.token
      PROVE  d = e
  <2>1. \A f \in Clients \ {c} :
           calls'[f].fate # "idle" => calls'[f].request.token # nextToken
    BY <1>2, <1>4 DEF TokenInv
  <2>2. CASE d = c \/ e = c
    BY <1>2, <1>7, <2>1, <2>2
  <2>3. CASE d # c /\ e # c
    BY <1>2, <1>7, <2>3 DEF TokenInv
  <2> QED
    BY <2>2, <2>3
<1>8. /\ Seen' \subseteq Issued'
      /\ Tokens(mailbox') \cap (Written \cup InHand)' = {}
      /\ Distinct(mailbox')
      /\ Unwritten' => (InHand \cap Written)' = {}
      /\ phase' = "rewind" => current'.outcome = "ok"
      /\ nextToken' >= 1
  BY <1>1, <1>3, <1>4 DEF TokenInv
<1> QED
  BY <1>6, <1>7, <1>8 DEF TokenInv

LEMMA EnqueueTokens ==
    ASSUME IInv, TokenInv, NEW c \in Clients, Enqueue(c)
    PROVE  TokenInv'
<1> DEFINE t == calls[c].request.token
<1>1. /\ UNCHANGED <<db, commits, current, phase, nextToken>>
      /\ calls[c].fate = "sending"
      /\ calls \in [Clients -> CallRecords] /\ mailbox \in Seq(Mails)
  BY DEF Enqueue, IInv, TypeOK
<1>2. calls[c] \in LiveCalls /\ calls[c].request \in Requests
  BY <1>1, LiveCallType
<1>3. t \notin Seen /\ t \in Issued
  BY <1>1 DEF TokenInv
<1>4. /\ Distinct(mailbox')
      /\ Tokens(mailbox') = Tokens(mailbox) \cup {t}
  <2>1. PICK m \in Mails : mailbox' = Append(mailbox, m) /\ m.request = calls[c].request
    <3> DEFINE m == [request |-> calls[c].request,
                     reply   |-> IF calls[c].request.op = "fence"
                                 THEN Nobody ELSE c]
    <3>1. m \in Mails
      BY <1>2 DEF Mails
    <3>2. mailbox' = Append(mailbox, m)
      BY DEF Enqueue
    <3> QED
      BY <3>1, <3>2
  <2>2. m.request.token \notin Tokens(mailbox) /\ m.request.token = t
    BY <1>3, <2>1 DEF Seen
  <2> QED
    BY <1>1, <2>1, <2>2, TokensAppend DEF TokenInv
<1>5. /\ calls'[c].fate \in {"ok", "waiting"}
      /\ calls'[c].request = calls[c].request
      /\ \A d \in Clients \ {c} : calls'[d] = calls[d]
  BY <1>1, <1>2 DEF Enqueue, LiveCalls
<1>6. UNCHANGED <<Written, InHand, Unwritten, Issued>>
  BY <1>1 DEF Written, InHand, Unwritten, Issued
<1> HIDE DEF t
<1>7. Seen' = Seen \cup {t}
  BY <1>4, <1>6 DEF Seen
<1>8. ASSUME NEW d \in Clients
      PROVE  /\ calls'[d].fate # "idle" => calls'[d].request.token \in Issued'
             /\ calls'[d].fate \in {"sending", "err"} =>
                   calls'[d].request.token \notin Seen'
  <2>1. CASE d = c
    BY <1>3, <1>5, <1>6, <2>1 DEF t
  <2>2. CASE d # c
    <3>1. calls[d].fate # "idle" => calls[d].request.token # t
      BY <1>1, <2>2 DEF TokenInv, t
    <3> QED
      BY <1>5, <1>6, <1>7, <2>2, <3>1 DEF TokenInv
  <2> QED
    BY <2>1, <2>2
<1>9. ASSUME NEW d \in Clients, NEW e \in Clients,
             calls'[d].fate # "idle", calls'[e].fate # "idle",
             calls'[d].request.token = calls'[e].request.token
      PROVE  d = e
  <2>1. \A f \in Clients :
           calls'[f].fate # "idle" =>
               calls[f].fate # "idle" /\ calls'[f].request = calls[f].request
    BY <1>1, <1>5
  <2> QED
    BY <1>9, <2>1 DEF TokenInv
<1>10. /\ Seen' \subseteq Issued'
       /\ Tokens(mailbox') \cap (Written \cup InHand)' = {}
       /\ Unwritten' => (InHand \cap Written)' = {}
       /\ phase' = "rewind" => current'.outcome = "ok"
       /\ nextToken' >= 1
  <2>1. t \notin Written \cup InHand
    BY <1>3 DEF Seen
  <2> QED
    BY <1>1, <1>3, <1>4, <1>6, <1>7, <2>1 DEF TokenInv
<1> QED
  BY <1>4, <1>8, <1>9, <1>10 DEF TokenInv

\* A call that is forgotten leaves its tokens where they are.
LEMMA ForgetTokens ==
    ASSUME IInv, TokenInv, NEW c \in Clients, Return(c) \/ Abandon(c)
    PROVE  TokenInv'
<1>1. /\ UNCHANGED <<db, commits, phase, nextToken>>
      /\ calls' = [calls EXCEPT ![c] = NoCall]
      /\ calls \in [Clients -> CallRecords] /\ mailbox \in Seq(Mails)
      /\ current \in Currents
  BY DEF Return, Abandon, IInv, TypeOK, Currents
<1>2. /\ current'.request = current.request
      /\ current'.outcome = current.outcome
  BY <1>1 DEF Return, Abandon, Currents
<1>3. /\ DOMAIN mailbox' = DOMAIN mailbox
      /\ \A i \in DOMAIN mailbox : mailbox'[i].request = mailbox[i].request
  <2>1. \A i \in DOMAIN mailbox :
           [mailbox[i] EXCEPT !.reply = Nobody].request = mailbox[i].request
    <3> SUFFICES ASSUME NEW i \in DOMAIN mailbox
                 PROVE  [mailbox[i] EXCEPT !.reply = Nobody].request
                          = mailbox[i].request
      OBVIOUS
    <3>1. mailbox[i] \in Mails
      BY <1>1
    <3> QED
      BY <3>1 DEF Mails
  <2> QED
    BY <2>1 DEF Return, Abandon
<1>4. Tokens(mailbox') = Tokens(mailbox) /\ (Distinct(mailbox) => Distinct(mailbox'))
  BY <1>3 DEF Tokens, Distinct
<1>5. UNCHANGED <<Written, InHand, Unwritten>>
  BY <1>1, <1>2 DEF Written, InHand, Unwritten
<1>6. Seen' = Seen
  BY <1>4, <1>5 DEF Seen
<1>7. \A d \in Clients :
         calls'[d].fate # "idle" =>
             /\ calls[d].fate # "idle"
             /\ calls'[d].request = calls[d].request
             /\ calls'[d].fate = calls[d].fate
  BY <1>1 DEF NoCall
<1> QED
  BY <1>1, <1>2, <1>4, <1>5, <1>6, <1>7, CallsTokens DEF TokenInv

-----------------------------------------------------------------------------
(* An error means that nothing was done.                                   *)

LEMMA NextTokens == IInv /\ TokenInv /\ [Next]_vars => TokenInv'
<1> SUFFICES ASSUME IInv, TokenInv, [Next]_vars PROVE TokenInv'
  OBVIOUS
<1>1. CASE UNCHANGED vars \/ Finished
  <2>1. UNCHANGED <<Written, InHand, Unwritten, Seen, mailbox, calls, nextToken,
                    phase, current>>
    BY <1>1 DEF vars, Finished, Written, InHand, Unwritten, Seen
  <2> QED
    BY <2>1, ActorTokens DEF TokenInv
<1>2. CASE \E c \in Clients : ClientStep(c)
  BY <1>2, CallTokens, EnqueueTokens, ForgetTokens DEF ClientStep
<1> QED
  BY <1>1, <1>2, AppendTokens, CheckpointTokens, OtherTokens, RewoundTokens,
     BroadcastTokens, ReplyTokens, StopTokens, SpawnTokens DEF Next, ActorStep

\* A request that was answered with an error has written nothing, and its
\* message is in no queue: whatever failed, ended or crashed, the caller may
\* send it again.
THEOREM FailuresWriteNothing == Spec => []FailureMeansNothing
<1>1. Init => TokenInv
  <2> SUFFICES ASSUME Init PROVE TokenInv
    OBVIOUS
  <2>1. Written = {} /\ InHand = {} /\ Tokens(mailbox) = {} /\ ~Unwritten
    BY DEF Init, EmptyDb, Written, CommitTokens, InHand, Tokens, Unwritten
  <2> QED
    BY <2>1 DEF TokenInv, Seen, Init, Distinct, NoCall
<1>2. TokenInv => FailureMeansNothing
  BY DEF TokenInv, FailureMeansNothing, Seen, Written, CommitTokens, Tokens
<1>3. IInv /\ TokenInv /\ [Next]_vars => TokenInv'
  BY NextTokens
<1> QED
  BY <1>1, <1>2, <1>3, Invariance, PTL DEF Spec

-----------------------------------------------------------------------------
(* The effects that an answer promises, of commits c, a database d and the *)
(* flag t: what Done says of the state.                                    *)

LogOf(c, m) == {c[k] : k \in Kept(c, m)}

AppendDone(c, r, n, rows) ==
    \E m \in n..(Len(c) - Len(r.types)) :
        /\ rows = {c[m + i] : i \in DOMAIN r.types}
        /\ \A i \in DOMAIN r.types :
            /\ c[m + i].id = <<r.token, i>>
            /\ c[m + i].type = r.types[i]
            /\ c[m + i].sequence = c[m + 1].sequence + i - 1

RestoreDone(c, r, n, rows) ==
    \E m \in (n + 1)..Len(c) :
        /\ rows = {c[m]}
        /\ c[m].type = Rewound
        /\ c[m].id = <<r.token, 1>>

ReadDone(c, r, n, rows) ==
    \E m \in n..Len(c) : rows = EventsAfter(LogOf(c, m), r.since, HistoryLimit)

Effect(c, d, t, r, n, rows) ==
    /\ r.op = "append" => AppendDone(c, r, n, rows)
    /\ r.op = "set_kv" => d.kv[r.key] # NoValue
    /\ r.op = "checkpoint" => \E cp \in d.checkpoints : cp.id = r.token
    /\ r.op = "restore" => RestoreDone(c, r, n, rows)
    /\ r.op = "get_events" => t \/ ReadDone(c, r, n, rows)

LEMMA EffectIsDone ==
    ASSUME NEW r, NEW n, NEW rows, Effect(commits, db, torn, r, n, rows)
    PROVE  Done(r, n, rows)
<1>1. CASE r.op = "append"
  BY <1>1 DEF Effect, Done, AppendDone
<1>2. CASE r.op = "set_kv"
  BY <1>2 DEF Effect, Done
<1>3. CASE r.op = "checkpoint"
  BY <1>3 DEF Effect, Done
<1>4. CASE r.op = "restore"
  BY <1>4 DEF Effect, Done, RestoreDone
<1>5. CASE r.op = "get_events"
  <2>1. \A m : LogOf(commits, m) = LogAfter(m)
    BY DEF LogOf, Kept, LogAfter
  <2>2. torn \/ ReadDone(commits, r, n, rows)
    BY <1>5 DEF Effect
  <2>3. ReadDone(commits, r, n, rows) =>
          \E m \in n..Len(commits) :
             rows = EventsAfter(LogAfter(m), r.since, HistoryLimit)
    BY <2>1 DEF ReadDone
  <2> QED
    BY <1>5, <2>2, <2>3 DEF Done
<1>6. CASE r.op \notin {"append", "set_kv", "checkpoint", "restore", "get_events"}
  BY <1>6 DEF Done
<1> QED
  BY <1>1, <1>2, <1>3, <1>4, <1>5, <1>6

\* The commits go on.
Prefix(c, e) ==
    /\ Len(c) <= Len(e)
    /\ \A i \in 1..Len(c) : e[i] = c[i]

\* Nothing is taken back that an answer can promise.
Keeps(c, d, t, e, f, u) ==
    /\ Prefix(c, e)
    /\ \A k \in Keys : d.kv[k] # NoValue => f.kv[k] # NoValue
    /\ d.checkpoints \subseteq f.checkpoints
    /\ t => u

LEMMA AppendDoneKept ==
    ASSUME NEW c \in Seq(EventRecords), NEW e \in Seq(EventRecords),
           Prefix(c, e), NEW r \in Requests, r.op = "append",
           NEW n \in Nat, NEW rows, AppendDone(c, r, n, rows)
    PROVE  AppendDone(e, r, n, rows)
<1>1. PICK m \in n..(Len(c) - Len(r.types)) :
        /\ rows = {c[m + i] : i \in DOMAIN r.types}
        /\ \A i \in DOMAIN r.types :
            /\ c[m + i].id = <<r.token, i>>
            /\ c[m + i].type = r.types[i]
            /\ c[m + i].sequence = c[m + 1].sequence + i - 1
  BY DEF AppendDone
<1>2. /\ Len(c) \in Nat /\ Len(e) \in Nat
      /\ Len(r.types) \in Nat /\ DOMAIN r.types = 1..Len(r.types)
  <2>1. r.types \in Seq(EventTypes)
    BY RequestType
  <2> QED
    BY <2>1
<1>3. m \in n..(Len(e) - Len(r.types))
  BY <1>2 DEF Prefix
<1>4. ASSUME NEW i \in DOMAIN r.types
      PROVE  e[m + i] = c[m + i] /\ e[m + 1] = c[m + 1]
  <2>1. i \in Nat /\ 1 <= i /\ i <= Len(r.types)
    BY <1>2
  <2>2. m + i \in 1..Len(c) /\ m + 1 \in 1..Len(c)
    BY <1>2, <2>1
  <2> QED
    BY <2>2 DEF Prefix
<1>5. rows = {e[m + i] : i \in DOMAIN r.types}
  BY <1>1, <1>4
<1>6. \A i \in DOMAIN r.types :
          /\ e[m + i].id = <<r.token, i>>
          /\ e[m + i].type = r.types[i]
          /\ e[m + i].sequence = e[m + 1].sequence + i - 1
  BY <1>1, <1>4
<1> QED
  BY <1>3, <1>5, <1>6 DEF AppendDone

LEMMA RestoreDoneKept ==
    ASSUME NEW c \in Seq(EventRecords), NEW e \in Seq(EventRecords),
           Prefix(c, e), NEW r, NEW n \in Nat, NEW rows,
           RestoreDone(c, r, n, rows)
    PROVE  RestoreDone(e, r, n, rows)
<1>1. PICK m \in (n + 1)..Len(c) :
        rows = {c[m]} /\ c[m].type = Rewound /\ c[m].id = <<r.token, 1>>
  BY DEF RestoreDone
<1>2. m \in (n + 1)..Len(e) /\ e[m] = c[m]
  BY DEF Prefix
<1> QED
  BY <1>1, <1>2 DEF RestoreDone

LEMMA ReadDoneKept ==
    ASSUME NEW c \in Seq(EventRecords), NEW e \in Seq(EventRecords),
           Prefix(c, e), NEW r, NEW n \in Nat, NEW rows,
           ReadDone(c, r, n, rows)
    PROVE  ReadDone(e, r, n, rows)
<1>1. PICK m \in n..Len(c) :
        rows = EventsAfter(LogOf(c, m), r.since, HistoryLimit)
  BY DEF ReadDone
<1>2. m \in n..Len(e) /\ \A i \in 1..m : e[i] = c[i]
  BY DEF Prefix
<1>3. Kept(e, m) = Kept(c, m)
  <2>1. \A k \in 1..m : \A j \in (k + 1)..m : j \in 1..m
    OBVIOUS
  <2> QED
    BY <1>2, <2>1 DEF Kept
<1>4. LogOf(e, m) = LogOf(c, m)
  <2>1. Kept(c, m) \subseteq 1..m
    BY DEF Kept
  <2> QED
    BY <1>2, <1>3, <2>1 DEF LogOf
<1> QED
  BY <1>1, <1>2, <1>4 DEF ReadDone

LEMMA EffectKept ==
    ASSUME NEW c \in Seq(EventRecords), NEW e \in Seq(EventRecords),
           NEW d, NEW f, NEW t \in BOOLEAN, NEW u \in BOOLEAN,
           Keeps(c, d, t, e, f, u), NEW r \in Requests, NEW n \in Nat, NEW rows,
           Effect(c, d, t, r, n, rows)
    PROVE  Effect(e, f, u, r, n, rows)
<1>1. Prefix(c, e)
  BY DEF Keeps
<1>2. r.op = "append" => AppendDone(e, r, n, rows)
  BY <1>1, AppendDoneKept DEF Effect
<1>3. r.op = "restore" => RestoreDone(e, r, n, rows)
  BY <1>1, RestoreDoneKept DEF Effect
<1>4. r.op = "get_events" => u \/ ReadDone(e, r, n, rows)
  <2>1. ReadDone(c, r, n, rows) => ReadDone(e, r, n, rows)
    BY <1>1, ReadDoneKept
  <2>2. r.op = "get_events" => t \/ ReadDone(c, r, n, rows)
    BY DEF Effect
  <2>3. t => u
    BY DEF Keeps
  <2> QED
    BY <2>1, <2>2, <2>3
<1>5. r.op = "set_kv" => f.kv[r.key] # NoValue
  BY RequestType DEF Effect, Keeps
<1>6. r.op = "checkpoint" => \E cp \in f.checkpoints : cp.id = r.token
  BY DEF Effect, Keeps
<1> QED
  BY <1>2, <1>3, <1>4, <1>5, <1>6 DEF Effect

-----------------------------------------------------------------------------
(* Nothing takes an effect back.                                           *)

StepKeeps == Keeps(commits, db, torn, commits', db', torn')

LEMMA NextKeeps == IInv /\ [Next]_vars => StepKeeps
<1> SUFFICES ASSUME IInv, [Next]_vars PROVE StepKeeps
  OBVIOUS
<1>1. db \in Databases /\ commits \in Seq(EventRecords) /\ Len(commits) \in Nat
  BY DEF IInv, TypeOK
<1>2. Prefix(commits, commits')
  <2>1. CASE commits' = commits
    BY <1>1, <2>1 DEF Prefix
  <2>2. ASSUME NEW t \in Nat, NEW ts \in Seq(EventTypes), Appends(t, ts)
        PROVE  Prefix(commits, commits')
    BY <2>2, CommitsGrow DEF Prefix
  <2>3. \A ts \in Seq(EventTypes \ {Rewound}) : ts \in Seq(EventTypes)
    OBVIOUS
  <2>4. <<Rewound>> \in Seq(EventTypes)
    BY EventTypesAssumption
  <2> QED
    BY <2>1, <2>2, <2>3, <2>4, LogSteps
    DEF StillStep, SameLog, AppendStep, RewoundStep, TruncateStep
<1>3. torn => torn'
  BY DEF Next, vars, ClientStep, Call, Enqueue, Return, Abandon, ActorStep,
         ExecAppend, ExecSetKv, ExecCheckpoint, ExecQuery, ExecRestore,
         AppendRewound, Broadcast, Reply, ExecStop, HandlesDropped, Crash,
         Spawn, Finished
<1>4. /\ \A k \in Keys : db.kv[k] # NoValue => db'.kv[k] # NoValue
      /\ db.checkpoints \subseteq db'.checkpoints
  <2>1. CASE db' = db
    BY <2>1
  <2>2. CASE ExecAppend \/ AppendRewound \/ ExecRestore \/ ExecStop
    <3>1. db'.kv = db.kv /\ db'.checkpoints = db.checkpoints
      BY <1>1, <2>2
      DEF ExecAppend, Fail, AppendRewound, AppendEvents, ExecRestore, Truncate,
          ExecStop, UpdateStatus, Databases
    <3> QED
      BY <3>1
  <2>3. CASE ExecCheckpoint
    BY <1>1, <2>3 DEF ExecCheckpoint, Fail, CreateCheckpoint, Databases
  <2>4. CASE ExecSetKv /\ db' # db
    <3> DEFINE r == Head(mailbox).request
    <3>1. db' = SetKv(db, r.key, r.value) /\ mailbox # <<>> /\ r.op = "set_kv"
      BY <2>4 DEF ExecSetKv, Fail, Receive
    <3>2. r.key \in Keys /\ r.value \in Values
      BY <3>1, MailboxHead, RequestType DEF IInv
    <3>3. /\ db'.checkpoints = db.checkpoints
          /\ db'.kv = [db.kv EXCEPT ![r.key] = r.value]
      BY <1>1, <3>1 DEF SetKv, Databases
    <3> QED
      BY <1>1, <3>2, <3>3, NoValueAssumption DEF Databases
  <2> QED
    BY <2>1, <2>2, <2>3, <2>4
    DEF Next, vars, ClientStep, Call, Enqueue, Return, Abandon, ActorStep,
        ExecQuery, Fail, Broadcast, Reply, HandlesDropped, Crash, Spawn,
        Finished
<1> QED
  BY <1>2, <1>3, <1>4 DEF StepKeeps, Keeps

\* What the answers under way, and those that are given, promise is there.
CallsAcked ==
    \A c \in Clients :
        /\ calls[c].fate # "idle" => calls[c].asked \in 0..Len(commits)
        /\ calls[c].fate = "ok" =>
              Effect(commits, db, torn, calls[c].request, calls[c].asked,
                     calls[c].rows)

HandAcked ==
    /\ phase = "rewind" => current.request.op = "restore"
    /\ phase = "answer" /\ current.outcome = "ok" =>
          /\ current.request \in Requests
          /\ \A c \in Clients :
                current.reply = c =>
                    Effect(commits, db, torn, current.request, calls[c].asked,
                           current.rows)

Acked == CallsAcked /\ HandAcked

\* What a call was promised, it has.
LEMMA PromisesKept ==
    ASSUME IInv, IInv', Acked, StepKeeps,
           NEW c \in Clients, calls[c].fate # "idle"
    PROVE  /\ calls[c].asked \in 0..Len(commits')
           /\ calls[c].fate = "ok" =>
                Effect(commits', db', torn', calls[c].request, calls[c].asked,
                       calls[c].rows)
           /\ phase = "answer" /\ current.outcome = "ok" /\ current.reply = c =>
                Effect(commits', db', torn', current.request, calls[c].asked,
                       current.rows)
<1>1. /\ commits \in Seq(EventRecords) /\ commits' \in Seq(EventRecords)
      /\ torn \in BOOLEAN /\ torn' \in BOOLEAN
      /\ Len(commits) \in Nat /\ Len(commits') \in Nat
  BY DEF IInv, TypeOK
<1>2. Keeps(commits, db, torn, commits', db', torn')
  BY DEF StepKeeps
<1>3. calls[c].request \in Requests
  BY LiveCallType DEF IInv, TypeOK
<1>4. calls[c].asked \in 0..Len(commits)
  BY DEF Acked, CallsAcked
<1>5. calls[c].asked \in Nat /\ calls[c].asked \in 0..Len(commits')
  BY <1>1, <1>2, <1>4 DEF Keeps, Prefix
<1>6. calls[c].fate = "ok" =>
         Effect(commits', db', torn', calls[c].request, calls[c].asked,
                calls[c].rows)
  <2> SUFFICES ASSUME calls[c].fate = "ok"
               PROVE  Effect(commits', db', torn', calls[c].request,
                             calls[c].asked, calls[c].rows)
    OBVIOUS
  <2>1. Effect(commits, db, torn, calls[c].request, calls[c].asked,
               calls[c].rows)
    BY DEF Acked, CallsAcked, HandAcked
  <2> QED
    BY <1>1, <1>2, <1>3, <1>5, <2>1, EffectKept
<1>7. phase = "answer" /\ current.outcome = "ok" /\ current.reply = c =>
         Effect(commits', db', torn', current.request, calls[c].asked,
                current.rows)
  <2> SUFFICES ASSUME phase = "answer", current.outcome = "ok",
                      current.reply = c
               PROVE  Effect(commits', db', torn', current.request,
                             calls[c].asked, current.rows)
    OBVIOUS
  <2>1. /\ current.request \in Requests
        /\ Effect(commits, db, torn, current.request, calls[c].asked,
                  current.rows)
    BY DEF Acked, CallsAcked, HandAcked
  <2> QED
    BY <1>1, <1>2, <1>5, <2>1, EffectKept
<1> QED
  BY <1>5, <1>6, <1>7

LEMMA CallsAckedKept ==
    ASSUME IInv, IInv', Acked, StepKeeps,
           \A c \in Clients :
              calls'[c].fate # "idle" =>
                  /\ calls[c].fate # "idle"
                  /\ calls'[c].request = calls[c].request
                  /\ calls'[c].asked = calls[c].asked
                  /\ calls'[c].fate = "ok" =>
                        \/ calls[c].fate = "ok" /\ calls'[c].rows = calls[c].rows
                        \/ Effect(commits', db', torn', calls[c].request,
                                  calls[c].asked, calls'[c].rows)
    PROVE  CallsAcked'
<1> SUFFICES ASSUME NEW c \in Clients, calls'[c].fate # "idle"
             PROVE  /\ calls'[c].asked \in 0..Len(commits')
                    /\ calls'[c].fate = "ok" =>
                          Effect(commits', db', torn', calls'[c].request,
                                 calls'[c].asked, calls'[c].rows)
  BY DEF CallsAcked
<1> QED
  BY PromisesKept

\* Nothing happens to the calls, as in every step of the actor but an answer.
LEMMA CallsStay ==
    ASSUME IInv, IInv', Acked, StepKeeps, calls' = calls
    PROVE  CallsAcked'
  BY CallsAckedKept

LEMMA HandStays ==
    ASSUME IInv, IInv', Acked, StepKeeps, phase' = phase,
           current'.request = current.request,
           current'.outcome = current.outcome,
           current'.rows = current.rows,
           \A c \in Clients :
              current'.reply = c =>
                  current.reply = c /\ calls'[c].asked = calls[c].asked
    PROVE  HandAcked'
<1>1. ASSUME NEW c \in Clients, phase' = "answer", current'.outcome = "ok",
             current'.reply = c
      PROVE  Effect(commits', db', torn', current'.request, calls'[c].asked,
                    current'.rows)
  <2>1. current.reply = c /\ calls[c].fate # "idle"
    BY <1>1 DEF IInv, RepliesMatchCalls, OneReply
  <2> QED
    BY <1>1, <2>1, PromisesKept
<1> QED
  BY <1>1 DEF HandAcked, Acked

\* A handler promises an effect that it has had.
LEMMA HandlerAcked ==
    ASSUME IInv, IInv', Acked, StepKeeps, calls' = calls,
           phase = "recv", mailbox # <<>>,
           current'.request = Head(mailbox).request,
           current'.reply = Head(mailbox).reply,
           phase' = "rewind" => current'.request.op = "restore",
           phase' = "answer" /\ current'.outcome = "ok" =>
              \A n \in 0..Len(commits) :
                 Effect(commits', db', torn', current'.request, n,
                        current'.rows)
    PROVE  Acked'
<1>1. CallsAcked'
  BY CallsStay
<1>2. current'.request \in Requests
  BY MailboxHead DEF IInv
<1>3. ASSUME NEW c \in Clients, phase' = "answer", current'.outcome = "ok",
             current'.reply = c
      PROVE  Effect(commits', db', torn', current'.request, calls'[c].asked,
                    current'.rows)
  <2>1. 1 \in DOMAIN mailbox /\ Head(mailbox) = mailbox[1]
    BY DEF IInv, TypeOK
  <2>2. calls[c].fate = "waiting"
    BY <1>3, <2>1 DEF IInv, RepliesMatchCalls, OneReply
  <2>3. calls[c].asked \in 0..Len(commits)
    BY <2>2 DEF Acked, CallsAcked
  <2> QED
    BY <1>3, <2>3
<1>4. HandAcked'
  BY <1>2, <1>3 DEF HandAcked
<1> QED
  BY <1>1, <1>4 DEF Acked

-----------------------------------------------------------------------------
(* The steps.                                                              *)

\* The rows of an append are its records, one after the other.
LEMMA AppendEffect ==
    ASSUME IInv, NEW t \in Nat, NEW ts \in Seq(EventTypes), Appends(t, ts),
           NEW n \in 0..Len(commits), NEW r, r.token = t, r.types = ts
    PROVE  AppendDone(commits', r, n, Range(NewRecords(db, t, ts)))
<1> DEFINE m == Len(commits)
           R == NewRecords(db, t, ts)
<1>1. /\ m \in Nat /\ Len(ts) \in Nat /\ Len(commits') = m + Len(ts)
      /\ \A i \in 1..Len(ts) :
            /\ commits'[m + i] = [sequence |-> db.event_sequence + i,
                                  id       |-> <<t, i>>,
                                  type     |-> ts[i]]
            /\ commits'[m + i].sequence = db.event_sequence + i
            /\ commits'[m + i].id = <<t, i>>
            /\ commits'[m + i].type = ts[i]
  BY CommitsGrow
<1>2. /\ DOMAIN ts = 1..Len(ts) /\ DOMAIN R = 1..Len(ts)
      /\ \A i \in 1..Len(ts) : R[i] = [sequence |-> db.event_sequence + i,
                                       id       |-> <<t, i>>,
                                       type     |-> ts[i]]
  BY DEF NewRecords
<1>3. db.event_sequence \in Nat
  BY DEF IInv, TypeOK, Databases
<1> HIDE DEF m, R
<1>4. \A x : x \in Range(R) <=> \E i \in 1..Len(ts) : x = R[i]
  BY <1>2 DEF Range
<1>5. \A i \in 1..Len(ts) : R[i] = commits'[m + i]
  BY <1>1, <1>2
<1>6. Range(R) = {commits'[m + i] : i \in DOMAIN ts}
  <2>1. \A x : x \in Range(R) <=> \E i \in 1..Len(ts) : x = commits'[m + i]
    BY <1>4, <1>5
  <2>2. DOMAIN ts = 1..Len(ts)
    BY <1>2
  <2> QED
    BY <2>1, <2>2
<1>7. ASSUME NEW i \in DOMAIN ts
      PROVE  /\ commits'[m + i].id = <<t, i>>
             /\ commits'[m + i].type = ts[i]
             /\ commits'[m + i].sequence = commits'[m + 1].sequence + i - 1
  <2>1. 1 \in 1..Len(ts) /\ i \in 1..Len(ts) /\ i \in Nat
    BY <1>1, <1>2
  <2>2. /\ commits'[m + i].sequence = db.event_sequence + i
        /\ commits'[m + 1].sequence = db.event_sequence + 1
        /\ commits'[m + i].id = <<t, i>>
        /\ commits'[m + i].type = ts[i]
    BY <1>1, <2>1
  <2> QED
    BY <1>3, <2>1, <2>2
<1>8. m \in n..(Len(commits') - Len(ts))
  BY <1>1 DEF m
<1> QED
  BY <1>6, <1>7, <1>8 DEF AppendDone, R

LEMMA FailAcked ==
    ASSUME IInv, IInv', Acked, StepKeeps, calls' = calls,
           phase = "recv", mailbox # <<>>, Fail
    PROVE  Acked'
  BY HandlerAcked DEF Fail, Answer

LEMMA AppendAcked ==
    ASSUME IInv, IInv', Acked, StepKeeps, ExecAppend
    PROVE  Acked'
<1> DEFINE r == Head(mailbox).request
           R == NewRecords(db, r.token, r.types)
<1>1. /\ phase = "recv" /\ mailbox # <<>> /\ calls' = calls /\ r.op = "append"
      /\ UNCHANGED <<torn, born>>
  BY DEF ExecAppend, Receive
<1>2. CASE Fail
  BY <1>1, <1>2, FailAcked
<1>3. CASE ~Fail
  <2>1. /\ Appends(r.token, r.types) /\ phase' = "answer"
        /\ current'.request = r /\ current'.reply = Head(mailbox).reply
        /\ current'.rows = Range(R)
    BY <1>1, <1>3, AppendSucceeds DEF Answer, Appends
  <2>2. r.token \in Nat /\ r.types \in Seq(EventTypes)
    BY <1>1, MailboxHead, RequestType DEF IInv
  <2>3. \A n \in 0..Len(commits) : AppendDone(commits', r, n, Range(R))
    BY <2>1, <2>2, AppendEffect
  <2>4. \A n \in 0..Len(commits) :
           Effect(commits', db', torn', r, n, Range(R))
    BY <1>1, <2>3 DEF Effect
  <2> HIDE DEF R
  <2> QED
    BY <1>1, <2>1, <2>4, HandlerAcked
<1> QED
  BY <1>2, <1>3

LEMMA StoreAcked ==
    ASSUME IInv, IInv', Acked, StepKeeps, ExecSetKv \/ ExecCheckpoint
    PROVE  Acked'
<1> DEFINE r == Head(mailbox).request
<1>1. /\ phase = "recv" /\ mailbox # <<>> /\ calls' = calls
      /\ r.op \in {"set_kv", "checkpoint"}
  BY DEF ExecSetKv, ExecCheckpoint, Receive
<1>2. CASE Fail
  BY <1>1, <1>2, FailAcked
<1>3. CASE ~Fail
  <2>1. /\ phase' = "answer"
        /\ current'.request = r /\ current'.reply = Head(mailbox).reply
    BY <1>3 DEF ExecSetKv, ExecCheckpoint, Answer
  <2>2. db \in Databases /\ r \in Requests
    BY <1>1, MailboxHead DEF IInv, TypeOK
  <2>3. r.op = "set_kv" => db'.kv[r.key] # NoValue
    <3> SUFFICES ASSUME r.op = "set_kv" PROVE db'.kv[r.key] # NoValue
      OBVIOUS
    <3>1. db' = SetKv(db, r.key, r.value)
      BY <1>3 DEF ExecSetKv, ExecCheckpoint, Receive
    <3>2. r.key \in Keys /\ r.value \in Values
      BY <2>2, RequestType
    <3>3. db'.kv = [db.kv EXCEPT ![r.key] = r.value]
      BY <2>2, <3>1 DEF SetKv, Databases
    <3> QED
      BY <2>2, <3>2, <3>3, NoValueAssumption DEF Databases
  <2>4. r.op = "checkpoint" => \E cp \in db'.checkpoints : cp.id = r.token
    <3> SUFFICES ASSUME r.op = "checkpoint"
                 PROVE  \E cp \in db'.checkpoints : cp.id = r.token
      OBVIOUS
    <3>1. db' = CreateCheckpoint(db, r.token)
      BY <1>3 DEF ExecSetKv, ExecCheckpoint, Receive
    <3> DEFINE cp == [id |-> r.token, sequence |-> db.event_sequence]
    <3>2. cp \in db'.checkpoints
      BY <2>2, <3>1 DEF CreateCheckpoint, Databases
    <3>3. cp.id = r.token
      OBVIOUS
    <3> HIDE DEF cp
    <3> QED
      BY <3>2, <3>3
  <2>5. \A n, rows : Effect(commits', db', torn', r, n, rows)
    BY <1>1, <2>3, <2>4 DEF Effect
  <2> HIDE DEF r
  <2> QED
    BY <1>1, <2>1, <2>5, HandlerAcked DEF r
<1> QED
  BY <1>2, <1>3

\* A read answers with the log of its own instant.
LEMMA QueryAcked ==
    ASSUME IInv, IInv', Replayed, Acked, StepKeeps, ExecQuery
    PROVE  Acked'
<1> DEFINE r == Head(mailbox).request
           rows == GetEvents(db, r.since, HistoryLimit)
<1>1. /\ phase = "recv" /\ mailbox # <<>> /\ calls' = calls
      /\ r.op = "get_events" /\ torn' = torn
  BY DEF ExecQuery, Receive
<1>2. CASE Fail
  BY <1>1, <1>2, FailAcked
<1>3. CASE ~Fail
  <2>1. /\ phase' = "answer" /\ commits' = commits
        /\ current'.request = r /\ current'.reply = Head(mailbox).reply
        /\ current'.rows = rows
    BY <1>3 DEF ExecQuery, Answer
  <2>2. ~torn => db.events = LogAfter(Len(commits))
    BY <1>1 DEF Replayed
  <2>3. LogAfter(Len(commits)) = LogOf(commits, Len(commits))
    BY LogAfterKept DEF LogOf
  <2>4. ~torn => rows = EventsAfter(LogOf(commits, Len(commits)), r.since,
                                    HistoryLimit)
    BY <2>2, <2>3 DEF GetEvents
  <2>5. Len(commits) \in Nat
    BY DEF IInv, TypeOK
  <2> HIDE DEF r, rows
  <2>6. \A n \in 0..Len(commits) :
           torn' \/ ReadDone(commits', r, n, rows)
    <3> SUFFICES ASSUME NEW n \in 0..Len(commits), ~torn
                 PROVE  ReadDone(commits', r, n, rows)
      BY <1>1
    <3>1. Len(commits) \in n..Len(commits)
      BY <2>5
    <3> QED
      BY <2>1, <2>4, <3>1 DEF ReadDone
  <2>7. \A n \in 0..Len(commits) : Effect(commits', db', torn', r, n, rows)
    BY <1>1, <2>6 DEF Effect
  <2> QED
    BY <1>1, <2>1, <2>7, HandlerAcked DEF r
<1> QED
  BY <1>2, <1>3

LEMMA RestoreAcked ==
    ASSUME IInv, IInv', Acked, StepKeeps, ExecRestore
    PROVE  Acked'
<1>1. /\ phase = "recv" /\ mailbox # <<>> /\ calls' = calls
      /\ Head(mailbox).request.op = "restore"
  BY DEF ExecRestore, Receive
<1>2. CASE Fail
  BY <1>1, <1>2, FailAcked
<1>3. CASE ~Fail
  <2>1. /\ phase' = "rewind"
        /\ current'.request = Head(mailbox).request
        /\ current'.reply = Head(mailbox).reply
    BY <1>3 DEF ExecRestore, Idle
  <2> QED
    BY <1>1, <2>1, HandlerAcked
<1> QED
  BY <1>2, <1>3

\* The rows of a restore are its "rewound".
LEMMA RewoundAcked ==
    ASSUME IInv, IInv', Acked, StepKeeps, AppendRewound
    PROVE  Acked'
<1> DEFINE r == current.request
           R == NewRecords(db, r.token, <<Rewound>>)
<1>1. /\ phase = "rewind" /\ phase' = "answer" /\ calls' = calls
      /\ born' = born /\ r.op = "restore" /\ r \in Requests
      /\ current \in Currents
  BY DEF AppendRewound, Acked, HandAcked, IInv, TypeOK, Currents
<1>2. current'.request = r /\ current'.reply = current.reply
  BY <1>1 DEF AppendRewound, Currents
<1>3. CASE current'.outcome # "ok"
  BY <1>1, <1>3, CallsStay DEF Acked, HandAcked
<1>4. CASE current'.outcome = "ok"
  <2>1. Appends(r.token, <<Rewound>>) /\ current'.rows = Range(R)
    BY <1>1, <1>4 DEF AppendRewound, Appends, Currents
  <2>2. <<Rewound>> \in Seq(EventTypes) /\ r.token \in Nat
    BY <1>1, RequestType, EventTypesAssumption
  <2>3. /\ Len(commits) \in Nat /\ Len(commits') = Len(commits) + 1
        /\ commits'[Len(commits) + 1] = [sequence |-> db.event_sequence + 1,
                                         id       |-> <<r.token, 1>>,
                                         type     |-> Rewound]
    <3> DEFINE ts == <<Rewound>>
    <3>1. Len(ts) = 1 /\ 1 \in 1..Len(ts) /\ ts[1] = Rewound
      OBVIOUS
    <3> HIDE DEF ts
    <3>2. Appends(r.token, ts) /\ ts \in Seq(EventTypes)
      BY <2>1, <2>2 DEF ts
    <3>3. commits'[Len(commits) + 1] = [sequence |-> db.event_sequence + 1,
                                        id       |-> <<r.token, 1>>,
                                        type     |-> ts[1]]
      BY <2>2, <3>1, <3>2, CommitsGrow
    <3>4. Len(commits) \in Nat /\ Len(commits') = Len(commits) + 1
      BY <2>2, <3>1, <3>2, CommitsGrow
    <3> QED
      BY ONLY <3>1, <3>3, <3>4
  <2>4. Range(R) = {commits'[Len(commits) + 1]}
    <3>1. DOMAIN R = {1} /\ R[1] = [sequence |-> db.event_sequence + 1,
                                    id       |-> <<r.token, 1>>,
                                    type     |-> Rewound]
      BY DEF NewRecords
    <3> HIDE DEF R
    <3> QED
      BY <2>3, <3>1 DEF Range
  <2>5. \A n \in 0..Len(commits) : RestoreDone(commits', r, n, Range(R))
    <3> HIDE DEF R
    <3> QED
      BY <2>3, <2>4 DEF RestoreDone
  <2>6. \A n \in 0..Len(commits) :
           Effect(commits', db', torn', r, n, Range(R))
    BY <1>1, <2>5 DEF Effect
  <2>7. ASSUME NEW c \in Clients, current'.reply = c
        PROVE  Effect(commits', db', torn', current'.request, calls'[c].asked,
                      current'.rows)
    <3>1. calls[c].fate = "waiting"
      BY <1>2, <2>7 DEF IInv, RepliesMatchCalls, OneReply
    <3>2. calls[c].asked \in 0..Len(commits)
      BY <3>1 DEF Acked, CallsAcked
    <3> HIDE DEF R
    <3> QED
      BY <1>1, <1>2, <2>1, <2>6, <3>2
  <2> QED
    BY <1>1, <1>2, <2>7, CallsStay DEF Acked, HandAcked
<1> QED
  BY <1>3, <1>4

LEMMA BroadcastAcked ==
    ASSUME IInv, IInv', Acked, StepKeeps, Broadcast
    PROVE  Acked'
<1>1. current \in Currents
  BY DEF IInv, TypeOK, Currents
<1>2. /\ calls' = calls /\ phase' = phase
      /\ current'.request = current.request /\ current'.reply = current.reply
      /\ current'.outcome = current.outcome /\ current'.rows = current.rows
  BY <1>1 DEF Broadcast, Currents
<1> QED
  BY <1>2, CallsStay, HandStays DEF Acked

LEMMA ReplyAcked ==
    ASSUME IInv, IInv', Acked, StepKeeps, Reply
    PROVE  Acked'
<1>1. /\ phase = "answer" /\ phase' = "recv"
      /\ \A c \in Clients :
            calls'[c] = IF current.reply = c
                        THEN [calls[c] EXCEPT !.fate = current.outcome,
                                              !.rows = current.rows]
                        ELSE calls[c]
  BY DEF Reply
<1>2. ASSUME NEW c \in Clients, calls'[c].fate # "idle"
      PROVE  /\ calls[c].fate # "idle"
             /\ calls'[c].request = calls[c].request
             /\ calls'[c].asked = calls[c].asked
             /\ calls'[c].fate = "ok" =>
                   \/ calls[c].fate = "ok" /\ calls'[c].rows = calls[c].rows
                   \/ Effect(commits', db', torn', calls[c].request,
                             calls[c].asked, calls'[c].rows)
  <2>1. CASE current.reply # c
    BY <1>1, <1>2, <2>1
  <2>2. CASE current.reply = c
    <3>1. calls[c].fate = "waiting" /\ calls[c].request = current.request
      BY <2>2 DEF IInv, RepliesMatchCalls, OneReply
    <3>2. calls[c] \in LiveCalls
      BY <3>1, LiveCallType DEF IInv, TypeOK
    <3>3. /\ calls'[c].request = calls[c].request
          /\ calls'[c].asked = calls[c].asked
          /\ calls'[c].fate = current.outcome /\ calls'[c].rows = current.rows
      BY <1>1, <2>2, <3>2 DEF LiveCalls
    <3>4. current.outcome = "ok" =>
             Effect(commits', db', torn', current.request, calls[c].asked,
                    current.rows)
      BY <1>1, <2>2, <3>1, PromisesKept
    <3> QED
      BY <3>1, <3>3, <3>4
  <2> QED
    BY <2>1, <2>2
<1>3. HandAcked'
  BY <1>1 DEF HandAcked
<1> QED
  BY <1>2, <1>3, CallsAckedKept DEF Acked

\* A fence or a shutdown that finds the mailbox closed promises nothing.
LEMMA NoPromise ==
    ASSUME NEW c, NEW d, NEW t, NEW r, r.op \in {"fence", "shutdown"},
           NEW n, NEW rows
    PROVE  Effect(c, d, t, r, n, rows)
  BY DEF Effect

LEMMA StopAcked ==
    ASSUME IInv, IInv', Acked, StepKeeps, ExecStop \/ HandlesDropped \/ Crash
    PROVE  Acked'
<1>1. phase' = "stopped"
  BY DEF ExecStop, HandlesDropped, Crash, ThreadEnds
<1>2. ASSUME NEW c \in Clients, calls'[c].fate # "idle"
      PROVE  /\ calls[c].fate # "idle"
             /\ calls'[c].request = calls[c].request
             /\ calls'[c].asked = calls[c].asked
             /\ calls'[c].fate = "ok" =>
                   \/ calls[c].fate = "ok" /\ calls'[c].rows = calls[c].rows
                   \/ Effect(commits', db', torn', calls[c].request,
                             calls[c].asked, calls'[c].rows)
  <2>1. calls[c] \in CallRecords
    BY DEF IInv, TypeOK
  <2>2. CASE calls'[c] = calls[c]
    BY <1>2, <2>2
  <2>3. CASE calls'[c] # calls[c]
    <3>1. calls[c].fate \in {"sending", "waiting"}
      BY <2>3 DEF ExecStop, HandlesDropped, Crash, Orphaned
    <3>2. calls[c] \in LiveCalls
      BY <2>1, <3>1, LiveCallType
    <3>3. PICK f \in {"ok", "err", "lost"} :
             /\ calls'[c] = [calls[c] EXCEPT !.fate = f]
             /\ f = "ok" => calls[c].request.op \in {"fence", "shutdown"}
      BY <2>3, <3>1 DEF ExecStop, HandlesDropped, Crash, Orphaned
    <3>4. /\ calls'[c].request = calls[c].request
          /\ calls'[c].asked = calls[c].asked
          /\ calls'[c].fate = f
      BY <3>2, <3>3 DEF LiveCalls
    <3> QED
      BY <3>1, <3>3, <3>4, NoPromise
  <2> QED
    BY <2>2, <2>3
<1>3. HandAcked'
  BY <1>1 DEF HandAcked
<1> QED
  BY <1>2, <1>3, CallsAckedKept DEF Acked

LEMMA SpawnAcked ==
    ASSUME IInv, IInv', Acked, StepKeeps, Spawn
    PROVE  Acked'
<1>1. calls' = calls /\ phase' = "recv"
  BY DEF Spawn
<1> QED
  BY <1>1, CallsStay DEF Acked, HandAcked

LEMMA CallAcked ==
    ASSUME IInv, IInv', Acked, StepKeeps, NEW c \in Clients, Call(c)
    PROVE  Acked'
<1>1. /\ UNCHANGED <<commits, db, torn, phase, current>>
      /\ calls[c].fate = "idle" /\ calls \in [Clients -> CallRecords]
      /\ Len(commits) \in Nat
  BY DEF Call, IInv, TypeOK
<1>2. /\ calls'[c].asked = Len(commits)
      /\ calls'[c].fate = "ok" =>
            calls'[c].request.op \in {"fence", "shutdown"}
      /\ \A d \in Clients \ {c} : calls'[d] = calls[d]
  BY <1>1 DEF Call
<1>3. CallsAcked'
  <2> SUFFICES ASSUME NEW d \in Clients, calls'[d].fate # "idle"
               PROVE  /\ calls'[d].asked \in 0..Len(commits')
                      /\ calls'[d].fate = "ok" =>
                            Effect(commits', db', torn', calls'[d].request,
                                   calls'[d].asked, calls'[d].rows)
    BY DEF CallsAcked
  <2>1. CASE d = c
    BY <1>1, <1>2, <2>1, NoPromise
  <2>2. CASE d # c
    BY <1>2, <2>2, PromisesKept
  <2> QED
    BY <2>1, <2>2
<1>4. current.reply # c
  BY <1>1 DEF IInv, RepliesMatchCalls, OneReply
<1>5. HandAcked'
  BY <1>1, <1>2, <1>4, HandStays
<1> QED
  BY <1>3, <1>5 DEF Acked

LEMMA EnqueueAcked ==
    ASSUME IInv, IInv', Acked, StepKeeps, NEW c \in Clients, Enqueue(c)
    PROVE  Acked'
<1>1. /\ UNCHANGED <<phase, current>>
      /\ calls[c].fate = "sending" /\ calls \in [Clients -> CallRecords]
  BY DEF Enqueue, IInv, TypeOK
<1>2. calls[c] \in LiveCalls
  BY <1>1, LiveCallType
<1>3. /\ calls'[c].request = calls[c].request
      /\ calls'[c].asked = calls[c].asked
      /\ calls'[c].fate = "ok" => calls[c].request.op = "fence"
      /\ \A d \in Clients \ {c} : calls'[d] = calls[d]
  BY <1>1, <1>2 DEF Enqueue, LiveCalls
<1>4. CallsAcked'
  <2>1. ASSUME NEW d \in Clients, calls'[d].fate # "idle"
        PROVE  /\ calls[d].fate # "idle"
               /\ calls'[d].request = calls[d].request
               /\ calls'[d].asked = calls[d].asked
               /\ calls'[d].fate = "ok" =>
                     \/ calls[d].fate = "ok" /\ calls'[d].rows = calls[d].rows
                     \/ Effect(commits', db', torn', calls[d].request,
                               calls[d].asked, calls'[d].rows)
    <3>1. CASE d = c
      BY <1>1, <1>3, <3>1, NoPromise
    <3>2. CASE d # c
      BY <1>3, <2>1, <3>2
    <3> QED
      BY <3>1, <3>2
  <2> QED
    BY <2>1, CallsAckedKept
<1>5. HandAcked'
  BY <1>1, <1>3, HandStays
<1> QED
  BY <1>4, <1>5 DEF Acked

LEMMA ForgetAcked ==
    ASSUME IInv, IInv', Acked, StepKeeps, NEW c \in Clients,
           Return(c) \/ Abandon(c)
    PROVE  Acked'
<1>1. /\ phase' = phase /\ calls' = [calls EXCEPT ![c] = NoCall]
      /\ calls \in [Clients -> CallRecords] /\ current \in Currents
  BY DEF Return, Abandon, IInv, TypeOK, Currents
<1>2. /\ calls'[c].fate = "idle"
      /\ \A d \in Clients \ {c} : calls'[d] = calls[d]
  BY <1>1 DEF NoCall
<1>3. CallsAcked'
  BY <1>2, CallsAckedKept
<1>4. /\ current'.request = current.request /\ current'.rows = current.rows
      /\ current'.outcome = current.outcome
      /\ \A d \in Clients : current'.reply = d => current.reply = d
  BY <1>1, ClientsAssumption DEF Return, Abandon, Currents
<1>5. current'.reply # c
  BY <1>2 DEF IInv, RepliesMatchCalls, OneReply
<1>6. HandAcked'
  BY <1>1, <1>2, <1>4, <1>5, HandStays
<1> QED
  BY <1>3, <1>6 DEF Acked

-----------------------------------------------------------------------------
(* "ok" means that it was done.                                            *)

LEMMA NextAcked ==
    IInv /\ IInv' /\ Replayed /\ Acked /\ [Next]_vars => Acked'
<1> SUFFICES ASSUME IInv, IInv', Replayed, Acked, [Next]_vars PROVE Acked'
  OBVIOUS
<1>1. StepKeeps
  BY NextKeeps
<1>2. CASE UNCHANGED vars \/ Finished
  BY <1>1, <1>2, CallsStay, HandStays DEF Acked, vars, Finished
<1>3. CASE \E c \in Clients : ClientStep(c)
  BY <1>1, <1>3, CallAcked, EnqueueAcked, ForgetAcked DEF ClientStep
<1> QED
  BY <1>1, <1>2, <1>3, AppendAcked, StoreAcked, QueryAcked, RestoreAcked,
     RewoundAcked, BroadcastAcked, ReplyAcked, StopAcked, SpawnAcked
  DEF Next, ActorStep

\* Every answer "ok" is true: the batch is in the log as a whole, the restore
\* has been marked, the read is the log of an instant since the call.
THEOREM AnswersAreTrue == Spec => []AckMeansDone
<1>1. Init => Acked
  BY DEF Init, Acked, CallsAcked, HandAcked, NoCall
<1>2. Acked => AckMeansDone
  <2> SUFFICES ASSUME Acked, NEW c \in Clients, calls[c].fate = "ok"
               PROVE  Done(calls[c].request, calls[c].asked, calls[c].rows)
    BY DEF AckMeansDone
  <2>1. Effect(commits, db, torn, calls[c].request, calls[c].asked,
               calls[c].rows)
    BY DEF Acked, CallsAcked
  <2> QED
    BY <2>1, EffectIsDone
<1>3. Init => Replayed
  BY DEF Init, EmptyDb, Replayed, LogAfter
<1>4. IInv /\ Replayed /\ [Next]_vars => Replayed'
  BY NextReplayed
<1>5. IInv /\ IInv' /\ Replayed /\ Acked /\ [Next]_vars => Acked'
  BY NextAcked
<1> QED
  BY <1>1, <1>2, <1>3, <1>4, <1>5, Invariance, PTL DEF Spec

=============================================================================
