----------------------------- MODULE EventStream -----------------------------
(***************************************************************************)
(* A client that follows the events of a cell (src/src/api/ws.rs): by SSE, *)
(* with a replay of what it missed, or by WebSocket.  It composes the      *)
(* actor of CellActor, one task that writes, and the task that serves the  *)
(* stream: that task subscribes to the bus, asks the actor for the events  *)
(* after the client's position, sends them, and then sends what its        *)
(* broadcast receiver yields.                                              *)
(*                                                                         *)
(* The client keeps what it received.  It, or its network, may disconnect  *)
(* at any time; it comes back naming the last sequence that it received,   *)
(* as an EventSource does with Last-Event-ID.                              *)
(***************************************************************************)
EXTENDS CellActor, SequencesExt

CONSTANTS
    Writer, Reader, \* the two tasks
    WriterOps,      \* what the writer requests
    Kinds,          \* the protocols in use: "sse", "ws" or both
    BusCap,         \* capacity of the broadcast channel, 256 in the code
    NoSince,        \* in place of a sequence: the client names none
    FirstPositions, \* what a client may name as ?since= when it first comes;
                    \* a negative number is as good as 0
    MaxConnects     \* bound: times the client connects

ASSUME TasksAssumption == Writer # Reader /\ Clients = {Writer, Reader}

ASSUME StreamAssumption ==
    /\ Kinds \subseteq {"sse", "ws"}
    /\ BusCap \in Nat \ {0}
    /\ NoSince \notin Nat
    /\ FirstPositions \subseteq Nat
    /\ MaxConnects \in Nat

VARIABLES
    kind,     \* the protocol that the client speaks
    conn,     \* "off"; "asking" for the history; "open"
    attached, \* the receiver is one of the bus of this incarnation
    rx,       \* what was sent to the receiver and it has not yielded yet
    lagged,   \* the receiver has lost records since it last yielded
    history,  \* what is left of the replay
    maxSeen,  \* max_seen_seq
    url,      \* ?since=, or NoSince
    lastId,   \* Last-Event-ID: the last sequence received, or NoSince
    received, \* history: every record the client has received, in order
    connects, \* how often the client has connected
    lossy     \* history: the task has lost records, or was not given them,
              \* and went on

streamVars == <<kind, conn, attached, rx, lagged, history, maxSeen, url,
                lastId, received, connects, lossy>>

allVars == <<vars, streamVars>>

StreamTypeOK ==
    /\ kind \in Kinds
    /\ conn \in {"off", "asking", "open"}
    /\ attached \in BOOLEAN
    /\ rx \in Seq(EventRecords)
    /\ Len(rx) <= BusCap
    /\ lagged \in BOOLEAN
    /\ history \in Seq(EventRecords)
    /\ maxSeen \in Nat
    /\ {url, lastId} \subseteq Nat \cup {NoSince}
    /\ received \in Seq(EventRecords)
    /\ connects \in 0..MaxConnects
    /\ lossy \in BOOLEAN

StreamInit ==
    /\ Init
    /\ kind \in Kinds
    /\ conn = "off"
    /\ attached = FALSE
    /\ rx = <<>>
    /\ lagged = FALSE
    /\ history = <<>>
    /\ maxSeen = 0
    /\ url \in FirstPositions \cup {NoSince}
    /\ lastId = NoSince
    /\ received = <<>>
    /\ connects = 0
    /\ lossy = FALSE

-----------------------------------------------------------------------------
(* The task that serves the stream.                                        *)

\* last-event-id, or else the query parameter.  A WebSocket looks at neither.
Since == IF lastId # NoSince THEN lastId ELSE url

Replays == kind = "sse" /\ Since # NoSince

\* Subscribe, and only then ask for the history.
Connect ==
    /\ conn = "off"
    /\ calls[Reader].fate = "idle"
    /\ Running
    /\ connects < MaxConnects
    /\ connects' = connects + 1
    /\ attached' = TRUE
    /\ maxSeen' = 0
    /\ conn' = IF Replays THEN "asking" ELSE "open"
    /\ calls' = IF ~Replays THEN calls
                ELSE [calls EXCEPT ![Reader] =
                        [fate    |-> "sending",
                         request |-> [op |-> "get_events", token |-> 0,
                                      since |-> Since],
                         asked   |-> Len(commits),
                         rows    |-> {}]]
    /\ UNCHANGED <<db, mailbox, phase, current, bus, nextToken, spawns,
                   commits, born, torn>>
    /\ UNCHANGED <<rx, lagged, history, kind, url, lastId, received, lossy>>

\* The answer was an error, or as many rows as get_events returns at most.
CutShort(call) ==
    call.fate = "err" \/ Cardinality(call.rows) = HistoryLimit

\* The rows by their sequences, as ORDER BY gives them.
InOrder(rows) ==
    [i \in 1..Cardinality(rows) |->
        CHOOSE r \in rows :
            Cardinality({s \in rows : s.sequence <= r.sequence}) = i]

\* Mutant of Replay: the receiver is made when the history is there.
ReplaySubscribesLate ==
    /\ conn = "asking"
    /\ calls[Reader].fate \in {"ok", "err"}
    /\ history' = InOrder(calls[Reader].rows)
    /\ maxSeen' = IF calls[Reader].rows = {} THEN Since
                  ELSE Last(history').sequence
    /\ lossy' = (lossy \/ CutShort(calls[Reader]))
    /\ conn' = "open"
    /\ rx' = <<>>
    /\ calls' = [calls EXCEPT ![Reader] = NoCall]
    /\ UNCHANGED <<db, mailbox, phase, current, bus, nextToken, spawns,
                   commits, born, torn>>
    /\ UNCHANGED <<attached, lagged, kind, url, lastId, received, connects>>

\* The answer of get_events; an error is an empty history.
Replay ==
    /\ conn = "asking"
    /\ calls[Reader].fate \in {"ok", "err"}
    /\ history' = InOrder(calls[Reader].rows)
    /\ maxSeen' = IF calls[Reader].rows = {} THEN Since
                  ELSE Last(history').sequence
    /\ lossy' = (lossy \/ CutShort(calls[Reader]))
    /\ conn' = "open"
    /\ calls' = [calls EXCEPT ![Reader] = NoCall]
    /\ UNCHANGED <<db, mailbox, phase, current, bus, nextToken, spawns,
                   commits, born, torn>>
    /\ UNCHANGED <<attached, rx, lagged, kind, url, lastId, received,
                   connects>>

\* The client gets the record, and its sequence is the new Last-Event-ID.
Deliver(record) ==
    /\ received' = Append(received, record)
    /\ lastId' = record.sequence

DeliverHistory ==
    /\ conn = "open"
    /\ history # <<>>
    /\ Deliver(Head(history))
    /\ history' = Tail(history)
    /\ UNCHANGED vars
    /\ UNCHANGED <<conn, attached, rx, lagged, maxSeen, kind, url, connects,
                   lossy>>

\* The receiver yields its next record.
Yields ==
    /\ conn = "open"
    /\ history = <<>>
    /\ rx # <<>>
    /\ ~lagged
    /\ rx' = Tail(rx)
    /\ UNCHANGED vars
    /\ UNCHANGED <<conn, attached, lagged, history, maxSeen, kind, url,
                   connects, lossy>>

\* The filter of the live stream; a WebSocket has none.
Passes(record) == kind = "ws" \/ record.sequence > maxSeen

\* Mutant of DeliverLive: no deduplication.
DeliverLiveUnfiltered ==
    /\ Yields
    /\ Deliver(Head(rx))

DeliverLive ==
    /\ Yields
    /\ Passes(Head(rx))
    /\ Deliver(Head(rx))

FilterOut ==
    /\ Yields
    /\ ~Passes(Head(rx))
    /\ UNCHANGED <<lastId, received>>

\* The connection is gone, and with it everything that was on its way.
Hangup ==
    /\ conn' = "off"
    /\ attached' = FALSE
    /\ rx' = <<>>
    /\ lagged' = FALSE
    /\ history' = <<>>
    /\ maxSeen' = 0
    /\ UNCHANGED <<kind, url, lastId, received, connects, lossy>>

\* The receiver yields Lagged before anything else.  SSE swallows that and
\* goes on with the oldest record that is left; a WebSocket ends.
Lag ==
    /\ conn = "open"
    /\ history = <<>>
    /\ lagged
    /\ \/ /\ kind = "sse"
          /\ lagged' = FALSE
          /\ lossy' = TRUE
          /\ UNCHANGED <<conn, attached, rx, history, maxSeen, kind, url,
                         lastId, received, connects>>
       \/ kind = "ws" /\ Hangup
    /\ UNCHANGED vars

\* The bus is closed and drained, and the SSE stream ends.  The task of a
\* WebSocket keeps a handle, so to it the bus is never closed.
StreamEnds ==
    /\ conn = "open"
    /\ kind = "sse"
    /\ ~attached
    /\ rx = <<>>
    /\ history = <<>>
    /\ ~lagged
    /\ Hangup
    /\ UNCHANGED vars

\* The client or the network hangs up, whatever the task is doing.
Disconnect ==
    \/ conn = "open" /\ Hangup /\ UNCHANGED vars
    \/ /\ conn = "asking"
       /\ Hangup
       /\ IF calls[Reader].fate \in {"sending", "waiting"}
          THEN Abandon(Reader) ELSE Return(Reader)

-----------------------------------------------------------------------------
(* The steps of the actor, as the stream sees them.                        *)

\* Mutant of Publish: the channel has no capacity.
PublishUnbounded ==
    /\ Broadcast
    /\ rx' = IF attached THEN Append(rx, Head(current.out)) ELSE rx
    /\ UNCHANGED <<conn, attached, lagged, history, maxSeen, kind, url, lastId,
                   received, connects, lossy>>

\* A record that is sent to the bus reaches the receiver; a receiver that is
\* full loses its oldest record.
Publish ==
    /\ Broadcast
    /\ IF ~attached THEN UNCHANGED <<rx, lagged>>
       ELSE LET full == Len(rx) = BusCap
            IN  /\ rx' = Append(IF full THEN Tail(rx) ELSE rx,
                                Head(current.out))
                /\ lagged' = (lagged \/ full)
    /\ UNCHANGED <<conn, attached, history, maxSeen, kind, url, lastId,
                   received, connects, lossy>>

\* The actor ends, and the stream keeps what it was sent.  It does not end
\* for want of handles while a WebSocket has one.
ActorEnds ==
    /\ \/ ExecStop
       \/ HandlesDropped /\ ~(kind = "ws" /\ attached)
    /\ attached' = FALSE
    /\ UNCHANGED <<conn, rx, lagged, history, maxSeen, kind, url, lastId,
                   received, connects, lossy>>

\* The process dies, and the connection with it.
ProcessDies == Crash /\ Hangup

\* Steps that leave the stream alone.
Elsewhere ==
    /\ \/ Call(Writer) /\ calls'[Writer].request.op \in WriterOps
       \/ Enqueue(Writer)
       \/ Return(Writer)
       \/ Enqueue(Reader)
       \/ conn = "off" /\ Return(Reader)
       \/ ExecAppend
       \/ ExecQuery
       \/ ExecCheckpoint
       \/ ExecRestore
       \/ AppendRewound
       \/ Reply
       \/ Spawn
       \/ Finished
    /\ UNCHANGED streamVars

StreamNext ==
    \/ Connect
    \/ Replay
    \/ DeliverHistory
    \/ DeliverLive
    \/ FilterOut
    \/ Lag
    \/ StreamEnds
    \/ Disconnect
    \/ Publish
    \/ ActorEnds
    \/ ProcessDies
    \/ Elsewhere

StreamSpec == StreamInit /\ [][StreamNext]_allVars

-----------------------------------------------------------------------------

\* Nothing has been taken out of the log, and nothing appended to it that is
\* not broadcast: no restore has taken place.
NeverRestored ==
    /\ Range(commits) \subseteq db.events
    /\ \A r \in Range(commits) : r.type # Rewound

\* What the client has received over all its connections is a stretch of the
\* log without gap, repetition or disorder, from the position on that it first
\* named; a WebSocket heeds none.
NoGap ==
    \E s \in 0..(Len(commits) - Len(received)) :
        /\ received = SubSeq(commits, s + 1, s + Len(received))
        /\ kind = "sse" /\ url # NoSince /\ received # <<>> => s = url

\* Only a receiver that lags, a history that failed or was cut short, a second
\* connection by WebSocket, and a restore open a gap: no order of subscription,
\* query, broadcast and commit does, and no reconnect, crash or respawn.
GapsHaveCauses ==
    NeverRestored /\ ~lossy /\ (kind = "ws" => connects <= 1) => NoGap

\* No record reaches the client a second time: not by the replay and the live
\* stream, not after a reconnect, and not after a restore either.
NeverTwice ==
    \A i, j \in DOMAIN received : received[i] = received[j] => i = j

-----------------------------------------------------------------------------
(* What the documentation says of the streams and the code does not do.    *)

\* README: "Lossless reconnect.  SSE / WebSocket honor Last-Event-ID and
\* ?since= - replay missed events, then live broadcast."
Lossless == NeverRestored => NoGap

=============================================================================
