------------------------------ MODULE AtomicCell ------------------------------
(***************************************************************************)
(* What a cell promises to whoever holds its CellHandle                    *)
(* (src/src/cell/actor.rs): every request takes effect as a whole, at one  *)
(* instant between the call and the answer, in an order that is the same   *)
(* for all.  There are no mailbox, no transactions and no reply channels.  *)
(*                                                                         *)
(* The state is the history: every event that was ever appended.  A        *)
(* restore deletes nothing here, it appends a "rewound", and the log that  *)
(* readers get is what the history leaves of the events.                   *)
(***************************************************************************)
EXTENDS CellDb

CONSTANTS
    Clients,      \* who makes requests
    Requests,     \* what can be requested
    HistoryLimit  \* how many rows a read gets at most

VARIABLES
    history,     \* every event ever appended, in order
    checkpoints, \* the marks that were set
    kv,          \* the keys and their values
    calls,       \* for each client, its request and what has become of it
    orphans,     \* requests that nobody waits for and that may take effect
    up,          \* the cell takes requests
    intact       \* no restore has been cut in two

vars == <<history, checkpoints, kv, calls, orphans, up, intact>>

\* A request is "called", then "taken", when it has its effect, or is
\* refused, and then "answered".  A client that dies with the cell is "lost".
Silent == [stage |-> "silent"]

Called(r) == [stage |-> "called", request |-> r]

Taken(r, outcome, rows) ==
    [stage |-> "taken", request |-> r, outcome |-> outcome, rows |-> rows]

Answered(r, outcome, rows) ==
    [stage |-> "answered", request |-> r, outcome |-> outcome, rows |-> rows]

Lost(r) == [stage |-> "lost", request |-> r]

Stops(r) == r.op \in {"fence", "shutdown"}

\* What a closed cell answers: it has been stopped, as who stops it wishes.
Closed(r) == Answered(r, IF Stops(r) THEN "ok" ELSE "err", {})

Waiting(c) == calls[c].stage = "called"

\* The requests that may still take effect.
Pending == orphans \cup {calls[c].request : c \in {d \in Clients : Waiting(d)}}

\* The log that the history leaves: a "rewound" takes back every event with a
\* sequence that is not below its own.
Log ==
    {history[i] : i \in {k \in 1..Len(history) :
        \A j \in (k + 1)..Len(history) :
            ~ /\ history[j].type = Rewound
              /\ history[j].sequence <= history[k].sequence}}

\* The last sequence given out.
Counter == IF history = <<>> THEN 0 ELSE history[Len(history)].sequence

Init ==
    /\ history = <<>>
    /\ checkpoints = {}
    /\ kv = [k \in Keys |-> NoValue]
    /\ calls = [c \in Clients |-> Silent]
    /\ orphans = {}
    /\ up = TRUE
    /\ intact = TRUE

-----------------------------------------------------------------------------
(* Requests take effect.                                                   *)

\* The request r is decided, for the client that waits or for nobody.
Take(r, outcome, rows) ==
    /\ up
    /\ \/ \E c \in Clients :
             /\ calls[c] = Called(r)
             /\ calls' = [calls EXCEPT ![c] = Taken(r, outcome, rows)]
             /\ UNCHANGED orphans
       \/ /\ r \in orphans
          /\ orphans' = orphans \ {r}
          /\ UNCHANGED calls
    /\ UNCHANGED up

\* The batch is appended as a whole, with the sequences that come next.
InTurn(r, records) ==
    /\ Len(records) = Len(r.types)
    /\ \A i \in DOMAIN records :
          /\ records[i].id = <<r.token, i>>
          /\ records[i].type = r.types[i]
          /\ records[i].sequence = records[1].sequence + i - 1
    /\ intact /\ records # <<>> => records[1].sequence = Counter + 1

TakeAppend(r) ==
    /\ r.op = "append"
    /\ LET records == SubSeq(history', Len(history) + 1, Len(history'))
       IN  /\ history' = history \o records
           /\ InTurn(r, records)
           /\ Take(r, "ok", Range(records))
    /\ UNCHANGED <<checkpoints, kv, intact>>

TakeSetKv(r) ==
    /\ r.op = "set_kv"
    /\ kv' = [kv EXCEPT ![r.key] = r.value]
    /\ Take(r, "ok", {})
    /\ UNCHANGED <<history, checkpoints, intact>>

TakeCheckpoint(r) ==
    /\ r.op = "checkpoint"
    /\ \E cp \in checkpoints' :
          /\ cp.id = r.token
          /\ intact => cp.sequence = Counter
          /\ checkpoints' = checkpoints \cup {cp}
    /\ Take(r, "ok", {})
    /\ UNCHANGED <<history, kv, intact>>

\* The read is the log of this instant.
TakeRead(r) ==
    /\ r.op = "get_events"
    /\ \E rows \in IF intact
                   THEN {EventsAfter(Log, r.since, HistoryLimit)}
                   ELSE SUBSET Range(history) :
          Take(r, "ok", rows)
    /\ UNCHANGED <<history, checkpoints, kv, intact>>

\* The restore takes back what lies after its checkpoint.
TakeRestore(r) ==
    /\ r.op = "restore"
    /\ \E cp \in checkpoints :
          LET rewound == [sequence |-> cp.sequence + 1,
                          id       |-> <<r.token, 1>>,
                          type     |-> Rewound]
          IN  /\ cp.id = r.id
              /\ history' = Append(history, rewound)
              /\ Take(r, "ok", {rewound})
    /\ UNCHANGED <<checkpoints, kv, intact>>

\* A request is refused, and writes nothing; only of a restore there may be
\* left that it deleted and did not say so.
Refuse(r) ==
    /\ ~Stops(r)
    /\ Take(r, "err", {})
    /\ \/ UNCHANGED intact
       \/ r.op = "restore" /\ intact' = FALSE
    /\ UNCHANGED <<history, checkpoints, kv>>

\* The cell stops taking requests: nothing that is pending has an effect.
Stop ==
    /\ up
    /\ \E r \in Pending : Stops(r)
    /\ up' = FALSE
    /\ calls' = [c \in Clients |->
           IF Waiting(c) THEN Closed(calls[c].request) ELSE calls[c]]
    /\ orphans' = {}
    /\ UNCHANGED <<history, checkpoints, kv, intact>>

-----------------------------------------------------------------------------
(* Clients call and get their answers.                                     *)

Idling == UNCHANGED <<history, checkpoints, kv, up, intact>>

Call(c) ==
    /\ calls[c] = Silent
    /\ calls'[c] # Silent
    /\ \E r \in {calls'[c].request} \cap Requests :
          calls' = [calls EXCEPT ![c] = IF up THEN Called(r) ELSE Closed(r)]
    /\ UNCHANGED orphans
    /\ Idling

Respond(c) ==
    /\ calls[c].stage = "taken"
    /\ calls' = [calls EXCEPT ![c] = [@ EXCEPT !.stage = "answered"]]
    /\ UNCHANGED orphans
    /\ Idling

\* A fence is answered before it takes effect.
AnswerFence(c) ==
    /\ Waiting(c)
    /\ calls[c].request.op = "fence"
    /\ orphans' = orphans \cup {calls[c].request}
    /\ calls' = [calls EXCEPT ![c] = Closed(calls[c].request)]
    /\ Idling

Forget(c) ==
    /\ calls[c].stage \in {"answered", "lost"}
    /\ calls' = [calls EXCEPT ![c] = Silent]
    /\ UNCHANGED orphans
    /\ Idling

\* The client gives up; its request may take effect nevertheless.
Abandon(c) ==
    /\ calls[c].stage \in {"called", "taken"}
    /\ calls' = [calls EXCEPT ![c] = Silent]
    /\ \/ UNCHANGED orphans
       \/ Waiting(c) /\ orphans' = orphans \cup {calls[c].request}
    /\ Idling

-----------------------------------------------------------------------------
(* The cell comes and goes.                                                *)

Drop ==
    /\ up
    /\ calls = [c \in Clients |-> Silent]
    /\ orphans = {}
    /\ up' = FALSE
    /\ UNCHANGED <<history, checkpoints, kv, calls, orphans, intact>>

\* What was not answered is lost; a restore may have been cut in two.
Crash ==
    /\ up
    /\ up' = FALSE
    /\ calls' = [c \in Clients |->
           IF calls[c].stage \in {"called", "taken"}
           THEN Lost(calls[c].request) ELSE calls[c]]
    /\ orphans' = {}
    /\ \/ UNCHANGED intact
       \/ (\E r \in Pending : r.op = "restore") /\ intact' = FALSE
    /\ UNCHANGED <<history, checkpoints, kv>>

Restart ==
    /\ ~up
    /\ up' = TRUE
    /\ UNCHANGED <<history, checkpoints, kv, calls, orphans, intact>>

Effect(r) ==
    \/ TakeAppend(r)
    \/ TakeSetKv(r)
    \/ TakeCheckpoint(r)
    \/ TakeRead(r)
    \/ TakeRestore(r)
    \/ Refuse(r)

Next ==
    \/ \E r \in Pending : Effect(r)
    \/ Stop
    \/ \E c \in Clients :
        Call(c) \/ Respond(c) \/ AnswerFence(c) \/ Forget(c) \/ Abandon(c)
    \/ Drop
    \/ Crash
    \/ Restart

Spec == Init /\ [][Next]_vars

=============================================================================
