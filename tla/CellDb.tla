------------------------------- MODULE CellDb -------------------------------
(***************************************************************************)
(* The SQLite database of one cell (src/src/cell/db.rs).  A database is a  *)
(* record with one field per table; every operator below is one statement  *)
(* sequence of CellDb that SQLite runs as one transaction, as a function   *)
(* from the database before it to the database after it.                   *)
(*                                                                         *)
(* Abstracted: payloads, turn ids, labels, names and timestamps.  A row's  *)
(* uuid is <<token, n>>, where token names the request that wrote it and n *)
(* is the place of the row in that request: two rows are equal only if one *)
(* execution of one request wrote both.                                    *)
(***************************************************************************)
EXTENDS Integers, Sequences, FiniteSets, Functions

CONSTANTS
    EventTypes,     \* the event_type strings in use
    MessageTypes,   \* those that materialize_message projects
    Rewound,        \* the event_type restore_checkpoint appends
    Keys, Values,   \* kv_state
    NoValue         \* a key that has no row in kv_state

ASSUME EventTypesAssumption ==
    /\ MessageTypes \subseteq EventTypes
    /\ Rewound \in EventTypes \ MessageTypes

ASSUME NoValueAssumption == NoValue \notin Values

Statuses == {"active", "suspended"}

Uuids == Nat \X Nat

\* One row of the table events, an EventRecord.
EventRecords == [sequence : Nat, id : Uuids, type : EventTypes]

\* One row of the table messages; rowid is the order get_messages returns.
Messages == [rowid : Nat, id : Uuids]

Checkpoints == [id : Nat, sequence : Nat]

Databases ==
    [status         : Statuses,
     event_sequence : Nat,
     events         : SUBSET EventRecords,
     messages       : SUBSET Messages,
     kv             : [Keys -> Values \cup {NoValue}],
     checkpoints    : SUBSET Checkpoints]

\* A database that init_schema has just created.
EmptyDb ==
    [status         |-> "active",
     event_sequence |-> 0,
     events         |-> {},
     messages       |-> {},
     kv             |-> [k \in Keys |-> NoValue],
     checkpoints    |-> {}]

-----------------------------------------------------------------------------
(* Appending.  append_event is append_events_batch with one request.       *)

\* The records that appending the given types would return, in their order:
\* start_seq is the old event_sequence plus one.
NewRecords(db, token, types) ==
    [i \in DOMAIN types |->
        [sequence |-> db.event_sequence + i,
         id       |-> <<token, i>>,
         type     |-> types[i]]]

\* Mutant of NewMessages: the batch loop projects only its first request.
NewMessagesFirstOnly(db, token, types) ==
    {[rowid |-> Cardinality(db.messages) + 1, id |-> <<token, 1>>] :
     i \in {n \in DOMAIN types : n = 1 /\ types[n] \in MessageTypes}}

\* The rows materialize_message inserts: the next rowids, in batch order.
NewMessages(db, token, types) ==
    { [rowid |-> Cardinality(db.messages)
                 + Cardinality({j \in 1..i : types[j] \in MessageTypes}),
       id    |-> <<token, i>>] :
      i \in {n \in DOMAIN types : types[n] \in MessageTypes} }

\* No row holds a sequence the append would insert: events.sequence is the
\* PRIMARY KEY, so otherwise the INSERT fails and the transaction rolls back.
PrimaryKeysFree(db, n) ==
    \A e \in db.events :
        e.sequence \notin (db.event_sequence + 1)..(db.event_sequence + n)

AppendEvents(db, token, types) ==
    [db EXCEPT !.event_sequence = @ + Len(types),
               !.events         = @ \cup Range(NewRecords(db, token, types)),
               !.messages       = @ \cup NewMessages(db, token, types)]

-----------------------------------------------------------------------------
(* The other writes.                                                       *)

\* INSERT ... ON CONFLICT(key) DO UPDATE: the last value wins.
SetKv(db, key, value) == [db EXCEPT !.kv[key] = value]

\* A checkpoint is a mark at the event_sequence of this moment.
CreateCheckpoint(db, id) ==
    [db EXCEPT !.checkpoints =
        @ \cup {[id |-> id, sequence |-> db.event_sequence]}]

\* Mutants of Truncate: the DELETE is missing; it takes the checkpoint's own
\* row too; the counter is never moved back.
TruncateCounterOnly(db, target) == [db EXCEPT !.event_sequence = target]

TruncateInclusive(db, target) ==
    [db EXCEPT !.event_sequence = target,
               !.events         = {e \in @ : e.sequence < target}]

TruncateKeepCounter(db, target) ==
    [db EXCEPT !.events = {e \in @ : e.sequence <= target}]

\* The first transaction of restore_checkpoint.  It deletes no message, no
\* key and no checkpoint, and it sets event_sequence to the target even when
\* the target lies ahead of it.
Truncate(db, target) ==
    [db EXCEPT !.event_sequence = target,
               !.events         = {e \in @ : e.sequence <= target}]

UpdateStatus(db, status) == [db EXCEPT !.status = status]

-----------------------------------------------------------------------------
(* Reads.                                                                  *)

\* The at most limit first rows after since, of any set of event rows.  The
\* rows leave in the order of their sequences, so their set says all.
EventsAfter(events, since, limit) ==
    {e \in events :
        /\ e.sequence > since
        /\ Cardinality({f \in events : /\ f.sequence > since
                                       /\ f.sequence <= e.sequence}) <= limit}

GetEvents(db, since, limit) == EventsAfter(db.events, since, limit)

=============================================================================
