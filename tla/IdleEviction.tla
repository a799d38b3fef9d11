---------------------------- MODULE IdleEviction ----------------------------
(***************************************************************************)
(* Time and one cell that may go idle: the 60-second interval of           *)
(* src/src/main.rs, evict_idle_cells of src/src/cell/manager.rs, and       *)
(* last_active of the actor, src/src/cell/actor.rs.  What an eviction is   *)
(* made of is in CellManager; here it is one step.                         *)
(***************************************************************************)
EXTENDS Integers

CONSTANTS
    MaxIdle, \* max_idle, 300 seconds, in ticks
    Period   \* of the interval, 60 seconds, in ticks

VARIABLES
    active,  \* the cell is in active_cells
    idle,    \* last_active.elapsed(); all that is over MaxIdle is the same
    wait,    \* ticks until the interval is due
    clients  \* clients of the cell are left

vars == <<active, idle, wait, clients>>

Init ==
    /\ active = FALSE
    /\ idle = 0
    /\ wait = 0
    /\ clients = TRUE

\* A message for the actor, which may have to be spawned for it.
Request ==
    /\ clients
    /\ active' = TRUE
    /\ idle' = 0
    /\ UNCHANGED <<wait, clients>>

\* The clients have what they want and never come back.
Leave ==
    /\ clients
    /\ clients' = FALSE
    /\ UNCHANGED <<active, idle, wait>>

Tick ==
    /\ wait > 0
    /\ wait' = wait - 1
    /\ idle' = IF idle > MaxIdle THEN idle ELSE idle + 1
    /\ UNCHANGED <<active, clients>>

\* idle_duration is a message like any other: the actor sets last_active when
\* it receives it, and takes elapsed() of that.
EvictIdleCells ==
    /\ wait = 0
    /\ wait' = Period
    /\ idle' = IF active THEN 0 ELSE idle
    /\ active' = (active /\ ~(idle' > MaxIdle))
    /\ UNCHANGED clients

Next == Request \/ Leave \/ Tick \/ EvictIdleCells

\* Time passes, and the timer task is scheduled.
FairSpec == Init /\ [][Next]_vars /\ WF_vars(Tick) /\ WF_vars(EvictIdleCells)

\* docs/architecture.md, of the state Idle / Evicted: "When inactive, the
\* actor performs a WAL checkpoint, pushes a snapshot to BlobStore, releases
\* its lease, and drops from memory."  A cell that no client uses any more is
\* not active for ever.
IdleMeansEvicted == ~clients ~> ~active

=============================================================================
