---------------------------- MODULE CellRefinement ----------------------------
(***************************************************************************)
(* CellActor implements AtomicCell: the refinement mapping.  A request     *)
(* takes effect in the transaction that writes it, a restore in its        *)
(* second one.                                                             *)
(***************************************************************************)
EXTENDS CellActor

\* The actor has handled the request of c and is about to answer it.
Handled(c) == phase = "answer" /\ current.reply = c

StopOp(r) == r.op \in {"fence", "shutdown"}

\* What c knows, or is about to be told.
View(c) ==
    LET k == calls[c]
    IN  IF Handled(c)
        THEN [stage   |-> "taken",
              request |-> k.request,
              outcome |-> current.outcome,
              rows    |-> current.rows]
        ELSE CASE k.fate = "idle" -> [stage |-> "silent"]
               [] k.fate \in {"sending", "waiting"} ->
                     [stage |-> "called", request |-> k.request]
               [] k.fate \in {"ok", "err"} ->
                     [stage   |-> "answered",
                      request |-> k.request,
                      outcome |-> k.fate,
                      rows    |-> IF k.fate = "ok" /\ ~StopOp(k.request)
                                  THEN k.rows ELSE {}]
               [] k.fate = "lost" -> [stage |-> "lost", request |-> k.request]

Views == [c \in Clients |-> View(c)]

\* The requests of a queue that nobody waits for.
Unawaited(q) == {q[i].request : i \in {k \in DOMAIN q : q[k].reply = Nobody}}

\* Those in the mailbox and the one that is half handled.
Unheard ==
    Unawaited(mailbox) \cup
        IF phase = "rewind" /\ current.reply = Nobody
        THEN {current.request} ELSE {}

Atomic == INSTANCE AtomicCell WITH
    history     <- commits,
    checkpoints <- db.checkpoints,
    kv          <- db.kv,
    calls       <- Views,
    orphans     <- Unheard,
    up          <- Running,
    intact      <- ~torn

\* Every request takes effect at one instant between its call and its answer
\* (CellHandle and CellActor::run): the actor implements AtomicCell.
AtomicSpec == Atomic!Spec

=============================================================================
