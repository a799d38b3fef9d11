----------------------------- MODULE MCCellActor -----------------------------
(***************************************************************************)
(* Instances of CellActor for TLC.                                         *)
(***************************************************************************)
EXTENDS CellRefinement

CONSTANTS c1, c2, k1, v1

MCEventTypes == {"user_message", "tool_call", "rewound"}
MCMessageTypes == {"user_message"}

\* The batches that the interleavings are about: two events, of which one is
\* projected; none.
MCBatches == {<<"tool_call", "user_message">>, <<>>}

\* For long histories of one client.
MCLongBatches == {<<"user_message">>, <<"user_message", "tool_call">>}

=============================================================================
