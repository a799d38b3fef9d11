---------------------------- MODULE MCEventStream ----------------------------
(***************************************************************************)
(* Instances of EventStream for TLC.                                       *)
(***************************************************************************)
EXTENDS EventStream

CONSTANTS k1, v1

MCEventTypes == {"user_message", "tool_call", "rewound"}
MCMessageTypes == {"user_message"}

\* Two at a time, in one transaction and two broadcasts.
MCBatches == {<<"tool_call", "user_message">>}

=============================================================================
