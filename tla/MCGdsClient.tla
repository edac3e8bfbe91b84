---------------------------- MODULE MCGdsClient -----------------------------
(***************************************************************************)
(* GdsClient on small instances for TLC.                                   *)
(***************************************************************************)
EXTENDS GdsClientProps, TLC

\* A legal message, one whose header is of another kind, and one that only
\* the GDS may write.
MCOffered == {[header |-> "Event", data |-> "Event"],
              [header |-> "Event", data |-> "QueryRequest"],
              [header |-> "EventAck", data |-> "EventAck"]}

\* A kind with a listener method and one that is only logged.
MCPushTypes == {"EventAck", "Event"}

Symmetry == Permutations(Apps)

=============================================================================
