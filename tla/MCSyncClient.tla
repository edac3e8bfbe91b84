---------------------------- MODULE MCSyncClient ----------------------------
(***************************************************************************)
(* SyncClient on a small instance for TLC.                                 *)
(***************************************************************************)
EXTENDS SyncClient, TLC

MCArguments == [kind : Kinds, messageId : {"none"}, header : {"none"}]
MCOffered   == {Outgoing("event"), Outgoing("query")}

=============================================================================
