------------------------------ MODULE MCSyncGds -----------------------------
(***************************************************************************)
(* SyncGds on small instances for TLC.                                     *)
(***************************************************************************)
EXTENDS SyncGdsProps, TLC

CONSTANTS i1, i2

\* A Guid; an id of the application; the same id out of a header; an id and
\* a header, of which the header travels and the id is the key.
MCArguments ==
  {[kind |-> "event", messageId |-> NoId, header |-> NoId],
   [kind |-> "event", messageId |-> i1,   header |-> NoId],
   [kind |-> "query", messageId |-> NoId, header |-> i1],
   [kind |-> "event", messageId |-> i2,   header |-> i1]}

MCGuidsOnly == [kind : {"event"}, messageId : {NoId}, header : {NoId}]

=============================================================================
