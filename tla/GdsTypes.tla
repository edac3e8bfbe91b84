------------------------------ MODULE GdsTypes ------------------------------
(***************************************************************************)
(* The constants shared by the modules: the values of ConnectionState.cs,  *)
(* the message kinds of DataType.cs, and which kinds MessageFormatter.cs   *)
(* lets a client write, read and hand to the listener.                     *)
(***************************************************************************)
EXTENDS Integers

NOT_CONNECTED == 0
INITIALIZING  == 1
CONNECTING    == 2
CONNECTED     == 3
LOGGING_IN    == 4
LOGGED_IN     == 5
DISCONNECTED  == 6
FAILED        == 7

ConnectionState == NOT_CONNECTED .. FAILED

DataType ==
  {"Connection", "ConnectionAck", "Event", "EventAck",
   "AttachmentRequest", "AttachmentRequestAck", "AttachmentResponse",
   "AttachmentResponseAck", "EventDocument", "EventDocumentAck",
   "QueryRequest", "QueryRequestAck", "NextQueryPageRequest"}

\* MessageFormatter.Serialize throws for the kinds only the GDS produces.
Serializable == DataType \ {"EventAck", "QueryRequestAck"}

\* MessageFormatter.Deserialize throws for the kinds only a client produces.
Deserializable == DataType \ {"Event", "QueryRequest", "NextQueryPageRequest"}

\* The kinds OnMessageReceived hands to a listener method without looking at
\* the state. "ConnectionAck" has a branch of its own, "Connection" only logs.
Dispatched == Deserializable \ {"Connection", "ConnectionAck"}

=============================================================================
