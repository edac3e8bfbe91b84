----------------------------- MODULE SyncClient -----------------------------
(***************************************************************************)
(* SyncGDSClient on top of a real AsyncGDSClient: the request table of     *)
(* SyncGds and the threads of GdsClient in one system.  Create makes the   *)
(* wrapper the listener of the client it builds; so                        *)
(*   - a call of SendEvent2Async or SendQueryAsync is an application       *)
(*     thread that runs SendMessage of the client;                         *)
(*   - OnConnectionFailure runs on whichever thread of the client reports  *)
(*     the failure, OnEventAck3 and OnQueryRequestAck11 on its receive     *)
(*     loop, which handles nothing else until they return;                 *)
(*   - Connect, Close and Dispose of the wrapper call Connect and Close    *)
(*     of the client.                                                      *)
(* What SyncGds leaves open (when the client is logged in, when failures   *)
(* are reported, which messages arrive) is decided by GdsClient here.      *)
(***************************************************************************)
EXTENDS GdsClientProps

CONSTANTS
  Callers,    \* the application threads that run a call
  Ids,        \* message ids the application chooses itself
  Arguments   \* the argument records it passes

NoId  == "none"
Kinds == {"event", "query"}

\* SendEvent2 and SendQueryRequest10, and the kind of the GDS's answer.
Outgoing(kind) == IF kind = "event" THEN [header |-> "Event", data |-> "Event"]
                  ELSE [header |-> "QueryRequest", data |-> "QueryRequest"]
AckType(kind)  == IF kind = "event" THEN "EventAck" ELSE "QueryRequestAck"

ASSUME CallersAssumption == Callers \subseteq Apps
ASSUME UsedAssumption ==
  /\ {"Connect", "Close", "SendMessage"} \subseteq Calls
  /\ {Outgoing(k) : k \in Kinds} \subseteq Offered
ASSUME TableAssumption ==
  /\ NoId \notin Ids \cup Callers /\ Ids \cap Callers = {}
  /\ Arguments \subseteq
       [kind : Kinds, messageId : Ids \cup {NoId}, header : Ids \cup {NoId}]

VARIABLES cpc, args, pending, task, answer, outcome, requests, acks, receiver,
          failer, unvisited

table   == <<cpc, args, pending, task, answer, outcome, requests, acks, receiver,
             failer, unvisited>>
allVars == <<vars, table>>

\* The wrapper sees the state of the client only as a SendXxx that throws.
ClientSession == CASE state < LOGGED_IN -> "before"
                   [] state = LOGGED_IN -> "ready"
                   [] state > LOGGED_IN -> "over"

Table == INSTANCE SyncGdsProps WITH Calls <- Callers, pc <- cpc, session <- ClientSession

Users == Apps \ Callers

SyncInit == Init /\ Table!Init

-----------------------------------------------------------------------------

\* The client steps on its own, or calls OnConnectionFailure of the wrapper;
\* its OnConnectionSuccess and OnDisconnect only log.
Report == IF told'["failure"] # told["failure"] THEN Table!OnConnectionFailure
          ELSE UNCHANGED table

UserStep == \E a \in Users :
  Connect(a) \/ Close(a) \/ CloseStep(a)

ReceiveLoop ==
  receiver = Table!NoAck /\ (Opened \/ OnConnectionAck \/ RecvStep)

ClientStep ==
  /\ \/ UserStep \/ ConnStep \/ ReceiveLoop \/ Error \/ ErrStep \/ ClsdStep
     \/ SocketClosed \/ ConnectionLost \/ ServerReplies
  /\ Report

\* Mutant: the wrapper sends without the client's test of its state.
BugSendAccepted(c) ==
  /\ Goto(c, "idle", "s_send") /\ out' = [out EXCEPT ![c] = Outgoing(args[c].kind)]
  /\ UNCHANGED <<shared, disposing, net, hist>>
  /\ cpc[c] = "idle" /\ cpc' = [cpc EXCEPT ![c] = "send"]
  /\ UNCHANGED <<args, pending, task, answer, outcome, requests, acks, receiver,
                 failer, unvisited>>

\* SendMessage tests the state for the call, and sends for it.
SendAccepted(c) == SendMessage(c, Outgoing(args[c].kind)) /\ Table!Accepted(c)
Transmit(c)     == SendBinary(c) /\ Table!Send(c)

\* What the call and the listener do on their own.
CallAlone(c) ==
  \/ Table!SendRefused(c) \/ Table!TryAdd(c) \/ Table!TryAddRefused(c)
  \/ Table!Completed(c) \/ Table!Delayed(c) \/ Table!RemoveDelayed(c)
  \/ Table!RemoveCompleted(c) \/ Table!Catch(c)

TableStep ==
  /\ UNCHANGED vars
  /\ \/ \E c \in Callers : CallAlone(c) \/ Table!SetException(c)
     \/ Table!SetResult \/ Table!Clear

\* The GDS answers a message that reached it.
AnswerRequest(q) ==
  /\ Outgoing(q.kind) \in wire
  /\ ServerPushes /\ inbox' = Append(inbox, Push(AckType(q.kind)))
  /\ Table!Answer(q)

\* The client hands an ack to the wrapper.
DispatchAck(a) ==
  /\ inbox # <<>> /\ Head(inbox) = Push(AckType(a.kind))
  /\ OnData
  /\ Table!OnAck(a)

SyncNext ==
  \/ ClientStep
  \/ TableStep
  \/ \E c \in Callers : SendAccepted(c) \/ Transmit(c)
  \/ \E q \in requests : AnswerRequest(q)
  \/ \E a \in acks : DispatchAck(a)

SyncSpec == SyncInit /\ [][SyncNext]_allVars

-----------------------------------------------------------------------------
(* Properties                                                              *)

\* The whole system is a request table: what the client really does to the
\* wrapper (its sessions, reports and acks) is within what SyncGds allows.
TableKept == Table!Spec

\* An ack a call returns has crossed the whole system: the GDS accepted the
\* login, a message of the call's kind went over the connection, and an answer
\* came through the receive loop.
Granted(kind)   == server = "accepted" /\ Outgoing(kind) \in wire
Delivered(kind) == Granted(kind) /\ told["data"] > 0

AckIsReal == \A c \in Callers : outcome[c] = "ack" => Delivered(args[c].kind)

\* A call fails with the connection only if that is over: the client has left
\* LOGGED_IN for good, or its socket is closed; no stale report of an earlier
\* phase fails a call of a healthy session.
FailureIsReal ==
  \A c \in Callers : outcome[c] = "failure" => state >= DISCONNECTED \/ ws = "closed"

\* Without a login nothing of a call leaves the wrapper: it is refused before
\* it sends, so it neither times out nor is left in the dictionary.
RefusedOutside ==
  server # "accepted" =>
    \A c \in Callers : cpc[c] \in {"idle", "done"} /\ outcome[c] \in {"none", "not sent"}

-----------------------------------------------------------------------------
(* The inductive invariant: what the table owes to the client.             *)

TableTyped ==
  /\ args \in [Callers -> Arguments]
  /\ cpc = [c \in Callers |-> cpc[c]] /\ task = [c \in Callers |-> task[c]]
  /\ outcome = [c \in Callers |-> outcome[c]]
  /\ requests \cup acks \subseteq [call : Callers, kind : Kinds, id : Table!Keys]

\* A failure in the table was reported by the client.
FailureInv ==
  /\ failer # "idle" => told["failure"] > 0
  /\ \A c \in Callers : task[c] = "failed" \/ outcome[c] = "failure" => failer # "idle"

\* An ack in the table came through the client.
AckInv ==
  /\ \A a \in acks : Granted(a.kind)
  /\ receiver # Table!NoAck => receiver.kind \in Kinds /\ Delivered(receiver.kind)
  /\ \A c \in Callers : task[c] \in Kinds => Delivered(task[c])

SyncInv == TableTyped /\ FailureInv /\ AckInv /\ AckIsReal /\ RefusedOutside

=============================================================================
