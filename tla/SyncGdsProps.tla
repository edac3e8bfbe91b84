---------------------------- MODULE SyncGdsProps ----------------------------
(***************************************************************************)
(* What is checked and proved of SyncGds: its properties, the abstract     *)
(* requests it implements, the invariant its proofs use, and what its      *)
(* documentation says and the code does not do.                            *)
(***************************************************************************)
EXTENDS SyncGds

\* Every variable has its type.
TypeOK ==
  /\ pc \in [Calls -> {"idle", "send", "add", "wait", "completed", "delayed", "catch", "done"}]
  /\ args \in [Calls -> Arguments]
  /\ pending \in [Keys -> Calls \cup {NoId}]
  /\ task \in [Calls -> {"pending", "failed"} \cup Kinds]
  /\ answer \in [Calls -> Calls \cup {NoId}]
  /\ outcome \in [Calls -> {"none", "not sent", "duplicate", "timeout", "ack",
                            "failure", "bad cast"}]
  /\ session \in {"before", "ready", "over"}
  /\ requests \subseteq [call : Calls, kind : Kinds, id : Keys]
  /\ acks \subseteq [call : Calls, kind : Kinds, id : Keys]
  /\ receiver \in [call : Calls \cup {NoId}, from : Calls \cup {NoId}, kind : Kinds]
  /\ failer \in {"idle", "visiting", "done"}
  /\ unvisited \subseteq Calls

\* "guarantees pending dictionaries are cleaned up on completion / timeout /
\* connection failure" (SyncGDSClient.cs:19): an entry belongs to a call that
\* waits and will remove it, whatever the order of acks, timeouts and failures.
NothingLeftBehind ==
  \A k \in Keys : pending[k] # NoId =>
    /\ Key(pending[k]) = k
    /\ pc[pending[k]] \in {"wait", "completed", "delayed"}

\* The GDS may have a message of this call.
Sent(c) == pc[c] \notin {"idle", "send"} /\ outcome[c] # "not sent"

\* The answer to d's message is one c asked for: its id is c's key.
Fits(d, c) == WireId(d) = Key(c) /\ args[d].kind = args[c].kind

\* A call returns an ack only if the GDS answered a message of the call's kind
\* that travelled under the call's key, its own or another call's; it fails
\* only after OnConnectionFailure (whatever entries others took or removed).
OutcomeEarned ==
  \A c \in Calls :
    /\ outcome[c] = "ack" =>
         /\ answer[c] # NoId /\ Fits(answer[c], c)
         /\ Sent(answer[c]) /\ Request(answer[c]) \notin requests
    /\ outcome[c] = "failure" => failer # "idle"

\* No ack completes two calls, though two messages may carry the same id and
\* two calls may own the same key one after the other.
AnswersUsedOnce ==
  \A c, d \in Calls : answer[c] = answer[d] /\ answer[c] # NoId => c = d

\* No other call names or sends the id c waits under, and c sends it itself.
Alone(c) ==
  /\ WireId(c) = Key(c)
  /\ \A d \in Calls \ {c} : Key(c) \notin {Key(d), WireId(d)}

\* Once a call is in the dictionary, its answer will find it there: timeouts,
\* refused calls and acks of others do not take its entry, unless a connection
\* failure was reported or another call shares its id.  An answer is lost only
\* before TryAdd (AckCompletesCall below).
AckFindsCall ==
  \A c \in Calls :
    /\ Alone(c) /\ failer = "idle"
    /\ pc[c] \in {"wait", "delayed"} /\ Request(c) \in requests \cup acks
    => pending[Key(c)] = c

\* Every call that was made returns: nobody waits for an ack that was dropped,
\* taken by another call or never sent.
EveryCallReturns == \A c \in Calls : pc[c] \in {"send", "add"} ~> pc[c] = "done"

\* The request table implements the abstract requests: a call is open until it
\* returns, and an ack it returns is the answer to a message of its kind that
\* travelled under its key (its own or another call's), used for no other call.
\* Beside the two exceptions that SyncGDSClient.cs:91 names, a call may throw
\* for a duplicate id or a failed cast; GdsRequests has both as outcomes.
Fitting  == {p \in Calls \X Calls : Fits(p[1], p[2])}
Answered == {c \in Calls : Sent(c) /\ Request(c) \notin requests}
Broken   == failer # "idle"
Result   == [c \in Calls |-> IF pc[c] = "done" THEN outcome[c] ELSE "open"]
Used     == [c \in Calls |-> IF Result[c] = "ack" THEN answer[c] ELSE NoId]

Abstract == INSTANCE GdsRequests WITH fitting <- Fitting, answered <- Answered,
                                      broken <- Broken, result <- Result, used <- Used

\* Every step of calls, receive loop and failure is a step of the abstract
\* requests or leaves them alone.
ImplementsRequests == Abstract!Spec

-----------------------------------------------------------------------------
(* The inductive invariant.                                                *)

\* A message on its way is what its call sent.
MessageInv == \A m \in requests \cup acks : m = Request(m.call) /\ Sent(m.call)

\* The receive loop carries an answer of the call it brings it to.
CarriedInv ==
  \/ receiver = NoAck
  \/ /\ receiver.call \in Calls /\ receiver.from \in Calls
     /\ WireId(receiver.from) = Key(receiver.call)
     /\ receiver.kind = args[receiver.from].kind

\* What the task of a call holds, and what the call may return of it.
TaskInv(c) ==
  /\ task[c] \in Kinds <=> answer[c] # NoId
  /\ answer[c] # NoId => WireId(answer[c]) = Key(c) /\ task[c] = args[answer[c]].kind
  /\ task[c] = "failed" => failer # "idle"
  /\ pc[c] = "completed" => task[c] # "pending"
  /\ outcome[c] # "none" <=> pc[c] \in {"catch", "done"}
  /\ pc[c] = "catch" => outcome[c] \in {"timeout", "failure", "bad cast"}
  /\ outcome[c] = "ack" => task[c] = args[c].kind
  /\ outcome[c] = "failure" => failer # "idle"

ResultInv == \A c \in Calls : TaskInv(c)

\* A message is unanswered, its answer on the way, carried, or used by one call.
Consumed(d) == Sent(d) /\ Request(d) \notin requests \cup acks

UniqueInv ==
  /\ requests \cap acks = {}
  /\ receiver.from # NoId => Consumed(receiver.from) /\ \A c \in Calls : answer[c] # receiver.from
  /\ \A c \in Calls : answer[c] # NoId => Consumed(answer[c])
  /\ AnswersUsedOnce

IInv == /\ TypeOK /\ NothingLeftBehind /\ MessageInv
        /\ CarriedInv /\ ResultInv /\ UniqueInv

-----------------------------------------------------------------------------
(* What the documentation says and the code does not do.                   *)

\* "returns a Task that completes when the EventAckData arrives"
\* (SyncGDSClient.cs:90), where every call has an id of its own and nothing
\* fails: a call that waits has its answer still before it.
AckCompletesCall ==
  \A c \in Calls :
    pc[c] = "wait" /\ task[c] = "pending" /\ failer = "idle" =>
      Request(c) \in requests \cup acks \/ receiver.from = c

=============================================================================
