------------------------------ MODULE SyncGds -------------------------------
(***************************************************************************)
(* The request table of SyncGDSClient (src/samples/GDSNetSDK.Demo): calls  *)
(* of SendEvent2Async and SendQueryAsync run concurrently, each sends its  *)
(* message, enters itself in the dictionary _pendingMessages under a       *)
(* message id, and waits for the ack or for its timeout; the receive loop  *)
(* of the underlying client completes the calls from OnEventAck3 and       *)
(* OnQueryRequestAck11, and OnConnectionFailure fails them all.  Every     *)
(* dictionary operation, and every completion of a call's task, is a step  *)
(* of its own.  The AsyncGDSClient below is reduced to the phases of its   *)
(* session (SyncClient puts the real one there); the GDS is external.      *)
(***************************************************************************)
EXTENDS FiniteSets, Naturals

CONSTANTS
  Calls,      \* calls of SendEvent2Async and SendQueryAsync
  Ids,        \* message ids the application chooses itself
  Arguments   \* the argument records the application passes

NoId     == "none"
Kinds    == {"event", "query"}
Argument == [kind : Kinds, messageId : Ids \cup {NoId}, header : Ids \cup {NoId}]

ASSUME IdsAssumption       == NoId \notin Ids \cup Calls /\ Ids \cap Calls = {}
ASSUME ArgumentsAssumption == Arguments \subseteq Argument

VARIABLES
  pc,         \* call -> its next step
  args,       \* call -> its arguments
  pending,    \* the dictionary: message id -> call, or NoId
  task,       \* call -> its TaskCompletionSource: pending, event, query, failed
  answer,     \* call -> history: the call whose ack completed its task, or NoId
  outcome,    \* call -> what it returned or threw
  session,    \* the AsyncGDSClient: before its login, ready (LOGGED_IN), over
  requests,   \* messages the client sent and the GDS has not answered
  acks,       \* answers on their way
  receiver,   \* the call the receive loop took from the dictionary, and the ack
  failer,     \* OnConnectionFailure: idle, visiting, done
  unvisited   \* entries its enumeration found at its start and has not passed

vars == <<pc, args, pending, task, answer, outcome, session, requests, acks,
          receiver, failer, unvisited>>
tasks    == <<task, answer>>
gds      == <<requests, acks>>
listener == <<receiver, failer, unvisited>>

Keys  == Ids \cup Calls
NoAck == [call |-> NoId, from |-> NoId, kind |-> "event"]

\* The key of a call without an id is a new Guid, written here as the call.
Key(c) == IF args[c].messageId # NoId THEN args[c].messageId
          ELSE IF args[c].header # NoId THEN args[c].header ELSE c

\* A header that was passed travels as it is (AsyncGDSClient.SendEvent2 and
\* SendQueryRequest10); otherwise one is made with the key.
WireId(c) == IF args[c].header # NoId THEN args[c].header ELSE Key(c)

Request(c) == [call |-> c, kind |-> args[c].kind, id |-> WireId(c)]

Goto(c, from, to) == pc[c] = from /\ pc' = [pc EXCEPT ![c] = to]
TryRemove(k)      == pending' = [pending EXCEPT ![k] = NoId]

Init ==
  /\ pc = [c \in Calls |-> "idle"]
  /\ args \in [Calls -> Arguments]
  /\ pending = [k \in Keys |-> NoId]
  /\ task = [c \in Calls |-> "pending"] /\ answer = [c \in Calls |-> NoId]
  /\ outcome = [c \in Calls |-> "none"]
  /\ session = "before" /\ requests = {} /\ acks = {}
  /\ receiver = NoAck /\ failer = "idle" /\ unvisited = {}

-----------------------------------------------------------------------------
(* SendEvent2Async and SendQueryAsync                                      *)

\* AsyncGDSClient.SendMessage tests State before it sends.
Accepted(c) ==
  /\ session = "ready"
  /\ Goto(c, "idle", "send")
  /\ UNCHANGED <<args, pending, tasks, outcome, session, gds, listener>>

\* Outside of LOGGED_IN it throws.
SendRefused(c) ==
  /\ session # "ready"
  /\ Goto(c, "idle", "done")
  /\ outcome' = [outcome EXCEPT ![c] = "not sent"]
  /\ UNCHANGED <<args, pending, tasks, session, gds, listener>>

\* The message is sent before the call is entered in the dictionary.  Sent on
\* a socket that is closed by now it is lost, which is never to be answered.
Send(c) ==
  /\ Goto(c, "send", "add")
  /\ requests' = requests \cup {Request(c)}
  /\ UNCHANGED <<args, pending, tasks, outcome, session, acks, listener>>

TryAdd(c) ==
  /\ pending[Key(c)] = NoId
  /\ Goto(c, "add", "wait")
  /\ pending' = [pending EXCEPT ![Key(c)] = c]
  /\ UNCHANGED <<args, tasks, outcome, session, gds, listener>>

TryAddRefused(c) ==
  /\ pending[Key(c)] # NoId
  /\ Goto(c, "add", "done")
  /\ outcome' = [outcome EXCEPT ![c] = "duplicate"]
  /\ UNCHANGED <<args, pending, tasks, session, gds, listener>>

\* Task.WhenAny: the first of the task and the delay decides.
Completed(c) ==
  /\ task[c] # "pending"
  /\ Goto(c, "wait", "completed")
  /\ UNCHANGED <<args, pending, tasks, outcome, session, gds, listener>>

\* Mutant: a call whose entry is gone is taken to be answered soon.
BugDelayed(c) ==
  /\ task[c] = "pending" /\ pending[Key(c)] = c
  /\ Goto(c, "wait", "delayed")
  /\ UNCHANGED <<args, pending, tasks, outcome, session, gds, listener>>

Delayed(c) ==
  /\ task[c] = "pending"
  /\ Goto(c, "wait", "delayed")
  /\ UNCHANGED <<args, pending, tasks, outcome, session, gds, listener>>

\* Mutant: a call that timed out does not leave the dictionary.
BugRemoveDelayed(c) ==
  /\ Goto(c, "delayed", "done")
  /\ outcome' = [outcome EXCEPT ![c] = "timeout"]
  /\ UNCHANGED <<args, pending, tasks, session, gds, listener>>

\* Mutant: a timeout clears the dictionary, as OnConnectionFailure does.
BugClearDelayed(c) ==
  /\ Goto(c, "delayed", "catch")
  /\ pending' = [k \in Keys |-> NoId]
  /\ outcome' = [outcome EXCEPT ![c] = "timeout"]
  /\ UNCHANGED <<args, tasks, session, gds, listener>>

\* The key is removed whoever it belongs to by now, and removed again by the
\* catch block before the exception leaves.
RemoveDelayed(c) ==
  /\ Goto(c, "delayed", "catch")
  /\ TryRemove(Key(c))
  /\ outcome' = [outcome EXCEPT ![c] = "timeout"]
  /\ UNCHANGED <<args, tasks, session, gds, listener>>

\* Mutant: the kind of the answer is not looked at.
BugRemoveCompleted(c) ==
  /\ Goto(c, "completed", "done")
  /\ TryRemove(Key(c))
  /\ outcome' = [outcome EXCEPT ![c] = "ack"]
  /\ UNCHANGED <<args, tasks, session, gds, listener>>

\* Mutant: what the task holds is returned as it is.
BugReturnTask(c) ==
  /\ Goto(c, "completed", "done")
  /\ TryRemove(Key(c))
  /\ outcome' = [outcome EXCEPT ![c] = task[c]]
  /\ UNCHANGED <<args, tasks, session, gds, listener>>

\* An answer of the other kind fails the cast, a failed task rethrows.
RemoveCompleted(c) ==
  /\ pc[c] = "completed"
  /\ TryRemove(Key(c))
  /\ LET fits == task[c] = args[c].kind IN
       /\ pc' = [pc EXCEPT ![c] = IF fits THEN "done" ELSE "catch"]
       /\ outcome' = [outcome EXCEPT ![c] = IF fits THEN "ack" ELSE
                        IF task[c] = "failed" THEN "failure" ELSE "bad cast"]
  /\ UNCHANGED <<args, tasks, session, gds, listener>>

Catch(c) ==
  /\ Goto(c, "catch", "done")
  /\ TryRemove(Key(c))
  /\ UNCHANGED <<args, tasks, outcome, session, gds, listener>>

CallStep(c) == \/ Send(c) \/ TryAdd(c) \/ TryAddRefused(c) \/ Completed(c)
               \/ Delayed(c) \/ RemoveDelayed(c) \/ RemoveCompleted(c) \/ Catch(c)

-----------------------------------------------------------------------------
(* The receive loop: OnEventAck3, OnQueryRequestAck11                      *)

\* The client hands an ack over whatever its state is.  One whose call is not
\* (or no longer) in the dictionary is only logged.
OnAck(a) ==
  /\ receiver = NoAck /\ a \in acks
  /\ acks' = acks \ {a}
  /\ receiver' = IF pending[a.id] = NoId THEN NoAck
                 ELSE [call |-> pending[a.id], from |-> a.call, kind |-> a.kind]
  /\ TryRemove(a.id)
  /\ UNCHANGED <<pc, args, tasks, outcome, session, requests, failer, unvisited>>

\* Mutant: an ack completes every call that has its key.
BugSetResult ==
  /\ receiver # NoAck
  /\ receiver' = NoAck
  /\ LET hit == {c \in Calls : task[c] = "pending" /\ Key(c) = Key(receiver.call)} IN
       /\ task'   = [c \in Calls |-> IF c \in hit THEN receiver.kind ELSE task[c]]
       /\ answer' = [c \in Calls |-> IF c \in hit THEN receiver.from ELSE answer[c]]
  /\ UNCHANGED <<pc, args, pending, outcome, session, gds, failer, unvisited>>

\* TrySetResult does nothing to a task that has failed meanwhile.
SetResult ==
  /\ receiver # NoAck
  /\ receiver' = NoAck
  /\ IF task[receiver.call] = "pending"
     THEN /\ task' = [task EXCEPT ![receiver.call] = receiver.kind]
          /\ answer' = [answer EXCEPT ![receiver.call] = receiver.from]
     ELSE UNCHANGED tasks
  /\ UNCHANGED <<pc, args, pending, outcome, session, gds, failer, unvisited>>

-----------------------------------------------------------------------------
(* OnConnectionFailure.  The enumeration of a ConcurrentDictionary is no   *)
(* snapshot: it passes every entry that was there at its start and stays,  *)
(* and it may pass one that is added meanwhile.                            *)

InDictionary(c) == pending[Key(c)] = c

\* The client may report a failure more than once, and one of its reports (the
\* end of the socket during the login) may come when a late ack has made the
\* client LOGGED_IN (GdsClient): nothing ties the report to the session.
\* Reports of two threads that overlap do what one after the other does.
OnConnectionFailure ==
  /\ failer \in {"idle", "done"}
  /\ failer' = "visiting"
  /\ unvisited' = {c \in Calls : InDictionary(c)}
  /\ UNCHANGED <<pc, args, pending, tasks, outcome, session, gds, receiver>>

SetException(c) ==
  /\ failer = "visiting" /\ InDictionary(c)
  /\ unvisited' = unvisited \ {c}
  /\ task' = IF task[c] = "pending" THEN [task EXCEPT ![c] = "failed"] ELSE task
  /\ UNCHANGED <<pc, args, pending, answer, outcome, session, gds, receiver, failer>>

Clear ==
  /\ failer = "visiting" /\ \A c \in unvisited : ~InDictionary(c)
  /\ failer' = "done" /\ unvisited' = {}
  /\ pending' = [k \in Keys |-> NoId]
  /\ UNCHANGED <<pc, args, tasks, outcome, session, gds, receiver>>

-----------------------------------------------------------------------------
(* The GDS and the session of the client.                                  *)

\* The GDS answers a message once, or never; external.
Answer(q) ==
  /\ q \in requests
  /\ requests' = requests \ {q}
  /\ acks' = acks \cup {q}
  /\ UNCHANGED <<pc, args, pending, tasks, outcome, session, listener>>

LoggedIn ==
  /\ session = "before" /\ session' = "ready"
  /\ UNCHANGED <<pc, args, pending, tasks, outcome, gds, listener>>

\* Close, Dispose, a failure, or a connection that ends; OnDisconnect only logs.
Disconnect ==
  /\ session # "over" /\ session' = "over"
  /\ UNCHANGED <<pc, args, pending, tasks, outcome, gds, listener>>

Next ==
  \/ \E c \in Calls : Accepted(c) \/ SendRefused(c) \/ CallStep(c) \/ SetException(c)
  \/ \E a \in acks : OnAck(a)
  \/ SetResult
  \/ OnConnectionFailure \/ Clear
  \/ \E q \in requests : Answer(q)
  \/ LoggedIn \/ Disconnect

Spec == Init /\ [][Next]_vars

\* A call that was made runs on: its timer fires if nothing else happens.
FairSpec == Spec /\ \A c \in Calls : WF_vars(CallStep(c))

=============================================================================
