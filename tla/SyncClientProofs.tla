-------------------------- MODULE SyncClientProofs ---------------------------
(***************************************************************************)
(* Theorems about SyncClient: it is an AsyncGDSClient and a request table. *)
(***************************************************************************)
EXTENDS SyncClient, GdsClientOrderProofs

USE DEF NOT_CONNECTED, INITIALIZING, CONNECTING, CONNECTED, LOGGING_IN,
        LOGGED_IN, DISCONNECTED, FAILED, ConnectionState

-----------------------------------------------------------------------------
(* The client                                                              *)

\* Every step of the whole system is a step of the client or leaves it alone.
LEMMA ClientStepKept == [SyncNext]_allVars => [Next]_vars
<1> SUFFICES ASSUME [SyncNext]_allVars PROVE [Next]_vars
  OBVIOUS
<1>1. CASE ClientStep
  BY <1>1, UsedAssumption DEF ClientStep, UserStep, Users, ReceiveLoop, Next, AppCall, AppStep, Network
<1>2. CASE TableStep
  BY <1>2 DEF TableStep
<1>3. ASSUME NEW c \in Callers, SendAccepted(c)
      PROVE  Next
  <2>1. Table!Accepted(c) /\ SendMessage(c, Outgoing(args[c].kind))
    BY <1>3 DEF SendAccepted
  <2>2. Outgoing(args[c].kind) \in Offered
    BY UsedAssumption DEF Outgoing, Kinds
  <2>3. QED
    BY <2>1, <2>2, UsedAssumption, CallersAssumption DEF Next, AppCall
<1>4. ASSUME NEW c \in Callers, Transmit(c)
      PROVE  Next
  BY <1>4, CallersAssumption DEF Transmit, Next, AppStep
<1>5. ASSUME NEW q \in requests, AnswerRequest(q)
      PROVE  Next
  BY <1>5 DEF AnswerRequest, Next, Network
<1>6. ASSUME NEW a \in acks, DispatchAck(a)
      PROVE  Next
  BY <1>6 DEF DispatchAck, Next
<1>7. CASE UNCHANGED allVars
  BY <1>7 DEF allVars
<1>8. QED
  BY <1>1, <1>2, <1>3, <1>4, <1>5, <1>6, <1>7 DEF SyncNext

\* The composition is one of GdsClient, by its form: its steps are those of the
\* client or leave it alone.  So the client's theorems hold of it.
LEMMA ClientKept == SyncSpec => Spec
<1>1. SyncInit => Init
  BY DEF SyncInit
<1>2. QED
  BY <1>1, ClientStepKept, PTL DEF SyncSpec, Spec

-----------------------------------------------------------------------------
(* The request table                                                       *)

\* A report of a failure changes no field of the client.
LEMMA ReportFrame ==
  ASSUME [Next]_vars, told'["failure"] # told["failure"], told \in [Callbacks -> Nat]
  PROVE  state' = state
  BY DEF Next, AppCall, Connect, Close, Dispose, SendMessage, AppStep, CloseStep, CloseRead,
     CloseWrite, CloseFlag, CloseSocket, DisposeCountdown, DisposeDone, SendBinary, ConnStep,
     ConnOpen, ConnConnecting, ConnWait, ConnSignaled, ConnTimeout, ConnTimeoutRead,
     ConnTimeoutFail, ConnTimeoutCall, Opened, OnConnectionAck, OnData, RecvStep,
     OnSocketOpened, OpenedConnected, OpenedLogin, OpenedLoggingIn, AckAccepted,
     AckRejected, AckUnexpected, AckSuccessCall, AckFailureCall, Error, ErrStep,
     OnSocketError, ErrorClose, ErrorRead, ErrorReadAgain, ErrorFail, ErrorCall, ClsdStep,
     Closed, OnSocketClosed, ClosedRead, ClosedDisconnected, ClosedReadAgain,
     ClosedDisconnectCall, ClosedFailureCall, Network, SocketClosed, ConnectionLost,
     ServerReplies, ServerPushes, vars, shared, locals, net, peer, hist, OnlyState,
     LocalStep, WriteState, WriteFlag, CallListener, CompareExchange, Tell, Callbacks

\* The phases of the session follow one another.
LEMMA SessionForward ==
  ASSUME IInv, [Next]_vars
  PROVE  \/ ClientSession' = ClientSession
         \/ ClientSession = "before" /\ ClientSession' = "ready"
         \/ ClientSession # "over" /\ ClientSession' = "over"
<1>1. state \in 0 .. 7 /\ state' \in 0 .. 7
  <2>1. IInv /\ IInv'
    BY IInvStep
  <2>2. QED
    BY <2>1 DEF IInv, TypeOK
<1>2. state <= state' \/ state' = state \/ (state = FAILED /\ state' = DISCONNECTED)
  BY ForwardStep
<1>3. QED
  BY <1>1, <1>2 DEF ClientSession

\* Every step of the whole system is a step of the request table or leaves it
\* alone.
LEMMA TableStepKept ==
  ASSUME IInv, [SyncNext]_allVars
  PROVE  [Table!Next]_(Table!vars)
<1>1. CASE ClientStep
  <2>1. CASE told'["failure"] # told["failure"]
    <3>1. state' = state /\ ClientSession' = ClientSession
      BY <2>1, ClientStepKept, ReportFrame DEF IInv, TypeOK, ClientSession
    <3>2. Table!OnConnectionFailure
      BY <1>1, <2>1 DEF ClientStep, Report
    <3>3. QED
      BY <3>2 DEF Table!Next
  <2>2. CASE told'["failure"] = told["failure"]
    <3>1. UNCHANGED table
      BY <1>1, <2>2 DEF ClientStep, Report
    <3>2. QED
      BY <3>1, ClientStepKept, SessionForward
      DEF table, Table!Next, Table!LoggedIn, Table!Disconnect, Table!tasks, Table!gds,
          Table!listener, Table!vars
  <2>3. QED
    BY <2>1, <2>2
<1>2. CASE TableStep
  BY <1>2 DEF TableStep, CallAlone, Table!Next, Table!CallStep
<1>3. ASSUME NEW c \in Callers, SendAccepted(c)
      PROVE  Table!Next
  BY <1>3 DEF SendAccepted, Table!Next
<1>4. ASSUME NEW c \in Callers, Transmit(c)
      PROVE  Table!Next
  BY <1>4 DEF Transmit, Table!Next, Table!CallStep
<1>5. ASSUME NEW q \in requests, AnswerRequest(q)
      PROVE  Table!Next
  BY <1>5 DEF AnswerRequest, Table!Next
<1>6. ASSUME NEW a \in acks, DispatchAck(a)
      PROVE  Table!Next
  BY <1>6 DEF DispatchAck, Table!Next
<1>7. CASE UNCHANGED allVars
  BY <1>7 DEF allVars, vars, shared, table, Table!vars, ClientSession
<1>8. QED
  BY <1>1, <1>2, <1>3, <1>4, <1>5, <1>6, <1>7 DEF SyncNext

\* What the client does to the wrapper is within what SyncGds allows.
THEOREM TableKeptHolds == SyncSpec => TableKept
<1>1. SyncInit => Table!Init
  BY DEF SyncInit
<1>2. SyncSpec => []IInv
  BY ClientKept, Invariance, PTL
<1>3. QED
  BY <1>1, <1>2, TableStepKept, PTL DEF SyncSpec, TableKept, Table!Spec

-----------------------------------------------------------------------------
(* Both together                                                           *)

\* What the client has put on the connection, told and been granted stays.
LEMMA ClientGrows ==
  ASSUME TypeOK, [Next]_vars
  PROVE  /\ wire \subseteq wire'
         /\ server = "accepted" => server' = "accepted"
         /\ told["data"] \in Nat /\ told["failure"] \in Nat
         /\ told'["data"] \in Nat /\ told'["failure"] \in Nat
         /\ told'["data"] >= told["data"] /\ told'["failure"] >= told["failure"]
<1>1. wire \subseteq wire' /\ (server = "accepted" => server' = "accepted")
  BY DEF Next, AppCall, Connect, Close, Dispose, SendMessage, AppStep, CloseStep, CloseRead,
     CloseWrite, CloseFlag, CloseSocket, DisposeCountdown, DisposeDone, SendBinary, ConnStep,
     ConnOpen, ConnConnecting, ConnWait, ConnSignaled, ConnTimeout, ConnTimeoutRead,
     ConnTimeoutFail, ConnTimeoutCall, Opened, Delivers, OnConnectionAck, OnData, RecvStep,
     OnSocketOpened, OpenedConnected, OpenedLogin, OpenedLoggingIn, AckAccepted,
     AckRejected, AckUnexpected, AckSuccessCall, AckFailureCall, Error, ErrStep,
     OnSocketError, ErrorClose, ErrorRead, ErrorReadAgain, ErrorFail, ErrorCall, ClsdStep,
     Closed, OnSocketClosed, ClosedRead, ClosedDisconnected, ClosedReadAgain,
     ClosedDisconnectCall, ClosedFailureCall, Network, SocketClosed, ConnectionLost,
     ServerReplies, ServerPushes, vars, shared, locals, net, peer, hist, OnlyState,
     LocalStep, WriteState, WriteFlag, CallListener, CompareExchange, WsSend
<1>2. told' = told \/ \E k \in Callbacks : Tell(k)
  BY DEF Next, AppCall, Connect, Close, Dispose, SendMessage, AppStep, CloseStep, CloseRead,
     CloseWrite, CloseFlag, CloseSocket, DisposeCountdown, DisposeDone, SendBinary, ConnStep,
     ConnOpen, ConnConnecting, ConnWait, ConnSignaled, ConnTimeout, ConnTimeoutRead,
     ConnTimeoutFail, ConnTimeoutCall, Opened, OnConnectionAck, OnData, RecvStep,
     OnSocketOpened, OpenedConnected, OpenedLogin, OpenedLoggingIn, AckAccepted,
     AckRejected, AckUnexpected, AckSuccessCall, AckFailureCall, Error, ErrStep,
     OnSocketError, ErrorClose, ErrorRead, ErrorReadAgain, ErrorFail, ErrorCall, ClsdStep,
     Closed, OnSocketClosed, ClosedRead, ClosedDisconnected, ClosedReadAgain,
     ClosedDisconnectCall, ClosedFailureCall, Network, SocketClosed, ConnectionLost,
     ServerReplies, ServerPushes, vars, shared, locals, net, peer, hist, OnlyState,
     LocalStep, WriteState, WriteFlag, CallListener, CompareExchange, Callbacks
<1>3. QED
  BY <1>1, <1>2 DEF TypeOK, Tell, Callbacks

\* What was granted or delivered once stays so.
LEMMA DeliveredKept ==
  ASSUME TypeOK, [Next]_vars, NEW k
  PROVE  (Granted(k) => Granted(k)') /\ (Delivered(k) => Delivered(k)')
  BY ClientGrows DEF Granted, Delivered, Outgoing

\* Every step keeps the shapes of the table.
LEMMA TypedStep ==
  ASSUME TableTyped, [Table!Next]_(Table!vars)
  PROVE  TableTyped'
<1> USE DEF TableTyped, Table!tasks, Table!gds, Table!listener, Table!Goto, Table!TryRemove
<1>1. ASSUME NEW c \in Callers,
             Table!Accepted(c) \/ Table!SendRefused(c) \/ Table!CallStep(c)
      PROVE  TableTyped'
  <2>1. CASE Table!Send(c)
    <3>1. args[c] \in [kind : Kinds, messageId : Ids \cup {NoId}, header : Ids \cup {NoId}]
      BY TableAssumption
    <3>2. Table!WireId(c) \in Table!Keys
      BY <3>1 DEF Table!WireId, Table!Key, Table!Keys, Table!NoId, NoId
    <3>3. Table!Request(c) \in [call : Callers, kind : Kinds, id : Table!Keys]
      BY <3>1, <3>2 DEF Table!Request
    <3>4. QED
      BY <2>1, <3>3 DEF Table!Send
  <2>2. CASE ~Table!Send(c)
    BY <1>1, <2>2
    DEF Table!Accepted, Table!SendRefused, Table!CallStep, Table!TryAdd,
        Table!TryAddRefused, Table!Completed, Table!Delayed, Table!RemoveDelayed,
        Table!RemoveCompleted, Table!Catch
  <2>3. QED
    BY <2>1, <2>2
<1>2. ASSUME ~ \E c \in Callers :
               Table!Accepted(c) \/ Table!SendRefused(c) \/ Table!CallStep(c)
      PROVE  TableTyped'
  BY <1>2
  DEF Table!Next, Table!SetException, Table!OnAck, Table!SetResult,
      Table!OnConnectionFailure, Table!Clear, Table!Answer, Table!LoggedIn,
      Table!Disconnect, Table!vars
<1>3. QED
  BY <1>1, <1>2

\* Who changes a task, an outcome and the failer.
LEMMA TableFrame ==
  ASSUME TableTyped, [Table!Next]_(Table!vars)
  PROVE  /\ failer' = failer \/ Table!OnConnectionFailure \/ Table!Clear
         /\ \A c \in Callers :
              \/ task'[c] = task[c]
              \/ task'[c] = "failed" /\ failer = "visiting"
              \/ receiver # Table!NoAck /\ task'[c] = receiver.kind
         /\ \A c \in Callers :
              \/ outcome'[c] = outcome[c]
              \/ outcome'[c] \in {"not sent", "duplicate", "timeout", "bad cast"}
              \/ outcome'[c] = "failure" /\ task[c] = "failed"
              \/ outcome'[c] = "ack" /\ task[c] = args[c].kind
<1> USE DEF TableTyped, Table!tasks, Table!gds, Table!listener, Table!Goto
<1>1. ASSUME NEW c \in Callers,
             Table!Accepted(c) \/ Table!SendRefused(c) \/ Table!CallStep(c)
      PROVE  /\ failer' = failer /\ task' = task
             /\ \A d \in Callers :
                  \/ outcome'[d] = outcome[d]
                  \/ outcome'[d] \in {"not sent", "duplicate", "timeout", "bad cast"}
                  \/ outcome'[d] = "failure" /\ task[d] = "failed"
                  \/ outcome'[d] = "ack" /\ task[d] = args[d].kind
  BY <1>1
  DEF Table!Accepted, Table!SendRefused, Table!CallStep, Table!Send, Table!TryAdd,
      Table!TryAddRefused, Table!Completed, Table!Delayed, Table!RemoveDelayed,
      Table!RemoveCompleted, Table!Catch
<1>2. ASSUME ~ \E c \in Callers :
               Table!Accepted(c) \/ Table!SendRefused(c) \/ Table!CallStep(c)
      PROVE  /\ failer' = failer \/ Table!OnConnectionFailure \/ Table!Clear
             /\ outcome' = outcome
             /\ \A c \in Callers :
                  \/ task'[c] = task[c]
                  \/ task'[c] = "failed" /\ failer = "visiting"
                  \/ receiver # Table!NoAck /\ task'[c] = receiver.kind
  BY <1>2
  DEF Table!Next, Table!SetException, Table!OnAck, Table!SetResult,
      Table!OnConnectionFailure, Table!Clear, Table!Answer, Table!LoggedIn,
      Table!Disconnect, Table!vars
<1>3. QED
  BY <1>1, <1>2

\* OnConnectionFailure of the table is called by a report of the client.
LEMMA ReportedBefore ==
  ASSUME TypeOK, FailureInv, [SyncNext]_allVars, [Next]_vars,
         failer' # "idle"
  PROVE  told'["failure"] > 0
<1>1. CASE ClientStep
  <2>1. told'["failure"] # told["failure"] \/ failer' = failer
    BY <1>1 DEF ClientStep, Report, table
  <2>2. QED
    BY <2>1, ClientGrows DEF FailureInv
<1>2. CASE ~ClientStep
  <2>1. failer' = failer \/ Table!Clear
    BY <1>2
    DEF SyncNext, TableStep, CallAlone, SendAccepted, Transmit, AnswerRequest, DispatchAck,
        Table!Accepted, Table!SendRefused, Table!Send, Table!TryAdd, Table!TryAddRefused,
        Table!Completed, Table!Delayed, Table!RemoveDelayed, Table!RemoveCompleted,
        Table!Catch, Table!SetException, Table!OnAck, Table!SetResult, Table!Answer,
        Table!listener, allVars, table
  <2>2. QED
    BY <2>1, ClientGrows DEF FailureInv, Table!Clear
<1>3. QED
  BY <1>1, <1>2

\* Every step keeps where the failures of the table come from.
LEMMA FailureStep ==
  ASSUME TypeOK, TableTyped, FailureInv, AckInv, [SyncNext]_allVars, [Next]_vars,
         [Table!Next]_(Table!vars)
  PROVE  FailureInv'
<1>1. failer' # "idle" => told'["failure"] > 0
  BY ReportedBefore
<1>2. failer # "idle" => failer' # "idle"
  BY TableFrame DEF Table!OnConnectionFailure, Table!Clear
<1>3. receiver # Table!NoAck => receiver.kind # "failed"
  BY DEF AckInv, Kinds
<1>4. \A c \in Callers :
        (task'[c] = "failed" => failer # "idle") /\ (outcome'[c] = "failure" => failer # "idle")
  BY <1>3, TableFrame DEF FailureInv
<1>5. QED
  BY <1>1, <1>2, <1>4 DEF FailureInv

\* The client counts an ack that it hands to the wrapper.
LEMMA AckCounted ==
  ASSUME TypeOK, NEW kind, Head(inbox) = Push(AckType(kind)), OnData
  PROVE  told'["data"] > 0
<1>1. PICK t \in PushTypes :
        /\ Head(inbox) = Push(t)
        /\ IF t \in Dispatched THEN Tell("data") ELSE UNCHANGED told
  BY DEF OnData, Delivers
<1>2. t = AckType(kind)
  <2>1. Push(t).type = t /\ Push(AckType(kind)).type = AckType(kind)
    BY DEF Push
  <2>2. QED
    BY <1>1, <2>1
<1>3. t \in Dispatched
  BY <1>2 DEF AckType, Dispatched, Deserializable, DataType
<1>4. QED
  BY <1>1, <1>3 DEF TypeOK, Tell, Callbacks

\* Every step keeps where the acks of the table come from.
LEMMA AckStep ==
  ASSUME TypeOK, TableTyped, AckInv, AckIsReal, [SyncNext]_allVars, [Next]_vars,
         [Table!Next]_(Table!vars)
  PROVE  AckInv' /\ AckIsReal'
<1>1. args' = args
  BY DEF Table!Next, Table!Accepted, Table!SendRefused, Table!CallStep, Table!Send,
         Table!TryAdd, Table!TryAddRefused, Table!Completed, Table!Delayed,
         Table!RemoveDelayed, Table!RemoveCompleted, Table!Catch, Table!SetException,
         Table!OnAck, Table!SetResult, Table!Clear, Table!Answer, Table!LoggedIn,
         Table!OnConnectionFailure, Table!Disconnect, Table!vars
<1>2. \A c \in Callers : args[c].kind \in Kinds
  BY TableAssumption DEF TableTyped
<1>3. AckIsReal'
  BY <1>1, <1>2, TableFrame, DeliveredKept DEF AckInv, AckIsReal
<1>4. ASSUME NEW a \in acks' PROVE Granted(a.kind)'
  <2>1. CASE a \in acks
    BY <2>1, DeliveredKept DEF AckInv
  <2>2. CASE a \notin acks
    <3>1. PICK q \in requests : AnswerRequest(q)
      BY <2>2
      DEF SyncNext, ClientStep, Report, table, allVars, TableStep, CallAlone, SendAccepted,
          Transmit, DispatchAck, Table!Accepted, Table!SendRefused, Table!Send,
          Table!TryAdd, Table!TryAddRefused, Table!Completed, Table!Delayed,
          Table!RemoveDelayed, Table!RemoveCompleted, Table!Catch, Table!SetException,
          Table!OnAck, Table!SetResult, Table!Clear, Table!OnConnectionFailure, Table!gds
    <3>2. a = q
      BY <2>2, <3>1 DEF AnswerRequest, Table!Answer
    <3>3. Granted(q.kind)
      BY <3>1 DEF AnswerRequest, ServerPushes, Granted
    <3>4. QED
      BY <3>2, <3>3, DeliveredKept
  <2>3. QED
    BY <2>1, <2>2
<1>5. \A k : receiver' # Table!NoAck /\ receiver'.kind = k => k \in Kinds /\ Delivered(k)'
  <2>1. CASE receiver' = receiver
    BY <2>1, DeliveredKept DEF AckInv
  <2>2. ASSUME NEW a \in acks, DispatchAck(a), receiver' # Table!NoAck
        PROVE  receiver'.kind = a.kind /\ a.kind \in Kinds /\ Delivered(a.kind)'
    <3>1. receiver'.kind = a.kind /\ a.kind \in Kinds
      BY <2>2 DEF DispatchAck, Table!OnAck, TableTyped
    <3>2. told'["data"] > 0
      BY <2>2, AckCounted DEF DispatchAck
    <3>3. Granted(a.kind)'
      BY DeliveredKept DEF AckInv
    <3>4. QED
      BY <3>1, <3>2, <3>3 DEF Delivered
  <2>3. receiver' = receiver \/ receiver' = Table!NoAck \/ \E a \in acks : DispatchAck(a)
    BY DEF SyncNext, ClientStep, Report, table, allVars, TableStep, CallAlone, SendAccepted,
          Transmit, AnswerRequest, Table!Accepted, Table!SendRefused, Table!Send,
          Table!TryAdd, Table!TryAddRefused, Table!Completed, Table!Delayed,
          Table!RemoveDelayed, Table!RemoveCompleted, Table!Catch, Table!SetException,
          Table!SetResult, Table!Clear, Table!OnConnectionFailure, Table!Answer,
          Table!listener
  <2>4. QED
    BY <2>1, <2>2, <2>3
<1>6. \A c \in Callers : \A k \in Kinds : task'[c] = k => Delivered(k)'
  BY TableFrame, DeliveredKept DEF AckInv, Kinds
<1>7. AckInv'
  <2>1. \A a \in acks' : Granted(a.kind)'
    BY <1>4
  <2>2. (receiver # Table!NoAck => receiver.kind \in Kinds /\ Delivered(receiver.kind))'
    BY <1>5 DEF Delivered, Granted, Outgoing, Table!NoAck, Table!NoId
  <2>3. (\A c \in Callers : task[c] \in Kinds => Delivered(task[c]))'
    BY <1>6 DEF Delivered, Granted, Outgoing
  <2>4. QED
    BY <2>1, <2>2, <2>3 DEF AckInv
<1>8. QED
  BY <1>3, <1>7

\* Without a login no call gets past its refusal.
LEMMA RefusedStep ==
  ASSUME IInv, TableTyped, RefusedOutside, [SyncNext]_allVars, [Next]_vars,
         [Table!Next]_(Table!vars)
  PROVE  RefusedOutside'
<1> SUFFICES ASSUME server' # "accepted"
             PROVE  \A c \in Callers : /\ cpc'[c] \in {"idle", "done"}
                                       /\ outcome'[c] \in {"none", "not sent"}
  BY DEF RefusedOutside
<1>1. \A c \in Callers : cpc[c] \in {"idle", "done"} /\ outcome[c] \in {"none", "not sent"}
  BY ClientGrows DEF IInv, RefusedOutside
<1>2. \A c \in Callers : ~Table!Accepted(c)
  <2>1. ClientSession # "ready"
    BY ClientGrows DEF IInv, LoginEarned, TypeOK, ClientSession
  <2>2. QED
    BY <2>1 DEF Table!Accepted
<1>3. \A c \in Callers : ~Table!CallStep(c)
  BY <1>1
  DEF Table!CallStep, Table!Send, Table!TryAdd, Table!TryAddRefused, Table!Completed,
      Table!Delayed, Table!RemoveDelayed, Table!RemoveCompleted, Table!Catch, Table!Goto
<1>4. \/ \E c \in Callers : Table!SendRefused(c)
      \/ cpc' = cpc /\ outcome' = outcome
  BY <1>2, <1>3
  DEF Table!Next, Table!SetException, Table!OnAck, Table!SetResult,
      Table!OnConnectionFailure, Table!Clear, Table!Answer, Table!LoggedIn,
      Table!Disconnect, Table!vars
<1>5. QED
  BY <1>1, <1>4 DEF TableTyped, Table!SendRefused, Table!Goto

-----------------------------------------------------------------------------
(* The theorems                                                            *)

\* The invariant of the whole system holds in its initial states.
LEMMA SyncInvInit == SyncInit => SyncInv
  BY DEF SyncInit, Table!Init, SyncInv, TableTyped, FailureInv, AckInv, AckIsReal,
         RefusedOutside, Kinds

\* And every step keeps it.
LEMMA SyncStep == IInv /\ SyncInv /\ [SyncNext]_allVars => SyncInv'
<1> SUFFICES ASSUME IInv, SyncInv, [SyncNext]_allVars PROVE SyncInv'
  OBVIOUS
<1>1. [Next]_vars /\ [Table!Next]_(Table!vars)
  BY ClientStepKept, TableStepKept
<1>2. TypeOK
  BY DEF IInv
<1>3. QED
  BY <1>1, <1>2, TypedStep, FailureStep, AckStep, RefusedStep DEF SyncInv

\* Every reachable state of the whole system satisfies the invariant.
THEOREM SyncInvariance == SyncSpec => []SyncInv
<1>1. SyncSpec => []IInv
  BY ClientKept, Invariance, PTL
<1>2. QED
  BY <1>1, SyncInvInit, SyncStep, PTL DEF SyncSpec

\* An ack a call returns has crossed the whole system.
THEOREM AckIsRealHolds == SyncSpec => []AckIsReal
<1>1. SyncInv => AckIsReal
  BY DEF SyncInv
<1>2. QED
  BY SyncInvariance, <1>1, PTL

\* Nothing of a call leaves the wrapper before the GDS accepted a login.
THEOREM RefusedOutsideHolds == SyncSpec => []RefusedOutside
<1>1. SyncInv => RefusedOutside
  BY DEF SyncInv
<1>2. QED
  BY SyncInvariance, <1>1, PTL

\* A call fails with the connection only if that is over for good.
THEOREM FailureIsRealHolds == SyncSpec => []FailureIsReal
<1>1. SyncSpec => []FailureIsOver
  BY ClientKept, FailureIsOverHolds, PTL
<1>2. SyncInv /\ FailureIsOver => FailureIsReal
  BY DEF SyncInv, FailureInv, FailureIsOver, FailureIsReal
<1>3. QED
  BY SyncInvariance, <1>1, <1>2, PTL

=============================================================================
