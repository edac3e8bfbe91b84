------------------------ MODULE GdsClientOrderProofs ------------------------
(***************************************************************************)
(* Theorems about the order of what the listener of GdsClient is told: the *)
(* success before the data, and failures only of what is over.             *)
(***************************************************************************)
EXTENDS GdsClientProofs, SequenceTheorems

USE DEF NOT_CONNECTED, INITIALIZING, CONNECTING, CONNECTED, LOGGING_IN,
        LOGGED_IN, DISCONNECTED, FAILED, ConnectionState

\* Every step keeps what a thread knows when it reports a failure.
LEMMA ReporterStep == IInv /\ ReporterInv /\ [Next]_vars => ReporterInv'
<1> SUFFICES ASSUME IInv, ReporterInv, [Next]_vars PROVE ReporterInv'
  OBVIOUS
<1> /\ TypeOK /\ SocketInv /\ VerdictInv /\ SenderInv /\ CloserInv
    /\ LoginEarned
  BY DEF IInv
<1> USE AppsApart
     DEF TypeOK, Threads, System, SocketInv, CloserInv, ReporterInv, FailureIsOver, locals, net, hist, shared,
         peer, Goto, Tell, OnlyState, LocalStep, WriteState, WriteFlag, CallListener,
         CompareExchange, Throws, Callbacks, WsClose, WsSend, AfterClose, Delivers,
         CloseLabels
<1>1. ASSUME NEW a \in Apps, AppCall(a) PROVE ReporterInv'
  BY <1>1, OfferedAssumption
  DEF AppCall, Connect, Close, Dispose, SendMessage, CanSend
<1>2. ASSUME NEW a \in Apps, AppStep(a) PROVE ReporterInv'
  BY <1>2
  DEF AppStep, CloseStep, CloseRead, CloseWrite, CloseFlag, CloseSocket,
      DisposeCountdown, DisposeDone, SendBinary
<1>3. CASE ConnStep
  BY <1>3
  DEF ConnStep, ConnOpen, ConnConnecting, ConnWait, ConnSignaled, ConnTimeout,
      ConnTimeoutRead, ConnTimeoutFail, ConnTimeoutCall
<1>4. CASE Opened
  BY <1>4 DEF Opened
<1>5. CASE OnConnectionAck
  BY <1>5 DEF OnConnectionAck
<1>6. CASE OnData
  BY <1>6, PushAssumption DEF OnData
<1>7. CASE RecvStep
  <2>1. CASE OnSocketOpened
    BY <2>1 DEF OnSocketOpened
  <2>2. CASE OpenedConnected
    BY <2>2 DEF OpenedConnected
  <2>3. CASE OpenedLogin
    BY <2>3 DEF OpenedLogin
  <2>4. CASE OpenedLoggingIn
    BY <2>4 DEF OpenedLoggingIn
  <2>5. CASE AckAccepted
    BY <2>5 DEF AckAccepted
  <2>6. CASE AckRejected
    BY <2>6 DEF AckRejected
  <2>7. CASE AckUnexpected
    BY <2>7 DEF AckUnexpected
  <2>8. CASE AckSuccessCall
    BY <2>8 DEF AckSuccessCall
  <2>9. CASE AckFailureCall
    BY <2>9 DEF AckFailureCall
  <2>10. CASE CloseStep("recv")
    BY <2>10 DEF CloseStep, CloseRead, CloseWrite, CloseFlag, CloseSocket
  <2>11. QED
    BY <1>7, <2>1, <2>2, <2>3, <2>4, <2>5, <2>6, <2>7, <2>8, <2>9, <2>10 DEF RecvStep
<1>8. CASE Error
  BY <1>8 DEF Error
<1>9. CASE ErrStep
  BY <1>9
  DEF ErrStep, OnSocketError, ErrorClose, ErrorRead, ErrorReadAgain, ErrorFail,
      ErrorCall
<1>10. CASE ClsdStep
  BY <1>10
  DEF ClsdStep, Closed, OnSocketClosed, ClosedRead, ClosedDisconnected,
      ClosedReadAgain, ClosedDisconnectCall, ClosedFailureCall
<1>11. CASE SocketClosed \/ ConnectionLost
  BY <1>11 DEF SocketClosed, ConnectionLost
<1>12. CASE ServerReplies
  BY <1>12 DEF ServerReplies
<1>13. CASE ServerPushes
  BY <1>13, PushAssumption DEF ServerPushes
<1>14. CASE UNCHANGED vars
  BY <1>14 DEF vars
<1>15. QED
  BY <1>1, <1>2, <1>3, <1>4, <1>5, <1>6, <1>7, <1>8, <1>9, <1>10, <1>11, <1>12,
     <1>13, <1>14
  DEF Next, Network

\* Every step keeps the order of the handshake.
LEMMA HandshakeStep == IInv /\ HandshakeInv /\ [Next]_vars => HandshakeInv'
<1> SUFFICES ASSUME IInv, HandshakeInv, [Next]_vars PROVE HandshakeInv'
  OBVIOUS
<1> /\ TypeOK /\ SocketInv /\ VerdictInv /\ SenderInv /\ CloserInv
    /\ LoginEarned
  BY DEF IInv
<1>a. inbox # <<>> => server # "waiting"
  <2>1. inbox # <<>> => 1 \in 1 .. Len(inbox)
    BY DEF TypeOK
  <2>2. QED
    BY <2>1 DEF VerdictInv
<1>b. pc["recv"] \in {"ok_cas", "ok_call"} => told["success"] = 0
  BY DEF VerdictInv
<1> USE AppsApart
     DEF TypeOK, Threads, System, SocketInv, SenderInv, CloserInv,
         HandshakeInv, locals, net, hist, shared,
         peer, Goto, Tell, OnlyState, LocalStep, WriteState, WriteFlag, CallListener,
         CompareExchange, Throws, Callbacks, WsClose, WsSend, AfterClose, Delivers,
         CloseLabels
<1>1. ASSUME NEW a \in Apps, AppCall(a) PROVE HandshakeInv'
  BY <1>1, OfferedAssumption
  DEF AppCall, Connect, Close, Dispose, SendMessage, CanSend
<1>2. ASSUME NEW a \in Apps, AppStep(a) PROVE HandshakeInv'
  BY <1>2
  DEF AppStep, CloseStep, CloseRead, CloseWrite, CloseFlag, CloseSocket,
      DisposeCountdown, DisposeDone, SendBinary
<1>3. CASE ConnStep
  BY <1>3
  DEF ConnStep, ConnOpen, ConnConnecting, ConnWait, ConnSignaled, ConnTimeout,
      ConnTimeoutRead, ConnTimeoutFail, ConnTimeoutCall
<1>4. CASE Opened
  BY <1>4 DEF Opened
<1>5. CASE OnConnectionAck
  <2>1. inbox # <<>>
    BY <1>5 DEF OnConnectionAck
  <2>2. QED
    BY <1>5, <1>a, <2>1 DEF OnConnectionAck
<1>6. CASE OnData
  BY <1>6, PushAssumption DEF OnData
<1>7. CASE RecvStep
  <2>1. CASE OnSocketOpened
    BY <2>1 DEF OnSocketOpened
  <2>2. CASE OpenedConnected
    BY <2>2 DEF OpenedConnected
  <2>3. CASE OpenedLogin
    BY <2>3 DEF OpenedLogin
  <2>4. CASE OpenedLoggingIn
    BY <2>4 DEF OpenedLoggingIn
  <2>5. CASE AckAccepted
    BY <2>5, <1>b DEF AckAccepted
  <2>6. CASE AckRejected
    BY <2>6 DEF AckRejected
  <2>7. CASE AckUnexpected
    BY <2>7 DEF AckUnexpected
  <2>8. CASE AckSuccessCall
    BY <2>8, <1>b DEF AckSuccessCall
  <2>9. CASE AckFailureCall
    BY <2>9 DEF AckFailureCall
  <2>10. CASE CloseStep("recv")
    BY <2>10 DEF CloseStep, CloseRead, CloseWrite, CloseFlag, CloseSocket
  <2>11. QED
    BY <1>7, <2>1, <2>2, <2>3, <2>4, <2>5, <2>6, <2>7, <2>8, <2>9, <2>10 DEF RecvStep
<1>8. CASE Error
  BY <1>8 DEF Error
<1>9. CASE ErrStep
  BY <1>9
  DEF ErrStep, OnSocketError, ErrorClose, ErrorRead, ErrorReadAgain, ErrorFail,
      ErrorCall
<1>10. CASE ClsdStep
  BY <1>10
  DEF ClsdStep, Closed, OnSocketClosed, ClosedRead, ClosedDisconnected,
      ClosedReadAgain, ClosedDisconnectCall, ClosedFailureCall
<1>11. CASE SocketClosed \/ ConnectionLost
  BY <1>11 DEF SocketClosed, ConnectionLost
<1>12. CASE ServerReplies
  BY <1>12 DEF ServerReplies
<1>13. CASE ServerPushes
  BY <1>13, PushAssumption DEF ServerPushes
<1>14. CASE UNCHANGED vars
  BY <1>14 DEF vars
<1>15. QED
  BY <1>1, <1>2, <1>3, <1>4, <1>5, <1>6, <1>7, <1>8, <1>9, <1>10, <1>11, <1>12,
     <1>13, <1>14
  DEF Next, Network

-----------------------------------------------------------------------------
(* The ack ahead of the data                                               *)

\* Only the GDS and the receive loop change what is in flight.
LEMMA InboxFrame ==
  ASSUME [Next]_vars, ~OnConnectionAck, ~OnData, ~ServerReplies, ~ServerPushes
  PROVE  inbox' = inbox /\ server' = server /\ countdown' = countdown
<1> USE DEF shared, locals, peer, net, hist, Goto, OnlyState, LocalStep, WriteState,
            WriteFlag, CallListener, CompareExchange
<1>1. ASSUME NEW a \in Apps, AppCall(a) \/ AppStep(a)
      PROVE  inbox' = inbox /\ server' = server /\ countdown' = countdown
  BY <1>1 DEF AppCall, Connect, Close, Dispose, SendMessage, AppStep, CloseStep,
     CloseRead, CloseWrite, CloseFlag, CloseSocket, DisposeCountdown, DisposeDone,
     SendBinary
<1>2. CASE ConnStep
  BY <1>2 DEF ConnStep, ConnOpen, ConnConnecting, ConnWait, ConnSignaled, ConnTimeout,
     ConnTimeoutRead, ConnTimeoutFail, ConnTimeoutCall
<1>3. CASE RecvStep \/ Opened
  BY <1>3 DEF RecvStep, OnSocketOpened, OpenedConnected, OpenedLogin, OpenedLoggingIn,
     AckAccepted, AckRejected, AckUnexpected, AckSuccessCall, AckFailureCall, CloseStep,
     CloseRead, CloseWrite, CloseFlag, CloseSocket, Opened
<1>4. CASE ErrStep \/ Error
  BY <1>4 DEF ErrStep, OnSocketError, ErrorClose, ErrorRead, ErrorReadAgain, ErrorFail,
     ErrorCall, Error
<1>5. CASE ClsdStep \/ SocketClosed \/ ConnectionLost
  BY <1>5 DEF ClsdStep, Closed, OnSocketClosed, ClosedRead, ClosedDisconnected,
     ClosedReadAgain, ClosedDisconnectCall, ClosedFailureCall, SocketClosed,
     ConnectionLost
<1>6. CASE UNCHANGED vars
  BY <1>6 DEF vars
<1>7. QED
  BY <1>1, <1>2, <1>3, <1>4, <1>5, <1>6 DEF Next, Network

\* What the GDS or the receive loop does to the messages in flight.
LEMMA InboxSteps ==
  /\ OnConnectionAck \/ OnData => inbox # <<>> /\ inbox' = Tail(inbox) /\ server' = server
  /\ OnData => countdown' = countdown /\ \E t \in PushTypes : Head(inbox) = Push(t)
  /\ ServerReplies => server = "waiting" /\ countdown' = countdown
                      /\ \E m \in Reply : inbox' = Append(inbox, m)
  /\ ServerPushes => server' = server /\ countdown' = countdown
                     /\ \E t \in PushTypes : inbox' = Append(inbox, Push(t))
  BY DEF OnConnectionAck, OnData, ServerReplies, ServerPushes, Delivers, shared, net, peer,
     Reply, Ack, DataType

\* A push is a message, and no login ack.
LEMMA PushIsNoAck ==
  \A t \in PushTypes : Push(t) \in Reply /\ Push(t) # Ack(TRUE)
<1>1. \A t \in PushTypes : Push(t).type # Ack(TRUE).type /\ Push(t) \in Reply
  BY PushAssumption DEF Push, Ack, Reply
<1>2. QED
  BY <1>1

\* While the GDS has not answered the login, nothing is in flight.
LEMMA WaitingEmpty == TypeOK /\ VerdictInv /\ server = "waiting" => Len(inbox) = 0
<1> SUFFICES ASSUME TypeOK, VerdictInv, server = "waiting", Len(inbox) # 0 PROVE FALSE
  OBVIOUS
<1>1. 1 \in 1 .. Len(inbox)
  BY DEF TypeOK
<1>2. QED
  BY <1>1 DEF VerdictInv

\* The message at the front.
LEMMA FrontIsFirst ==
  \A s \in Seq(Reply) : s # <<>> => 1 \in 1 .. Len(s) /\ Head(s) = s[1]
  OBVIOUS

\* A message appended goes to the front of an empty inbox only.
LEMMA AppendFront ==
  ASSUME NEW s \in Seq(Reply), NEW m \in Reply
  PROVE  Append(s, m) # <<>> /\ Head(Append(s, m)) = IF s = <<>> THEN m ELSE Head(s)
<1> DEFINE t == Append(s, m)
<1>1. /\ t \in Seq(Reply) /\ t # <<>> /\ t[Len(s) + 1] = m
      /\ \A i \in 1 .. Len(s) : t[i] = s[i]
  BY AppendProperties
<1>2. Head(t) = t[1]
  BY <1>1, FrontIsFirst
<1>3. CASE s = <<>>
  <2>1. Len(s) + 1 = 1
    BY <1>3
  <2>2. QED
    BY <1>1, <1>2, <1>3, <2>1
<1>4. CASE s # <<>>
  <2>1. t[1] = s[1] /\ Head(s) = s[1]
    BY <1>1, <1>4, FrontIsFirst
  <2>2. QED
    BY <1>1, <1>2, <1>4, <2>1
<1>5. QED
  BY <1>3, <1>4

\* Every step keeps the ack in front, and with it the countdown.
LEMMA AckFirstStep == IInv /\ HandshakeInv /\ AckFirstInv /\ [Next]_vars => AckFirstInv'
<1> SUFFICES ASSUME IInv, HandshakeInv, AckFirstInv, [Next]_vars,
                    NEW i \in 1 .. Len(inbox'), inbox'[i] = Ack(TRUE)
             PROVE  i = 1 /\ countdown' = 1
  BY DEF AckFirstInv
<1>a. inbox \in Seq(Reply) /\ VerdictInv /\ TypeOK
  BY DEF IInv, TypeOK
<1>1. CASE OnConnectionAck \/ OnData
  <2>1. inbox # <<>> /\ inbox' = Tail(inbox)
    BY <1>1, InboxSteps
  <2>2. /\ Len(inbox') = Len(inbox) - 1 /\ Len(inbox) \in Nat
        /\ \A j \in 1 .. Len(inbox') : inbox'[j] = inbox[j + 1]
    BY <1>a, <2>1, HeadTailProperties
  <2>3. i \in Nat /\ i + 1 \in 1 .. Len(inbox) /\ i + 1 # 1
    BY <2>2
  <2>4. inbox[i + 1] = Ack(TRUE)
    BY <2>2
  <2>5. QED
    BY <2>3, <2>4 DEF AckFirstInv
<1>2. CASE ServerReplies
  <2>1. Len(inbox) = 0 /\ countdown' = 1
    BY <1>a, <1>2, InboxSteps, WaitingEmpty DEF HandshakeInv
  <2>2. PICK m \in Reply : inbox' = Append(inbox, m)
    BY <1>2, InboxSteps
  <2>3. QED
    BY <1>a, <2>1, <2>2
<1>3. CASE ServerPushes
  <2>1. PICK t \in PushTypes : inbox' = Append(inbox, Push(t))
    BY <1>3, InboxSteps
  <2>2. /\ Len(inbox') = Len(inbox) + 1 /\ Len(inbox) \in Nat
        /\ inbox'[Len(inbox) + 1] = Push(t)
        /\ \A j \in 1 .. Len(inbox) : inbox'[j] = inbox[j]
    BY <1>a, <2>1, PushIsNoAck, AppendProperties
  <2>3. i # Len(inbox) + 1
    BY <2>2, PushIsNoAck
  <2>4. i \in 1 .. Len(inbox)
    BY <2>2, <2>3
  <2>5. inbox[i] = Ack(TRUE)
    BY <2>2, <2>4
  <2>6. QED
    BY <1>3, <2>4, <2>5, InboxSteps DEF AckFirstInv
<1>4. CASE ~OnConnectionAck /\ ~OnData /\ ~ServerReplies /\ ~ServerPushes
  BY <1>4, InboxFrame DEF AckFirstInv
<1>5. QED
  BY <1>1, <1>2, <1>3, <1>4

\* A step calls one method of the listener at most.
LEMMA ToldFrame ==
  ASSUME [Next]_vars
  PROVE  told' = told \/ \E k \in Callbacks : Tell(k)
  BY DEF Next, AppCall, AppStep, Network, vars, hist, net, shared, locals, Goto, OnlyState,
     LocalStep, WriteState, WriteFlag, CallListener, CompareExchange, Connect, Close,
     Dispose, SendMessage, CloseStep, CloseRead, CloseWrite, CloseFlag, CloseSocket,
     DisposeCountdown, DisposeDone, SendBinary, ConnStep, ConnOpen, ConnConnecting,
     ConnWait, ConnSignaled, ConnTimeout, ConnTimeoutRead, ConnTimeoutFail,
     ConnTimeoutCall, Opened, OnConnectionAck, OnData, RecvStep, OnSocketOpened,
     OpenedConnected, OpenedLogin, OpenedLoggingIn, AckAccepted, AckRejected,
     AckUnexpected, AckSuccessCall, AckFailureCall, Error, ErrStep, OnSocketError,
     ErrorClose, ErrorRead, ErrorReadAgain, ErrorFail, ErrorCall, ClsdStep, Closed,
     OnSocketClosed, ClosedRead, ClosedDisconnected, ClosedReadAgain,
     ClosedDisconnectCall, ClosedFailureCall, SocketClosed, ConnectionLost,
     ServerReplies, ServerPushes, Callbacks

\* Only OnData calls a method with data.
LEMMA DataFrame ==
  ASSUME TypeOK, [Next]_vars, ~OnData
  PROVE  told'["data"] = told["data"]
<1>1. told \in [Callbacks -> Nat]
  BY DEF TypeOK
<1>2. QED
  BY <1>1 DEF Next, AppCall, AppStep, Network, vars, hist, net, shared, locals, Goto, OnlyState,
     LocalStep, WriteState, WriteFlag, CallListener, CompareExchange, Connect, Close,
     Dispose, SendMessage, CloseStep, CloseRead, CloseWrite, CloseFlag, CloseSocket,
     DisposeCountdown, DisposeDone, SendBinary, ConnStep, ConnOpen, ConnConnecting,
     ConnWait, ConnSignaled, ConnTimeout, ConnTimeoutRead, ConnTimeoutFail,
     ConnTimeoutCall, Opened, OnConnectionAck, RecvStep, OnSocketOpened,
     OpenedConnected, OpenedLogin, OpenedLoggingIn, AckAccepted, AckRejected,
     AckUnexpected, AckSuccessCall, AckFailureCall, Error, ErrStep, OnSocketError,
     ErrorClose, ErrorRead, ErrorReadAgain, ErrorFail, ErrorCall, ClsdStep, Closed,
     OnSocketClosed, ClosedRead, ClosedDisconnected, ClosedReadAgain,
     ClosedDisconnectCall, ClosedFailureCall, SocketClosed, ConnectionLost,
     ServerReplies, ServerPushes, Tell, Callbacks

\* Only the handlers move the receive loop; in the positive branch of an ack
\* only its exchange and its call.
LEMMA RecvFrame ==
  ASSUME [Next]_vars, ~AckAccepted, ~AckSuccessCall, pc["recv"] \in {"ok_cas", "ok_call"},
         pc \in [Threads -> PcValues], "recv" \in Threads
  PROVE  pc'["recv"] = pc["recv"]
  BY AppsApart DEF Next, AppCall, AppStep, Network, vars, hist, net, shared, locals, Goto, OnlyState,
     LocalStep, WriteState, WriteFlag, CallListener, CompareExchange, Connect, Close,
     Dispose, SendMessage, CloseStep, CloseRead, CloseWrite, CloseFlag, CloseSocket,
     DisposeCountdown, DisposeDone, SendBinary, ConnStep, ConnOpen, ConnConnecting,
     ConnWait, ConnSignaled, ConnTimeout, ConnTimeoutRead, ConnTimeoutFail,
     ConnTimeoutCall, Opened, OnConnectionAck, OnData, RecvStep, OnSocketOpened,
     OpenedConnected, OpenedLogin, OpenedLoggingIn, AckRejected,
     AckUnexpected, AckFailureCall, Error, ErrStep, OnSocketError,
     ErrorClose, ErrorRead, ErrorReadAgain, ErrorFail, ErrorCall, ClsdStep, Closed,
     OnSocketClosed, ClosedRead, ClosedDisconnected, ClosedReadAgain,
     ClosedDisconnectCall, ClosedFailureCall, SocketClosed, ConnectionLost,
     ServerReplies, ServerPushes, Delivers, Throws, AfterClose, Threads, System, CloseLabels

\* What ended stays ended, and what was announced stays announced.
LEMMA EndKept ==
  ASSUME IInv, IInv', [Next]_vars
  PROVE  /\ state >= DISCONNECTED => state' >= DISCONNECTED
         /\ userClose # "no" => userClose' # "no"
         /\ told["success"] = 1 => told'["success"] = 1
<1>1. state >= DISCONNECTED => state' >= DISCONNECTED
  BY ForwardStep DEF IInv, TypeOK
<1>2. userClose # "no" => userClose' # "no"
  BY DEF Next, AppCall, AppStep, Network, vars, hist, net, shared, locals, Goto, OnlyState,
     LocalStep, WriteState, WriteFlag, CallListener, CompareExchange, Connect, Close,
     Dispose, SendMessage, CloseStep, CloseRead, CloseWrite, CloseFlag, CloseSocket,
     DisposeCountdown, DisposeDone, SendBinary, ConnStep, ConnOpen, ConnConnecting,
     ConnWait, ConnSignaled, ConnTimeout, ConnTimeoutRead, ConnTimeoutFail,
     ConnTimeoutCall, Opened, OnConnectionAck, OnData, RecvStep, OnSocketOpened,
     OpenedConnected, OpenedLogin, OpenedLoggingIn, AckAccepted, AckRejected,
     AckUnexpected, AckSuccessCall, AckFailureCall, Error, ErrStep, OnSocketError,
     ErrorClose, ErrorRead, ErrorReadAgain, ErrorFail, ErrorCall, ClsdStep, Closed,
     OnSocketClosed, ClosedRead, ClosedDisconnected, ClosedReadAgain,
     ClosedDisconnectCall, ClosedFailureCall, SocketClosed, ConnectionLost,
     ServerReplies, ServerPushes
<1>3. told' = told \/ \E k \in Callbacks : Tell(k)
  BY ToldFrame
<1>4. told["success"] = 1 => told'["success"] = 1
  <2>1. told \in [Callbacks -> Nat] /\ told'["success"] <= 1
    BY DEF IInv, TypeOK, LoginEarned
  <2>2. QED
    BY <1>3, <2>1 DEF Tell, Callbacks
<1>5. QED
  BY <1>1, <1>2, <1>4

\* An accepted login leaves the way it goes (in flight, being handled,
\* announced) only by the next step of it, or with the end of the client.
LEMMA AheadStep ==
  IInv /\ HandshakeInv /\ AckFirstInv /\ AheadInv /\ [Next]_vars => AheadInv'
<1> SUFFICES ASSUME IInv, HandshakeInv, AckFirstInv, AheadInv, [Next]_vars,
                    server' = "accepted"
             PROVE  AheadInv'
  BY DEF AheadInv
<1> DEFINE Ended == told["success"] = 1 \/ state >= DISCONNECTED \/ userClose # "no"
           First == inbox # <<>> /\ Head(inbox) = Ack(TRUE)
           Handled == pc["recv"] \in {"ok_cas", "ok_call"}
<1>a. TypeOK /\ VerdictInv /\ LoginEarned /\ IInv' /\ inbox \in Seq(Reply)
      /\ state \in 0 .. 7 /\ told \in [Callbacks -> Nat] /\ pc \in [Threads -> PcValues]
      /\ "recv" \in Threads
  BY IInvStep DEF IInv, TypeOK, Threads, System
<1>b. Ended => Ended'
  BY <1>a, EndKept
<1>c. ASSUME First' \/ Handled' \/ Ended' PROVE AheadInv'
  BY <1>c DEF AheadInv
<1> HIDE DEF Ended, First, Handled
<1>1. CASE ServerReplies
  <2>1. Len(inbox) = 0
    BY <1>a, <1>1, InboxSteps, WaitingEmpty
  <2>2. PICK ok \in BOOLEAN : /\ server' = IF ok THEN "accepted" ELSE "rejected"
                              /\ inbox' = Append(inbox, Ack(ok))
    BY <1>1 DEF ServerReplies
  <2>3. ok = TRUE
    BY <2>2
  <2>4. Ack(TRUE) \in Reply /\ inbox = <<>>
    BY <1>a, <2>1 DEF Ack, Reply, DataType
  <2>5. First'
    BY <1>a, <2>2, <2>3, <2>4, AppendFront DEF First
  <2>6. QED
    BY <1>c, <2>5
<1>d. CASE ~ServerReplies
  <2>1. server = "accepted"
    BY <1>d, InboxSteps, InboxFrame
  <2>2. First \/ Handled \/ Ended
    BY <2>1 DEF AheadInv, First, Handled, Ended
  <2>3. CASE Ended
    BY <1>b, <1>c, <2>3
  <2>4. CASE Handled
    <3>1. CASE AckAccepted
      <4>1. state >= LOGGING_IN /\ state # LOGGED_IN
        <5>1. Login \in wire /\ pc["recv"] = "ok_cas" /\ told["success"] = 0
          BY <1>a, <2>1, <3>1 DEF AckAccepted, CompareExchange, WriteState, Goto,
             HandshakeInv, VerdictInv
        <5>2. QED
          BY <5>1 DEF HandshakeInv
      <4>2. CASE state = LOGGING_IN
        <5>1. pc'["recv"] = "ok_call"
          BY <1>a, <3>1, <4>2 DEF AckAccepted, CompareExchange, WriteState, Goto
        <5>2. QED
          BY <1>c, <5>1 DEF Handled
      <4>3. CASE state >= DISCONNECTED
        BY <1>b, <1>c, <4>3 DEF Ended
      <4>4. QED
        BY <1>a, <4>1, <4>2, <4>3
    <3>2. CASE AckSuccessCall
      <4>1. told["success"] = 0 /\ told' = [told EXCEPT !["success"] = @ + 1]
        BY <3>2 DEF AckSuccessCall, CallListener, Goto, Tell, VerdictInv, IInv
      <4>2. told'["success"] = 1
        BY <1>a, <4>1 DEF Callbacks
      <4>3. QED
        BY <1>c, <4>2 DEF Ended
    <3>3. CASE ~AckAccepted /\ ~AckSuccessCall
      <4>1. pc'["recv"] = pc["recv"]
        BY <1>a, <2>4, <3>3, RecvFrame DEF Handled
      <4>2. QED
        BY <1>c, <2>4, <4>1 DEF Handled
    <3>4. QED
      BY <3>1, <3>2, <3>3
  <2>5. CASE First
    <3>1. CASE OnConnectionAck
      <4>1. countdown = 1
        <5>1. 1 \in 1 .. Len(inbox) /\ inbox[1] = Ack(TRUE)
          BY <1>a, <2>5, FrontIsFirst DEF First
        <5>2. QED
          BY <5>1 DEF AckFirstInv
      <4>2. PICK ok \in BOOLEAN :
              /\ Delivers(Ack(ok))
              /\ IF countdown = 0 \/ countdownDisposed
                 THEN Throws
                 ELSE pc' = [pc EXCEPT !["recv"] = IF ok THEN "ok_cas" ELSE "nack_cas"]
        BY <3>1 DEF OnConnectionAck
      <4>3. ok = TRUE
        BY <2>5, <4>2, AcksDiffer DEF First, Delivers
      <4>4. CASE countdownDisposed
        BY <1>b, <1>c, <4>4 DEF HandshakeInv, Ended
      <4>5. CASE ~countdownDisposed
        <5>1. pc'["recv"] = "ok_cas"
          BY <1>a, <4>1, <4>2, <4>3, <4>5
        <5>2. QED
          BY <1>c, <5>1 DEF Handled
      <4>6. QED
        BY <4>4, <4>5
    <3>2. CASE ServerPushes
      <4>1. PICK t \in PushTypes : inbox' = Append(inbox, Push(t))
        BY <3>2, InboxSteps
      <4>2. First'
        BY <1>a, <2>5, <4>1, PushIsNoAck, AppendFront DEF First
      <4>3. QED
        BY <1>c, <4>2
    <3>3. CASE ~OnConnectionAck /\ ~ServerPushes
      <4>1. ~OnData
        BY <2>5, InboxSteps, PushIsNoAck DEF First
      <4>2. inbox' = inbox
        BY <1>d, <3>3, <4>1, InboxFrame
      <4>3. QED
        BY <1>c, <2>5, <4>2 DEF First
    <3>4. QED
      BY <3>1, <3>2, <3>3
  <2>6. QED
    BY <2>2, <2>3, <2>4, <2>5
<1>2. QED
  BY <1>1, <1>d

\* Data is handed over only behind the ack.
LEMMA DataStep ==
  ASSUME IInv, HandshakeInv, AckFirstInv, AheadInv, DataInOrder, [Next]_vars
  PROVE  DataInOrder'
<1>a. IInv' /\ AheadInv' /\ TypeOK /\ TypeOK' /\ VerdictInv
  BY IInvStep, AheadStep DEF IInv
<1>b. told' = told \/ \E k \in Callbacks : Tell(k)
  BY ToldFrame
<1>1. CASE OnData
  <2>1. /\ inbox # <<>> /\ server = "accepted"
        /\ Head(inbox) # Ack(TRUE) /\ pc["recv"] = "idle"
    <3>1. inbox # <<>> /\ pc["recv"] = "idle" /\ Head(inbox) # Ack(TRUE)
      BY <1>1, InboxSteps, PushIsNoAck DEF OnData, Delivers
    <3>2. PICK t \in PushTypes : Head(inbox) = Push(t)
      BY <1>1, InboxSteps
    <3>3. 1 \in 1 .. Len(inbox) /\ inbox[1] = Push(t)
      BY <1>a, <3>1, <3>2 DEF TypeOK
    <3>4. Push(t) # Ack(FALSE)
      <4>1. Push(t).type # Ack(FALSE).type
        BY PushAssumption DEF Push, Ack
      <4>2. QED
        BY <4>1
    <3>5. QED
      BY <1>a, <3>1, <3>3, <3>4 DEF VerdictInv
  <2>2. told["success"] = 1 \/ state >= DISCONNECTED \/ userClose # "no"
    BY <2>1 DEF AheadInv
  <2>3. QED
    BY <1>a, <2>2, EndKept DEF DataInOrder
<1>2. CASE ~OnData
  <2>1. told'["data"] = told["data"]
    BY <1>a, <1>2, DataFrame
  <2>2. QED
    BY <1>a, <2>1, EndKept DEF DataInOrder
<1>3. QED
  BY <1>1, <1>2

\* The order of what the listener is told, with the invariant of the client.
THEOREM OrderInvariance == Spec => []OrderInv
<1>1. Init => OrderInv
  BY DEF Init, OrderInv, ReporterInv, FailureIsOver, HandshakeInv, AckFirstInv, AheadInv,
     DataInOrder, Threads, System, Callbacks, CloseLabels
<1>2. IInv /\ OrderInv /\ [Next]_vars => OrderInv'
  BY ReporterStep, HandshakeStep, AckFirstStep, AheadStep, DataStep DEF OrderInv
<1>3. QED
  BY <1>1, <1>2, Invariance, PTL DEF Spec

\* The listener hears of the login before it gets data.
THEOREM DataInOrderHolds == Spec => []DataInOrder
<1>1. OrderInv => DataInOrder
  BY DEF OrderInv
<1>2. QED
  BY OrderInvariance, <1>1, PTL

\* OnConnectionFailure is called only of a client or connection that is over.
THEOREM FailureIsOverHolds == Spec => []FailureIsOver
<1>1. OrderInv => FailureIsOver
  BY DEF OrderInv, ReporterInv
<1>2. QED
  BY OrderInvariance, <1>1, PTL

=============================================================================
