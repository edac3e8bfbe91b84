-------------------------- MODULE GdsClientProofs ---------------------------
(***************************************************************************)
(* Theorems about GdsClient for any set of application threads, any        *)
(* messages and any bounds, proved by TLAPS from the assumptions of        *)
(* GdsClient.                                                              *)
(***************************************************************************)
EXTENDS GdsClientProps, TLAPS

USE DEF NOT_CONNECTED, INITIALIZING, CONNECTING, CONNECTED, LOGGING_IN,
        LOGGED_IN, DISCONNECTED, FAILED, ConnectionState

\* An application thread is none of the threads of the system.
LEMMA AppsApart ==
  \A a \in Apps : a # "conn" /\ a # "recv" /\ a # "err" /\ a # "clsd"
  BY AppsAssumption DEF System

\* The initial content of out and the login are messages.
LEMMA MessagesTyped == NoMessage \in Message /\ Login \in Message
  BY DEF NoMessage, Login, Message, DataType

\* A positive and a negative ack are different messages.
LEMMA AcksDiffer == \A ok \in BOOLEAN : (Ack(ok) = Ack(FALSE)) <=> ~ok
<1>1. \A ok \in BOOLEAN : Ack(ok).ok = ok
  BY DEF Ack
<1>2. QED
  BY <1>1

\* The head of a sequence that is not empty is its first element.
LEMMA HeadFirst ==
  ASSUME NEW S, NEW s \in Seq(S), s # << >>
  PROVE  1 \in 1 .. Len(s) /\ s[1] = Head(s)
<1>1. Len(s) \in Nat /\ Len(s) # 0
  OBVIOUS
<1>2. QED
  BY <1>1

\* Every step keeps the types.
LEMMA TypeOKStep == IInv /\ [Next]_vars => TypeOK'
<1> SUFFICES ASSUME IInv, [Next]_vars PROVE TypeOK'
  OBVIOUS
<1> TypeOK
  BY DEF IInv
<1> USE AppsApart
     DEF TypeOK, PcValues, Threads, System, Reply, Ack, Push, locals, net, hist,
         shared, peer, Goto, Tell, OnlyState, LocalStep, WriteState, WriteFlag,
         CallListener, CompareExchange, Throws, Callbacks, WsClose, WsSend,
         AfterClose, Delivers, CloseLabels
<1>1. ASSUME NEW a \in Apps, AppCall(a) PROVE TypeOK'
  <2>1. CASE Connect(a)
    BY <2>1 DEF Connect
  <2>2. CASE Close(a) \/ Dispose(a)
    BY <2>2 DEF Close, Dispose
  <2>3. ASSUME NEW m \in Offered, SendMessage(a, m) PROVE TypeOK'
    BY <2>3, OfferedAssumption DEF SendMessage
  <2>4. QED
    BY <1>1, <2>1, <2>2, <2>3 DEF AppCall
<1>2. ASSUME NEW a \in Apps, AppStep(a) PROVE TypeOK'
  <2>1. CASE CloseRead(a)
    BY <2>1 DEF CloseRead
  <2>2. CASE CloseWrite(a)
    BY <2>2 DEF CloseWrite
  <2>3. CASE CloseFlag(a)
    BY <2>3 DEF CloseFlag
  <2>4. CASE CloseSocket(a)
    BY <2>4 DEF CloseSocket
  <2>5. CASE DisposeCountdown(a)
    BY <2>5 DEF DisposeCountdown
  <2>6. CASE DisposeDone(a)
    BY <2>6 DEF DisposeDone
  <2>7. CASE SendBinary(a)
    BY <2>7, MessagesTyped DEF SendBinary
  <2>8. QED
    BY <1>2, <2>1, <2>2, <2>3, <2>4, <2>5, <2>6, <2>7 DEF AppStep, CloseStep
<1>3. CASE ConnStep
  <2>1. CASE ConnOpen
    BY <2>1 DEF ConnOpen
  <2>2. CASE ConnConnecting
    BY <2>2 DEF ConnConnecting
  <2>3. CASE ConnWait
    BY <2>3 DEF ConnWait
  <2>4. CASE ConnSignaled
    BY <2>4 DEF ConnSignaled
  <2>5. CASE ConnTimeout
    BY <2>5 DEF ConnTimeout
  <2>6. CASE ConnTimeoutRead
    BY <2>6 DEF ConnTimeoutRead
  <2>7. CASE ConnTimeoutFail
    BY <2>7 DEF ConnTimeoutFail
  <2>8. CASE ConnTimeoutCall
    BY <2>8 DEF ConnTimeoutCall
  <2>9. QED
    BY <1>3, <2>1, <2>2, <2>3, <2>4, <2>5, <2>6, <2>7, <2>8 DEF ConnStep
<1>4. CASE Opened
  BY <1>4 DEF Opened
<1>5. CASE OnConnectionAck
  BY <1>5 DEF OnConnectionAck
<1>6. CASE OnData
  BY <1>6, PushAssumption DEF OnData, Dispatched, Deserializable
<1>7. CASE RecvStep
  <2>1. CASE OnSocketOpened
    BY <2>1 DEF OnSocketOpened
  <2>2. CASE OpenedConnected
    BY <2>2 DEF OpenedConnected
  <2>3. CASE OpenedLogin
    BY <2>3, MessagesTyped DEF OpenedLogin
  <2>4. CASE OpenedLoggingIn
    BY <2>4 DEF OpenedLoggingIn
  <2>5. CASE AckAccepted
    BY <2>5 DEF AckAccepted
  <2>6. CASE AckRejected
    BY <2>6 DEF AckRejected
  <2>7. CASE AckUnexpected
    BY <2>7 DEF AckUnexpected
  <2>8. CASE AckSuccessCall
    BY <2>8 DEF AckSuccessCall
  <2>9. CASE AckFailureCall
    BY <2>9 DEF AckFailureCall
  <2>10. CASE CloseRead("recv")
    BY <2>10 DEF CloseRead
  <2>11. CASE CloseWrite("recv")
    BY <2>11 DEF CloseWrite
  <2>12. CASE CloseFlag("recv")
    BY <2>12 DEF CloseFlag
  <2>13. CASE CloseSocket("recv")
    BY <2>13 DEF CloseSocket
  <2>14. QED
    BY <1>7, <2>1, <2>2, <2>3, <2>4, <2>5, <2>6, <2>7, <2>8, <2>9, <2>10, <2>11,
       <2>12, <2>13
    DEF RecvStep, CloseStep
<1>8. CASE Error
  BY <1>8 DEF Error
<1>9. CASE ErrStep
  <2>1. CASE OnSocketError
    BY <2>1 DEF OnSocketError
  <2>2. CASE ErrorClose
    BY <2>2 DEF ErrorClose
  <2>3. CASE ErrorRead
    BY <2>3 DEF ErrorRead
  <2>4. CASE ErrorReadAgain
    BY <2>4 DEF ErrorReadAgain
  <2>5. CASE ErrorFail
    BY <2>5 DEF ErrorFail
  <2>6. CASE ErrorCall
    BY <2>6 DEF ErrorCall
  <2>7. QED
    BY <1>9, <2>1, <2>2, <2>3, <2>4, <2>5, <2>6 DEF ErrStep
<1>10. CASE ClsdStep
  <2>1. CASE Closed
    BY <2>1 DEF Closed
  <2>2. CASE OnSocketClosed
    BY <2>2 DEF OnSocketClosed
  <2>3. CASE ClosedRead
    BY <2>3 DEF ClosedRead
  <2>4. CASE ClosedDisconnected
    BY <2>4 DEF ClosedDisconnected
  <2>5. CASE ClosedReadAgain
    BY <2>5 DEF ClosedReadAgain
  <2>6. CASE ClosedDisconnectCall
    BY <2>6 DEF ClosedDisconnectCall
  <2>7. CASE ClosedFailureCall
    BY <2>7 DEF ClosedFailureCall
  <2>8. QED
    BY <1>10, <2>1, <2>2, <2>3, <2>4, <2>5, <2>6, <2>7 DEF ClsdStep
<1>11. CASE SocketClosed \/ ConnectionLost
  BY <1>11 DEF SocketClosed, ConnectionLost
<1>12. CASE ServerReplies
  <2>1. PICK ok \in BOOLEAN : /\ server' = (IF ok THEN "accepted" ELSE "rejected")
                              /\ inbox' = Append(inbox, Ack(ok))
    BY <1>12 DEF ServerReplies
  <2>2. Ack(ok) \in Reply
    BY DEF DataType
  <2>3. inbox' \in Seq(Reply)
    BY <2>1, <2>2
  <2>4. QED
    BY <1>12, <2>1, <2>3 DEF ServerReplies
<1>13. CASE ServerPushes
  BY <1>13, PushAssumption DEF ServerPushes
<1>14. CASE UNCHANGED vars
  BY <1>14 DEF vars
<1>15. QED
  BY <1>1, <1>2, <1>3, <1>4, <1>5, <1>6, <1>7, <1>8, <1>9, <1>10, <1>11, <1>12,
     <1>13, <1>14
  DEF Next, Network

\* Every step keeps what opens, the socket and its handlers have in common:
\* only Connect's thread opens the socket, and every handler needs it.
LEMMA SocketInvStep == IInv /\ [Next]_vars => SocketInv'
<1> SUFFICES ASSUME IInv, [Next]_vars PROVE SocketInv'
  OBVIOUS
<1> TypeOK /\ SocketInv
  BY DEF IInv
<1> USE AppsApart
     DEF TypeOK, PcValues, Threads, System, SocketInv, locals, net, hist,
         shared, peer, Goto, Tell, OnlyState, LocalStep, WriteState, WriteFlag,
         CallListener, CompareExchange, Throws, Callbacks, WsClose, WsSend,
         AfterClose, Delivers, CloseLabels
<1>1. ASSUME NEW a \in Apps, AppCall(a) PROVE SocketInv'
  BY <1>1, OfferedAssumption
  DEF AppCall, Connect, Close, Dispose, SendMessage, CanSend
<1>2. ASSUME NEW a \in Apps, AppStep(a) PROVE SocketInv'
  BY <1>2
  DEF AppStep, CloseStep, CloseRead, CloseWrite, CloseFlag, CloseSocket,
      DisposeCountdown, DisposeDone, SendBinary
<1>3. CASE ConnStep
  BY <1>3
  DEF ConnStep, ConnOpen, ConnConnecting, ConnWait, ConnSignaled, ConnTimeout,
      ConnTimeoutRead, ConnTimeoutFail, ConnTimeoutCall
<1>4. CASE Opened
  BY <1>4 DEF Opened
<1>5. CASE OnConnectionAck
  BY <1>5 DEF OnConnectionAck
<1>6. CASE OnData
  BY <1>6, PushAssumption DEF OnData, Dispatched, Deserializable
<1>7. CASE RecvStep
  BY <1>7
  DEF RecvStep, OnSocketOpened, OpenedConnected, OpenedLogin, OpenedLoggingIn,
      AckAccepted, AckRejected, AckUnexpected, AckSuccessCall, AckFailureCall,
      CloseStep, CloseRead, CloseWrite, CloseFlag, CloseSocket
<1>8. CASE Error
  BY <1>8 DEF Error
<1>9. CASE ErrStep
  BY <1>9
  DEF ErrStep, OnSocketError, ErrorClose, ErrorRead, ErrorReadAgain, ErrorFail,
      ErrorCall
<1>10. CASE ClsdStep
  BY <1>10
  DEF ClsdStep, Closed, OnSocketClosed, ClosedRead, ClosedDisconnected,
      ClosedReadAgain, ClosedDisconnectCall, ClosedFailureCall
<1>11. CASE SocketClosed \/ ConnectionLost
  BY <1>11 DEF SocketClosed, ConnectionLost
<1>12. CASE ServerReplies
  BY <1>12 DEF ServerReplies
<1>13. CASE ServerPushes
  BY <1>13, PushAssumption DEF ServerPushes
<1>14. CASE UNCHANGED vars
  BY <1>14 DEF vars
<1>15. QED
  BY <1>1, <1>2, <1>3, <1>4, <1>5, <1>6, <1>7, <1>8, <1>9, <1>10, <1>11, <1>12,
     <1>13, <1>14
  DEF Next, Network

\* Every step keeps what is known of the verdict of the GDS: an ack enters the
\* inbox with the decision, and what the receive loop does follows the ack.
LEMMA VerdictInvStep == IInv /\ [Next]_vars => VerdictInv'
<1> SUFFICES ASSUME IInv, [Next]_vars PROVE VerdictInv'
  OBVIOUS
<1> TypeOK /\ SocketInv /\ VerdictInv /\ LoginEarned
  BY DEF IInv
<1> USE AppsApart
     DEF TypeOK, Threads, System, SocketInv, VerdictInv, LoginEarned, Ack, Push,
         locals, net, hist, shared, peer, Goto, Tell, OnlyState, LocalStep,
         WriteState, WriteFlag, CallListener, CompareExchange, Throws,
         Callbacks, WsClose, WsSend, AfterClose, Delivers, CloseLabels
<1>1. ASSUME NEW a \in Apps, AppCall(a) PROVE VerdictInv'
  BY <1>1, OfferedAssumption
  DEF AppCall, Connect, Close, Dispose, SendMessage, CanSend
<1>2. ASSUME NEW a \in Apps, AppStep(a) PROVE VerdictInv'
  BY <1>2
  DEF AppStep, CloseStep, CloseRead, CloseWrite, CloseFlag, CloseSocket,
      DisposeCountdown, DisposeDone, SendBinary
<1>3. CASE ConnStep
  <2>1. CASE ConnOpen
    BY <2>1 DEF ConnOpen
  <2>2. CASE ConnConnecting
    BY <2>2 DEF ConnConnecting
  <2>3. CASE ConnWait
    BY <2>3 DEF ConnWait
  <2>4. CASE ConnSignaled
    BY <2>4 DEF ConnSignaled
  <2>5. CASE ConnTimeout
    BY <2>5 DEF ConnTimeout
  <2>6. CASE ConnTimeoutRead
    BY <2>6 DEF ConnTimeoutRead
  <2>7. CASE ConnTimeoutFail
    BY <2>7 DEF ConnTimeoutFail
  <2>8. CASE ConnTimeoutCall
    BY <2>8 DEF ConnTimeoutCall
  <2>9. QED
    BY <1>3, <2>1, <2>2, <2>3, <2>4, <2>5, <2>6, <2>7, <2>8 DEF ConnStep
<1>4. CASE Opened
  BY <1>4 DEF Opened
<1>5. CASE OnConnectionAck
  <2>1. PICK ok \in BOOLEAN : Delivers(Ack(ok))
    BY <1>5 DEF OnConnectionAck
  <2>2. /\ server = IF ok THEN "accepted" ELSE "rejected"
        /\ \A i \in 1 .. Len(inbox') : i + 1 \in 1 .. Len(inbox) /\ inbox'[i] =
            inbox[i + 1]
    <3>1. /\ inbox \in Seq(Reply) /\ inbox # << >>
          /\ Head(inbox) = Ack(ok) /\ inbox' = Tail(inbox)
      BY <2>1
    <3>2. 1 \in 1 .. Len(inbox) /\ inbox[1] = Ack(ok)
      BY <3>1, HeadFirst
    <3>3. inbox[1] = Ack(FALSE) <=> ~ok
      BY <3>2, AcksDiffer
    <3>4. QED
      BY <3>1, <3>2, <3>3
  <2>3. \A i \in 1 .. Len(inbox') :
          server' = IF inbox'[i] = Ack(FALSE) THEN "rejected" ELSE "accepted"
    BY <1>5, <2>2 DEF OnConnectionAck
  <2>4. pc'["recv"] = "ok_cas" => ok
    BY <1>5, <2>1 DEF OnConnectionAck
  <2>5. pc'["recv"] = "nack_cas" => ~ok
    BY <1>5, <2>1 DEF OnConnectionAck
  <2>6. pc'["recv"] \in {"ok_cas", "nack_cas"} => countdown = 1 /\ countdown' = 0
    BY <1>5 DEF OnConnectionAck
  <2>7. pc'["recv"] \in {"idle", "dead", "ok_cas", "nack_cas"}
    BY <1>5 DEF OnConnectionAck
  <2>8. UNCHANGED <<state, server, told>> /\ (countdown' = 1 => countdown = 1)
    BY <1>5 DEF OnConnectionAck
  <2>9. QED
    BY <2>2, <2>3, <2>4, <2>5, <2>6, <2>7, <2>8
<1>6. CASE OnData
  BY <1>6, PushAssumption DEF OnData, Dispatched, Deserializable
<1>7. CASE RecvStep
  <2>1. CASE OnSocketOpened
    BY <2>1 DEF OnSocketOpened
  <2>2. CASE OpenedConnected
    BY <2>2 DEF OpenedConnected
  <2>3. CASE OpenedLogin
    BY <2>3 DEF OpenedLogin
  <2>4. CASE OpenedLoggingIn
    BY <2>4 DEF OpenedLoggingIn
  <2>5. CASE AckAccepted
    BY <2>5 DEF AckAccepted
  <2>6. CASE AckRejected
    BY <2>6 DEF AckRejected
  <2>7. CASE AckUnexpected
    BY <2>7 DEF AckUnexpected
  <2>8. CASE AckSuccessCall
    BY <2>8 DEF AckSuccessCall
  <2>9. CASE AckFailureCall
    BY <2>9 DEF AckFailureCall
  <2>10. CASE CloseRead("recv")
    BY <2>10 DEF CloseRead
  <2>11. CASE CloseWrite("recv")
    BY <2>11 DEF CloseWrite
  <2>12. CASE CloseFlag("recv")
    BY <2>12 DEF CloseFlag
  <2>13. CASE CloseSocket("recv")
    BY <2>13 DEF CloseSocket
  <2>14. QED
    BY <1>7, <2>1, <2>2, <2>3, <2>4, <2>5, <2>6, <2>7, <2>8, <2>9, <2>10, <2>11,
       <2>12, <2>13
    DEF RecvStep, CloseStep
<1>8. CASE Error
  BY <1>8 DEF Error
<1>9. CASE ErrStep
  BY <1>9
  DEF ErrStep, OnSocketError, ErrorClose, ErrorRead, ErrorReadAgain, ErrorFail,
      ErrorCall
<1>10. CASE ClsdStep
  <2>1. CASE Closed
    BY <2>1 DEF Closed
  <2>2. CASE OnSocketClosed
    BY <2>2 DEF OnSocketClosed
  <2>3. CASE ClosedRead
    BY <2>3 DEF ClosedRead
  <2>4. CASE ClosedDisconnected
    BY <2>4 DEF ClosedDisconnected
  <2>5. CASE ClosedReadAgain
    BY <2>5 DEF ClosedReadAgain
  <2>6. CASE ClosedDisconnectCall
    BY <2>6 DEF ClosedDisconnectCall
  <2>7. CASE ClosedFailureCall
    BY <2>7 DEF ClosedFailureCall
  <2>8. QED
    BY <1>10, <2>1, <2>2, <2>3, <2>4, <2>5, <2>6, <2>7 DEF ClsdStep
<1>11. CASE SocketClosed \/ ConnectionLost
  BY <1>11 DEF SocketClosed, ConnectionLost
<1>12. CASE ServerReplies
  <2>1. PICK ok \in BOOLEAN : /\ server' = (IF ok THEN "accepted" ELSE "rejected")
                              /\ inbox' = Append(inbox, Ack(ok))
    BY <1>12 DEF ServerReplies
  <2>2. server = "waiting" /\ inbox = << >>
    BY <1>12 DEF ServerReplies
  <2>3. Len(inbox') = 1 /\ inbox'[1] = Ack(ok)
    BY <2>1, <2>2
  <2>4. \A i \in 1 .. Len(inbox') :
          server' = IF inbox'[i] = Ack(FALSE) THEN "rejected" ELSE "accepted"
    <3>1. inbox'[1] = Ack(FALSE) <=> ~ok
      BY <2>3, AcksDiffer
    <3>2. QED
      BY <2>1, <2>3, <3>1
  <2>5. UNCHANGED <<state, pc, countdown, told>>
    BY <1>12 DEF ServerReplies
  <2>6. QED
    BY <2>2, <2>4, <2>5
<1>13. CASE ServerPushes
  BY <1>13, PushAssumption DEF ServerPushes
<1>14. CASE UNCHANGED vars
  BY <1>14 DEF vars
<1>15. QED
  BY <1>1, <1>2, <1>3, <1>4, <1>5, <1>6, <1>7, <1>8, <1>9, <1>10, <1>11, <1>12,
     <1>13, <1>14
  DEF Next, Network

\* Every step keeps what a sender learnt from its test of State.
LEMMA SenderInvStep == IInv /\ [Next]_vars => SenderInv'
<1> SUFFICES ASSUME IInv, [Next]_vars PROVE SenderInv'
  OBVIOUS
<1> TypeOK /\ SenderInv /\ LoginEarned
  BY DEF IInv
<1> USE AppsApart
     DEF TypeOK, Threads, System, SenderInv, LoginEarned, locals, net, hist,
         shared, peer, Goto, Tell, OnlyState, LocalStep, WriteState, WriteFlag,
         CallListener, CompareExchange, Throws, Callbacks, WsClose, WsSend,
         AfterClose, Delivers, CloseLabels
<1>1. ASSUME NEW a \in Apps, AppCall(a) PROVE SenderInv'
  BY <1>1, OfferedAssumption
  DEF AppCall, Connect, Close, Dispose, SendMessage, CanSend
<1>2. ASSUME NEW a \in Apps, AppStep(a) PROVE SenderInv'
  BY <1>2
  DEF AppStep, CloseStep, CloseRead, CloseWrite, CloseFlag, CloseSocket,
      DisposeCountdown, DisposeDone, SendBinary
<1>3. CASE ConnStep
  BY <1>3
  DEF ConnStep, ConnOpen, ConnConnecting, ConnWait, ConnSignaled, ConnTimeout,
      ConnTimeoutRead, ConnTimeoutFail, ConnTimeoutCall
<1>4. CASE Opened
  BY <1>4 DEF Opened
<1>5. CASE OnConnectionAck
  BY <1>5 DEF OnConnectionAck
<1>6. CASE OnData
  BY <1>6, PushAssumption DEF OnData, Dispatched, Deserializable
<1>7. CASE RecvStep
  BY <1>7
  DEF RecvStep, OnSocketOpened, OpenedConnected, OpenedLogin, OpenedLoggingIn,
      AckAccepted, AckRejected, AckUnexpected, AckSuccessCall, AckFailureCall,
      CloseStep, CloseRead, CloseWrite, CloseFlag, CloseSocket
<1>8. CASE Error
  BY <1>8 DEF Error
<1>9. CASE ErrStep
  BY <1>9
  DEF ErrStep, OnSocketError, ErrorClose, ErrorRead, ErrorReadAgain, ErrorFail,
      ErrorCall
<1>10. CASE ClsdStep
  BY <1>10
  DEF ClsdStep, Closed, OnSocketClosed, ClosedRead, ClosedDisconnected,
      ClosedReadAgain, ClosedDisconnectCall, ClosedFailureCall
<1>11. CASE SocketClosed \/ ConnectionLost
  BY <1>11 DEF SocketClosed, ConnectionLost
<1>12. CASE ServerReplies
  BY <1>12 DEF ServerReplies
<1>13. CASE ServerPushes
  BY <1>13, PushAssumption DEF ServerPushes
<1>14. CASE UNCHANGED vars
  BY <1>14 DEF vars
<1>15. QED
  BY <1>1, <1>2, <1>3, <1>4, <1>5, <1>6, <1>7, <1>8, <1>9, <1>10, <1>11, <1>12,
     <1>13, <1>14
  DEF Next, Network

\* Every step keeps the causes of the threads that close or disconnect.
LEMMA CloserInvStep == IInv /\ [Next]_vars => CloserInv'
<1> SUFFICES ASSUME IInv, [Next]_vars PROVE CloserInv'
  OBVIOUS
<1> TypeOK /\ VerdictInv /\ CloserInv /\ LoginEarned /\ DisconnectHasCause
  BY DEF IInv
<1> USE AppsApart
     DEF TypeOK, Threads, System, VerdictInv, CloserInv, LoginEarned,
         DisconnectHasCause, Cause, locals, net, hist, shared, peer, Goto, Tell,
         OnlyState, LocalStep, WriteState, WriteFlag, CallListener,
         CompareExchange, Throws, Callbacks, WsClose, WsSend, AfterClose,
         Delivers, CloseLabels
<1>1. ASSUME NEW a \in Apps, AppCall(a) PROVE CloserInv'
  BY <1>1, OfferedAssumption
  DEF AppCall, Connect, Close, Dispose, SendMessage, CanSend
<1>2. ASSUME NEW a \in Apps, AppStep(a) PROVE CloserInv'
  BY <1>2
  DEF AppStep, CloseStep, CloseRead, CloseWrite, CloseFlag, CloseSocket,
      DisposeCountdown, DisposeDone, SendBinary
<1>3. CASE ConnStep
  BY <1>3
  DEF ConnStep, ConnOpen, ConnConnecting, ConnWait, ConnSignaled, ConnTimeout,
      ConnTimeoutRead, ConnTimeoutFail, ConnTimeoutCall
<1>4. CASE Opened
  BY <1>4 DEF Opened
<1>5. CASE OnConnectionAck
  BY <1>5 DEF OnConnectionAck
<1>6. CASE OnData
  BY <1>6, PushAssumption DEF OnData, Dispatched, Deserializable
<1>7. CASE RecvStep
  BY <1>7
  DEF RecvStep, OnSocketOpened, OpenedConnected, OpenedLogin, OpenedLoggingIn,
      AckAccepted, AckRejected, AckUnexpected, AckSuccessCall, AckFailureCall,
      CloseStep, CloseRead, CloseWrite, CloseFlag, CloseSocket
<1>8. CASE Error
  BY <1>8 DEF Error
<1>9. CASE ErrStep
  BY <1>9
  DEF ErrStep, OnSocketError, ErrorClose, ErrorRead, ErrorReadAgain, ErrorFail,
      ErrorCall
<1>10. CASE ClsdStep
  BY <1>10
  DEF ClsdStep, Closed, OnSocketClosed, ClosedRead, ClosedDisconnected,
      ClosedReadAgain, ClosedDisconnectCall, ClosedFailureCall
<1>11. CASE SocketClosed \/ ConnectionLost
  BY <1>11 DEF SocketClosed, ConnectionLost
<1>12. CASE ServerReplies
  BY <1>12 DEF ServerReplies
<1>13. CASE ServerPushes
  BY <1>13, PushAssumption DEF ServerPushes
<1>14. CASE UNCHANGED vars
  BY <1>14 DEF vars
<1>15. QED
  BY <1>1, <1>2, <1>3, <1>4, <1>5, <1>6, <1>7, <1>8, <1>9, <1>10, <1>11, <1>12,
     <1>13, <1>14
  DEF Next, Network

\* Every step keeps the connection free of illegal and early messages.
LEMMA SentAfterAcceptStep == IInv /\ [Next]_vars => SentAfterAccept'
<1> SUFFICES ASSUME IInv, [Next]_vars PROVE SentAfterAccept'
  OBVIOUS
<1> TypeOK /\ SocketInv /\ SenderInv /\ SentAfterAccept
  BY DEF IInv
<1> USE AppsApart
     DEF TypeOK, Threads, System, SocketInv, SenderInv, SentAfterAccept,
         CanSend, Login, Serializable, DataType, locals, net, hist, shared,
         peer, Goto, Tell, OnlyState, LocalStep, WriteState, WriteFlag,
         CallListener, CompareExchange, Throws, Callbacks, WsClose, WsSend,
         AfterClose, Delivers, CloseLabels
<1>1. ASSUME NEW a \in Apps, AppCall(a) PROVE SentAfterAccept'
  BY <1>1, OfferedAssumption
  DEF AppCall, Connect, Close, Dispose, SendMessage, CanSend
<1>2. ASSUME NEW a \in Apps, AppStep(a) PROVE SentAfterAccept'
  BY <1>2
  DEF AppStep, CloseStep, CloseRead, CloseWrite, CloseFlag, CloseSocket,
      DisposeCountdown, DisposeDone, SendBinary
<1>3. CASE ConnStep
  BY <1>3
  DEF ConnStep, ConnOpen, ConnConnecting, ConnWait, ConnSignaled, ConnTimeout,
      ConnTimeoutRead, ConnTimeoutFail, ConnTimeoutCall
<1>4. CASE Opened
  BY <1>4 DEF Opened
<1>5. CASE OnConnectionAck
  BY <1>5 DEF OnConnectionAck
<1>6. CASE OnData
  BY <1>6, PushAssumption DEF OnData, Dispatched, Deserializable
<1>7. CASE RecvStep
  BY <1>7
  DEF RecvStep, OnSocketOpened, OpenedConnected, OpenedLogin, OpenedLoggingIn,
      AckAccepted, AckRejected, AckUnexpected, AckSuccessCall, AckFailureCall,
      CloseStep, CloseRead, CloseWrite, CloseFlag, CloseSocket
<1>8. CASE Error
  BY <1>8 DEF Error
<1>9. CASE ErrStep
  BY <1>9
  DEF ErrStep, OnSocketError, ErrorClose, ErrorRead, ErrorReadAgain, ErrorFail,
      ErrorCall
<1>10. CASE ClsdStep
  BY <1>10
  DEF ClsdStep, Closed, OnSocketClosed, ClosedRead, ClosedDisconnected,
      ClosedReadAgain, ClosedDisconnectCall, ClosedFailureCall
<1>11. CASE SocketClosed \/ ConnectionLost
  BY <1>11 DEF SocketClosed, ConnectionLost
<1>12. CASE ServerReplies
  BY <1>12 DEF ServerReplies
<1>13. CASE ServerPushes
  BY <1>13, PushAssumption DEF ServerPushes
<1>14. CASE UNCHANGED vars
  BY <1>14 DEF vars
<1>15. QED
  BY <1>1, <1>2, <1>3, <1>4, <1>5, <1>6, <1>7, <1>8, <1>9, <1>10, <1>11, <1>12,
     <1>13, <1>14
  DEF Next, Network

\* LOGGED_IN and OnConnectionSuccess come only from the positive ack.
LEMMA LoginEarnedStep == IInv /\ [Next]_vars => LoginEarned'
<1> SUFFICES ASSUME IInv, [Next]_vars PROVE LoginEarned'
  OBVIOUS
<1> TypeOK /\ SocketInv /\ VerdictInv /\ LoginEarned
  BY DEF IInv
<1> USE AppsApart
     DEF TypeOK, Threads, System, SocketInv, VerdictInv, LoginEarned, locals,
         net, hist, shared, peer, Goto, Tell, OnlyState, LocalStep, WriteState,
         WriteFlag, CallListener, CompareExchange, Throws, Callbacks, WsClose,
         WsSend, AfterClose, Delivers, CloseLabels
<1>1. ASSUME NEW a \in Apps, AppCall(a) PROVE LoginEarned'
  BY <1>1, OfferedAssumption
  DEF AppCall, Connect, Close, Dispose, SendMessage, CanSend
<1>2. ASSUME NEW a \in Apps, AppStep(a) PROVE LoginEarned'
  BY <1>2
  DEF AppStep, CloseStep, CloseRead, CloseWrite, CloseFlag, CloseSocket,
      DisposeCountdown, DisposeDone, SendBinary
<1>3. CASE ConnStep
  <2>1. CASE ConnOpen
    BY <2>1 DEF ConnOpen
  <2>2. CASE ConnConnecting
    BY <2>2 DEF ConnConnecting
  <2>3. CASE ConnWait
    BY <2>3 DEF ConnWait
  <2>4. CASE ConnSignaled
    BY <2>4 DEF ConnSignaled
  <2>5. CASE ConnTimeout
    BY <2>5 DEF ConnTimeout
  <2>6. CASE ConnTimeoutRead
    BY <2>6 DEF ConnTimeoutRead
  <2>7. CASE ConnTimeoutFail
    BY <2>7 DEF ConnTimeoutFail
  <2>8. CASE ConnTimeoutCall
    BY <2>8 DEF ConnTimeoutCall
  <2>9. QED
    BY <1>3, <2>1, <2>2, <2>3, <2>4, <2>5, <2>6, <2>7, <2>8 DEF ConnStep
<1>4. CASE Opened
  BY <1>4 DEF Opened
<1>5. CASE OnConnectionAck
  BY <1>5 DEF OnConnectionAck
<1>6. CASE OnData
  BY <1>6, PushAssumption DEF OnData, Dispatched, Deserializable
<1>7. CASE RecvStep
  <2>1. CASE OnSocketOpened
    BY <2>1 DEF OnSocketOpened
  <2>2. CASE OpenedConnected
    BY <2>2 DEF OpenedConnected
  <2>3. CASE OpenedLogin
    BY <2>3 DEF OpenedLogin
  <2>4. CASE OpenedLoggingIn
    BY <2>4 DEF OpenedLoggingIn
  <2>5. CASE AckAccepted
    BY <2>5 DEF AckAccepted
  <2>6. CASE AckRejected
    BY <2>6 DEF AckRejected
  <2>7. CASE AckUnexpected
    BY <2>7 DEF AckUnexpected
  <2>8. CASE AckSuccessCall
    BY <2>8 DEF AckSuccessCall
  <2>9. CASE AckFailureCall
    BY <2>9 DEF AckFailureCall
  <2>10. CASE CloseRead("recv")
    BY <2>10 DEF CloseRead
  <2>11. CASE CloseWrite("recv")
    BY <2>11 DEF CloseWrite
  <2>12. CASE CloseFlag("recv")
    BY <2>12 DEF CloseFlag
  <2>13. CASE CloseSocket("recv")
    BY <2>13 DEF CloseSocket
  <2>14. QED
    BY <1>7, <2>1, <2>2, <2>3, <2>4, <2>5, <2>6, <2>7, <2>8, <2>9, <2>10, <2>11,
       <2>12, <2>13
    DEF RecvStep, CloseStep
<1>8. CASE Error
  BY <1>8 DEF Error
<1>9. CASE ErrStep
  <2>1. CASE OnSocketError
    BY <2>1 DEF OnSocketError
  <2>2. CASE ErrorClose
    BY <2>2 DEF ErrorClose
  <2>3. CASE ErrorRead
    BY <2>3 DEF ErrorRead
  <2>4. CASE ErrorReadAgain
    BY <2>4 DEF ErrorReadAgain
  <2>5. CASE ErrorFail
    BY <2>5 DEF ErrorFail
  <2>6. CASE ErrorCall
    BY <2>6 DEF ErrorCall
  <2>7. QED
    BY <1>9, <2>1, <2>2, <2>3, <2>4, <2>5, <2>6 DEF ErrStep
<1>10. CASE ClsdStep
  <2>1. CASE Closed
    BY <2>1 DEF Closed
  <2>2. CASE OnSocketClosed
    BY <2>2 DEF OnSocketClosed
  <2>3. CASE ClosedRead
    BY <2>3 DEF ClosedRead
  <2>4. CASE ClosedDisconnected
    BY <2>4 DEF ClosedDisconnected
  <2>5. CASE ClosedReadAgain
    BY <2>5 DEF ClosedReadAgain
  <2>6. CASE ClosedDisconnectCall
    BY <2>6 DEF ClosedDisconnectCall
  <2>7. CASE ClosedFailureCall
    BY <2>7 DEF ClosedFailureCall
  <2>8. QED
    BY <1>10, <2>1, <2>2, <2>3, <2>4, <2>5, <2>6, <2>7 DEF ClsdStep
<1>11. CASE SocketClosed \/ ConnectionLost
  BY <1>11 DEF SocketClosed, ConnectionLost
<1>12. CASE ServerReplies
  BY <1>12 DEF ServerReplies
<1>13. CASE ServerPushes
  BY <1>13, PushAssumption DEF ServerPushes
<1>14. CASE UNCHANGED vars
  BY <1>14 DEF vars
<1>15. QED
  BY <1>1, <1>2, <1>3, <1>4, <1>5, <1>6, <1>7, <1>8, <1>9, <1>10, <1>11, <1>12,
     <1>13, <1>14
  DEF Next, Network

\* DISCONNECTED and OnDisconnect come only from a cause.
LEMMA DisconnectHasCauseStep == IInv /\ [Next]_vars => DisconnectHasCause'
<1> SUFFICES ASSUME IInv, [Next]_vars PROVE DisconnectHasCause'
  OBVIOUS
<1> TypeOK /\ VerdictInv /\ CloserInv /\ LoginEarned /\ DisconnectHasCause
  BY DEF IInv
<1> USE AppsApart
     DEF TypeOK, Threads, System, VerdictInv, CloserInv, LoginEarned,
         DisconnectHasCause, Cause, locals, net, hist, shared, peer, Goto, Tell,
         OnlyState, LocalStep, WriteState, WriteFlag, CallListener,
         CompareExchange, Throws, Callbacks, WsClose, WsSend, AfterClose,
         Delivers, CloseLabels
<1>1. ASSUME NEW a \in Apps, AppCall(a) PROVE DisconnectHasCause'
  BY <1>1, OfferedAssumption
  DEF AppCall, Connect, Close, Dispose, SendMessage, CanSend
<1>2. ASSUME NEW a \in Apps, AppStep(a) PROVE DisconnectHasCause'
  BY <1>2
  DEF AppStep, CloseStep, CloseRead, CloseWrite, CloseFlag, CloseSocket,
      DisposeCountdown, DisposeDone, SendBinary
<1>3. CASE ConnStep
  BY <1>3
  DEF ConnStep, ConnOpen, ConnConnecting, ConnWait, ConnSignaled, ConnTimeout,
      ConnTimeoutRead, ConnTimeoutFail, ConnTimeoutCall
<1>4. CASE Opened
  BY <1>4 DEF Opened
<1>5. CASE OnConnectionAck
  BY <1>5 DEF OnConnectionAck
<1>6. CASE OnData
  BY <1>6, PushAssumption DEF OnData, Dispatched, Deserializable
<1>7. CASE RecvStep
  BY <1>7
  DEF RecvStep, OnSocketOpened, OpenedConnected, OpenedLogin, OpenedLoggingIn,
      AckAccepted, AckRejected, AckUnexpected, AckSuccessCall, AckFailureCall,
      CloseStep, CloseRead, CloseWrite, CloseFlag, CloseSocket
<1>8. CASE Error
  BY <1>8 DEF Error
<1>9. CASE ErrStep
  BY <1>9
  DEF ErrStep, OnSocketError, ErrorClose, ErrorRead, ErrorReadAgain, ErrorFail,
      ErrorCall
<1>10. CASE ClsdStep
  BY <1>10
  DEF ClsdStep, Closed, OnSocketClosed, ClosedRead, ClosedDisconnected,
      ClosedReadAgain, ClosedDisconnectCall, ClosedFailureCall
<1>11. CASE SocketClosed \/ ConnectionLost
  BY <1>11 DEF SocketClosed, ConnectionLost
<1>12. CASE ServerReplies
  BY <1>12 DEF ServerReplies
<1>13. CASE ServerPushes
  BY <1>13, PushAssumption DEF ServerPushes
<1>14. CASE UNCHANGED vars
  BY <1>14 DEF vars
<1>15. QED
  BY <1>1, <1>2, <1>3, <1>4, <1>5, <1>6, <1>7, <1>8, <1>9, <1>10, <1>11, <1>12,
     <1>13, <1>14
  DEF Next, Network

\* The initial state satisfies the invariant.
LEMMA IInvInit == Init => IInv
<1> SUFFICES ASSUME Init PROVE IInv
  OBVIOUS
<1> USE AppsApart DEF Init, System, Threads, Callbacks
<1>1. TypeOK
  <2>1. pc \in [Threads -> PcValues] /\ out \in [Apps -> Message]
    BY MessagesTyped DEF PcValues
  <2>2. told \in [Callbacks -> Nat] /\ inbox \in Seq(Reply)
    OBVIOUS
  <2>3. /\ isConnectionClosed \in BOOLEAN /\ countdownDisposed \in BOOLEAN
        /\ disposed \in BOOLEAN /\ handshaked \in BOOLEAN
    OBVIOUS
  <2>4. /\ state \in ConnectionState /\ countdown \in 0 .. 1
        /\ errors \in Nat /\ opens \in Nat
    OBVIOUS
  <2>5. /\ disposing \in SUBSET Apps /\ wire \in SUBSET Message
    OBVIOUS
  <2>6. QED
    BY <2>1, <2>2, <2>3, <2>4, <2>5, Zenon DEF TypeOK
<1>2. SocketInv /\ VerdictInv /\ SenderInv /\ CloserInv
  BY DEF SocketInv, VerdictInv, SenderInv, CloserInv, CloseLabels
<1>3. SentAfterAccept /\ LoginEarned /\ DisconnectHasCause
  BY DEF SentAfterAccept, LoginEarned, DisconnectHasCause
<1>4. QED
  BY <1>1, <1>2, <1>3 DEF IInv

-----------------------------------------------------------------------------

\* Every step keeps the invariant.
LEMMA IInvStep == IInv /\ [Next]_vars => IInv'
  BY TypeOKStep, SocketInvStep, VerdictInvStep, SenderInvStep, CloserInvStep,
     SentAfterAcceptStep, LoginEarnedStep, DisconnectHasCauseStep DEF IInv

\* Every reachable state satisfies the inductive invariant.
THEOREM Invariance == Spec => []IInv
  BY IInvInit, IInvStep, PTL DEF Spec

\* Every variable keeps its type, whatever the threads do.
THEOREM TypeCorrect == Spec => []TypeOK
<1>1. IInv => TypeOK
  BY DEF IInv
<1>2. QED
  BY Invariance, <1>1, PTL

\* One Connect wins: the socket is opened at most once.
THEOREM OpenedOnceHolds == Spec => []OpenedOnce
<1>1. IInv => OpenedOnce
  BY DEF IInv, SocketInv, OpenedOnce, TypeOK, PcValues, Threads, System
<1>2. QED
  BY Invariance, <1>1, PTL

\* Only legal messages reach the connection, and but for the login only after
\* the GDS accepted it.
THEOREM SentAfterAcceptHolds == Spec => []SentAfterAccept
<1>1. IInv => SentAfterAccept
  BY DEF IInv
<1>2. QED
  BY Invariance, <1>1, PTL

\* LOGGED_IN and the one OnConnectionSuccess are earned by a positive ack.
THEOREM LoginEarnedHolds == Spec => []LoginEarned
<1>1. IInv => LoginEarned
  BY DEF IInv
<1>2. QED
  BY Invariance, <1>1, PTL

\* A rejected login leaves the listener and the callers out.
THEOREM RejectedStaysOutHolds == Spec => []RejectedStaysOut
<1>1. IInv => RejectedStaysOut
  BY DEF IInv, TypeOK, VerdictInv, LoginEarned, SentAfterAccept, RejectedStaysOut,
         Callbacks
<1>2. QED
  BY Invariance, <1>1, PTL

\* DISCONNECTED and OnDisconnect have a cause.
THEOREM DisconnectHasCauseHolds == Spec => []DisconnectHasCause
<1>1. IInv => DisconnectHasCause
  BY DEF IInv
<1>2. QED
  BY Invariance, <1>1, PTL

\* Every step leaves state where it is or moves it forward.
LEMMA ForwardStep ==
  IInv /\ [Next]_vars =>
    [state <= state' \/ (state = FAILED /\ state' = DISCONNECTED)]_state
<1> SUFFICES ASSUME IInv, [Next]_vars
             PROVE  \/ state <= state' \/ state' = state
                    \/ state = FAILED /\ state' = DISCONNECTED
  OBVIOUS
<1> state \in 0 .. 7
  BY DEF IInv, TypeOK
<1> USE DEF shared, Goto, OnlyState, LocalStep, WriteState, WriteFlag,
            CallListener, CompareExchange
<1>1. ASSUME NEW a \in Apps, AppCall(a) \/ AppStep(a)
      PROVE  state <= state' \/ (state = FAILED /\ state' = DISCONNECTED)
  BY <1>1 DEF AppCall, Connect, Close, Dispose, SendMessage, AppStep, CloseStep,
          CloseRead, CloseWrite, CloseFlag, CloseSocket, DisposeCountdown,
          DisposeDone, SendBinary
<1>2. CASE ConnStep
  BY <1>2 DEF ConnStep, ConnOpen, ConnConnecting, ConnWait, ConnSignaled,
          ConnTimeout, ConnTimeoutRead, ConnTimeoutFail, ConnTimeoutCall
<1>3. CASE RecvStep
  BY <1>3 DEF RecvStep, OnSocketOpened, OpenedConnected, OpenedLogin,
          OpenedLoggingIn, AckAccepted, AckRejected, AckUnexpected,
          AckSuccessCall, AckFailureCall, CloseStep, CloseRead, CloseWrite,
          CloseFlag, CloseSocket
<1>4. CASE ErrStep
  BY <1>4 DEF ErrStep, OnSocketError, ErrorClose, ErrorRead, ErrorReadAgain,
          ErrorFail, ErrorCall
<1>5. CASE ClsdStep
  BY <1>5 DEF ClsdStep, Closed, OnSocketClosed, ClosedRead, ClosedDisconnected,
          ClosedReadAgain, ClosedDisconnectCall, ClosedFailureCall
<1>6. CASE Opened \/ OnConnectionAck \/ OnData \/ Error \/ Network
  BY <1>6 DEF Opened, OnConnectionAck, OnData, Error, Network, SocketClosed,
          ConnectionLost, ServerReplies, ServerPushes
<1>7. CASE UNCHANGED vars
  BY <1>7 DEF vars
<1>8. QED
  BY <1>1, <1>2, <1>3, <1>4, <1>5, <1>6, <1>7 DEF Next

\* Whatever races on state, it only moves forward.
THEOREM StateForwardHolds == Spec => StateForward
  BY Invariance, ForwardStep, PTL DEF Spec, StateForward

-----------------------------------------------------------------------------

\* The initial state of the client is the initial state of a session.
LEMMA SessionInit == Init => Session!Init
  BY DEF Init, Session!Init, Phase, Callbacks

\* Every step of the client is a step of the session or leaves it alone.
LEMMA SessionStep == IInv /\ IInv' /\ [Next]_vars => [Session!Next]_(Session!vars)
<1> SUFFICES ASSUME IInv, IInv', [Next]_vars PROVE [Session!Next]_(Session!vars)
  OBVIOUS
<1> /\ TypeOK /\ TypeOK' /\ SocketInv /\ VerdictInv /\ SenderInv
    /\ SentAfterAccept /\ LoginEarned /\ LoginEarned'
  BY DEF IInv
<1> /\ state \in 0 .. 7 /\ (state = 0 <=> Phase = "fresh")
    /\ (state \in 1 .. 4 <=> Phase = "connecting")
    /\ (state = 5 <=> Phase = "ready") /\ (state \in 6 .. 7 <=> Phase = "over")
  BY DEF TypeOK, Phase
<1> /\ state' \in 0 .. 7 /\ (state' = 0 <=> Phase' = "fresh")
    /\ (state' \in 1 .. 4 <=> Phase' = "connecting")
    /\ (state' = 5 <=> Phase' = "ready") /\ (state' \in 6 .. 7 <=> Phase' =
        "over")
  BY DEF TypeOK, Phase
<1> USE AppsApart
    DEF TypeOK, Threads, System, Callbacks, shared, locals, peer, net, hist, Goto,
        OnlyState, LocalStep, WriteState, WriteFlag, CallListener,
            CompareExchange,
        Tell, Session!Next, Session!vars
<1>1. ASSUME NEW a \in Apps, AppCall(a) PROVE [Session!Next]_(Session!vars)
  BY <1>1 DEF AppCall, Connect, Close, Dispose, SendMessage, Session!Start
<1>2. ASSUME NEW a \in Apps, SendBinary(a) PROVE [Session!Next]_(Session!vars)
  BY <1>2 DEF SendBinary, WsSend, SenderInv, Session!Send
<1>3. ASSUME NEW t \in Threads, CloseStep(t) PROVE [Session!Next]_(Session!vars)
  BY <1>3
  DEF CloseStep, CloseRead, CloseWrite, CloseFlag, CloseSocket, Session!End
<1>4. ASSUME NEW a \in Apps, DisposeCountdown(a) \/ DisposeDone(a)
      PROVE  [Session!Next]_(Session!vars)
  BY <1>4 DEF DisposeCountdown, DisposeDone
<1>5. CASE ConnStep
  BY <1>5
  DEF SocketInv, ConnStep, ConnOpen, ConnConnecting, ConnWait, ConnSignaled,
          ConnTimeout, ConnTimeoutRead, ConnTimeoutFail, ConnTimeoutCall,
              Session!End
<1>6. CASE OnSocketOpened \/ OpenedConnected \/ OpenedLogin \/ OpenedLoggingIn
  BY <1>6
  DEF OnSocketOpened, OpenedConnected, OpenedLogin, OpenedLoggingIn, WsSend
<1>7. CASE AckAccepted \/ AckRejected \/ AckUnexpected
  BY <1>7 DEF AckAccepted, AckRejected, AckUnexpected, VerdictInv, Session!Ready,
          Session!End
<1>8. CASE AckSuccessCall \/ AckFailureCall
  BY <1>8 DEF AckSuccessCall, AckFailureCall, VerdictInv, Session!Announce
<1>9. CASE ErrStep
  BY <1>9 DEF ErrStep, OnSocketError, ErrorClose, ErrorRead, ErrorReadAgain,
          ErrorFail, ErrorCall, Session!End
<1>10. CASE ClsdStep
  BY <1>10 DEF ClsdStep, Closed, OnSocketClosed, ClosedRead, ClosedDisconnected,
           ClosedReadAgain, ClosedDisconnectCall, ClosedFailureCall, Session!End
<1>11. CASE Opened \/ OnConnectionAck \/ OnData \/ Error
  BY <1>11 DEF Opened, OnConnectionAck, OnData, Error
<1>12. CASE Network
  BY <1>12 DEF Network, SocketInv, SocketClosed, ConnectionLost, ServerReplies,
           ServerPushes, Session!Grant
<1>13. CASE UNCHANGED vars
  BY <1>13 DEF vars
<1>14. QED
  BY <1>1, <1>2, <1>3, <1>4, <1>5, <1>6, <1>7, <1>8, <1>9, <1>10, <1>11, <1>12,
     <1>13 DEF Next, AppStep, RecvStep

\* The client implements the one-shot session.
THEOREM Implementation == Spec => ImplementsSession
  BY IInvInit, IInvStep, SessionInit, SessionStep, PTL
  DEF Spec, ImplementsSession, Session!Spec

=============================================================================
