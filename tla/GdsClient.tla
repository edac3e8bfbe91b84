----------------------------- MODULE GdsClient ------------------------------
(***************************************************************************)
(* One AsyncGDSClient: the lock-free connection lifecycle of               *)
(* src/Gds/Websocket/AsyncGDSClient.cs, the threads that run it, and the   *)
(* WebSocket and GDS it talks to.                                          *)
(*                                                                         *)
(* The code has no lock: it shares the volatile fields state and           *)
(* isConnectionClosed, the field disposed and a CountdownEvent.  Every     *)
(* step below makes at most one access to one of them (a read, a write or  *)
(* a compare-and-exchange), so every interleaving of those accesses is     *)
(* explored.  The threads are:                                             *)
(*   Apps    callers of the public methods (listener callbacks that call   *)
(*           back into the client behave as one of them);                  *)
(*   "conn"  the thread Connect starts;                                    *)
(*   "recv"  the WebSocket's receive loop: Opened, then DataReceived;      *)
(*   "err"   whoever raises the WebSocket's Error event;                   *)
(*   "clsd"  whoever raises its Closed event, once.                        *)
(* The WebSocket (WebSocket4Net) and the GDS are external.                 *)
(***************************************************************************)
EXTENDS GdsTypes, Sequences, FiniteSets

CONSTANTS
  Apps,       \* threads of the application
  Calls,      \* the methods they call: Connect, Close, Dispose, SendMessage
  Offered,    \* the (header, data) kinds the application passes to SendMessage
  PushTypes,  \* the kinds of message the GDS sends besides the login ack
  MaxErrors,  \* bound: Error events raised
  MaxInbox,   \* bound: messages of the GDS in flight
  MaxPushes   \* bound: messages handed to the listener before the GDS stops

System  == {"conn", "recv", "err", "clsd"}
Threads == Apps \cup System
Message == [header : DataType, data : DataType]
Reply   == [type : DataType, ok : BOOLEAN]

ASSUME AppsAssumption    == Apps \cap System = {}
ASSUME OfferedAssumption == Offered \subseteq Message
ASSUME PushAssumption    == PushTypes \subseteq DataType \ {"ConnectionAck"}
ASSUME BoundsAssumption  == /\ MaxErrors \in Nat
                            /\ MaxInbox \in Nat
                            /\ MaxPushes \in Nat

VARIABLES
  state,               \* the field state
  isConnectionClosed,  \* the field isConnectionClosed
  countdown,           \* CurrentCount of the field countdown
  countdownDisposed,   \* countdown.Dispose() was called
  disposed,            \* the field disposed
  pc,                  \* thread -> the access it makes next
  disposing,           \* the application threads that Close() from Dispose()
  out,                 \* application thread -> the message it passes to Send
  ws,                  \* the WebSocket: none, connecting, open, closing, closed
  handshaked,          \* the WebSocket raised Opened
  server,              \* the GDS: waiting for a login, accepted, rejected
  inbox,               \* messages of the GDS on their way to the client
  wire,                \* messages the client put on the connection
  errors,              \* Error events raised so far
  told,                \* history: calls of each listener method
  opens,               \* history: calls of websocketClient.Open()
  userClose            \* history: Close/Dispose by the application

shared == <<state, isConnectionClosed, countdown, countdownDisposed, disposed>>
locals == <<disposing, out>>
peer   == <<server, inbox>>
net    == <<ws, handshaked, server, inbox, wire, errors>>
hist   == <<told, opens, userClose>>
vars   == <<shared, pc, locals, net, hist>>

Callbacks == {"success", "failure", "disconnect", "data"}
Login     == [header |-> "Connection", data |-> "Connection"]
Ack(ok)   == [type |-> "ConnectionAck", ok |-> ok]
Push(t)   == [type |-> t, ok |-> TRUE]
NoMessage == [header |-> "Event", data |-> "Event"]

PcValues ==
  {"idle", "done", "dead",
   "c_read", "c_write", "c_flag", "c_sock",             \* Close
   "d_count", "d_done",                                  \* Dispose
   "s_send",                                             \* SendMessage
   "t_open", "t_cas", "t_wait", "t_waiting",             \* Connect's thread
   "t_read", "t_fail", "t_call",
   "o_flag", "o_cas", "o_send", "o_cas2",                \* OnSocketOpened
   "ok_cas", "ok_call",                                  \* OnMessageReceived
   "nack_cas", "nack_call", "r_read",
   "e_flag", "e_sock", "e_read", "e_read2", "e_fail", "e_call",
   "x_flag", "x_read", "x_cas", "x_read2", "x_disc", "x_fail"}

Goto(t, from, to) == pc[t] = from /\ pc' = [pc EXCEPT ![t] = to]
Tell(k)           == told' = [told EXCEPT ![k] = @ + 1]

OnlyState == UNCHANGED <<isConnectionClosed, countdown, countdownDisposed,
                         disposed, locals, net, hist>>

\* The kinds of step a thread makes between the labels from and to: one that
\* changes only where it is, a write of a field, a call of the listener, and
\* Interlocked.CompareExchange(ref state, new, old).
LocalStep(t, from, to) == Goto(t, from, to) /\ UNCHANGED <<shared, locals, net, hist>>

WriteState(t, from, to, new) == Goto(t, from, to) /\ state' = new /\ OnlyState

WriteFlag(t, from, to, closed) ==
  /\ Goto(t, from, to) /\ isConnectionClosed' = closed
  /\ UNCHANGED <<state, countdown, countdownDisposed, disposed, locals, net, hist>>

CallListener(t, from, to, k) ==
  /\ Goto(t, from, to) /\ Tell(k)
  /\ UNCHANGED <<shared, locals, net, opens, userClose>>

CompareExchange(t, from, old, new, swapped, otherwise) ==
  WriteState(t, from, IF state = old THEN swapped ELSE otherwise,
             IF state = old THEN new ELSE state)

\* What a handler that throws does to the receive loop is the WebSocket's
\* business: it may go on with the next frame or end for good.
Throws == \E l \in {"idle", "dead"} : pc' = [pc EXCEPT !["recv"] = l]

Init ==
  /\ state = NOT_CONNECTED /\ isConnectionClosed = TRUE
  /\ countdown = 1 /\ countdownDisposed = FALSE /\ disposed = FALSE
  /\ pc = [t \in Threads |-> "idle"]
  /\ disposing = {} /\ out = [a \in Apps |-> NoMessage]
  /\ ws = "none" /\ handshaked = FALSE
  /\ server = "waiting" /\ inbox = <<>> /\ wire = {} /\ errors = 0
  /\ told = [k \in Callbacks |-> 0] /\ opens = 0 /\ userClose = "no"

-----------------------------------------------------------------------------
(* websocketClient.Close() and Send(), external.                           *)

\* Close of a WebSocket that was never opened does nothing; the closing of
\* one that was is reported later by the Closed event.
WsClose == ws' = IF ws \in {"connecting", "open"} THEN "closing" ELSE ws

\* A message sent while the socket is not open is lost.
WsSend(m) == wire' = IF ws = "open" THEN wire \cup {m} ELSE wire

-----------------------------------------------------------------------------
(* Connect().  A caller that does not find NOT_CONNECTED gets an           *)
(* InvalidOperationException and changes nothing.                          *)

\* Mutant: the test of the compare-and-exchange is dropped.
BugConnect(a) ==
  /\ pc[a] = "idle"
  /\ state' = INITIALIZING
  /\ pc' = [pc EXCEPT !["conn"] = "t_open"]
  /\ OnlyState

Connect(a) ==
  /\ pc[a] = "idle"
  /\ state = NOT_CONNECTED
  /\ state' = INITIALIZING
  /\ pc' = [pc EXCEPT !["conn"] = "t_open"]
  /\ OnlyState

\* The handlers are attached and the socket opened.
ConnOpen ==
  /\ Goto("conn", "t_open", "t_cas")
  /\ ws' = "connecting"
  /\ opens' = opens + 1
  /\ UNCHANGED <<shared, locals, handshaked, peer, wire, errors, told, userClose>>

\* Mutant: a plain write instead of the compare-and-exchange.
BugConnConnecting == WriteState("conn", "t_cas", "t_wait", CONNECTING)

ConnConnecting ==
  CompareExchange("conn", "t_cas", INITIALIZING, CONNECTING,
                  "t_wait", "t_wait")

\* countdown.Wait throws if it is disposed on entry (caught and logged), and
\* returns at once if the count is already zero.
ConnWait ==
  LocalStep("conn", "t_wait",
            IF countdownDisposed \/ countdown = 0 THEN "done" ELSE "t_waiting")

ConnSignaled ==
  /\ countdown = 0
  /\ LocalStep("conn", "t_waiting", "done")

ConnTimeout ==
  /\ countdown # 0
  /\ LocalStep("conn", "t_waiting", "t_read")

ConnTimeoutRead ==
  LocalStep("conn", "t_read",
            IF state \in {FAILED, DISCONNECTED} THEN "done" ELSE "t_fail")

\* Mutant: the timeout is reported, and the client goes on.
BugConnTimeoutFail == LocalStep("conn", "t_fail", "t_call")

ConnTimeoutFail == WriteState("conn", "t_fail", "t_call", FAILED)

\* Mutant: the timeout fails the client and tells nobody.
BugConnTimeoutCall == LocalStep("conn", "t_call", "done")

ConnTimeoutCall == CallListener("conn", "t_call", "done", "failure")

ConnStep == \/ ConnOpen \/ ConnConnecting \/ ConnWait \/ ConnSignaled
            \/ ConnTimeout \/ ConnTimeoutRead \/ ConnTimeoutFail
            \/ ConnTimeoutCall

-----------------------------------------------------------------------------
(* Close(), called by the application, by Dispose() and by the handler of  *)
(* a negative login ack: the test of State and the write are two accesses. *)

Close(a) ==
  /\ Goto(a, "idle", "c_read")
  /\ userClose' = IF userClose = "no" THEN "called" ELSE userClose
  /\ UNCHANGED <<shared, locals, net, told, opens>>

\* Mutant: Close does not look for FAILED.
BugCloseRead(t) == LocalStep(t, "c_read", "c_write")

CloseRead(t) ==
  LocalStep(t, "c_read", IF state = FAILED THEN "c_flag" ELSE "c_write")

CloseWrite(t) == WriteState(t, "c_write", "c_flag", DISCONNECTED)

CloseFlag(t) == WriteFlag(t, "c_flag", "c_sock", TRUE)

AfterClose(t) == IF t = "recv" THEN "nack_call"
                 ELSE IF t \in disposing THEN "d_done" ELSE "idle"

CloseSocket(t) ==
  /\ Goto(t, "c_sock", AfterClose(t))
  /\ WsClose
  /\ userClose' = IF t \in Apps THEN "returned" ELSE userClose
  /\ UNCHANGED <<shared, locals, handshaked, peer, wire, errors, told, opens>>

CloseStep(t) == CloseRead(t) \/ CloseWrite(t) \/ CloseFlag(t) \/ CloseSocket(t)

(* Dispose(): two callers can both pass the test of the plain field.       *)

Dispose(a) ==
  /\ ~disposed
  /\ Goto(a, "idle", "d_count")
  /\ userClose' = IF userClose = "no" THEN "called" ELSE userClose
  /\ UNCHANGED <<shared, locals, net, told, opens>>

DisposeCountdown(a) ==
  /\ Goto(a, "d_count", "c_read")
  /\ countdownDisposed' = TRUE
  /\ disposing' = disposing \cup {a}
  /\ UNCHANGED <<state, isConnectionClosed, countdown, disposed, out, net, hist>>

DisposeDone(a) ==
  /\ Goto(a, "d_done", "idle")
  /\ disposed' = TRUE
  /\ disposing' = disposing \ {a}
  /\ UNCHANGED <<state, isConnectionClosed, countdown, countdownDisposed, out,
                 net, hist>>

-----------------------------------------------------------------------------
(* SendMessage(), behind every SendXxx method.  In any other state, for a  *)
(* header of another kind and for a kind that cannot be serialised it      *)
(* throws and changes nothing.                                             *)

CanSend(m) == m.header = m.data /\ m.data \in Serializable

\* Mutant: the test of State is dropped.
BugSendMessage(a, m) ==
  /\ Goto(a, "idle", "s_send")
  /\ CanSend(m)
  /\ out' = [out EXCEPT ![a] = m]
  /\ UNCHANGED <<shared, disposing, net, hist>>

SendMessage(a, m) ==
  /\ Goto(a, "idle", "s_send")
  /\ state = LOGGED_IN
  /\ CanSend(m)
  /\ out' = [out EXCEPT ![a] = m]
  /\ UNCHANGED <<shared, disposing, net, hist>>

SendBinary(a) ==
  /\ Goto(a, "s_send", "idle")
  /\ WsSend(out[a])
  /\ out' = [out EXCEPT ![a] = NoMessage]
  /\ UNCHANGED <<shared, disposing, ws, handshaked, peer, errors, hist>>

AppCall(a) == \/ "Connect" \in Calls /\ Connect(a)
              \/ "Close" \in Calls /\ Close(a)
              \/ "Dispose" \in Calls /\ Dispose(a)
              \/ "SendMessage" \in Calls /\ \E m \in Offered : SendMessage(a, m)
AppStep(a) == CloseStep(a) \/ DisposeCountdown(a) \/ DisposeDone(a) \/ SendBinary(a)

-----------------------------------------------------------------------------
(* OnSocketOpened                                                          *)

\* The handshake completes.  A Close that came after Open() does not
\* suppress the event: the handler expects to find DISCONNECTED.
Opened ==
  /\ ws \in {"connecting", "closing"} /\ ~handshaked
  /\ Goto("recv", "idle", "o_flag")
  /\ handshaked' = TRUE
  /\ ws' = IF ws = "connecting" THEN "open" ELSE ws
  /\ UNCHANGED <<shared, locals, peer, wire, errors, hist>>

OnSocketOpened == WriteFlag("recv", "o_flag", "o_cas", FALSE)

OpenedConnected ==
  /\ pc["recv"] = "o_cas"
  /\ state' = IF state = CONNECTING THEN CONNECTED ELSE state
  /\ IF state \in {CONNECTING, DISCONNECTED}
     THEN pc' = [pc EXCEPT !["recv"] = "o_send"]
     ELSE Throws
  /\ OnlyState

OpenedLogin ==
  /\ Goto("recv", "o_send", "o_cas2")
  /\ WsSend(Login)
  /\ UNCHANGED <<shared, locals, ws, handshaked, peer, errors, hist>>

OpenedLoggingIn ==
  /\ pc["recv"] = "o_cas2"
  /\ state' = IF state = CONNECTED THEN LOGGING_IN ELSE state
  /\ IF state \in {CONNECTED, DISCONNECTED}
     THEN pc' = [pc EXCEPT !["recv"] = "idle"]
     ELSE Throws
  /\ OnlyState

-----------------------------------------------------------------------------
(* OnMessageReceived                                                       *)

Delivers(m) == /\ pc["recv"] = "idle" /\ handshaked /\ ws \in {"open", "closing"}
               /\ inbox # <<>> /\ Head(inbox) = m
               /\ inbox' = Tail(inbox)

\* Mutant: the timer is not stopped.
BugAckNoSignal ==
  \E ok \in BOOLEAN :
    /\ Delivers(Ack(ok))
    /\ pc' = [pc EXCEPT !["recv"] = IF ok THEN "ok_cas" ELSE "nack_cas"]
    /\ UNCHANGED <<shared, locals, ws, handshaked, server, wire, errors, hist>>

\* Mutant: the status of the ack is not looked at.
BugAckStatus ==
  \E ok \in BOOLEAN :
    /\ Delivers(Ack(ok))
    /\ countdown' = countdown - 1
    /\ pc' = [pc EXCEPT !["recv"] = "ok_cas"]
    /\ UNCHANGED <<state, isConnectionClosed, countdownDisposed, disposed, locals,
                   ws, handshaked, server, wire, errors, hist>>

\* countdown.Signal() throws once the count is zero or the event disposed.
OnConnectionAck ==
  \E ok \in BOOLEAN :
    /\ Delivers(Ack(ok))
    /\ IF countdown = 0 \/ countdownDisposed
       THEN Throws /\ UNCHANGED countdown
       ELSE /\ countdown' = countdown - 1
            /\ pc' = [pc EXCEPT !["recv"] = IF ok THEN "ok_cas" ELSE "nack_cas"]
    /\ UNCHANGED <<state, isConnectionClosed, countdownDisposed, disposed, locals,
                   ws, handshaked, server, wire, errors, hist>>

\* Mutant: a plain write instead of the compare-and-exchange.
BugAckAccepted == WriteState("recv", "ok_cas", "ok_call", LOGGED_IN)

AckAccepted ==
  CompareExchange("recv", "ok_cas", LOGGING_IN, LOGGED_IN, "ok_call", "r_read")

AckRejected ==
  CompareExchange("recv", "nack_cas", LOGGING_IN, FAILED, "c_read", "r_read")

\* The exchange failed: a closed client returns, any other state throws.
AckUnexpected ==
  /\ pc["recv"] = "r_read"
  /\ IF state = DISCONNECTED THEN pc' = [pc EXCEPT !["recv"] = "idle"] ELSE Throws
  /\ UNCHANGED <<shared, locals, net, hist>>

\* Mutant: the timer is stopped a second time.
BugAckSuccessCall ==
  /\ Goto("recv", "ok_call", "idle")
  /\ Tell("success")
  /\ countdown' = countdown - 1
  /\ UNCHANGED <<state, isConnectionClosed, countdownDisposed, disposed, locals,
                 net, opens, userClose>>

\* Mutant: a login that was accepted is not announced.
BugAckSilent == LocalStep("recv", "ok_call", "idle")

AckSuccessCall == CallListener("recv", "ok_call", "idle", "success")

AckFailureCall == CallListener("recv", "nack_call", "idle", "failure")

\* Every other kind goes to its listener method whatever the state is; what
\* cannot be deserialised or has no branch is only logged.
OnData ==
  \E t \in PushTypes :
    /\ Delivers(Push(t))
    /\ IF t \in Dispatched THEN Tell("data") ELSE UNCHANGED told
    /\ UNCHANGED <<shared, pc, locals, ws, handshaked, server, wire, errors,
                   opens, userClose>>

RecvStep == \/ OnSocketOpened \/ OpenedConnected \/ OpenedLogin \/ OpenedLoggingIn
            \/ AckAccepted \/ AckRejected \/ AckUnexpected
            \/ AckSuccessCall \/ AckFailureCall \/ CloseStep("recv")

-----------------------------------------------------------------------------
(* OnSocketError: three reads of two fields before the write of state.     *)

Error ==
  /\ ws # "none" /\ errors < MaxErrors
  /\ Goto("err", "idle", "e_flag")
  /\ errors' = errors + 1
  /\ UNCHANGED <<shared, locals, ws, handshaked, peer, wire, hist>>

OnSocketError ==
  LocalStep("err", "e_flag", IF isConnectionClosed THEN "e_read" ELSE "e_sock")

ErrorClose ==
  /\ Goto("err", "e_sock", "e_read")
  /\ WsClose
  /\ UNCHANGED <<shared, locals, handshaked, peer, wire, errors, hist>>

ErrorRead ==
  LocalStep("err", "e_read", IF state = FAILED THEN "idle" ELSE "e_read2")

ErrorReadAgain ==
  LocalStep("err", "e_read2", IF state = LOGGED_IN THEN "idle" ELSE "e_fail")

\* Mutant: an error fails the client and tells nobody.
BugErrorFail == WriteState("err", "e_fail", "idle", FAILED)

ErrorFail == WriteState("err", "e_fail", "e_call", FAILED)

ErrorCall == CallListener("err", "e_call", "idle", "failure")

ErrStep == \/ OnSocketError \/ ErrorClose \/ ErrorRead \/ ErrorReadAgain
           \/ ErrorFail \/ ErrorCall

-----------------------------------------------------------------------------
(* OnSocketClosed                                                          *)

Closed ==
  /\ ws = "closed"
  /\ LocalStep("clsd", "idle", "x_flag")

OnSocketClosed == WriteFlag("clsd", "x_flag", "x_read", TRUE)

ClosedRead ==
  LocalStep("clsd", "x_read", IF state = DISCONNECTED THEN "x_disc" ELSE "x_cas")

\* Mutant: only a Close by the application is reported as a disconnection.
BugClosedDisconnected ==
  CompareExchange("clsd", "x_cas", LOGGED_IN, DISCONNECTED, "done", "x_read2")

ClosedDisconnected ==
  CompareExchange("clsd", "x_cas", LOGGED_IN, DISCONNECTED, "x_disc", "x_read2")

ClosedReadAgain ==
  LocalStep("clsd", "x_read2", IF state = FAILED THEN "done" ELSE "x_fail")

ClosedDisconnectCall == CallListener("clsd", "x_disc", "done", "disconnect")

ClosedFailureCall == CallListener("clsd", "x_fail", "done", "failure")

ClsdStep == \/ Closed \/ OnSocketClosed \/ ClosedRead \/ ClosedDisconnected
            \/ ClosedReadAgain \/ ClosedDisconnectCall \/ ClosedFailureCall

-----------------------------------------------------------------------------
(* The network and the GDS, external.                                      *)

\* A close handshake ends, by itself or by the WebSocket's own timer.
SocketClosed ==
  /\ ws = "closing"
  /\ ws' = "closed"
  /\ UNCHANGED <<shared, pc, locals, handshaked, peer, wire, errors, hist>>

\* The GDS or the network ends the connection.
ConnectionLost ==
  /\ ws \in {"connecting", "open"}
  /\ ws' = "closed"
  /\ UNCHANGED <<shared, pc, locals, handshaked, peer, wire, errors, hist>>

\* The GDS answers a login once; it may also never answer.
ServerReplies ==
  /\ server = "waiting" /\ Login \in wire /\ ws \in {"open", "closing"}
  /\ Len(inbox) < MaxInbox
  /\ \E ok \in BOOLEAN :
       /\ server' = IF ok THEN "accepted" ELSE "rejected"
       /\ inbox' = Append(inbox, Ack(ok))
  /\ UNCHANGED <<shared, pc, locals, ws, handshaked, wire, errors, hist>>

ServerPushes ==
  /\ server = "accepted" /\ ws \in {"open", "closing"}
  /\ Len(inbox) < MaxInbox /\ told["data"] < MaxPushes
  /\ \E t \in PushTypes : inbox' = Append(inbox, Push(t))
  /\ UNCHANGED <<shared, pc, locals, ws, handshaked, server, wire, errors, hist>>

Network == SocketClosed \/ ConnectionLost \/ ServerReplies \/ ServerPushes

Next ==
  \/ \E a \in Apps : AppCall(a) \/ AppStep(a)
  \/ ConnStep
  \/ Opened \/ OnConnectionAck \/ OnData \/ RecvStep
  \/ Error \/ ErrStep
  \/ ClsdStep
  \/ Network

Spec == Init /\ [][Next]_vars

\* Threads that have work run: a started method or handler goes on, the wait
\* ends by a signal or by its timeout, a closing socket closes and Closed is
\* raised.  Nothing makes the application call, the network work or the GDS
\* answer.
Fairness ==
  /\ WF_vars(ConnStep)
  /\ WF_vars(RecvStep)
  /\ WF_vars(ErrStep)
  /\ WF_vars(ClsdStep)
  /\ WF_vars(SocketClosed)
  /\ \A a \in Apps : WF_vars(AppStep(a))

FairSpec == Spec /\ Fairness

=============================================================================
