--------------------------- MODULE GdsClientProps ---------------------------
(***************************************************************************)
(* What is checked and proved of GdsClient: its properties, the abstract   *)
(* session it implements, the invariant its proofs use, and what the       *)
(* documentation says and the code does not do.                            *)
(***************************************************************************)
EXTENDS GdsClient

\* Every variable has its type; counters are natural numbers.
TypeOK ==
  /\ state \in ConnectionState /\ isConnectionClosed \in BOOLEAN
  /\ countdown \in 0 .. 1 /\ countdownDisposed \in BOOLEAN /\ disposed \in BOOLEAN
  /\ pc \in [Threads -> PcValues]
  /\ disposing \in SUBSET Apps /\ out \in [Apps -> Message]
  /\ ws \in {"none", "connecting", "open", "closing", "closed"}
  /\ handshaked \in BOOLEAN
  /\ server \in {"waiting", "accepted", "rejected"}
  /\ inbox \in Seq(Reply) /\ wire \in SUBSET Message /\ errors \in Nat
  /\ told \in [Callbacks -> Nat] /\ opens \in Nat
  /\ userClose \in {"no", "called", "returned"}

\* The client is not reusable (README.md:462): whatever threads race on state,
\* it only moves forward along the values of ConnectionState.cs, and the two
\* final values may replace one another but are never left.
StateForward == [][state <= state' \/ (state = FAILED /\ state' = DISCONNECTED)]_state

\* Of all the threads that call Connect only one wins (README.md:466): the
\* socket is opened at most once, by a state that Connect left behind.
OpenedOnce ==
  /\ opens <= 1
  /\ (ws # "none" \/ pc["conn"] \in PcValues \ {"idle", "t_open"}) => opens = 1
  /\ opens = 1 => state # NOT_CONNECTED

\* No message but the login is put on the connection before the GDS accepted
\* the login (README.md:258), and each has the header of its kind and a kind
\* the formatter can write: SendMessage's tests survive every interleaving.
SentAfterAccept ==
  \A m \in wire : CanSend(m) /\ (m # Login => server = "accepted")

\* LOGGED_IN is reached only by a positive ack, which has stopped the timer
\* of the connecting thread before; so has every OnConnectionSuccess, which
\* is called once at most.
LoginEarned ==
  /\ (state = LOGGED_IN \/ told["success"] > 0) => server = "accepted" /\ countdown = 0
  /\ told["success"] <= 1

\* A rejected login leaves the listener and the callers out: no success,
\* nothing sent after the login, no LOGGED_IN.
RejectedStaysOut ==
  server = "rejected" =>
    state # LOGGED_IN /\ wire \subseteq {Login} /\ told["success"] = 0

\* DISCONNECTED and OnDisconnect have a cause: a Close or Dispose of the
\* application, or the end of a connection whose login was accepted; in
\* particular a rejected login never disconnects (README.md:218).
DisconnectHasCause ==
  /\ (state = DISCONNECTED \/ told["disconnect"] > 0) =>
        userClose # "no" \/ (server = "accepted" /\ countdown = 0)
  /\ told["disconnect"] <= 1

\* The listener hears of the login before it gets data: data without a success
\* comes only on the socket of a client that has ended meanwhile (a timer that
\* gave up and left the socket open, a Close whose handshake is under way).
DataInOrder ==
  told["data"] > 0 =>
    told["success"] = 1 \/ state >= DISCONNECTED \/ userClose # "no"

\* OnConnectionFailure is called only when it is over: the client has left
\* LOGGED_IN for good, or its socket is closed (a late ack may still find the
\* client logging in then); never in a session that goes on.
FailureIsOver == told["failure"] > 0 => state >= DISCONNECTED \/ ws = "closed"

\* Nobody is left waiting: an application that won Connect and does not close
\* the client is told of a success, a failure or a disconnection.
ConnectAnswered ==
  state = INITIALIZING ~>
    \/ told["success"] > 0 \/ told["failure"] > 0 \/ told["disconnect"] > 0
    \/ userClose # "no"

\* There is no silent failure: whoever writes FAILED reports it, even if the
\* application closes the client in between.
FailureTold == state = FAILED ~> told["failure"] > 0

\* A connection that ends after a successful login is reported, whoever ended
\* it and whatever state the client is in by then.
EndTold ==
  (told["success"] > 0 /\ ws = "closed") ~> (told["disconnect"] > 0 \/ told["failure"] > 0)

\* The client implements the abstract session: INITIALIZING to LOGGING_IN are
\* one phase, DISCONNECTED and FAILED another.
Phase == CASE state = NOT_CONNECTED              -> "fresh"
           [] state \in INITIALIZING .. LOGGING_IN -> "connecting"
           [] state = LOGGED_IN                  -> "ready"
           [] state \in {DISCONNECTED, FAILED}   -> "over"

Session == INSTANCE GdsSession WITH
             phase <- Phase, granted <- (server = "accepted"),
             announced <- told["success"], sent <- wire \ {Login}

\* Every step of every thread is a step of the one-shot session or leaves it
\* alone: started once, ready only if granted, announced once, over for good.
ImplementsSession == Session!Spec

-----------------------------------------------------------------------------
(* The inductive invariant: what each thread knows at each of its steps.   *)

CloseLabels == {"c_read", "c_write", "c_flag", "c_sock"}
Cause       == userClose # "no" \/ (server = "accepted" /\ countdown = 0)

\* The socket exists once the connecting thread has opened it, and no handler
\* runs before.
SocketInv ==
  /\ pc["conn"] = "idle" => state \in {NOT_CONNECTED, DISCONNECTED}
  /\ pc["conn"] # "idle" => state # NOT_CONNECTED
  /\ opens = IF pc["conn"] \in {"idle", "t_open"} THEN 0 ELSE 1
  /\ ws = "none" <=> opens = 0
  /\ ws = "none" => /\ ~handshaked /\ wire = {} /\ server = "waiting"
                    /\ pc["recv"] = "idle" /\ pc["err"] = "idle" /\ pc["clsd"] = "idle"

\* What is in flight and what the receive loop works on tell the verdict.
VerdictInv ==
  /\ \A i \in 1 .. Len(inbox) :
       server = IF inbox[i] = Ack(FALSE) THEN "rejected" ELSE "accepted"
  /\ pc["recv"] \in {"ok_cas", "ok_call"} => server = "accepted" /\ told["success"] = 0
  /\ pc["recv"] \in CloseLabels \cup {"nack_cas", "nack_call"} => server = "rejected"
  /\ pc["recv"] \in CloseLabels \cup {"ok_cas", "ok_call", "nack_cas", "nack_call"} =>
       countdown = 0
  /\ countdown = 1 => told["success"] = 0
  /\ pc["recv"] = "ok_call" => state >= LOGGED_IN
  /\ told["success"] > 0 => state >= LOGGED_IN
  /\ told["data"] > 0 => server = "accepted"

\* A thread between SendMessage's tests and the send carries a legal message.
SenderInv ==
  \A a \in Apps : pc[a] = "s_send" =>
     server = "accepted" /\ state >= LOGGED_IN /\ CanSend(out[a])

\* The threads about to write DISCONNECTED or to call OnDisconnect.
CloserInv ==
  /\ \A a \in Apps : pc[a] \in CloseLabels \cup {"d_count"} => userClose # "no"
  /\ pc["recv"] = "c_read" => state >= DISCONNECTED
  /\ pc["recv"] = "c_write" => userClose # "no"
  /\ pc["clsd"] = "x_disc" => Cause
  /\ pc["clsd"] # "done" => told["disconnect"] = 0

IInv == /\ TypeOK /\ SocketInv /\ VerdictInv /\ SenderInv /\ CloserInv
        /\ SentAfterAccept /\ LoginEarned /\ DisconnectHasCause

\* Whoever is about to report a failure has ended the client or seen its end.
ReporterInv ==
  /\ FailureIsOver
  /\ pc["conn"] = "t_call" => state >= DISCONNECTED
  /\ pc["err"] = "e_call" => state >= DISCONNECTED
  /\ pc["recv"] \in CloseLabels \cup {"nack_call"} => state >= DISCONNECTED
  /\ pc["clsd"] # "idle" => ws = "closed"

\* The login is sent once, and the client is logging in when its ack arrives.
HandshakeInv ==
  /\ ~handshaked => pc["recv"] = "idle"
  /\ ~handshaked \/ pc["recv"] \in {"o_flag", "o_cas", "o_send"} =>
       server = "waiting" /\ Login \notin wire
  /\ pc["recv"] \in {"o_send", "o_cas2"} => state \in {CONNECTED, DISCONNECTED, FAILED}
  /\ Login \in wire /\ pc["recv"] # "o_cas2" => state >= LOGGING_IN
  /\ server # "waiting" => Login \in wire
  /\ server = "waiting" => countdown = 1
  /\ state = LOGGED_IN => pc["recv"] = "ok_call" \/ told["success"] = 1
  /\ countdownDisposed => userClose # "no"

\* The ack is the first message of the GDS, and stops the timer.
AckFirstInv ==
  \A i \in 1 .. Len(inbox) : inbox[i] = Ack(TRUE) => i = 1 /\ countdown = 1

\* An accepted login is still ahead of the data, being handled, or announced.
AheadInv ==
  server = "accepted" =>
    \/ inbox # <<>> /\ Head(inbox) = Ack(TRUE)
    \/ pc["recv"] \in {"ok_cas", "ok_call"} \/ told["success"] = 1
    \/ state >= DISCONNECTED \/ userClose # "no"

OrderInv == ReporterInv /\ HandshakeInv /\ AckFirstInv /\ AheadInv /\ DataInOrder

-----------------------------------------------------------------------------
(* What the documentation says and the code does not do.                   *)

\* "after the WebSocket connection is successfully established the client
\* will automatically send a login message" (README.md:218): OnSocketOpened
\* sends it only in the two states its own check names.  Connect's thread
\* leaves INITIALIZING after Open(), when the event may have been raised.
OpenedAsExpected ==
  pc["recv"] = "o_cas" => state \in {CONNECTING, DISCONNECTED}

\* "only if the connection was already established and successfully logged
\* in" (IGDSMessageListener.cs:34).  A Close before the login is enough.
DisconnectAfterLogin == told["disconnect"] > 0 => server = "accepted"

\* A connection either succeeds or fails: OnConnectionFailure is called
\* "instead" (README.md:218).  The timer tests State and writes it later, and
\* its test lets LOGGED_IN pass.
SuccessExcludesFailure == told["success"] = 0 \/ told["failure"] = 0

\* "The client is simply closed by the Close() method" (README.md:454).  A
\* Close that overtakes Connect's thread finds no socket to close, and that
\* thread then opens one.
CloseCloses == userClose = "returned" => ws # "open"

=============================================================================
