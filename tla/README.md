# A TLA+ model of the GDS C# SDK

This directory is a verification project for `gds-csharp-sdk`: TLA+ modules
translated from the C# source, TLC configurations that check them on small
instances, and proofs that TLAPS checks for every value of the constants. The
source is the reference; where its documentation says something else, a run
shows the difference (see *Findings*). Paths are those of the repository, whose
root is named `src/` in `PROJECT.json`.

## The system

The SDK is a .NET client of the GDS, a message-based data store. An application
builds an `AsyncGDSClient` around a listener, connects it, and exchanges
MessagePack messages over one WebSocket. A sample (`SyncGDSClient`) puts a
request/response interface with tasks and timeouts on top of it.

| part | state it keeps | operations | talks to |
|------|----------------|------------|----------|
| `AsyncGDSClient` (`Gds/Websocket`) | `state` (the eight values of `ConnectionState.cs`), `isConnectionClosed`, `disposed`, a `CountdownEvent` of one | `Connect`, `Close`, `Dispose`, `SendMessage` behind eleven `SendXxx`; handlers `OnSocketOpened`, `OnSocketError`, `OnSocketClosed`, `OnMessageReceived`; the thread that `Connect` starts and that waits for the login | the WebSocket (calls and events), the listener (callbacks) |
| `IGDSMessageListener` | none of its own | `OnConnectionSuccess`, `OnConnectionFailure`, `OnDisconnect`, one method per kind of message | called from the client's threads; may call back |
| WebSocket4Net and the GDS | the socket, the login, messages in flight | external | raises events, answers logins and requests |
| `SyncGDSClient` (sample) | `_pendingMessages`, a `ConcurrentDictionary` from message id to `TaskCompletionSource`; `_disposed` | `SendEvent2Async`, `SendQueryAsync` and their blocking forms, `OnEventAck3`, `OnQueryRequestAck11`, `OnConnectionFailure`, `Close`, `Dispose` | sends through an `AsyncGDSClient` and is its listener |
| Message codec (`Gds/Messages`) | none | `MessageFormatter`, `MessageHeaderFormatter`, `ConnectionDataTypeFormatter`, `ConnectionAckTypeDataFormatter`, `QueryRequestFormatter`, `MsgPackUtils` | MessagePack |
| Message data classes, `MessageManager` | immutable records | constructors and factories | the codec |
| `AsyncGDSClientBuilder` | nine parameters | chained setters, `Build` | the client's constructor |
| `ListenerImpl`, `Program` and helpers (samples) | a dictionary of requests, read to be logged | printing; an answer inside a callback | the client |

What is hard here:

* The client has **no lock**. `state` is a volatile integer that the
  application's threads, the connecting thread, the receive loop and the threads
  that raise Error and Closed read, test, write and compare-and-exchange. Some
  transitions are exchanges (`Connect`, the handlers of Opened and of the login
  ack), some are a test and a later plain write (`Close`, the timer, Error), and
  the two kinds race with each other.
* The login has a **timer** that races the ack, an Error, the end of the
  connection and a Close; the countdown is signalled by the receive loop and
  disposed by `Dispose`; handlers throw into the WebSocket's receive loop.
* The sample's request table is filled **after** the message is sent, is keyed
  by ids the application may choose twice, and is cleaned up by the call itself,
  by its timeout, by the ack and by an enumeration that is no snapshot.
* The two meet: a request is sent through a client that may end at any step, and
  failure reports and acks reach the table from different threads of that client.
* The binary form **leaves out** null fields, and the reader has to guess from
  the announced length and the next value which of them are there.

What makes the parts correct:

* client: one socket however many threads connect; a state that only moves
  forward; no message before the login is accepted; LOGGED_IN only by a positive
  ack that stopped the timer; a rejected login leaves the application out; a
  disconnection has a cause; nobody waits forever for the outcome of a
  connection; a failure is never silent, and is only reported of what is over; the
  listener hears of the login before it gets data; the end of a connection is
  reported;
* request table: nothing is left behind in the dictionary; a call returns an
  ack of its kind that was asked for under its key; no ack completes two calls; an
  ack finds the call that waits for it; every call returns;
* both together: an ack that a call returns has crossed the whole system; a call
  fails with the connection only if that is over; without a login nothing of a
  call leaves the wrapper;
* codec: every message is one MessagePack value and is read back as it was;
* builder: a client only of the parameters the constructor accepts, and a login
  of the parameters the client was built with.

## The modules

| module | what it is |
|--------|------------|
| `GdsTypes` | the values of `ConnectionState.cs`, the message kinds of `DataType.cs`, and which kinds `MessageFormatter.cs` writes, reads and `OnMessageReceived` dispatches |
| `GdsClient` | the `AsyncGDSClient`, its threads, the WebSocket and the GDS |
| `GdsSession` | the abstract specification: a one-shot session |
| `GdsClientProps` | the properties of `GdsClient`, its refinement mapping, its inductive invariant |
| `GdsClientProofs`, `GdsClientOrderProofs` | the theorems about `GdsClient`: safety and refinement; the order of what the listener is told |
| `SyncGds` | the request table of `SyncGDSClient`, over the phases of a session |
| `GdsRequests` | the abstract specification: calls that return once, with an answer of their own |
| `SyncGdsProps`, `SyncGdsProofs` | the properties of `SyncGds`, its refinement mapping and inductive invariant; its theorems |
| `SyncClient` | the composition: the request table as the listener, and as an application, of the `AsyncGDSClient` of `GdsClient` |
| `SyncClientProofs` | the theorems about the composition |
| `SyncSystemProofs` | what the theorems of the two parts say of the whole, and its refinement of both abstract specifications |
| `MessageCodec` | the writers and readers of the binary form and their properties |
| `MessageCodecProofs` | its theorems |
| `GdsLogin` | the builder, the constructor's checks, `SyncGDSClient.Create`, and the login, which goes through `MessageCodec` |
| `GdsLoginProofs` | its theorems: which builders make a client, and which login the GDS reads |
| `MCGdsClient`, `MCSyncGds`, `MCSyncClient`, `MCMessageCodec` | the instances TLC checks (`MCMessageCodec` for both codec and login) |

`PROJECT.json` maps every definition that models code to its lines.

### GdsClient

Each thread has a program counter `pc[t]`, and every step makes **at most one
access** to a shared field: a read (`LocalStep` with a target that depends on the
field), a plain write (`WriteState`, `WriteFlag`), an `Interlocked`
compare-and-exchange (`CompareExchange`), a call of the listener
(`CallListener`) or a call of the WebSocket. So TLC explores every interleaving
of the accesses, and the windows between a test and its write are really there.

The threads are the application's (`Apps`), `"conn"` (the thread of `Connect`),
`"recv"` (the receive loop, which raises Opened and DataReceived one after the
other), `"err"` and `"clsd"` (whoever raises Error and Closed, which may overlap
with everything). A listener that calls back into the client behaves as one more
application thread. The labels follow the code: `t_*` for Connect's thread, `c_*`
Close, `d_*` Dispose, `o_*` OnSocketOpened, `ok_*`/`nack_*` the two branches of a
login ack, `e_*` OnSocketError, `x_*` OnSocketClosed.

A call that throws at its first test (a second `Connect`, a `SendMessage` outside
of LOGGED_IN, with a header of another kind or of a kind the formatter refuses)
changes nothing and is a stuttering step. `disposed` is tested at the start of
`Dispose` and written at its end, as in the code, so two callers can both pass.
A handler that throws leaves the receive loop either ready for the next frame or
ended (`Throws`): both are allowed.

What is assumed of the external parts: Opened and DataReceived are raised by one
loop; Closed is raised once; Error may be raised any time after Open; Close on a
socket that was never opened has no effect, and Open afterwards does connect; a
message sent while the socket is not open is lost; the connection may be lost at
any time and messages in flight may still be handled while the socket closes.
The GDS answers a login at most once, positively or negatively or never, and
sends other messages only after it accepted a login.

`told`, `opens` and `userClose` are history: they count listener calls and calls
of `Open`, and record that the application called `Close` or `Dispose`.

### GdsSession

What a client promises without its threads: it is started once, becomes ready
only if the GDS grants the login, ends once and never comes back, announces its
success at most once, and sends only under a granted login. `GdsClientProps!Phase`
maps `state` to the session's phase. Two of the session's actions are loose on
purpose, since the code is: the success may be announced, and a message sent,
after the session ended, because both happen after their test of `state`.

### SyncGds

The calls of `SendEvent2Async` and `SendQueryAsync` run concurrently; `pending`
is the dictionary, `task` the completion sources, `receiver` what the receive
loop holds between `TryRemove` and `TrySetResult`, `failer` and `unvisited` the
enumeration of `OnConnectionFailure`: it passes every entry that was there at its
start and stays, and may pass one that is added meanwhile, which is all that a
`ConcurrentDictionary` promises. Each dictionary operation and each completion is
one step, and so are the test of the client's state (`Accepted`) and the send.
`args` fixes what the application passes: a kind, a message id or none, a header
or none. `Key` and `WireId` are the id a call waits under and the id that travels,
which differ when both a message id and a header are passed. `answer` is history:
whose message the ack answered that completed a call's task.

The client below is reduced to the phases of its session: before the login,
ready, over. `OnConnectionFailure` is not tied to them: `GdsClient` shows that a
failure may be reported more than once, and in one interleaving when a late ack
has made the client LOGGED_IN.

### GdsRequests

What a caller of a request/response interface may rely on, without dictionary,
ids or threads: a call is open until it returns, and returns once; an ack is the
GDS's answer to a message that fits the call, and serves no other call; a failure
needs a report. `SyncGdsProps` maps the table to it. "Fits" is deliberately wide:
an answer under the call's key, to this call's message or to another's, since the
code looks at nothing else.

### SyncClient

`SyncClient` joins the two. A caller is an application thread of `GdsClient`:
`SendAccepted` and `Transmit` are at once `SendMessage` and `SendBinary` of the
client and `Accepted` and `Send` of the table, whose `session` is now computed from
`state`. A step of the client that calls `OnConnectionFailure`, on whichever
thread, starts the table's enumeration (`Report`); the receive loop hands an ack
over with `DispatchAck` and handles nothing else until the table is done with it.
The GDS answers only messages that reached it. What is coarser than the code: two
reports that overlap are handled one after the other (the second does nothing the
first does not), and a reporting thread may go on with its own steps while the
table is still visiting, which only adds behaviours.

### GdsLogin

The setters of the builder in any order, with values that are refused, `Build`
with the tests of the constructor, or `SyncGDSClient.Create`, which fixes the
chain; then the part of `OnSocketOpened` that composes the login, which is
written and read by `MessageCodec`. A refused setter or `Build` throws and changes
nothing, and the application may go on with the builder, also after `Build`.
`called` (the setters that took effect) and `asked` (the password the application
gave) are history. One client is built per behaviour; a second would not meet the
first.

### MessageCodec

The wire is a sequence of values `<<type, content>>`. `WriteConnection`,
`WriteAckType`, `WriteQuery`, `WriteHeader` and `WriteMessage` announce lengths and
leave fields out as the formatters do; `ReadConnection`, `ReadAckType`,
`ReadHeader` and `ReadMessage` take value after value and decide from the length
and the next type. `WriteConnectionNils` is another writer (the GDS), which sends
nils where the client leaves fields out. `WriteResult` and `ReadResult` are the
formatter of an event document ack's results, with its empty map, and
`WriteResults` the list of them, of any length. A message is composed, written or
refused, and read. Texts and numbers are members of sets: no formatter looks at
their content. The data of the kinds whose formatters MessagePack generates is one
value. `NullAssumption` and `ObjectAssumption` say that no value and no object is
`Null`; `MessagesAssumption` that a connection ack is made by one of the
constructors, which all set an `ackData`. A map of reasons has one entry here.

## The runs

| run | instance | asks |
|-----|----------|------|
| `client` | two application threads with Connect, Dispose (whose body is Close) and SendMessage, three messages of which one is legal, two kinds of pushes, one Error, one message in flight | `TypeOK`, `IInv`, `LoginEarned`, `RejectedStaysOut`, `DisconnectHasCause`, `DataInOrder`, `FailureIsOver`, `OrderInv`, `OpenedOnce`, `SentAfterAccept`, `StateForward`, `ImplementsSession` |
| `client_live` | one thread with Connect and Close, one Error, fairness | `ConnectAnswered`, `FailureTold`, `EndTold` |
| `sync` | two calls, two ids, four argument records, fairness | `TypeOK`, `NothingLeftBehind`, `OutcomeEarned`, `AnswersUsedOnce`, `AckFindsCall`, `IInv`, `ImplementsRequests`, `EveryCallReturns` |
| `sync_client` | one call of either kind and one user who connects and closes, one message in flight, no Error | `AckIsReal`, `FailureIsReal`, `RefusedOutside`, `SyncInv`, `TableKept` |
| `codec` | every combination of optional fields; every chain of setters, with refused values | `TypeOK`, `OneValue`, `RoundTrip`, `LoginAsBuilt`, `LoginInv` |
| `opened_early`, `disconnect_without_login`, `success_and_failure`, `close_leaves_socket`, `sync_lost_ack`, `login_password`, `documented_chain` | the smallest that shows it | one documented claim each, violated |

Bounds. `MaxErrors = 1`: the Error handler has no memory between two errors but
`state`, and one error already meets every other thread at every step.
`MaxInbox = 1`: the GDS answers one login, and a data message is handed on without
looking at the state, so a second one in flight adds no case; `MaxPushes = 1` for
the same reason. Two threads are enough for the races of `Connect`, `Close`,
`Dispose` and `SendMessage` with each other, since each of them only tests and
writes fields that the others test and write; the theorems then hold for any
number. `client` leaves the method `Close` to `Dispose`, which runs all its steps
after one of its own; `client_live` and `sync_client` have it as a method. In the request table two calls are the fewest that share an id, and the
argument records are one of each way to name a call. `sync_client` has one call:
two of them on a real client are beyond TLC in five minutes, what two calls do to
each other is in `sync`, and the theorems of `SyncClientProofs` hold for any number.
It has no Error event, whose only addition is one more report. Two intervals (0
and a legal one) and one name, password and blank name are enough for the builder,
which only tests and stores them. The threads are symmetric in `client`, a run
without a liveness property. `login_password` has no user names, which leaves out
`Create`, so that its trace is that of the `SecureString`. `CHECK_DEADLOCK FALSE` stands where the system ends: a request
table whose calls returned, a message that was read or refused, a client in `client`
that was disposed, and one in `opened_early` that no longer connects.

Fairness. `GdsClient!Fairness`: a thread that is inside a method or a handler goes
on, Connect's thread waits until a signal or its timeout, a closing socket closes
and its Closed event is raised (WebSocket4Net has a timer for the close
handshake), all by the operating system's scheduling. Nothing makes the
application call a method, the network open or lose a connection, the GDS answer,
or a message that is in flight be handled. `SyncGds!FairSpec`: a call that was
made runs on, and its own timer fires if nothing else happens; neither the GDS
nor the receive loop nor `OnConnectionFailure` is fair, so `EveryCallReturns`
rests on the timeout alone.

What the liveness runs show: an application that won `Connect` and does not close
the client is told of a success, a failure or a disconnection, though the login
may be lost in a handler that throws; FAILED is always reported; a connection
that ends after its success was announced is reported.

## What is proved

`GdsClientProofs`, for every set of application threads, methods, offered
messages, pushed kinds and every bound (assumptions: application threads are not
named as the system's; offered messages have kinds of `DataType`; the GDS pushes
no second login ack; the bounds are natural numbers):

* `Invariance`: `IInv` holds always; with it `TypeCorrect`, `OpenedOnceHolds`,
  `SentAfterAcceptHolds`, `LoginEarnedHolds`, `RejectedStaysOutHolds`,
  `DisconnectHasCauseHolds`;
* `StateForwardHolds`: the action property that `state` only moves forward;
* `Implementation`: every step of the client is a step of `GdsSession` or a stutter.

None of the safety properties is inductive: each is about the fields, while what a
step will do depends on what its thread tested before. `IInv` adds that
knowledge: `SocketInv` (no handler runs before Connect's thread opened the socket,
and it opens it once), `VerdictInv` (an ack in flight, and the branch of the
handler the receive loop is in, tell the verdict of the GDS and that the countdown
was signalled; a success is told after that), `SenderInv` (a thread between
`SendMessage`'s test and its send carries a legal message of a client that was
LOGGED_IN, and `state` cannot have moved back), `CloserInv` (a thread about to
write DISCONNECTED or to call `OnDisconnect` has a cause). The proof has one step
per group of actions; `StateForward` and the refinement follow from `IInv`.

`SyncGdsProofs`, for every set of calls, ids and arguments (assumptions: a Guid is
no id the application chooses; arguments are argument records): `Invariance`,
`TypeCorrect`, `NothingLeftBehindHolds`, `OutcomeEarnedHolds`,
`AnswersUsedOnceHolds`, `AckFindsCallHolds`, and `Implementation`, the refinement of `GdsRequests`. An ack finds its
call through the dictionary alone, so that a result was asked for needs the whole
way: `MessageInv` (a message on its way is what its call sent), `NothingLeftBehind`
(an entry belongs to a waiting call under its own key), `ResultInv` (what the
receive loop carries and what a task holds was asked for under the key). That it
is used once needs `UniqueInv`: a message is unanswered, or its answer is on the
way, or carried by the receive loop, or held by one task, and never two of these.
`AckFindsCall` is inductive beside `IInv`: an entry is taken only under its id, and the
message of an ack that has it is, by `MessageInv`, one of a call that sent this id. So
the window before `TryAdd` (`sync_lost_ack`), a reported failure and a shared id are
all the ways to lose an answer.
The refinement then has one step per action; a call that returns an ack takes an
answer that `UniqueInv` shows no other call has taken.

`GdsClientOrderProofs`, under the assumptions of `GdsClientProofs`:
`OrderInvariance`, `DataInOrderHolds`, `FailureIsOverHolds`. `OrderInv` adds to `IInv`
what the receive loop's order gives: the ack is the first message of the GDS, it
finds a running timer and a client that has sent its login (`HandshakeInv`,
`AckFirstInv`), an accepted login is in flight, in its handler, announced, or its
client is over (`AheadInv`), and whoever is about to report a failure has ended the
client or seen its socket closed (`ReporterInv`).

`SyncClientProofs`, for any number of callers and users, ids and arguments:

* `TableKeptHolds`: the composition is a behaviour of `SyncGds!Spec`, so every
  safety theorem about the table holds of the whole; `session`, which `SyncGds` moves
  freely, is `state` there, and `IInv` of the client shows that it never comes back.
  That it is a behaviour of `GdsClient!Spec` as well (the lemma `ClientKept`) holds by
  its construction, since `SyncClient` conjoins the client's actions, and only lets
  the client's theorems be used;
* `SyncInvariance`, `AckIsRealHolds`, `RefusedOutsideHolds`: what lies in the table
  came through the client (`AckInv`), and a failure was reported by it
  (`FailureInv`); the client's `IInv` is used as a fact of every step;
* `FailureIsRealHolds`: from `FailureInv` and `FailureIsOver`.

`SyncSystemProofs`, under the assumptions of `SyncClientProofs`, takes the theorems
of `SyncGdsProofs` for the table of the composition (`INSTANCE SyncGdsProofs` with
the callers as its calls and `state` as its session, and the assumptions of the
table proved of the composition's arguments): `TablePromises`, `ClientPromises` and
`SystemImplements`, the refinement of `GdsSession` by the client inside the system
and of `GdsRequests` by its callers.

`MessageCodecProofs`, for every set of texts, numbers and messages, with reserved
fields and results of any length (assumptions: the three named above):

* `OneValueHolds`: whichever fields are left out, and whoever writes, a message is
  one MessagePack value. A formatter only knows its own part, so the notion that
  carries the proof is that of a sequence that is *n whole values* (`Whole`): there
  is a function that counts down from n to nothing, one value at a time. Whole
  values one after the other are whole (`WholeConcat`), an array of n before n whole
  values is one (`WholeArray`), and the count that `OneValue` defines by recursion is
  such a function (`ExpectedIsCount`, `WholeIsExpected`). A lemma for each formatter
  (`LoginWhole`, `AckTypeWhole`, `ResultsWhole`, `QueryWhole`, ...) says that what it
  announces is what it writes.
* `RoundTripHolds`: a message of a kind that is written and read arrives as it was,
  with nothing left over. Every reader has a lemma that it reads back what its
  writer wrote *in front of anything else* (`LoginReadBack`, `AckReadBack`,
  `DocumentAckReadBack`). The connection data is the hard one: the two writers
  leave out, or write as nil, the cluster and the reserved fields, and `LoginForm`
  is the one description of all their forms from which the reader's guess is shown
  right (`LoginWritten`, `LoginFormRead`).
* `CodecTypeOKHolds`: what is read is a message.

The three follow from `CodecInv`: the wire is what some writer wrote of the message,
and a reader that succeeded has the normal form of it. The codec's lists need one
induction over the natural numbers; `SetInduction` proves it for a set, from the
pigeonhole principle, since the induction theorems of the library take an operator
as a parameter.

`GdsLoginProofs`, for every set of names, passwords and intervals:

* `BuildNeedsPingHolds`: what the finding `documented_chain` comes to for every chain
  of setters, no client without `WithPingPongInterval`. The invariant `BuildInv` ties
  the listener and the interval each to the setter that alone can make it legal.
* `LoginAsBuiltHolds`, `LoginCodecHolds`: `LoginInv` adds that the client has the
  fields its builder had when it passed the constructor, and that the message under
  way is the login of these fields, whatever became of the builder since. That this
  login is a message (`LoginSound`) lets `CodecInv` speak of what the GDS reads.

A property of the prover. tlapm 1.4.5 tells its SMT solver that any value whose
domain is `1 .. n` has length n, and conversely, and that every length is a natural
number; for values that are no sequences this is false, and together with a
function that has another domain it is a contradiction that a proof could use
without anyone noticing. Every proof of this directory was therefore also checked
with the solver's axiom reduced to its true direction; none depends on the other.

Only model-checked: liveness (`ConnectAnswered`, `FailureTold`, `EndTold`,
`EveryCallReturns`), which is out of the prover's reach, and the violated claims.
Every other property of the passing runs is a theorem.

## Findings

* `opened_early` (`AsyncGDSClient.cs:364`): `Open()` precedes the exchange to
  CONNECTING, so the Opened event can be handled in INITIALIZING; the handler
  throws and no login is sent. The timer later reports a failure.
* `success_and_failure` (`AsyncGDSClient.cs:372`): the timer tests `State` and
  writes FAILED later; an ack in between gives a success and a failure, and since the
  test lets LOGGED_IN pass, so does an ack that was handled just before it.
* `close_leaves_socket` (`AsyncGDSClient.cs:363`): a `Close` that overtakes
  Connect's thread closes nothing, and that thread opens the socket afterwards.
* `disconnect_without_login` (`AsyncGDSClient.cs:440`): `OnDisconnect` is called
  after a `Close` without any login, which `IGDSMessageListener.cs:34` excludes.
* `login_password` (`AsyncGDSClient.cs:409`): the login carries the `ToString()` of
  a `SecureString`, the name of its class. With user names in the instance the same
  property is broken by `SyncGDSClient.Create` (`SyncGDSClient.cs:55`), which passes the
  password it demands to nobody.
* `documented_chain` (`AsyncGDSClient.cs:97`): `README.md:79` names the listener as
  the mandatory parameter, but without `WithPingPongInterval` the interval is 0, which
  the constructor refuses, so that the chains printed at `README.md:82`, 106 and 561
  throw.
* `sync_lost_ack` (`SyncGDSClient.cs:131`): an ack that arrives between the send and
  `TryAdd` is dropped, and its call times out.

One more difference has no run: `SyncGDSClient.cs:91` names `TimeoutException` and
`GdsRequestException` as all a call throws, while a call with an id that is in use
throws `InvalidOperationException`, and one that is given an ack of the other kind an
`InvalidCastException`. `GdsRequests` has both outcomes (`duplicate`, `bad cast`).

## What is not modelled

* The finalizer (it releases the same fields when nobody can call any more);
  exceptions thrown by an application's own callbacks; logging.
* The reader of a query request (`MessageFormatter` refuses the kind before it) and
  the formatters MessagePack generates (one value each). The data classes are
  records without behaviour; their kinds are in `GdsTypes`.
* `WithLog` and `WithCertificate` of the builder, whose values nothing here looks at,
  and the TLS set-up of the socket.
* `ListenerImpl`: it prints. Its dictionary is only read to be logged, and the
  acknowledgement it sends from inside `OnEventDocument8` is a `SendMessage`, which
  `GdsClient` lets any thread call at any time, whatever its receive loop does.
* `Program`, `SqlBuilder`, `AttachmentLoader`, `IdGenerator` and the string helpers of
  the samples, and `Utils` (a null check): no state, one pass from arguments to a
  result.
* `docs/html`: pages and scripts that Doxygen generated, among them all the
  JavaScript of the repository (menus, search indexes, jQuery). They are no part
  of the SDK; the map therefore covers C# sources only.
* A header of another kind than its call is refused by `SendMessage` (in
  `GdsClient`) and is no argument of `SyncGds`.

## Plan

Done: the client with its session and proofs; the request table with its abstract
specification, refinement and proofs; their composition and what the theorems of
the parts say of it; the codec and its proofs; the builder and the login, with
their proofs.

Next: a listener that calls back into the client from a handler as a thread tied to
that handler, should a property ever need the tie; and a map of reasons with any
number of entries in the codec.
