------------------------------ MODULE GdsLogin -------------------------------
(***************************************************************************)
(* From the parameters of an application to the login the GDS reads: the   *)
(* setters of AsyncGDSClientBuilder in any order, Build with the checks of *)
(* the constructor, SyncGDSClient.Create, and the login that               *)
(* OnSocketOpened composes, written and read by MessageCodec.  Besides the *)
(* login, any other message is written and read.                           *)
(*                                                                         *)
(* The log and the certificate change nothing here.  A setter or a Build   *)
(* that throws leaves the builder as it is, and the application may go on  *)
(* with it.                                                                *)
(***************************************************************************)
EXTENDS MessageCodec

CONSTANTS
  Blank,              \* a user name of spaces
  DefaultUser,        \* "user"
  UserNames,          \* other names an application uses
  Passwords,
  Intervals,          \* timeouts and ping intervals it tries
  SecureStringText,   \* "System.Security.SecureString": its ToString()
  Version,            \* 5 << 16 | 1
  Time, Id            \* the clock and the Guid of the login

ASSUME LoginAssumption ==
  /\ {Blank, DefaultUser, SecureStringText, Id} \cup UserNames \cup Passwords \subseteq Texts
  /\ Intervals \subseteq Int /\ {Version, Time} \subseteq Numbers

VARIABLES
  params,   \* the fields of the builder; listener and URI as whether they are there
  called,   \* history: the setters that took effect
  client,   \* the fields of the client that was built, or Null
  asked     \* the password the application gave for this client, or Null

loginVars == <<params, called, client, asked>>

Params == [listener : BOOLEAN, uri : BOOLEAN, userName : Nullable(Texts),
           password : Nullable(Passwords), timeout : Int, ping : Int, serve : BOOLEAN]

\* The fields a new builder does not set are null, 0 and false.
Defaults == [listener |-> FALSE, uri |-> TRUE, userName |-> DefaultUser, password |-> Null,
             timeout |-> 3000, ping |-> 0, serve |-> FALSE]

\* Mutant: the login always asks for replies on its own connection.
BugLoginMessage(c) ==
  [header |-> [userName |-> c.userName, messageId |-> Id, createTime |-> Time,
               requestTime |-> Time, isFragmented |-> FALSE, firstFragment |-> Null,
               lastFragment |-> Null, offset |-> Null, fullDataSize |-> Null,
               dataType |-> "Connection"],
   data |-> [clusterName |-> Null, serveOnTheSameConnection |-> TRUE,
             protocolVersionNumber |-> Version, fragmentationSupported |-> FALSE,
             fragmentationTransmissionUnit |-> Null,
             reservedFields |-> <<IF c.password = Null THEN Null ELSE SecureStringText>>]]

\* The password is userPassword?.ToString().
LoginMessage(c) ==
  [header |-> [userName |-> c.userName, messageId |-> Id, createTime |-> Time,
               requestTime |-> Time, isFragmented |-> FALSE, firstFragment |-> Null,
               lastFragment |-> Null, offset |-> Null, fullDataSize |-> Null,
               dataType |-> "Connection"],
   data |-> [clusterName |-> Null, serveOnTheSameConnection |-> c.serve,
             protocolVersionNumber |-> Version, fragmentationSupported |-> FALSE,
             fragmentationTransmissionUnit |-> Null,
             reservedFields |-> <<IF c.password = Null THEN Null ELSE SecureStringText>>]]

LoginInit ==
  /\ params = Defaults /\ called = {} /\ client = Null /\ asked = Null
  /\ \/ phase = "none" /\ msg = LoginMessage(Defaults) /\ wire = <<>> /\ got = Failure
     \/ Init

-----------------------------------------------------------------------------
(* AsyncGDSClientBuilder                                                   *)

\* Mutant: the client keeps no copy of the fields of its builder.
BugSet(setter, field, value) ==
  /\ phase = "none"
  /\ params' = [params EXCEPT ![field] = value]
  /\ called' = called \cup {setter}
  /\ client' = IF client = Null THEN Null ELSE params'
  /\ UNCHANGED <<asked, vars>>

\* A builder may be used again while its first client is not connected yet.
Set(setter, field, value) ==
  /\ phase = "none"
  /\ params' = [params EXCEPT ![field] = value]
  /\ called' = called \cup {setter}
  /\ UNCHANGED <<client, asked, vars>>

WithListener(given)    == Set("WithListener", "listener", given)
WithURI(given)         == Set("WithURI", "uri", given)
WithUserName(name)     == Set("WithUserName", "userName", name)
WithUserPassword(word) == Set("WithUserPassword", "password", word)
WithTimeout(n)         == n >= 1 /\ Set("WithTimeout", "timeout", n)

WithPingPongInterval(n) == n >= 1 /\ Set("WithPingPongInterval", "ping", n)
WithServeOnTheSameConnection(b) == Set("WithServeOnTheSameConnection", "serve", b)

\* The tests of the constructor.
Constructible(p) ==
  /\ p.listener /\ p.uri /\ p.userName \notin {Null, Blank}
  /\ p.timeout >= 1 /\ p.ping >= 1

Build ==
  /\ phase = "none" /\ client = Null
  /\ Constructible(params)
  /\ client' = params /\ asked' = params.password
  /\ UNCHANGED <<params, called, vars>>

\* SyncGDSClient.Create calls the setters on a new builder and builds.  It
\* tests its arguments for null and leaves the password at that.
Create(name, word, ping, serve) ==
  /\ phase = "none" /\ client = Null /\ params = Defaults /\ called = {}
  /\ ping >= 1
  /\ params' = [params EXCEPT !.listener = TRUE, !.userName = name, !.ping = ping,
                              !.serve = serve]
  /\ called' = {"WithListener", "WithURI", "WithUserName", "WithPingPongInterval",
                "WithServeOnTheSameConnection"}
  /\ Constructible(params')
  /\ client' = params' /\ asked' = word
  /\ UNCHANGED vars

\* The part of OnSocketOpened that composes the login.
OnSocketOpened ==
  /\ phase = "none" /\ client # Null
  /\ msg' = LoginMessage(client) /\ phase' = "composed"
  /\ UNCHANGED <<loginVars, wire, got>>

BuilderStep ==
  \/ \E given \in BOOLEAN : WithListener(given) \/ WithURI(given)
  \/ \E name \in UserNames \cup {Blank, Null} : WithUserName(name)
  \/ \E word \in Nullable(Passwords) : WithUserPassword(word)
  \/ \E n \in Intervals : WithTimeout(n) \/ WithPingPongInterval(n)
  \/ \E b \in BOOLEAN : WithServeOnTheSameConnection(b)
  \/ Build

LoginNext ==
  \/ BuilderStep
  \/ \E name \in UserNames \cup {Blank}, word \in Passwords, n \in Intervals, b \in BOOLEAN :
       Create(name, word, n, b)
  \/ OnSocketOpened
  \/ Next /\ UNCHANGED loginVars

LoginSpec == LoginInit /\ [][LoginNext]_<<vars, loginVars>>

-----------------------------------------------------------------------------
(* Properties                                                              *)

\* The GDS reads the user and the place of the replies the client was built
\* with, also if its builder was changed since.
LoginAsBuilt ==
  client # Null /\ phase = "read" =>
    /\ got.value.header.userName = client.userName /\ client.userName \notin {Null, Blank}
    /\ got.value.data.serveOnTheSameConnection = client.serve

-----------------------------------------------------------------------------
(* The inductive invariant                                                 *)

\* What DocumentedChainBuilds below comes to for every chain of setters: a
\* builder makes a client only if WithPingPongInterval took effect as well as
\* WithListener, for no default stands in for the interval.
BuildNeedsPing == client # Null => {"WithListener", "WithPingPongInterval"} \subseteq called

\* What the fields of the builder tell of the setters that took effect.
BuildInv ==
  /\ params \in Params
  /\ params.listener => "WithListener" \in called
  /\ params.ping >= 1 => "WithPingPongInterval" \in called
  /\ BuildNeedsPing

\* The client has the fields its builder had when it passed the tests of the
\* constructor, and what it composed is the login of these fields.
LoginInv ==
  /\ BuildInv /\ CodecInv
  /\ client # Null => client \in Params /\ Constructible(client)
  /\ client # Null /\ phase # "none" => msg = LoginMessage(client)

-----------------------------------------------------------------------------
(* What the documentation says and the code does not do.                   *)

\* The login is sent "with the credentials you specified previously"
\* (README.md:218).  AsyncGDSClient.cs:409 sends the text of the SecureString
\* object, which is the name of its class; SyncGDSClient.Create passes the
\* password it demands to nobody, and its login carries none.
LoginCarriesPassword ==
  phase = "read" /\ asked # Null => Password(got.value.data) = asked

\* "you just have to get a builder instance and specify the parameters you wish
\* to change.  Keep in mind that the listener is a mandatory parameter"
\* (README.md:79), the only one it names: the chains README.md:82 and 561 print
\* as examples make a client.  The constructor refuses the interval they leave
\* at 0 (AsyncGDSClient.cs:97).
DocumentedChains ==
  {{"WithListener", "WithURI", "WithServeOnTheSameConnection"},
   {"WithListener", "WithTimeout", "WithServeOnTheSameConnection"}}

DocumentedChainBuilds ==
  called \in DocumentedChains /\ params.listener /\ params.uri => Constructible(params)

=============================================================================
