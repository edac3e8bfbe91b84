--------------------------- MODULE GdsLoginProofs ---------------------------
(***************************************************************************)
(* Theorems about GdsLogin: which builders make a client, and which login  *)
(* the GDS reads.                                                          *)
(***************************************************************************)
EXTENDS GdsLogin, MessageCodecProofs

\* A new builder has neither a listener nor an interval.
LEMMA BuildInit == LoginInit => BuildInv
  BY LoginAssumption
  DEF LoginInit, BuildInv, BuildNeedsPing, Defaults, Params, Nullable

\* A setter changes its field and is on record.
LEMMA SetterStep ==
  ASSUME BuildInv, NEW setter, NEW field, NEW value, Set(setter, field, value),
         <<setter, field>> \in {<<"WithListener", "listener">>,
            <<"WithPingPongInterval", "ping">>, <<"WithURI", "uri">>,
            <<"WithUserName", "userName">>, <<"WithUserPassword", "password">>,
            <<"WithTimeout", "timeout">>, <<"WithServeOnTheSameConnection", "serve">>},
         [params EXCEPT ![field] = value] \in Params
  PROVE  BuildInv'
<1>1. /\ params' \in Params /\ called \subseteq called' /\ setter \in called'
      /\ client' = client
  BY DEF Set
<1>2. field # "listener" => params'.listener = params.listener
  BY DEF Set, BuildInv, Params
<1>3. field # "ping" => params'.ping = params.ping
  BY DEF Set, BuildInv, Params
<1>4. params'.listener => "WithListener" \in called'
  BY <1>1, <1>2 DEF BuildInv
<1>5. params'.ping >= 1 => "WithPingPongInterval" \in called'
  BY <1>1, <1>3 DEF BuildInv
<1> QED
  BY <1>1, <1>4, <1>5 DEF BuildInv, BuildNeedsPing

\* Every step keeps the invariant.
LEMMA BuildStep == BuildInv /\ [LoginNext]_<<vars, loginVars>> => BuildInv'
<1> SUFFICES ASSUME BuildInv, [LoginNext]_<<vars, loginVars>> PROVE BuildInv'
  OBVIOUS
<1> USE DEF BuildInv
<1>1. ASSUME BuilderStep PROVE BuildInv'
  <2>1. ASSUME NEW given \in BOOLEAN, WithListener(given) PROVE BuildInv'
    BY <2>1, SetterStep DEF WithListener, Params
  <2>2. ASSUME NEW given \in BOOLEAN, WithURI(given) PROVE BuildInv'
    BY <2>2, SetterStep DEF WithURI, Params
  <2>3. ASSUME NEW name \in UserNames \cup {Blank, Null}, WithUserName(name)
        PROVE BuildInv'
    BY <2>3, SetterStep, LoginAssumption DEF WithUserName, Params, Nullable
  <2>4. ASSUME NEW word \in Nullable(Passwords), WithUserPassword(word) PROVE BuildInv'
    BY <2>4, SetterStep DEF WithUserPassword, Params
  <2>5. ASSUME NEW n \in Intervals, WithTimeout(n) PROVE BuildInv'
    BY <2>5, SetterStep, LoginAssumption DEF WithTimeout, Params
  <2>6. ASSUME NEW n \in Intervals, WithPingPongInterval(n) PROVE BuildInv'
    BY <2>6, SetterStep, LoginAssumption DEF WithPingPongInterval, Params
  <2>7. ASSUME NEW b \in BOOLEAN, WithServeOnTheSameConnection(b) PROVE BuildInv'
    BY <2>7, SetterStep DEF WithServeOnTheSameConnection, Params
  <2>8. ASSUME Build PROVE BuildInv'
    BY <2>8 DEF Build, Constructible, BuildNeedsPing
  <2> QED
    BY <1>1, <2>1, <2>2, <2>3, <2>4, <2>5, <2>6, <2>7, <2>8 DEF BuilderStep
<1>2. ASSUME NEW name \in UserNames \cup {Blank}, NEW word \in Passwords,
             NEW n \in Intervals, NEW b \in BOOLEAN, Create(name, word, n, b)
      PROVE  BuildInv'
  BY <1>2, LoginAssumption DEF Create, BuildNeedsPing, Params, Nullable
<1>3. CASE OnSocketOpened
  BY <1>3 DEF OnSocketOpened, loginVars, BuildNeedsPing
<1>4. CASE UNCHANGED loginVars
  BY <1>4 DEF loginVars, BuildNeedsPing
<1> QED
  BY <1>1, <1>2, <1>3, <1>4 DEF LoginNext, loginVars

\* Whatever names, passwords and intervals are tried in whatever order: a
\* client exists only of a builder whose WithListener and WithPingPongInterval
\* took effect.
THEOREM BuildNeedsPingHolds == LoginSpec => []BuildNeedsPing
<1>1. BuildInv => BuildNeedsPing
  BY DEF BuildInv
<1> QED
  BY <1>1, BuildInit, BuildStep, PTL DEF LoginSpec

-----------------------------------------------------------------------------
(* The login that is read                                                  *)

\* Whatever the fields: the login is a message.
LEMMA LoginSound ==
  ASSUME NEW c \in Params
  PROVE  Sound(LoginMessage(c))
<1> DEFINE word == IF c.password = Null THEN Null ELSE SecureStringText
           h == [userName |-> c.userName, messageId |-> Id, createTime |-> Time,
                 requestTime |-> Time, isFragmented |-> FALSE, firstFragment |-> Null,
                 lastFragment |-> Null, offset |-> Null, fullDataSize |-> Null,
                 dataType |-> "Connection"]
           d == [clusterName |-> Null, serveOnTheSameConnection |-> c.serve,
                 protocolVersionNumber |-> Version, fragmentationSupported |-> FALSE,
                 fragmentationTransmissionUnit |-> Null, reservedFields |-> <<word>>]
<1>1. /\ c.userName \in Nullable(Texts) /\ c.serve \in BOOLEAN
      /\ Id \in Texts /\ SecureStringText \in Texts
      /\ Time \in Numbers /\ Version \in Numbers
  BY LoginAssumption DEF Params
<1>2. word \in Nullable(Texts)
  BY <1>1 DEF Nullable
<1>3. <<word>> \in Seq(Nullable(Texts))
  <2> HIDE DEF word
  <2> QED
    BY <1>2
<1>4. h \in Header
  BY <1>1 DEF Header, Nullable, DataType
<1>5. d \in ConnectionData
  <2> DEFINE r == <<word>>
  <2> HIDE DEF r
  <2>1. r \in Nullable(Seq(Nullable(Texts)))
    BY <1>3 DEF r, Nullable
  <2>2. [clusterName |-> Null, serveOnTheSameConnection |-> c.serve,
         protocolVersionNumber |-> Version, fragmentationSupported |-> FALSE,
         fragmentationTransmissionUnit |-> Null, reservedFields |-> r] \in ConnectionData
    BY <1>1, <2>1 DEF ConnectionData, Nullable
  <2> QED
    BY <2>2 DEF r
<1>6. LoginMessage(c) = [header |-> h, data |-> d]
  BY DEF LoginMessage
<1>7. h.dataType = "Connection"
  OBVIOUS
<1> HIDE DEF h, d
<1>8. IsMessage([header |-> h, data |-> d])
  BY <1>4, <1>5, <1>7 DEF IsMessage, Data
<1> QED
  BY <1>6, <1>7, <1>8 DEF Sound

\* At first there is no client, and at most a message to write.
LEMMA LoginInvInit == LoginInit => LoginInv
<1> SUFFICES ASSUME LoginInit PROVE LoginInv
  OBVIOUS
<1>1. BuildInv /\ client = Null
  BY BuildInit DEF LoginInit
<1>2. CodecInv
  <2>1. CASE Init
    BY <2>1, CodecInit
  <2>2. CASE phase = "none" /\ msg = LoginMessage(Defaults) /\ wire = <<>> /\ got = Failure
    <3>1. Defaults \in Params
      BY LoginAssumption DEF Defaults, Params, Nullable
    <3> QED
      BY <2>2, <3>1, LoginSound DEF CodecInv
  <2> QED
    BY <2>1, <2>2 DEF LoginInit
<1> QED
  BY <1>1, <1>2 DEF LoginInv

\* Only the application makes a client, and not while a message is on its way;
\* the setters and the codec leave it as it is.
LEMMA LoginInvStep == LoginInv /\ [LoginNext]_<<vars, loginVars>> => LoginInv'
<1> SUFFICES ASSUME LoginInv, [LoginNext]_<<vars, loginVars>> PROVE LoginInv'
  OBVIOUS
<1>1. BuildInv'
  BY BuildStep DEF LoginInv
<1>2. ASSUME UNCHANGED vars PROVE CodecInv' /\ phase' = phase /\ msg' = msg
  BY <1>2, CodecStep DEF LoginInv, vars
<1>3. ASSUME NEW setter, NEW field, NEW value, Set(setter, field, value) PROVE LoginInv'
  <2>1. UNCHANGED vars /\ client' = client
    BY <1>3 DEF Set
  <2> QED
    BY <1>1, <1>2, <2>1 DEF LoginInv
<1>4. ASSUME BuilderStep PROVE LoginInv'
  <2>1. CASE Build
    <3>1. UNCHANGED vars /\ phase = "none" /\ client' = params /\ Constructible(params)
      BY <2>1 DEF Build
    <3>2. params \in Params
      BY DEF LoginInv, BuildInv
    <3> QED
      BY <1>1, <1>2, <3>1, <3>2 DEF LoginInv
  <2>2. CASE ~Build
    <3>1. \E setter, field, value : Set(setter, field, value)
      BY <1>4, <2>2
      DEF BuilderStep, WithListener, WithURI, WithUserName, WithUserPassword, WithTimeout,
          WithPingPongInterval, WithServeOnTheSameConnection
    <3> QED
      BY <1>3, <3>1
  <2> QED
    BY <2>1, <2>2
<1>5. ASSUME NEW name \in UserNames \cup {Blank}, NEW word \in Passwords,
             NEW n \in Intervals, NEW b \in BOOLEAN, Create(name, word, n, b)
      PROVE  LoginInv'
  <2>1. UNCHANGED vars /\ phase = "none" /\ client' = params' /\ Constructible(params')
    BY <1>5 DEF Create
  <2>2. params' \in Params
    BY <1>1 DEF BuildInv
  <2>3. Constructible(client')
    BY <2>1
  <2> QED
    BY <1>1, <1>2, <2>1, <2>2, <2>3 DEF LoginInv
<1>6. CASE OnSocketOpened
  <2>1. /\ client \in Params /\ client # Null /\ client' = client /\ phase = "none"
        /\ msg' = LoginMessage(client) /\ phase' = "composed" /\ wire' = wire /\ got' = got
    BY <1>6 DEF OnSocketOpened, LoginInv, loginVars
  <2>2. Sound(msg')
    BY <2>1, LoginSound
  <2>3. CodecInv'
    BY <2>1, <2>2 DEF CodecInv, LoginInv
  <2> QED
    BY <1>1, <2>1, <2>3 DEF LoginInv
<1>7. CASE Next /\ UNCHANGED loginVars
  <2>1. CodecInv'
    BY <1>7, CodecStep DEF LoginInv
  <2>2. client' = client /\ msg' = msg /\ phase # "none"
    BY <1>7 DEF loginVars, Next, Write, WriteRefused, WriteByServer, Read
  <2> QED
    BY <1>1, <2>1, <2>2 DEF LoginInv
<1>8. CASE UNCHANGED <<vars, loginVars>>
  BY <1>1, <1>2, <1>8 DEF LoginInv, loginVars
<1> QED
  BY <1>4, <1>5, <1>6, <1>7, <1>8 DEF LoginNext

\* Whatever is set, built, written and read: the client has the fields that
\* passed the constructor, and the wire is what was written of its login.
THEOREM LoginInvHolds == LoginSpec => []LoginInv
  BY LoginInvInit, LoginInvStep, PTL DEF LoginSpec

\* Whatever the application sets, tries again and builds, and whatever it does
\* with its builder afterwards: the GDS reads the user and the place of the
\* replies of the fields that passed the tests of the constructor.
THEOREM LoginAsBuiltHolds == LoginSpec => []LoginAsBuilt
<1>1. ASSUME LoginInv, client # Null, phase = "read" PROVE LoginAsBuilt
  <2>1. msg = LoginMessage(client) /\ Constructible(client) /\ got = Success(Normal(msg), <<>>)
    BY <1>1 DEF LoginInv, CodecInv
  <2>2. /\ Normal(msg).header = msg.header
        /\ Normal(msg).data.serveOnTheSameConnection
             = msg.data.serveOnTheSameConnection
    BY <2>1 DEF Normal, NormalConnection, LoginMessage
  <2>3. msg.header.userName = client.userName /\ msg.data.serveOnTheSameConnection = client.serve
    BY <2>1 DEF LoginMessage
  <2>4. got.value = Normal(msg)
    BY <2>1 DEF Success
  <2> QED
    BY <2>1, <2>2, <2>3, <2>4 DEF LoginAsBuilt, Constructible
<1>2. LoginInv => LoginAsBuilt
  BY <1>1 DEF LoginAsBuilt
<1> QED
  BY <1>2, LoginInvHolds, PTL

\* The properties of the codec hold of the logins and of the other messages.
THEOREM LoginCodecHolds == LoginSpec => [](TypeOK /\ OneValue /\ RoundTrip)
<1>1. LoginInv => TypeOK /\ OneValue /\ RoundTrip
  BY InvTypeOK, InvOneValue, InvRoundTrip DEF LoginInv
<1> QED
  BY <1>1, LoginInvHolds, PTL

=============================================================================
