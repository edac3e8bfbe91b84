---------------------------- MODULE MessageCodec ----------------------------
(***************************************************************************)
(* The binary form of the messages (src/Gds/Messages).  MessageFormatter   *)
(* writes an array of eleven: the ten fields of the header and the data,   *)
(* whose formatter depends on its kind.  A reader takes value after value  *)
(* and never looks back, so a formatter that announces one element too     *)
(* many, or reads one too few, spoils all that follows: several fields are *)
(* left out when they are null, and the reader finds out which from the    *)
(* size and from the type of the next value.                               *)
(*                                                                         *)
(* The wire is a sequence of MessagePack values <<type, content>>; texts   *)
(* and numbers are members of sets.  The formatters the library            *)
(* generates for the other kinds of data are external: one value each.     *)
(***************************************************************************)
EXTENDS GdsTypes, Sequences

CONSTANTS
  Texts,     \* names, ids, passwords, statements, exceptions
  Numbers,   \* times, sizes, versions, status codes
  Null,      \* C#'s null
  Messages   \* the messages that are written

ASSUME NullAssumption ==
  Null \notin Texts /\ Null \notin Numbers /\ Null \notin BOOLEAN /\ Null \notin DataType

Nullable(S) == S \cup {Null}

Header ==
  [userName : Nullable(Texts), messageId : Texts, createTime : Numbers,
   requestTime : Numbers, isFragmented : BOOLEAN, firstFragment : Nullable(BOOLEAN),
   lastFragment : Nullable(BOOLEAN), offset : Nullable(Numbers),
   fullDataSize : Nullable(Numbers), dataType : DataType]

\* reservedFields is an array of which the first element is the password.
ConnectionData ==
  [clusterName : Nullable(Texts), serveOnTheSameConnection : BOOLEAN,
   protocolVersionNumber : Numbers, fragmentationSupported : BOOLEAN,
   fragmentationTransmissionUnit : Nullable(Numbers),
   reservedFields : Nullable(Seq(Nullable(Texts)))]

\* One entry of the map of reasons.
Reasons == [field : Numbers, reason : Texts]

\* The ackData of a connection ack: the accepted login, a map of reasons (one
\* of them here), or neither.
AckTypeData ==
  [success : ConnectionData, unauthorized : {Null}]
    \cup [success : {Null}, unauthorized : Nullable(Reasons)]

ConnectionAckData ==
  [status : Numbers, ackData : Nullable(AckTypeData), exception : Nullable(Texts)]

QueryRequestData ==
  [select : Texts, consistency : Texts, timeout : Numbers,
   queryPageSize : Nullable(Numbers), queryType : Nullable(Numbers)]

\* The form of a result has a place for a map the class does not keep.
EventDocumentAckResult == [status : Numbers, notification : Nullable(Texts)]

EventDocumentAck ==
  [status : Numbers, exception : Nullable(Texts),
   ackData : Nullable(Seq(EventDocumentAckResult))]

\* And no object is null.
ASSUME ObjectAssumption ==
  /\ Null \notin ConnectionData /\ Null \notin AckTypeData /\ Null \notin Reasons
  /\ Null \notin Seq(Nullable(Texts)) /\ Null \notin Seq(EventDocumentAckResult)

Data(kind) ==
  CASE kind = "Connection"       -> ConnectionData
    [] kind = "ConnectionAck"    -> ConnectionAckData
    [] kind = "QueryRequest"     -> QueryRequestData
    [] kind = "EventDocumentAck" -> EventDocumentAck
    [] OTHER                     -> Texts

IsMessage(m) == m \in [header : Header, data : Data(m.header.dataType)]

\* The constructors of a connection ack make an ackData; only a reader has none.
ASSUME MessagesAssumption ==
  \A m \in Messages :
    IsMessage(m) /\ (m.header.dataType = "ConnectionAck" => m.data.ackData # Null)

VARIABLES
  phase,     \* none (nothing to send yet), composed, written, refused, read, malformed
  msg,       \* the message
  wire,      \* its binary form
  got        \* what the reader made of it

vars == <<phase, msg, wire, got>>

-----------------------------------------------------------------------------
(* MessagePackWriter, external, and the nullable forms of MsgPackUtils.    *)

Array(n) == <<"array", n>>
Map(n)   == <<"map", n>>
Nil      == <<"nil", Null>>
Text(s)  == IF s = Null THEN Nil ELSE <<"text", s>>
Number(n) == IF n = Null THEN Nil ELSE <<"int", n>>
Bool(b)  == IF b = Null THEN Nil ELSE <<"bool", b>>

WriteHeader(h) ==
  <<Text(h.userName), Text(h.messageId), Number(h.createTime), Number(h.requestTime),
    Bool(h.isFragmented), Bool(h.firstFragment), Bool(h.lastFragment),
    Number(h.offset), Number(h.fullDataSize), Number(h.dataType)>>

-----------------------------------------------------------------------------
(* ConnectionDataTypeFormatter                                             *)

\* The property Password.
Password(d) == IF d.reservedFields # Null /\ Len(d.reservedFields) >= 1
               THEN d.reservedFields[1] ELSE Null

Count(v) == IF v = Null THEN 0 ELSE 1

\* Mutant: the array announces no element for the password.
BugWriteConnection(d) ==
  <<Array(4 + Count(d.clusterName))>>
    \o (IF d.clusterName = Null THEN <<>> ELSE <<Text(d.clusterName)>>)
    \o <<Bool(d.serveOnTheSameConnection), Number(d.protocolVersionNumber),
         Bool(d.fragmentationSupported), Number(d.fragmentationTransmissionUnit)>>
    \o (IF Password(d) = Null THEN <<>> ELSE <<Array(1), Text(Password(d))>>)

\* The cluster and the password are left out when they are null.
WriteConnection(d) ==
  <<Array(4 + Count(d.clusterName) + Count(Password(d)))>>
    \o (IF d.clusterName = Null THEN <<>> ELSE <<Text(d.clusterName)>>)
    \o <<Bool(d.serveOnTheSameConnection), Number(d.protocolVersionNumber),
         Bool(d.fragmentationSupported), Number(d.fragmentationTransmissionUnit)>>
    \o (IF Password(d) = Null THEN <<>> ELSE <<Array(1), Text(Password(d))>>)

\* Another writer may send a null cluster and null reserved fields instead.
WriteConnectionNils(d) ==
  <<Array(6), Text(d.clusterName), Bool(d.serveOnTheSameConnection),
    Number(d.protocolVersionNumber), Bool(d.fragmentationSupported),
    Number(d.fragmentationTransmissionUnit)>>
    \o (IF Password(d) = Null THEN <<Nil>> ELSE <<Array(1), Text(Password(d))>>)

WriteConnectionBy(d, writer) ==
  IF writer = "client" THEN WriteConnection(d) ELSE WriteConnectionNils(d)

\* A reader returns what it read and what is left, or fails.
Is(w, i, types) == i \in 1 .. Len(w) /\ w[i][1] \in types
Failure         == [ok |-> FALSE, value |-> Null, rest |-> <<>>]
Success(v, w)   == [ok |-> TRUE, value |-> v, rest |-> w]
Drop(w, n)      == SubSeq(w, n + 1, Len(w))

\* Mutant: reserved fields are expected by the size alone.
BugHasReserved(size, named) == size >= 5

\* Five elements are a cluster or reserved fields besides the four.
HasReserved(size, named) == size = 6 \/ (size = 5 /\ ~named)

ReadConnection(w) ==
  LET size     == w[1][2]
      named    == Is(w, 2, {"text", "nil"})
      at       == IF named THEN 3 ELSE 2
      listed   == HasReserved(size, named)
      length   == IF listed /\ w[at + 4] # Nil THEN w[at + 4][2] ELSE 0
      wellFormed ==
        /\ Is(w, 1, {"array"}) /\ size \in 4 .. 6
        /\ Is(w, at, {"bool"}) /\ Is(w, at + 1, {"int"}) /\ Is(w, at + 2, {"bool"})
        /\ Is(w, at + 3, {"int", "nil"})
        /\ listed => /\ Is(w, at + 4, {"array", "nil"})
                     /\ \A i \in 1 .. length : Is(w, at + 4 + i, {"text", "nil"})
  IN IF Is(w, 1, {"nil"}) THEN Success(Null, Drop(w, 1))
     ELSE IF ~wellFormed THEN Failure
     ELSE Success(
       [clusterName                   |-> IF named THEN w[2][2] ELSE Null,
        serveOnTheSameConnection      |-> w[at][2],
        protocolVersionNumber         |-> w[at + 1][2],
        fragmentationSupported        |-> w[at + 2][2],
        fragmentationTransmissionUnit |-> w[at + 3][2],
        reservedFields |-> IF listed /\ w[at + 4] # Nil
                           THEN [i \in 1 .. length |-> w[at + 4 + i][2]] ELSE Null],
       Drop(w, at + 3 + (IF listed THEN 1 + length ELSE 0)))

-----------------------------------------------------------------------------
(* ConnectionAckData (array of three, external) and its ackData            *)

WriteAckType(a, writer) ==
  IF a.success # Null THEN WriteConnectionBy(a.success, writer)
  ELSE IF a.unauthorized # Null
       THEN <<Map(1), Number(a.unauthorized.field), Text(a.unauthorized.reason)>>
       ELSE <<Nil>>

WriteAck(d, writer) ==
  <<Array(3), Number(d.status)>> \o WriteAckType(d.ackData, writer)
    \o <<Text(d.exception)>>

\* Nothing that was written comes back as a null ackData.
ReadAckType(w) ==
  IF Is(w, 1, {"array"})
  THEN LET c == ReadConnection(w)
       IN  IF c.ok THEN Success([success |-> c.value, unauthorized |-> Null], c.rest)
           ELSE Failure
  ELSE IF Is(w, 1, {"map"})
  THEN Success([success |-> Null,
                unauthorized |-> [field |-> w[2][2], reason |-> w[3][2]]], Drop(w, 3))
  ELSE IF Is(w, 1, {"nil"}) THEN Success(Null, Drop(w, 1)) ELSE Failure

ReadAck(w) ==
  LET a == ReadAckType(Drop(w, 2))
  IN  IF Is(w, 1, {"array"}) /\ Is(w, 2, {"int"}) /\ a.ok /\ Is(a.rest, 1, {"text", "nil"})
      THEN Success([status |-> w[2][2], ackData |-> a.value, exception |-> a.rest[1][2]],
                   Drop(a.rest, 1))
      ELSE Failure

-----------------------------------------------------------------------------
(* QueryRequestFormatter: the page size and the type travel together.      *)

Paged(d) == d.queryPageSize # Null /\ d.queryType # Null

WriteQuery(d) ==
  <<Array(IF Paged(d) THEN 5 ELSE 3), Text(d.select), Text(d.consistency), Number(d.timeout)>>
    \o (IF Paged(d) THEN <<Number(d.queryPageSize), Number(d.queryType)>> ELSE <<>>)

-----------------------------------------------------------------------------
(* EventDocumentAck (array of three, external): the status, a list of      *)
(* results, an exception.  The formatter of a result writes an empty map   *)
(* and reads the header of a map only.                                     *)

WriteResult(r) == <<Array(3), Number(r.status), Text(r.notification), Map(0)>>

ReadResult(w) == [status |-> w[2][2], notification |-> w[3][2]]

\* One result after the other, four values each.
WriteResults(rs) ==
  [i \in 1 .. 4 * Len(rs) |-> WriteResult(rs[(i + 3) \div 4])[1 + ((i - 1) % 4)]]

WriteDocumentAck(d) ==
  <<Array(3), Number(d.status)>>
    \o (IF d.ackData = Null THEN <<Nil>>
        ELSE <<Array(Len(d.ackData))>> \o WriteResults(d.ackData))
    \o <<Text(d.exception)>>

ReadDocumentAck(w) ==
  LET listed  == Is(w, 3, {"array"})
      length  == IF listed THEN w[3][2] ELSE 0
      at(i)   == Drop(w, 3 + 4 * (i - 1))
      rest    == at(length + 1)
      wellFormed ==
        /\ Is(w, 1, {"array"}) /\ Is(w, 2, {"int"}) /\ Is(w, 3, {"array", "nil"})
        /\ \A i \in 1 .. length :
             /\ Is(at(i), 1, {"array"}) /\ Is(at(i), 2, {"int"})
             /\ Is(at(i), 3, {"text", "nil"}) /\ Is(at(i), 4, {"map"})
        /\ Is(rest, 1, {"text", "nil"})
  IN IF ~wellFormed THEN Failure
     ELSE Success([status    |-> w[2][2], exception |-> rest[1][2],
                   ackData   |-> IF listed THEN [i \in 1 .. length |-> ReadResult(at(i))]
                                 ELSE Null],
                  Drop(rest, 1))

-----------------------------------------------------------------------------
(* MessageFormatter                                                        *)

WriteMessage(m, writer) ==
  <<Array(11)>> \o WriteHeader(m.header) \o
    CASE m.header.dataType = "Connection"    -> WriteConnectionBy(m.data, writer)
      [] m.header.dataType = "ConnectionAck" -> WriteAck(m.data, writer)
      [] m.header.dataType = "QueryRequest"  -> WriteQuery(m.data)
      [] m.header.dataType = "EventDocumentAck" -> WriteDocumentAck(m.data)
      [] OTHER                               -> <<Text(m.data)>>

ReadText(w) == IF Is(w, 1, {"text", "nil"}) THEN Success(w[1][2], Drop(w, 1)) ELSE Failure

HeaderTypes ==
  <<{"text", "nil"}, {"text", "nil"}, {"int"}, {"int"}, {"bool"}, {"bool", "nil"},
    {"bool", "nil"}, {"int", "nil"}, {"int", "nil"}, {"int"}>>

\* Mutant: isFragmented is taken from the place of firstFragment.
BugReadHeader(w) ==
  [userName |-> w[1][2], messageId |-> w[2][2], createTime |-> w[3][2],
   requestTime |-> w[4][2], isFragmented |-> w[6][2], firstFragment |-> w[6][2],
   lastFragment |-> w[7][2], offset |-> w[8][2], fullDataSize |-> w[9][2],
   dataType |-> w[10][2]]

ReadHeader(w) ==
  [userName |-> w[1][2], messageId |-> w[2][2], createTime |-> w[3][2],
   requestTime |-> w[4][2], isFragmented |-> w[5][2], firstFragment |-> w[6][2],
   lastFragment |-> w[7][2], offset |-> w[8][2], fullDataSize |-> w[9][2],
   dataType |-> w[10][2]]

ReadMessage(w) ==
  LET fields == Drop(w, 1)
      header == ReadHeader(fields)
      body   == Drop(fields, 10)
      data   == CASE header.dataType = "Connection"    -> ReadConnection(body)
                  [] header.dataType = "ConnectionAck" -> ReadAck(body)
                  [] header.dataType = "EventDocumentAck" -> ReadDocumentAck(body)
                  [] OTHER                             -> ReadText(body)
  IN IF /\ Is(w, 1, {"array"}) /\ \A i \in 1 .. 10 : Is(fields, i, HeaderTypes[i])
        /\ header.dataType \in Deserializable /\ data.ok
     THEN Success([header |-> header, data |-> data.value], data.rest)
     ELSE Failure

-----------------------------------------------------------------------------
(* A message on its way from a writer to a reader.                         *)

Init ==
  /\ phase = "composed" /\ msg \in Messages
  /\ wire = <<>> /\ got = Failure

Write ==
  /\ phase = "composed" /\ msg.header.dataType \in Serializable
  /\ wire' = WriteMessage(msg, "client")
  /\ phase' = "written"
  /\ UNCHANGED <<msg, got>>

WriteRefused ==
  /\ phase = "composed" /\ msg.header.dataType \notin Serializable
  /\ phase' = "refused"
  /\ UNCHANGED <<msg, wire, got>>

\* The GDS as the writer, external.
WriteByServer ==
  /\ phase = "composed" /\ msg.header.dataType = "ConnectionAck"
  /\ wire' = WriteMessage(msg, "server")
  /\ phase' = "written"
  /\ UNCHANGED <<msg, got>>

Read ==
  /\ phase = "written"
  /\ got' = ReadMessage(wire)
  /\ phase' = IF got'.ok THEN "read" ELSE "malformed"
  /\ UNCHANGED <<msg, wire>>

Next == Write \/ WriteRefused \/ WriteByServer \/ Read

Spec == Init /\ [][Next]_vars

-----------------------------------------------------------------------------
(* Properties                                                              *)

\* The wire holds MessagePack values, and what a reader returns is a message.
TypeOK ==
  /\ phase \in {"none", "composed", "written", "refused", "read", "malformed"}
  /\ IsMessage(msg)
  /\ \A i \in 1 .. Len(wire) :
       wire[i][1] \in {"array", "map", "nil", "text", "int", "bool"}
  /\ got.ok => IsMessage(got.value)

\* How many values belong to the value that t begins.
Children(t) == CASE t[1] = "array" -> t[2] [] t[1] = "map" -> 2 * t[2] [] OTHER -> 0

\* How many values a reader still expects after i of them.
Expected(w) ==
  LET open[i \in 0 .. Len(w)] == IF i = 0 THEN 1 ELSE open[i - 1] - 1 + Children(w[i])
  IN  open

\* Every message is one MessagePack value: each array has as many elements as
\* it announces, whatever fields were left out, so that a reader that skips
\* what it does not know stays in step.
OneValue ==
  wire # <<>> => /\ Expected(wire)[Len(wire)] = 0
                 /\ \A i \in 0 .. Len(wire) - 1 : Expected(wire)[i] > 0

\* What a reader can know of a message: the password of the reserved fields,
\* and no empty ackData.
NormalConnection(d) ==
  IF d = Null THEN Null
  ELSE [d EXCEPT !.reservedFields = IF Password(d) = Null THEN Null ELSE <<Password(d)>>]

NormalAck(a) ==
  IF a.success = Null /\ a.unauthorized = Null THEN Null
  ELSE [a EXCEPT !.success = NormalConnection(a.success)]

Normal(m) ==
  CASE m.header.dataType = "Connection" -> [m EXCEPT !.data = NormalConnection(m.data)]
    [] m.header.dataType = "ConnectionAck" ->
         [m EXCEPT !.data = [m.data EXCEPT !.ackData = NormalAck(m.data.ackData)]]
    [] OTHER -> m

\* A message of a kind that is both written and read arrives as it was, with
\* nothing left over, whichever of the optional fields are there.
RoundTrip ==
  /\ phase = "malformed" => msg.header.dataType \notin Deserializable
  /\ phase = "read" => got = Success(Normal(msg), <<>>)

-----------------------------------------------------------------------------
(* The inductive invariant                                                 *)

\* A message as the library makes it: a connection ack has an ackData.
Sound(m) == IsMessage(m) /\ (m.header.dataType = "ConnectionAck" => m.data.ackData # Null)

\* What the wire and the reader hold in each phase.
CodecInv ==
  /\ phase \in {"none", "composed", "written", "refused", "read", "malformed"}
  /\ Sound(msg)
  /\ IF phase \in {"written", "read", "malformed"}
     THEN \E writer \in {"client", "server"} : wire = WriteMessage(msg, writer)
     ELSE wire = <<>>
  /\ phase = "read" => got = Success(Normal(msg), <<>>)
  /\ phase # "read" => got = Failure
  /\ phase = "malformed" => msg.header.dataType \notin Deserializable

=============================================================================
