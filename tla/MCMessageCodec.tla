--------------------------- MODULE MCMessageCodec ---------------------------
(***************************************************************************)
(* MessageCodec and GdsLogin on small instances for TLC.                   *)
(***************************************************************************)
EXTENDS GdsLogin

CONSTANTS t1, n1, n2

\* A header without fragmentation and every header with it.
MCHeaders(kinds) ==
  {h \in [userName : {t1}, messageId : {t1}, createTime : {n1}, requestTime : {n2},
          isFragmented : BOOLEAN, firstFragment : {Null, TRUE},
          lastFragment : {Null, FALSE}, offset : {Null, n1}, fullDataSize : {Null, n2},
          dataType : kinds] :
     h.isFragmented \/ {h.firstFragment, h.lastFragment, h.offset, h.fullDataSize} = {Null}}

Plain(kind) == {h \in MCHeaders({kind}) : ~h.isFragmented}

MCConnections ==
  [clusterName : {Null, t1}, serveOnTheSameConnection : BOOLEAN,
   protocolVersionNumber : {n1}, fragmentationSupported : BOOLEAN,
   fragmentationTransmissionUnit : {Null, n2},
   reservedFields : {Null, <<>>, <<Null>>, <<t1>>, <<Null, t1>>, <<t1, Null>>}]

MCAcks ==
  [status : {n1}, exception : {Null, t1},
   ackData : [success : {Null}, unauthorized : {Null, [field |-> n2, reason |-> t1]}]
             \cup [success : MCConnections, unauthorized : {Null}]]

MCQueries ==
  [select : {t1}, consistency : {t1}, timeout : {n1},
   queryPageSize : {Null, n2}, queryType : {Null, n1}]

MCResults == [status : {n1, n2}, notification : {Null, t1}]

MCDocumentAcks ==
  [status : {n1}, exception : {Null, t1},
   ackData : {Null} \cup UNION {[1 .. n -> MCResults] : n \in 0 .. 2}]

MCMessages ==
  [header : Plain("Connection"), data : MCConnections]
    \cup [header : Plain("ConnectionAck"), data : MCAcks]
    \cup [header : Plain("QueryRequest"), data : MCQueries]
    \cup [header : Plain("EventDocumentAck"), data : MCDocumentAcks]
    \cup [header : MCHeaders(DataType \ {"Connection", "ConnectionAck", "QueryRequest",
                                         "EventDocumentAck"}),
          data : {t1}]

=============================================================================
