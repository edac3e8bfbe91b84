--------------------------- MODULE SyncGdsProofs ----------------------------
(***************************************************************************)
(* Theorems about SyncGds for any set of calls, ids and arguments.         *)
(***************************************************************************)
EXTENDS SyncGdsProps, TLAPS

PcTyped == pc \in [Calls -> {"idle", "send", "add", "wait", "completed", "delayed",
                             "catch", "done"}]

OutcomeTyped == outcome \in [Calls -> {"none", "not sent", "duplicate", "timeout", "ack",
                                       "failure", "bad cast"}]

AnyCallStep(c) == Accepted(c) \/ SendRefused(c) \/ CallStep(c)

\* Steps of the listener, the GDS and the session.
OtherStep == \/ \E c \in Calls : SetException(c)
             \/ \E a \in acks : OnAck(a)
             \/ SetResult
             \/ OnConnectionFailure \/ Clear
             \/ \E q \in requests : Answer(q)
             \/ LoggedIn \/ Disconnect

\* The marker of an empty entry is no call.
LEMMA NobodyCalls == NoId \notin Calls
  BY IdsAssumption

\* A call is an event or a query, and both its ids are keys of the dictionary.
LEMMA KeysTyped ==
  ASSUME TypeOK, NEW c \in Calls
  PROVE  /\ args[c].kind \in Kinds /\ Key(c) \in Keys /\ WireId(c) \in Keys
         /\ Request(c) \in [call : Calls, kind : Kinds, id : Keys]
<1>1. args[c] \in Argument
  BY ArgumentsAssumption DEF TypeOK
<1>2. args[c].kind \in Kinds /\ Key(c) \in Keys /\ WireId(c) \in Keys
  BY <1>1 DEF Argument, Key, WireId, Keys
<1>3. QED
  BY <1>2 DEF Request

\* Messages of different calls are different.
LEMMA RequestsDiffer ==
  \A c, d : Request(c) = Request(d) => c = d
  BY DEF Request

\* A step of a call changes that call, the dictionary and the messages sent.
LEMMA CallFrame ==
  ASSUME TypeOK, NEW c \in Calls, AnyCallStep(c)
  PROVE  /\ task' = task /\ answer' = answer /\ receiver' = receiver
         /\ failer' = failer /\ acks' = acks
         /\ requests' = requests \/ Send(c)
         /\ \A d \in Calls \ {c} : pc'[d] = pc[d] /\ outcome'[d] = outcome[d]
<1>1. PcTyped /\ OutcomeTyped
  BY DEF TypeOK, PcTyped, OutcomeTyped
<1>2. QED
  BY <1>1 DEF AnyCallStep, Accepted, SendRefused, CallStep, Send, TryAdd, TryAddRefused,
     Completed, Delayed, RemoveDelayed, RemoveCompleted, Catch, Goto, tasks, listener, gds,
     PcTyped, OutcomeTyped

\* No other step changes a call.
LEMMA OtherFrame ==
  ASSUME OtherStep \/ UNCHANGED vars
  PROVE  pc' = pc /\ outcome' = outcome
  BY DEF OtherStep, SetException, OnAck, SetResult, OnConnectionFailure, Clear, Answer,
     LoggedIn, Disconnect, vars

LEMMA NextSplit ==
  ASSUME [Next]_vars
  PROVE  (\E c \in Calls : AnyCallStep(c)) \/ OtherStep \/ UNCHANGED vars
  BY DEF Next, AnyCallStep, OtherStep

\* No step changes the arguments, so a call keeps its ids and its message.
LEMMA KeysKept ==
  ASSUME [Next]_vars
  PROVE  /\ args' = args
         /\ \A d : Key(d)' = Key(d) /\ WireId(d)' = WireId(d) /\ Request(d)' = Request(d)
         /\ \A d, e : Fits(d, e)' = Fits(d, e)
<1>1. args' = args
  BY DEF Next, CallStep, Accepted, Send, SendRefused, TryAdd, TryAddRefused, Completed,
     Delayed, RemoveDelayed, RemoveCompleted, Catch, OnAck, SetResult,
     OnConnectionFailure, SetException, Clear, Answer, LoggedIn, Disconnect, vars
<1>2. QED
  BY <1>1 DEF Key, WireId, Request, Fits

-----------------------------------------------------------------------------
(* Types and the dictionary                                                *)

LEMMA TypeInit == Init => TypeOK
  BY DEF Init, TypeOK, NoAck, Kinds

\* Every step keeps the types.
LEMMA TypeStep == TypeOK /\ [Next]_vars => TypeOK'
<1> SUFFICES ASSUME TypeOK, [Next]_vars PROVE TypeOK'
  OBVIOUS
<1> USE DEF TypeOK, Goto, TryRemove, tasks, gds, listener
<1>1. ASSUME NEW c \in Calls, Accepted(c) PROVE TypeOK'
  BY <1>1 DEF Accepted
<1>2. ASSUME NEW c \in Calls, SendRefused(c) PROVE TypeOK'
  BY <1>2 DEF SendRefused
<1>3. ASSUME NEW c \in Calls, Send(c) PROVE TypeOK'
  <2>1. requests' = requests \cup {Request(c)}
    BY <1>3 DEF Send
  <2>2. requests' \subseteq [call : Calls, kind : Kinds, id : Keys]
    BY <2>1, KeysTyped
  <2>3. QED
    BY <1>3, <2>2 DEF Send
<1>4. ASSUME NEW c \in Calls, TryAdd(c) PROVE TypeOK'
  BY <1>4, KeysTyped DEF TryAdd
<1>5. ASSUME NEW c \in Calls, TryAddRefused(c) PROVE TypeOK'
  BY <1>5 DEF TryAddRefused
<1>6. ASSUME NEW c \in Calls, Completed(c) \/ Delayed(c) PROVE TypeOK'
  BY <1>6 DEF Completed, Delayed
<1>7. ASSUME NEW c \in Calls, RemoveDelayed(c) PROVE TypeOK'
  BY <1>7 DEF RemoveDelayed
<1>8. ASSUME NEW c \in Calls, RemoveCompleted(c) PROVE TypeOK'
  BY <1>8 DEF RemoveCompleted
<1>9. ASSUME NEW c \in Calls, Catch(c) PROVE TypeOK'
  BY <1>9 DEF Catch
<1>10. ASSUME NEW a \in acks, OnAck(a) PROVE TypeOK'
  <2>1. a.call \in Calls /\ a.kind \in Kinds /\ a.id \in Keys
    OBVIOUS
  <2>2. receiver' \in [call : Calls \cup {NoId}, from : Calls \cup {NoId}, kind : Kinds]
    BY <1>10, <2>1 DEF OnAck, NoAck, Kinds
  <2>3. QED
    BY <1>10, <2>1, <2>2 DEF OnAck
<1>11. CASE SetResult
  BY <1>11 DEF SetResult, NoAck, Kinds
<1>12. CASE OnConnectionFailure \/ Clear
  BY <1>12 DEF OnConnectionFailure, Clear
<1>13. ASSUME NEW c \in Calls, SetException(c) PROVE TypeOK'
  BY <1>13 DEF SetException
<1>14. ASSUME NEW q \in requests, Answer(q) PROVE TypeOK'
  BY <1>14 DEF Answer
<1>15. CASE LoggedIn \/ Disconnect
  BY <1>15 DEF LoggedIn, Disconnect
<1>16. CASE UNCHANGED vars
  BY <1>16 DEF vars
<1>17. QED
  BY <1>1, <1>2, <1>3, <1>4, <1>5, <1>6, <1>7, <1>8, <1>9, <1>10, <1>11, <1>12,
     <1>13, <1>14, <1>15, <1>16 DEF Next, CallStep

\* Every step keeps the owners: only TryAdd makes an entry, and a call that
\* stops waiting has removed its key.
LEMMA OwnerStep == TypeOK /\ NothingLeftBehind /\ [Next]_vars => NothingLeftBehind'
<1> SUFFICES ASSUME TypeOK, NothingLeftBehind, [Next]_vars PROVE NothingLeftBehind'
  OBVIOUS
<1> DEFINE Waits(c) == pc[c] \in {"wait", "completed", "delayed"}
<1>a. \A d : Key(d)' = Key(d)
  BY KeysKept
<1>b. \A d \in Calls : Key(d) \in Keys
  BY KeysTyped
<1>c. PcTyped /\ pending \in [Keys -> Calls \cup {NoId}]
  BY DEF TypeOK, PcTyped
<1>d. \A k \in Keys : pending[k] # NoId =>
        pending[k] \in Calls /\ Key(pending[k]) = k /\ Waits(pending[k])
  BY <1>c DEF NothingLeftBehind
\* It is enough that a surviving entry's owner still waits.
<1>e. ASSUME \A k \in Keys : pending'[k] # NoId =>
               pending'[k] = pending[k] /\ Waits(pending[k])'
      PROVE  NothingLeftBehind'
  BY <1>a, <1>d, <1>e DEF NothingLeftBehind
<1>1. ASSUME NEW c \in Calls, TryAdd(c) PROVE NothingLeftBehind'
  <2>1. pending' = [pending EXCEPT ![Key(c)] = c] /\ pc' = [pc EXCEPT ![c] = "wait"]
    BY <1>1 DEF TryAdd, Goto
  <2> SUFFICES ASSUME NEW k \in Keys, pending'[k] # NoId
               PROVE  Key(pending'[k]) = k /\ Waits(pending[k])'
    BY <1>a DEF NothingLeftBehind
  <2>2. CASE k = Key(c)
    BY <1>b, <1>c, <2>1, <2>2 DEF PcTyped
  <2>3. CASE k # Key(c)
    <3>1. pending'[k] = pending[k]
      BY <1>b, <1>c, <2>1, <2>3
    <3>2. QED
      BY <1>c, <1>d, <2>1, <3>1 DEF PcTyped
  <2>4. QED
    BY <2>2, <2>3
\* A call that keeps the dictionary did not wait or goes on waiting.
<1>2. ASSUME NEW c \in Calls,
             Accepted(c) \/ SendRefused(c) \/ Send(c) \/ TryAddRefused(c) \/ Completed(c)
               \/ Delayed(c)
      PROVE  NothingLeftBehind'
  <2>1. pending' = pending /\ \A d \in Calls : Waits(d) => Waits(d)'
    BY <1>2, <1>c DEF Accepted, SendRefused, Send, TryAddRefused, Completed, Delayed, Goto,
       PcTyped
  <2>2. QED
    BY <1>d, <1>e, <2>1
<1>3. ASSUME NEW c \in Calls, RemoveDelayed(c) \/ RemoveCompleted(c) \/ Catch(c)
      PROVE  NothingLeftBehind'
  <2>1. pending' = [pending EXCEPT ![Key(c)] = NoId]
        /\ \A d \in Calls \ {c} : pc'[d] = pc[d]
    BY <1>3, <1>c DEF RemoveDelayed, RemoveCompleted, Catch, Goto, TryRemove, PcTyped
  <2>2. ASSUME NEW k \in Keys, pending'[k] # NoId
        PROVE  pending'[k] = pending[k] /\ pending[k] \in Calls \ {c}
    BY <1>b, <1>c, <1>d, <2>1, <2>2
  <2>3. QED
    BY <1>d, <1>e, <2>1, <2>2
<1>4. ASSUME NEW a \in acks, OnAck(a) PROVE NothingLeftBehind'
  <2>1. pc' = pc /\ pending' = [pending EXCEPT ![a.id] = NoId]
    BY <1>4 DEF OnAck, TryRemove
  <2>2. QED
    BY <1>c, <1>d, <1>e, <2>1
<1>5. CASE Clear
  BY <1>5, <1>e DEF Clear
<1>6. CASE \/ SetResult \/ OnConnectionFailure \/ LoggedIn \/ Disconnect \/ UNCHANGED vars
           \/ \E c \in Calls : SetException(c)
           \/ \E q \in requests : Answer(q)
  <2>1. pending' = pending /\ pc' = pc
    BY <1>6 DEF SetResult, OnConnectionFailure, LoggedIn, Disconnect, SetException, Answer,
       vars
  <2>2. QED
    BY <1>d, <1>e, <2>1
<1>7. QED
  BY <1>1, <1>2, <1>3, <1>4, <1>5, <1>6 DEF Next, CallStep

-----------------------------------------------------------------------------
(* Messages and answers                                                    *)

\* What was sent stays sent.
LEMMA SentKept ==
  ASSUME TypeOK, [Next]_vars, NEW d \in Calls, Sent(d)
  PROVE  Sent(d)'
<1>1. PcTyped /\ OutcomeTyped
  BY DEF TypeOK, PcTyped, OutcomeTyped
<1>2. ASSUME NEW c \in Calls, AnyCallStep(c) PROVE Sent(d)'
  <2>1. CASE c = d
    BY <1>1, <1>2, <2>1 DEF AnyCallStep, Accepted, SendRefused, CallStep, Send, TryAdd,
       TryAddRefused, Completed, Delayed, RemoveDelayed, RemoveCompleted, Catch, Goto, Sent,
       PcTyped, OutcomeTyped
  <2>2. CASE c # d
    BY <1>2, <2>2, CallFrame DEF Sent
  <2>3. QED
    BY <2>1, <2>2
<1>3. CASE OtherStep \/ UNCHANGED vars
  BY <1>3, OtherFrame DEF Sent
<1>4. QED
  BY <1>2, <1>3, NextSplit

\* A call enters a message once, and nobody else enters one.
LEMMA SentOnce ==
  ASSUME TypeOK, ResultInv, NEW c \in Calls, Send(c)
  PROVE  requests' = requests \cup {Request(c)} /\ ~Sent(c) /\ Sent(c)'
<1>1. requests' = requests \cup {Request(c)} /\ pc[c] = "send"
      /\ pc' = [pc EXCEPT ![c] = "add"] /\ outcome' = outcome
  BY DEF Send, Goto
<1>2. PcTyped /\ OutcomeTyped
  BY DEF TypeOK, PcTyped, OutcomeTyped
<1>3. ~Sent(c) /\ pc'[c] = "add"
  BY <1>1, <1>2 DEF Sent, PcTyped
<1>4. outcome[c] = "none"
  BY <1>1 DEF ResultInv, TaskInv
<1>5. QED
  BY <1>1, <1>3, <1>4 DEF Sent

\* The GDS and the receive loop pass messages on.
LEMMA OthersPass ==
  ASSUME OtherStep \/ UNCHANGED vars
  PROVE  \/ requests' = requests /\ acks' = acks
         \/ \E q \in requests : requests' = requests \ {q} /\ acks' = acks \cup {q}
         \/ \E a \in acks : OnAck(a) /\ requests' = requests /\ acks' = acks \ {a}
  BY DEF OtherStep, SetException, OnAck, SetResult, OnConnectionFailure, Clear, Answer,
     LoggedIn, Disconnect, vars, gds

\* Every message on its way is what its call sent.
LEMMA MessageStep == TypeOK /\ ResultInv /\ MessageInv /\ [Next]_vars => MessageInv'
<1> SUFFICES ASSUME TypeOK, ResultInv, MessageInv, [Next]_vars,
                    NEW m \in requests' \cup acks'
             PROVE  m = Request(m.call)' /\ Sent(m.call)'
  BY DEF MessageInv
<1>1. CASE m \in requests \cup acks
  <2>1. m.call \in Calls /\ m = Request(m.call) /\ Sent(m.call)
    BY <1>1 DEF MessageInv, TypeOK
  <2>2. QED
    BY <2>1, SentKept, KeysKept
<1>2. CASE m \notin requests \cup acks
  <2>1. PICK c \in Calls : AnyCallStep(c)
    BY <1>2, NextSplit, OthersPass
  <2>2. Send(c)
    BY <1>2, <2>1, CallFrame
  <2>3. m = Request(c) /\ Sent(c)'
    BY <1>2, <2>1, <2>2, SentOnce, CallFrame
  <2>4. m.call = c
    BY <2>3 DEF Request
  <2>5. QED
    BY <2>3, <2>4, KeysKept
<1>3. QED
  BY <1>1, <1>2

\* An ack is brought to the owner of the entry, whose key is the ack's id.
LEMMA CarriedStep ==
  TypeOK /\ NothingLeftBehind /\ MessageInv /\ CarriedInv /\ [Next]_vars => CarriedInv'
<1> SUFFICES ASSUME TypeOK, NothingLeftBehind, MessageInv, CarriedInv, [Next]_vars
             PROVE  CarriedInv'
  OBVIOUS
<1>1. args' = args
  BY KeysKept
<1>2. CASE receiver' = receiver
  BY <1>1, <1>2 DEF CarriedInv, Key, WireId
<1>3. ASSUME NEW a \in acks, OnAck(a) PROVE CarriedInv'
  <2>1. receiver' = IF pending[a.id] = NoId THEN NoAck
                    ELSE [call |-> pending[a.id], from |-> a.call, kind |-> a.kind]
    BY <1>3 DEF OnAck
  <2>2. CASE pending[a.id] = NoId
    BY <2>1, <2>2 DEF CarriedInv, NoAck
  <2>3. CASE pending[a.id] # NoId
    <3>1. a.call \in Calls /\ a.id \in Keys /\ pending[a.id] \in Calls
      BY <2>3 DEF TypeOK
    <3>2. a.kind = args[a.call].kind /\ a.id = WireId(a.call)
      <4>1. a = Request(a.call)
        BY DEF MessageInv
      <4>2. Request(a.call).kind = args[a.call].kind /\ Request(a.call).id = WireId(a.call)
        BY DEF Request
      <4>3. QED
        BY <4>1, <4>2
    <3>3. Key(pending[a.id]) = a.id
      BY <2>3, <3>1 DEF NothingLeftBehind
    <3>4. QED
      BY <1>1, <2>1, <2>3, <3>1, <3>2, <3>3 DEF CarriedInv, Key, WireId
  <2>4. QED
    BY <2>2, <2>3
<1>4. CASE SetResult
  BY <1>4 DEF SetResult, CarriedInv, NoAck
<1>5. ASSUME NEW c \in Calls, AnyCallStep(c) PROVE receiver' = receiver
  BY <1>5, CallFrame
<1>6. CASE \/ OnConnectionFailure \/ Clear \/ LoggedIn \/ Disconnect \/ UNCHANGED vars
           \/ \E c \in Calls : SetException(c)
           \/ \E q \in requests : Answer(q)
  BY <1>2, <1>6 DEF OnConnectionFailure, Clear, LoggedIn, Disconnect, SetException, Answer,
     vars, listener
<1>7. QED
  BY <1>2, <1>3, <1>4, <1>5, <1>6, NextSplit DEF OtherStep

\* What a task holds answers its call, and what a call returns is what its
\* task held: a task changes once.
LEMMA ResultStep == TypeOK /\ CarriedInv /\ ResultInv /\ [Next]_vars => ResultInv'
<1> SUFFICES ASSUME TypeOK, CarriedInv, ResultInv, [Next]_vars, NEW d \in Calls
             PROVE  TaskInv(d)'
  BY DEF ResultInv
<1>a. PcTyped /\ OutcomeTyped
  BY DEF TypeOK, PcTyped, OutcomeTyped
<1>b. /\ task \in [Calls -> {"pending", "failed"} \cup Kinds] /\ task[d] \in {"pending", "failed"} \cup Kinds
      /\ answer \in [Calls -> Calls \cup {NoId}]
      /\ "pending" \notin Kinds /\ "failed" \notin Kinds
  BY DEF TypeOK, Kinds
<1>c. TaskInv(d) /\ args' = args /\ args[d].kind \in Kinds
  BY KeysKept, KeysTyped DEF ResultInv
<1>1. ASSUME task'[d] = task[d], answer'[d] = answer[d], pc'[d] = pc[d],
             outcome'[d] = outcome[d], failer' = failer \/ failer' # "idle"
      PROVE  TaskInv(d)'
  BY <1>c, <1>1 DEF TaskInv, Key, WireId
<1>2. ASSUME NEW c \in Calls, AnyCallStep(c) PROVE TaskInv(d)'
  <2>1. CASE c # d
    BY <1>1, <1>2, <2>1, CallFrame
  <2>2. CASE c = d
    <3>1. task' = task /\ answer' = answer /\ failer' = failer
      BY <1>2, CallFrame
    <3>2. /\ pc'[d] = "completed" => task[d] # "pending"
          /\ outcome'[d] # "none" <=> pc'[d] \in {"catch", "done"}
          /\ pc'[d] = "catch" => outcome'[d] \in {"timeout", "failure", "bad cast"}
          /\ outcome'[d] = "ack" => task[d] = args[d].kind
          /\ outcome'[d] = "failure" => failer # "idle"
      BY <1>2, <1>a, <1>c, <2>2 DEF AnyCallStep, Accepted, SendRefused, CallStep, Send,
         TryAdd, TryAddRefused, Completed, Delayed, RemoveDelayed, RemoveCompleted, Catch,
         Goto, TaskInv, PcTyped, OutcomeTyped
    <3>3. QED
      BY <1>c, <3>1, <3>2 DEF TaskInv, Key, WireId
  <2>3. QED
    BY <2>1, <2>2
<1>3. CASE SetResult
  <2>1. /\ receiver.call \in Calls /\ receiver.from \in Calls
        /\ WireId(receiver.from) = Key(receiver.call)
        /\ receiver.kind = args[receiver.from].kind
    BY <1>3 DEF SetResult, CarriedInv
  <2>2. pc' = pc /\ outcome' = outcome /\ failer' = failer
    BY <1>3 DEF SetResult
  <2>3. CASE receiver.call = d /\ task[d] = "pending"
    <3>1. task'[d] = receiver.kind /\ answer'[d] = receiver.from
      BY <1>3, <1>b, <2>3 DEF SetResult
    <3>2. receiver.kind \in Kinds /\ receiver.from # NoId
      BY <2>1, KeysTyped, NobodyCalls
    <3>3. outcome[d] # "ack"
      BY <1>b, <1>c, <2>3 DEF TaskInv
    <3>4. QED
      BY <1>b, <1>c, <2>1, <2>2, <2>3, <3>1, <3>2, <3>3 DEF TaskInv, Key, WireId
  <2>4. CASE ~(receiver.call = d /\ task[d] = "pending")
    <3>1. task'[d] = task[d] /\ answer'[d] = answer[d]
      BY <1>3, <1>b, <2>4 DEF SetResult, tasks
    <3>2. QED
      BY <1>1, <2>2, <3>1
  <2>5. QED
    BY <2>3, <2>4
<1>4. ASSUME NEW c \in Calls, SetException(c) PROVE TaskInv(d)'
  <2>1. /\ answer' = answer /\ pc' = pc /\ outcome' = outcome /\ failer' = failer
        /\ failer # "idle"
    BY <1>4 DEF SetException
  <2>2. task'[d] = task[d] \/ (task[d] = "pending" /\ task'[d] = "failed")
    BY <1>4, <1>b DEF SetException
  <2>3. outcome[d] = "ack" => task[d] # "pending"
    BY <1>b, <1>c DEF TaskInv
  <2>4. QED
    BY <1>b, <1>c, <2>1, <2>2, <2>3 DEF TaskInv, Key, WireId
<1>5. CASE \/ OnConnectionFailure \/ Clear \/ LoggedIn \/ Disconnect \/ UNCHANGED vars
           \/ \E a \in acks : OnAck(a)
           \/ \E q \in requests : Answer(q)
  <2>1. task' = task /\ answer' = answer /\ pc' = pc /\ outcome' = outcome
        /\ (failer' = failer \/ failer' # "idle")
    BY <1>5 DEF OnConnectionFailure, Clear, LoggedIn, Disconnect, OnAck, Answer, tasks,
       listener, vars
  <2>2. QED
    BY <1>1, <2>1
<1>6. QED
  BY <1>2, <1>3, <1>4, <1>5, NextSplit DEF OtherStep

\* A message is unanswered, its answer on the way, carried, or used by one call.
LEMMA UniqueStep ==
  TypeOK /\ MessageInv /\ CarriedInv /\ ResultInv /\ UniqueInv /\ [Next]_vars => UniqueInv'
<1> SUFFICES ASSUME TypeOK, MessageInv, CarriedInv, ResultInv, UniqueInv, [Next]_vars
             PROVE  UniqueInv'
  OBVIOUS
<1>a. answer \in [Calls -> Calls \cup {NoId}] /\ receiver.from \in Calls \cup {NoId}
  BY DEF TypeOK
\* A consumed message stays consumed if nobody puts it on its way again.
<1>b. ASSUME NEW d \in Calls, Consumed(d), Request(d) \notin requests' \cup acks'
      PROVE  Consumed(d)'
  BY <1>b, SentKept, KeysKept DEF Consumed
<1>c. ASSUME answer' = answer, receiver'.from = receiver.from \/ receiver'.from = NoId,
             requests' \cap acks' = {},
             \A d \in Calls : Consumed(d) => Request(d) \notin requests' \cup acks'
      PROVE  UniqueInv'
  BY <1>a, <1>b, <1>c DEF UniqueInv, AnswersUsedOnce
<1>1. ASSUME NEW c \in Calls, Send(c) PROVE UniqueInv'
  <2>1. answer' = answer /\ receiver' = receiver /\ acks' = acks
        /\ requests' = requests \cup {Request(c)} /\ ~Sent(c)
    BY <1>1, SentOnce, CallFrame DEF AnyCallStep, CallStep
  <2>2. Request(c) \notin acks
    <3>1. Request(c).call = c
      BY DEF Request
    <3>2. QED
      BY <2>1, <3>1 DEF MessageInv
  <2>3. \A d \in Calls : Consumed(d) => Request(d) \notin requests' \cup acks'
    BY <2>1, RequestsDiffer DEF Consumed
  <2>4. requests' \cap acks' = {}
    BY <2>1, <2>2 DEF UniqueInv
  <2>5. QED
    BY <1>c, <2>1, <2>3, <2>4
<1>2. ASSUME NEW c \in Calls, AnyCallStep(c), ~Send(c) PROVE UniqueInv'
  BY <1>2, <1>c, CallFrame DEF UniqueInv, Consumed
<1>3. ASSUME NEW q \in requests, Answer(q) PROVE UniqueInv'
  <2>1. answer' = answer /\ receiver' = receiver
        /\ requests' = requests \ {q} /\ acks' = acks \cup {q}
    BY <1>3 DEF Answer, tasks, listener
  <2>2. QED
    BY <1>c, <2>1 DEF UniqueInv, Consumed
<1>4. ASSUME NEW a \in acks, OnAck(a) PROVE UniqueInv'
  <2>1. answer' = answer /\ requests' = requests /\ acks' = acks \ {a}
        /\ receiver' = IF pending[a.id] = NoId THEN NoAck
                       ELSE [call |-> pending[a.id], from |-> a.call, kind |-> a.kind]
    BY <1>4 DEF OnAck, tasks
  <2>2. CASE pending[a.id] = NoId
    BY <1>c, <2>1, <2>2 DEF UniqueInv, Consumed, NoAck
  <2>3. CASE pending[a.id] # NoId
    <3>1. receiver'.from = a.call
      BY <2>1, <2>3
    <3>2. a.call \in Calls /\ a = Request(a.call) /\ Sent(a.call) /\ a \notin requests
      BY DEF TypeOK, MessageInv, UniqueInv
    <3>3. \A c \in Calls : answer[c] # a.call
      BY <3>2, NobodyCalls DEF UniqueInv, Consumed
    <3>4. Sent(a.call)' /\ Request(a.call)' = a
      BY <3>2, SentKept, KeysKept
    <3>5. Consumed(a.call)'
      BY <2>1, <3>2, <3>4 DEF Consumed
    <3>6. \A c \in Calls : answer[c] # NoId => Consumed(answer[c])'
      BY <1>a, <1>b, <2>1 DEF UniqueInv, Consumed
    <3>7. QED
      BY <2>1, <3>1, <3>3, <3>5, <3>6 DEF UniqueInv, AnswersUsedOnce
  <2>4. QED
    BY <2>2, <2>3
<1>5. CASE SetResult
  <2>1. requests' = requests /\ acks' = acks /\ receiver'.from = NoId
    BY <1>5 DEF SetResult, NoAck, gds
  <2>2. receiver.call \in Calls /\ receiver.from \in Calls
    BY <1>5 DEF SetResult, CarriedInv
  <2>3. CASE answer' = answer
    BY <1>c, <2>1, <2>3 DEF UniqueInv, Consumed
  <2>4. CASE answer' = [answer EXCEPT ![receiver.call] = receiver.from]
    <3>1. \A c \in Calls : answer'[c] = IF c = receiver.call THEN receiver.from ELSE answer[c]
      BY <1>a, <2>4
    <3>2. \A c \in Calls : answer'[c] # NoId => answer'[c] \in Calls /\ Consumed(answer'[c])
      BY <1>a, <2>2, <3>1, NobodyCalls DEF UniqueInv
    <3>3. \A c \in Calls : answer[c] # receiver.from
      BY <2>2, NobodyCalls DEF UniqueInv
    <3>4. AnswersUsedOnce'
      BY <3>1, <3>3 DEF UniqueInv, AnswersUsedOnce
    <3>5. ASSUME NEW c \in Calls, answer'[c] # NoId PROVE Consumed(answer[c])'
      <4>1. PICK d \in Calls : d = answer'[c]
        BY <3>2, <3>5
      <4>2. Consumed(d)'
        BY <1>b, <2>1, <3>2, <3>5, <4>1 DEF Consumed
      <4>3. QED
        BY <4>1, <4>2 DEF Consumed, Sent, Request, WireId, Key
    <3>6. QED
      BY <2>1, <3>4, <3>5 DEF UniqueInv
  <2>5. QED
    BY <1>5, <2>3, <2>4 DEF SetResult, tasks
<1>6. CASE \/ OnConnectionFailure \/ Clear \/ LoggedIn \/ Disconnect \/ UNCHANGED vars
           \/ \E c \in Calls : SetException(c)
  <2>1. answer' = answer /\ receiver' = receiver /\ requests' = requests /\ acks' = acks
    BY <1>6 DEF OnConnectionFailure, Clear, LoggedIn, Disconnect, SetException, tasks,
       gds, listener, vars
  <2>2. QED
    BY <1>c, <2>1 DEF UniqueInv, Consumed
<1>7. QED
  BY <1>1, <1>2, <1>3, <1>4, <1>5, <1>6, NextSplit DEF OtherStep

\* The initial state satisfies the invariant.
LEMMA InvInit == Init => IInv
<1> SUFFICES ASSUME Init PROVE IInv
  OBVIOUS
<1>1. NothingLeftBehind /\ MessageInv /\ CarriedInv
  BY DEF Init, NothingLeftBehind, MessageInv, CarriedInv
<1>2. ResultInv
  BY DEF Init, ResultInv, TaskInv, Kinds
<1>3. UniqueInv
  BY DEF Init, UniqueInv, AnswersUsedOnce, NoAck
<1>4. QED
  BY TypeInit, <1>1, <1>2, <1>3 DEF IInv

LEMMA InvStep == IInv /\ [Next]_vars => IInv'
  BY TypeStep, OwnerStep, MessageStep, CarriedStep, ResultStep, UniqueStep DEF IInv

\* What a call returned was answered for it.
LEMMA Earned == IInv => OutcomeEarned
<1> SUFFICES ASSUME IInv, NEW c \in Calls
             PROVE  /\ outcome[c] = "ack" =>
                         /\ answer[c] # NoId /\ Fits(answer[c], c)
                         /\ Sent(answer[c]) /\ Request(answer[c]) \notin requests
                    /\ outcome[c] = "failure" => failer # "idle"
  BY DEF OutcomeEarned
<1>1. TaskInv(c) /\ args[c].kind \in Kinds
  BY KeysTyped DEF IInv, ResultInv
<1>2. answer[c] # NoId => Consumed(answer[c])
  BY DEF IInv, UniqueInv
<1>3. QED
  BY <1>1, <1>2 DEF TaskInv, Fits, Consumed

-----------------------------------------------------------------------------
(* Acks find the calls that wait for them                                  *)

\* A step of another call adds and removes other entries and other messages.
LEMMA FoundBeside ==
  ASSUME IInv, AckFindsCall, [Next]_vars, NEW c \in Calls, Alone(c), failer = "idle",
         NEW d \in Calls \ {c}, AnyCallStep(d),
         pc[c] \in {"wait", "delayed"}, Request(c) \in requests' \cup acks'
  PROVE  pending'[Key(c)] = c
<1>1. TypeOK
  BY DEF IInv
<1>2. Request(c) \in requests \cup acks
  BY <1>1, CallFrame, RequestsDiffer DEF Send
<1>3. pending[Key(c)] = c
  BY <1>2 DEF AckFindsCall
<1>4. Key(c) # Key(d) /\ Key(c) \in Keys
  BY <1>1, KeysTyped DEF Alone
<1>5. pending \in [Keys -> Calls \cup {NoId}]
  BY <1>1 DEF TypeOK
<1>6. QED
  BY <1>3, <1>4, <1>5 DEF AnyCallStep, Accepted, SendRefused, CallStep, Send, TryAdd,
     TryAddRefused, Completed, Delayed, RemoveDelayed, RemoveCompleted, Catch, TryRemove

\* A call enters the dictionary before it waits, and stays there until it has
\* decided to time out.
LEMMA FoundOwn ==
  ASSUME IInv, AckFindsCall, NEW c \in Calls, Alone(c), failer = "idle", AnyCallStep(c),
         pc'[c] \in {"wait", "delayed"}, Request(c) \in requests' \cup acks'
  PROVE  pending'[Key(c)] = c
<1>1. TypeOK /\ pc \in [Calls -> {"idle", "send", "add", "wait", "completed", "delayed",
                                  "catch", "done"}]
  BY DEF IInv, TypeOK
<1>2. TryAdd(c) \/ Delayed(c)
  BY <1>1 DEF AnyCallStep, Accepted, SendRefused, CallStep, Send, TryAddRefused, Completed,
     RemoveDelayed, RemoveCompleted, Catch, Goto
<1>3. CASE TryAdd(c)
  BY <1>1, <1>3, KeysTyped DEF TryAdd, TypeOK
<1>4. CASE Delayed(c)
  BY <1>4 DEF Delayed, Goto, gds, AckFindsCall
<1>5. QED
  BY <1>2, <1>3, <1>4

\* An ack that takes an entry is of a call that sent its id: of this one alone.
LEMMA FoundByAck ==
  ASSUME IInv, AckFindsCall, NEW c \in Calls, Alone(c), failer = "idle",
         NEW a \in acks, OnAck(a),
         pc[c] \in {"wait", "delayed"}, Request(c) \in requests' \cup acks'
  PROVE  pending'[Key(c)] = c
<1>1. a.call \in Calls /\ a = Request(a.call) /\ requests \cap acks = {}
  BY DEF IInv, TypeOK, MessageInv, UniqueInv
<1>2. requests' = requests /\ acks' = acks \ {a}
  BY DEF OnAck
<1>3. a.call # c
  BY <1>1, <1>2
<1>4. a.id = WireId(a.call)
  BY <1>1 DEF Request
<1>5. a.id # Key(c)
  BY <1>1, <1>3, <1>4 DEF Alone
<1>6. pending[Key(c)] = c
  BY <1>2 DEF AckFindsCall
<1>7. Key(c) \in Keys /\ pending \in [Keys -> Calls \cup {NoId}]
  BY KeysTyped DEF IInv, TypeOK
<1>8. QED
  BY <1>5, <1>6, <1>7 DEF OnAck, TryRemove

\* Every step leaves the entry of a call whose answer is ahead of it.
LEMMA FoundStep == IInv /\ AckFindsCall /\ [Next]_vars => AckFindsCall'
<1> SUFFICES ASSUME IInv, AckFindsCall, [Next]_vars, NEW c \in Calls,
                    Alone(c)', failer' = "idle", pc'[c] \in {"wait", "delayed"},
                    Request(c)' \in requests' \cup acks'
             PROVE  pending'[Key(c)'] = c
  BY DEF AckFindsCall
<1>1. Key(c)' = Key(c) /\ Request(c)' = Request(c) /\ Alone(c)
  BY KeysKept DEF Alone
<1>2. ASSUME NEW d \in Calls, AnyCallStep(d) PROVE pending'[Key(c)] = c
  <2>1. failer = "idle" /\ (d # c => pc'[c] = pc[c])
    BY <1>2, CallFrame DEF IInv
  <2>2. CASE d = c
    BY <1>1, <1>2, <2>1, <2>2, FoundOwn
  <2>3. CASE d # c
    BY <1>1, <1>2, <2>1, <2>3, FoundBeside
  <2>4. QED
    BY <2>2, <2>3
<1>3. ASSUME OtherStep PROVE pending'[Key(c)] = c
  <2>1. pc' = pc
    BY <1>3, OtherFrame
  <2>2. ASSUME NEW a \in acks, OnAck(a) PROVE pending'[Key(c)] = c
    <3>1. failer = "idle"
      BY <2>2 DEF OnAck
    <3>2. QED
      BY <1>1, <2>1, <2>2, <3>1, FoundByAck
  <2>3. CASE SetResult \/ (\E q \in requests : Answer(q)) \/ LoggedIn \/ Disconnect
    BY <1>1, <2>1, <2>3
    DEF SetResult, Answer, LoggedIn, Disconnect, gds, listener, AckFindsCall
  <2>4. ~OnConnectionFailure /\ ~Clear /\ ~\E d \in Calls : SetException(d)
    BY DEF OnConnectionFailure, Clear, SetException
  <2>5. QED
    BY <1>3, <2>2, <2>3, <2>4 DEF OtherStep
<1>4. CASE UNCHANGED vars
  BY <1>1, <1>4 DEF vars, AckFindsCall
<1>5. QED
  BY <1>1, <1>2, <1>3, <1>4, NextSplit

-----------------------------------------------------------------------------
(* The abstract requests                                                   *)

LEMMA AbstractInit == Init => Abstract!Init
<1> SUFFICES ASSUME Init PROVE Abstract!Init
  OBVIOUS
<1>1. Fitting \in SUBSET (Calls \X Calls) /\ Answered = {} /\ Broken = FALSE
  BY DEF Init, Fitting, Answered, Broken, Sent
<1>2. Result = [c \in Calls |-> "open"]
  BY DEF Init, Result
<1>3. Used = [c \in Calls |-> NoId]
  BY <1>2 DEF Used
<1>4. QED
  BY <1>1, <1>2, <1>3 DEF Abstract!Init

\* A call that returned is not touched any more, so what it used stays used.
LEMMA AbstractStep == IInv /\ [Next]_vars => [Abstract!Next]_(Abstract!vars)
<1> SUFFICES ASSUME IInv, [Next]_vars PROVE [Abstract!Next]_(Abstract!vars)
  OBVIOUS
<1>a. /\ TypeOK /\ MessageInv /\ ResultInv /\ PcTyped /\ OutcomeTyped
      /\ task \in [Calls -> {"pending", "failed"} \cup Kinds]
      /\ answer \in [Calls -> Calls \cup {NoId}]
      /\ "pending" \notin Kinds
  BY DEF IInv, TypeOK, PcTyped, OutcomeTyped, Kinds
<1>b. Fitting' = Fitting
  BY KeysKept DEF Fitting
<1>c. \A d \in Calls : Sent(d) => Sent(d)'
  BY <1>a, SentKept
<1>d. ASSUME Answered' = Answered, Broken' = Broken, Result' = Result, Used' = Used
      PROVE  [Abstract!Next]_(Abstract!vars)
  BY <1>b, <1>d DEF Abstract!vars
<1>1. ASSUME NEW c \in Calls, AnyCallStep(c) PROVE [Abstract!Next]_(Abstract!vars)
  <2>1. /\ task' = task /\ answer' = answer /\ failer' = failer
        /\ \A d \in Calls \ {c} : pc'[d] = pc[d] /\ outcome'[d] = outcome[d]
    BY <1>1, <1>a, CallFrame
  <2>2. Answered' = Answered
    <3>1. CASE Send(c)
      <4>1. requests' = requests \cup {Request(c)} /\ ~Sent(c)
        BY <1>a, <3>1, SentOnce
      <4>2. \A d \in Calls \ {c} : Sent(d)' = Sent(d)
        BY <2>1 DEF Sent
      <4>3. QED
        BY <4>1, <4>2, KeysKept, RequestsDiffer DEF Answered
    <3>2. CASE ~Send(c)
      <4>1. requests' = requests
        BY <1>1, <1>a, <3>2, CallFrame
      <4>2. Sent(c)' <=> Sent(c)
        <5>1. outcome[c] = "none" \/ pc[c] \in {"catch", "done"}
          BY <1>a DEF ResultInv, TaskInv
        <5>2. QED
          BY <1>1, <1>a, <3>2, <5>1 DEF AnyCallStep, Accepted, SendRefused, CallStep, TryAdd,
             TryAddRefused, Completed, Delayed, RemoveDelayed, RemoveCompleted, Catch, Goto,
             Sent, PcTyped, OutcomeTyped
      <4>3. \A d \in Calls : Sent(d)' = Sent(d)
        BY <2>1, <4>2 DEF Sent
      <4>4. QED
        BY <4>1, <4>3, KeysKept DEF Answered
    <3>3. QED
      BY <3>1, <3>2
  <2>3. Broken' = Broken
    BY <2>1 DEF Broken
  <2>4. CASE pc'[c] # "done"
    <3>1. pc[c] # "done"
      BY <1>1, <1>a DEF AnyCallStep, Accepted, SendRefused, CallStep, Send, TryAdd,
         TryAddRefused, Completed, Delayed, RemoveDelayed, RemoveCompleted, Catch, Goto
    <3>2. Result' = Result
      BY <2>1, <2>4, <3>1 DEF Result
    <3>3. Used' = Used
      BY <2>1, <3>2 DEF Used
    <3>4. QED
      BY <1>d, <2>2, <2>3, <3>2, <3>3
  <2>5. CASE pc'[c] = "done"
    <3>1. pc[c] # "done"
      BY <1>1, <1>a DEF AnyCallStep, Accepted, SendRefused, CallStep, Send, TryAdd,
         TryAddRefused, Completed, Delayed, RemoveDelayed, RemoveCompleted, Catch, Goto
    <3>2. Result[c] = "open" /\ Result' = [Result EXCEPT ![c] = outcome'[c]]
      BY <2>1, <2>5, <3>1 DEF Result
    <3>3. CASE outcome'[c] = "ack"
      <4>1. task[c] = args[c].kind /\ args[c].kind \in Kinds
        <5>1. ResultInv' /\ args' = args
          BY InvStep, KeysKept DEF IInv
        <5>2. QED
          BY <1>a, <2>1, <3>3, <5>1, KeysTyped DEF ResultInv, TaskInv
      <4>2. answer[c] # NoId /\ Fits(answer[c], c)
        BY <1>a, <4>1 DEF ResultInv, TaskInv, Fits
      <4>3. answer[c] \in Calls
        BY <1>a, <4>2
      <4>4. answer[c] \in Answered
        BY <4>2, <4>3 DEF Answered, IInv, UniqueInv, Consumed
      <4>5. <<answer[c], c>> \in Fitting
        BY <4>2, <4>3 DEF Fitting
      <4>6. \A d \in Calls : Used[d] # answer[c]
        BY <3>2, <4>2 DEF Used, IInv, UniqueInv, AnswersUsedOnce
      <4>7. Used' = [Used EXCEPT ![c] = answer[c]]
        BY <2>1, <3>2, <3>3 DEF Used, Result
      <4>8. Abstract!ReturnAck(c, answer[c])
        BY <1>b, <2>2, <2>3, <3>2, <3>3, <4>4, <4>5, <4>6, <4>7 DEF Abstract!ReturnAck
      <4>9. QED
        BY <4>3, <4>8 DEF Abstract!Next
    <3>4. CASE outcome'[c] # "ack"
      <4>1. outcome'[c] \in Abstract!Thrown \cup {"failure"}
        <5>1. TypeOK' /\ ResultInv'
          BY InvStep DEF IInv
        <5>2. QED
          BY <2>5, <3>4, <5>1 DEF TypeOK, ResultInv, TaskInv, Abstract!Thrown
      <4>2. outcome'[c] = "failure" => Broken
        <5>1. ResultInv'
          BY InvStep DEF IInv
        <5>2. QED
          BY <2>1, <5>1 DEF ResultInv, TaskInv, Broken
      <4>3. Used' = Used
        BY <2>1, <3>2, <3>4 DEF Used, Result
      <4>4. Abstract!Throw(c, outcome'[c])
        BY <1>b, <2>2, <2>3, <3>2, <4>2, <4>3 DEF Abstract!Throw
      <4>5. QED
        BY <4>1, <4>4 DEF Abstract!Next
    <3>5. QED
      BY <3>3, <3>4
  <2>6. QED
    BY <2>4, <2>5
<1>2. ASSUME NEW q \in requests, Answer(q) PROVE [Abstract!Next]_(Abstract!vars)
  <2>1. /\ pc' = pc /\ outcome' = outcome /\ answer' = answer /\ failer' = failer
        /\ requests' = requests \ {q}
    BY <1>2 DEF Answer, tasks, listener
  <2>2. q.call \in Calls /\ q = Request(q.call) /\ Sent(q.call)
    BY <1>a DEF MessageInv, TypeOK
  <2>3. \A d \in Calls : Sent(d)' = Sent(d)
    BY <2>1 DEF Sent
  <2>4. Answered' = Answered \cup {q.call} /\ q.call \notin Answered
    BY <2>1, <2>2, <2>3, KeysKept, RequestsDiffer DEF Answered
  <2>5. Broken' = Broken /\ Result' = Result
    BY <2>1 DEF Broken, Result
  <2>6. Used' = Used
    BY <2>1, <2>5 DEF Used
  <2>7. Abstract!Answer(q.call)
    BY <1>b, <2>4, <2>5, <2>6 DEF Abstract!Answer
  <2>8. QED
    BY <2>2, <2>7 DEF Abstract!Next
<1>3. ASSUME OtherStep \/ UNCHANGED vars, requests' = requests
      PROVE  [Abstract!Next]_(Abstract!vars)
  <2>1. pc' = pc /\ outcome' = outcome
    BY <1>3, OtherFrame
  <2>2. Answered' = Answered
    <3>1. \A d \in Calls : Sent(d)' = Sent(d)
      BY <2>1 DEF Sent
    <3>2. QED
      BY <1>3, <3>1, KeysKept DEF Answered
  <2>3. Result' = Result
    BY <2>1 DEF Result
  <2>4. Used' = Used
    <3>1. \A d \in Calls : Result[d] = "ack" => task[d] # "pending"
      BY <1>a, KeysTyped DEF Result, ResultInv, TaskInv
    <3>2. \A d \in Calls : Result[d] = "ack" => answer'[d] = answer[d]
      BY <1>3, <1>a, <3>1 DEF OtherStep, SetException, OnAck, SetResult,
         OnConnectionFailure, Clear, Answer, LoggedIn, Disconnect, tasks, vars
    <3>3. QED
      BY <2>3, <3>2 DEF Used
  <2>5. CASE Broken' = Broken
    BY <1>d, <2>2, <2>3, <2>4, <2>5
  <2>6. CASE Broken' # Broken
    <3>1. Broken' = TRUE
      BY <1>3, <2>6 DEF Broken, OtherStep, SetException, OnAck, SetResult,
         OnConnectionFailure, Clear, Answer, LoggedIn, Disconnect, listener, vars
    <3>2. Abstract!Break
      BY <1>b, <2>2, <2>3, <2>4, <3>1 DEF Abstract!Break
    <3>3. QED
      BY <3>2 DEF Abstract!Next
  <2>7. QED
    BY <2>5, <2>6
<1>4. ASSUME \/ SetResult \/ OnConnectionFailure \/ Clear \/ LoggedIn \/ Disconnect
             \/ UNCHANGED vars
             \/ \E c \in Calls : SetException(c)
             \/ \E a \in acks : OnAck(a)
      PROVE  requests' = requests
  BY <1>4 DEF SetException, OnAck, SetResult, OnConnectionFailure, Clear, LoggedIn,
     Disconnect, gds, vars
<1>5. QED
  BY <1>1, <1>2, <1>3, <1>4, NextSplit DEF OtherStep

-----------------------------------------------------------------------------

\* The inductive invariant of the request table.
THEOREM Invariance == Spec => []IInv
  BY InvInit, InvStep, PTL DEF Spec

\* Every variable keeps its type.
THEOREM TypeCorrect == Spec => []TypeOK
<1>1. IInv => TypeOK
  BY DEF IInv
<1>2. QED
  BY <1>1, Invariance, PTL

\* However calls, acks, timeouts and failures interleave, the dictionary holds
\* entries of waiting calls only: it is empty once all calls have returned.
THEOREM NothingLeftBehindHolds == Spec => []NothingLeftBehind
<1>1. IInv => NothingLeftBehind
  BY DEF IInv
<1>2. QED
  BY <1>1, Invariance, PTL

\* A call returns an ack only if the GDS answered a message of its kind that
\* travelled under its key; it fails only after OnConnectionFailure.
THEOREM OutcomeEarnedHolds == Spec => []OutcomeEarned
  BY Earned, Invariance, PTL

\* However ids are reused, no ack completes two calls.
THEOREM AnswersUsedOnceHolds == Spec => []AnswersUsedOnce
<1>1. IInv => AnswersUsedOnce
  BY DEF IInv, UniqueInv
<1>2. QED
  BY <1>1, Invariance, PTL

\* However other calls are answered, refused or time out: an ack that comes
\* after TryAdd finds its call, unless a failure was reported or an id shared.
THEOREM AckFindsCallHolds == Spec => []AckFindsCall
<1>1. Init => AckFindsCall
  BY DEF Init, AckFindsCall
<1>2. QED
  BY <1>1, FoundStep, Invariance, PTL DEF Spec

\* The request table implements the abstract requests.
THEOREM Implementation == Spec => ImplementsRequests
  BY AbstractInit, AbstractStep, Invariance, PTL DEF Spec, ImplementsRequests, Abstract!Spec

=============================================================================
