-------------------------- MODULE SyncSystemProofs ---------------------------
(***************************************************************************)
(* What the theorems of the parts say of the whole system of SyncClient:   *)
(* the wrapper on a real client keeps the promises of both.                *)
(***************************************************************************)
EXTENDS SyncClientProofs

\* The theorems of the request table, about the table of SyncClient.
Part == INSTANCE SyncGdsProofs WITH Calls <- Callers, pc <- cpc, session <- ClientSession

-----------------------------------------------------------------------------
(* The table of the theorems is the table of the system.                   *)

\* The system meets the assumptions of the request table.
LEMMA PartAssumptions == Part!IdsAssumption /\ Part!ArgumentsAssumption
  BY TableAssumption
  DEF Part!IdsAssumption, Part!ArgumentsAssumption, Part!Argument, NoId, Part!NoId,
      Kinds, Part!Kinds

\* The words of both are the same, ...
LEMMA SameWords ==
  /\ Table!NoId = Part!NoId /\ Table!Keys = Part!Keys /\ Table!NoAck = Part!NoAck
  /\ \A c : Table!Key(c) = Part!Key(c)
  /\ \A c : Table!WireId(c) = Part!WireId(c)
  /\ \A c : Table!Request(c) = Part!Request(c)
  BY DEF Table!NoId, Part!NoId, Table!Keys, Part!Keys, Table!NoAck, Part!NoAck,
         Table!Key, Part!Key, Table!WireId, Part!WireId, Table!Request, Part!Request

\* ... so are their initial states ...
LEMMA SameInit == Table!Init <=> Part!Init
  BY DEF Table!Init, Part!Init, Table!NoId, Part!NoId, Table!Keys, Part!Keys,
         Table!NoAck, Part!NoAck

\* ... and their steps.
LEMMA SameNext == Table!Next <=> Part!Next
<1> USE DEF
  Table!tasks, Table!gds, Table!listener, Table!NoId, Table!Keys, Table!NoAck, Table!Key,
  Table!WireId, Table!Request, Table!Goto, Table!TryRemove, Table!InDictionary,
  Part!tasks, Part!gds, Part!listener, Part!NoId, Part!Keys, Part!NoAck, Part!Key,
  Part!WireId, Part!Request, Part!Goto, Part!TryRemove, Part!InDictionary
<1>1. \A c : Table!CallStep(c) <=> Part!CallStep(c)
  BY DEF Table!CallStep, Part!CallStep, Table!Send, Part!Send, Table!TryAdd, Part!TryAdd,
         Table!TryAddRefused, Part!TryAddRefused, Table!Completed, Part!Completed,
         Table!Delayed, Part!Delayed, Table!RemoveDelayed, Part!RemoveDelayed,
         Table!RemoveCompleted, Part!RemoveCompleted, Table!Catch, Part!Catch
<1>2. \A c : /\ Table!Accepted(c) <=> Part!Accepted(c)
             /\ Table!SendRefused(c) <=> Part!SendRefused(c)
             /\ Table!SetException(c) <=> Part!SetException(c)
  BY DEF Table!Accepted, Part!Accepted, Table!SendRefused, Part!SendRefused,
         Table!SetException, Part!SetException
<1>3. \A a : (Table!OnAck(a) <=> Part!OnAck(a)) /\ (Table!Answer(a) <=> Part!Answer(a))
  BY DEF Table!OnAck, Part!OnAck, Table!Answer, Part!Answer
<1>4. /\ Table!SetResult <=> Part!SetResult
      /\ Table!OnConnectionFailure <=> Part!OnConnectionFailure
      /\ Table!Clear <=> Part!Clear
      /\ Table!LoggedIn <=> Part!LoggedIn
      /\ Table!Disconnect <=> Part!Disconnect
  BY DEF Table!SetResult, Part!SetResult, Table!OnConnectionFailure,
         Part!OnConnectionFailure, Table!Clear, Part!Clear, Table!LoggedIn, Part!LoggedIn,
         Table!Disconnect, Part!Disconnect
<1> QED
  BY <1>1, <1>2, <1>3, <1>4 DEF Table!Next, Part!Next

\* What the system does to the wrapper is what the theorems are about.
LEMMA PartSpec == SyncSpec => Part!Spec
<1>1. [Table!Next]_(Table!vars) => [Part!Next]_(Part!vars)
  BY SameNext DEF Table!vars, Part!vars
<1>2. Table!Init => Part!Init
  BY SameInit
<1> QED
  BY <1>1, <1>2, TableKeptHolds, PTL DEF TableKept, Table!Spec, Part!Spec

-----------------------------------------------------------------------------
(* The promises                                                            *)

\* On a real client as well, with any number of callers, users and ids: only
\* calls that wait have entries, each under its own key, a call returns an ack
\* of its kind that was asked for under its key, no ack completes two calls, and
\* an ack that comes after TryAdd finds its call (no failure, no shared id).
THEOREM TablePromises ==
  SyncSpec => [](/\ Table!NothingLeftBehind /\ Table!OutcomeEarned
                 /\ Table!AnswersUsedOnce /\ Table!AckFindsCall)
<1>1. Part!NothingLeftBehind => Table!NothingLeftBehind
  BY SameWords DEF Part!NothingLeftBehind, Table!NothingLeftBehind
<1>2. Part!OutcomeEarned => Table!OutcomeEarned
  BY SameWords
  DEF Part!OutcomeEarned, Table!OutcomeEarned, Part!Fits, Table!Fits, Part!Sent, Table!Sent
<1>3. Part!AnswersUsedOnce => Table!AnswersUsedOnce
  BY SameWords DEF Part!AnswersUsedOnce, Table!AnswersUsedOnce
<1>4. Part!AckFindsCall => Table!AckFindsCall
  BY SameWords DEF Part!AckFindsCall, Table!AckFindsCall, Part!Alone, Table!Alone
<1> QED
  BY <1>1, <1>2, <1>3, <1>4, PartSpec, PartAssumptions, Part!NothingLeftBehindHolds,
     Part!OutcomeEarnedHolds, Part!AnswersUsedOnceHolds, Part!AckFindsCallHolds, PTL

\* With the wrapper as listener and application, the client logs in by a
\* positive ack only, hands over data only when it told of the login or is
\* over, and reports a failure only when it is over.
THEOREM ClientPromises == SyncSpec => [](LoginEarned /\ DataInOrder /\ FailureIsOver)
  BY ClientKept, LoginEarnedHolds, DataInOrderHolds, FailureIsOverHolds, PTL

\* The whole system implements both abstract specifications at once: the
\* session an application sees, and the requests its calls are.
THEOREM SystemImplements == SyncSpec => ImplementsSession /\ Table!ImplementsRequests
<1> USE DEF
  Table!NoId, Table!Keys, Table!NoAck, Table!Key, Table!WireId, Table!Request, Table!Fits,
  Table!Sent, Part!NoId, Part!Keys, Part!NoAck, Part!Key, Part!WireId, Part!Request,
  Part!Fits, Part!Sent, Table!Fitting, Table!Answered, Table!Broken, Table!Result,
  Table!Used, Part!Fitting, Part!Answered, Part!Broken, Part!Result, Part!Used
<1>1. Part!Abstract!Init => Table!Abstract!Init
  BY DEF Part!Abstract!Init, Table!Abstract!Init
<1>2. [Part!Abstract!Next]_(Part!Abstract!vars) => [Table!Abstract!Next]_(Table!Abstract!vars)
  BY DEF Part!Abstract!Next, Table!Abstract!Next, Part!Abstract!vars, Table!Abstract!vars,
         Part!Abstract!Break, Table!Abstract!Break, Part!Abstract!Answer,
         Table!Abstract!Answer, Part!Abstract!ReturnAck, Table!Abstract!ReturnAck,
         Part!Abstract!Throw, Table!Abstract!Throw, Part!Abstract!Thrown,
         Table!Abstract!Thrown
<1>3. Part!Spec => Table!ImplementsRequests
  BY <1>1, <1>2, PartAssumptions, Part!Implementation, PTL
  DEF Part!ImplementsRequests, Table!ImplementsRequests, Part!Abstract!Spec,
      Table!Abstract!Spec
<1> QED
  BY <1>3, PartSpec, ClientKept, Implementation, PTL

=============================================================================
