----------------------------- MODULE GdsRequests ----------------------------
(***************************************************************************)
(* What a request/response client promises, without its dictionary and its *)
(* threads: every call returns once at most; it returns an ack only if the *)
(* GDS answered a message that fits the call, and no answer serves two     *)
(* calls; it fails only after a connection failure was reported.           *)
(***************************************************************************)
CONSTANTS Calls, NoId

VARIABLES
  fitting,   \* pairs of a call's message and a call its answer may serve
  answered,  \* calls whose message the GDS answered
  broken,    \* a connection failure was reported
  result,    \* call -> open, or how it returned
  used       \* call -> whose message's answer it returned, or NoId

vars == <<fitting, answered, broken, result, used>>

Thrown == {"not sent", "duplicate", "timeout", "bad cast"}

Init ==
  /\ fitting \in SUBSET (Calls \X Calls)
  /\ answered = {} /\ broken = FALSE
  /\ result = [c \in Calls |-> "open"] /\ used = [c \in Calls |-> NoId]

Answer(m) ==
  /\ m \notin answered /\ answered' = answered \cup {m}
  /\ UNCHANGED <<fitting, broken, result, used>>

Break ==
  /\ broken' = TRUE
  /\ UNCHANGED <<fitting, answered, result, used>>

ReturnAck(c, m) ==
  /\ result[c] = "open" /\ m \in answered /\ <<m, c>> \in fitting
  /\ \A d \in Calls : used[d] # m
  /\ result' = [result EXCEPT ![c] = "ack"] /\ used' = [used EXCEPT ![c] = m]
  /\ UNCHANGED <<fitting, answered, broken>>

Throw(c, r) ==
  /\ result[c] = "open" /\ (r = "failure" => broken)
  /\ result' = [result EXCEPT ![c] = r]
  /\ UNCHANGED <<fitting, answered, broken, used>>

Next ==
  \/ Break
  \/ \E c \in Calls : Answer(c)
  \/ \E c, m \in Calls : ReturnAck(c, m)
  \/ \E c \in Calls, r \in Thrown \cup {"failure"} : Throw(c, r)

Spec == Init /\ [][Next]_vars

=============================================================================
