----------------------------- MODULE GdsSession -----------------------------
(***************************************************************************)
(* What an AsyncGDSClient promises, without its threads: a session that is *)
(* started once, becomes ready only if the GDS grants the login, ends once *)
(* and never comes back, announces its success once, and sends messages    *)
(* only under a granted login.                                             *)
(***************************************************************************)
EXTENDS Naturals

VARIABLES
  phase,      \* fresh, connecting, ready, over
  granted,    \* the GDS accepted the login
  announced,  \* the listener was told of the success
  sent        \* messages other than the login that reached the connection

vars == <<phase, granted, announced, sent>>

Init == phase = "fresh" /\ granted = FALSE /\ announced = 0 /\ sent = {}

Start == /\ phase = "fresh"
         /\ phase' = "connecting"
         /\ UNCHANGED <<granted, announced, sent>>

\* The GDS decides on its own clock: the client may be over by then.
Grant == /\ phase # "fresh" /\ ~granted
         /\ granted' = TRUE
         /\ UNCHANGED <<phase, announced, sent>>

Ready == /\ phase = "connecting" /\ granted
         /\ phase' = "ready"
         /\ UNCHANGED <<granted, announced, sent>>

\* A session that became ready may end before its success is announced.
Announce == /\ phase \in {"ready", "over"} /\ granted /\ announced = 0
            /\ announced' = 1
            /\ UNCHANGED <<phase, granted, sent>>

Send == /\ phase \in {"ready", "over"} /\ granted
        /\ sent' # sent /\ sent \subseteq sent'
        /\ UNCHANGED <<phase, granted, announced>>

End == /\ phase # "over"
       /\ phase' = "over"
       /\ UNCHANGED <<granted, announced, sent>>

Next == Start \/ Grant \/ Ready \/ Announce \/ Send \/ End

Spec == Init /\ [][Next]_vars

=============================================================================
