--------------------------------- MODULE Calls ---------------------------------
(***************************************************************************)
(* What a caller of appserver.Client.Request or of a request of            *)
(* desktopipc.Client may rely on: a call ends once; it returns a result    *)
(* only when the peer has taken the request, or, for the calls in Shared,  *)
(* when the peer announced to everybody what the call asks for; a call     *)
(* that returned an error may have been taken, or be taken later.          *)
(***************************************************************************)
CONSTANTS Callers, Shared

VARIABLES
  call,    \* Callers -> how far the call is
  heard    \* the callers whose request the peer has taken

Init == call = [c \in Callers |-> "new"] /\ heard = {}

Begin(c) == call[c] = "new" /\ call' = [call EXCEPT ![c] = "waiting"] /\ UNCHANGED heard

\* Also after the caller has given up, or was answered by an announcement.
Hear(c) == /\ call[c] # "new" /\ c \notin heard
           /\ heard' = heard \cup {c} /\ UNCHANGED call

Return(c) == /\ call[c] = "waiting" /\ c \in heard \cup Shared
             /\ call' = [call EXCEPT ![c] = "result"] /\ UNCHANGED heard

\* At once, when there is no connection, or later.
GiveUp(c) == /\ call[c] \in {"new", "waiting"} /\ call' = [call EXCEPT ![c] = "error"]
             /\ UNCHANGED heard

Next == \E c \in Callers : Begin(c) \/ Hear(c) \/ Return(c) \/ GiveUp(c)

Spec == Init /\ [][Next]_<<call, heard>>
=============================================================================
