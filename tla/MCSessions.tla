------------------------------- MODULE MCSessions -------------------------------
(***************************************************************************)
(* Sessions with one bound on the processes that exit and the calls that   *)
(* fail together: no two of them in one behaviour, in any place.           *)
(***************************************************************************)
EXTENDS Sessions

CONSTANT MaxFaults   \* bound

FewFaults == deaths' + fails' <= MaxFaults
MCSpec == Init /\ [][Next /\ FewFaults]_vars /\ Fairness
=============================================================================
