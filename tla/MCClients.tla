------------------------------- MODULE MCClients -------------------------------
(***************************************************************************)
(* Both clients against the promise of Calls.  The two do not interact:    *)
(* each behaviour is one of one of them (which).                           *)
(***************************************************************************)
EXTENDS RpcClient, DesktopIPC

CONSTANTS q1, q2, q3, u1, u2

VARIABLE which
vars == <<rpcVars, ipcVars, which>>

Init == RpcInit /\ IpcInit /\ which \in {"rpc", "ipc"}
Next == \/ which = "rpc" /\ RpcNext /\ UNCHANGED <<ipcVars, which>>
        \/ which = "ipc" /\ IpcNext /\ UNCHANGED <<rpcVars, which>>
Spec == Init /\ [][Next]_vars /\ RpcFairness
=============================================================================
